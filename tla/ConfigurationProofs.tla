------------------------ MODULE ConfigurationProofs ------------------------
(***************************************************************************)
(* Proofs about Configuration, for any arguments, variables and files: the *)
(* staged loading computes the documented priority and refuses exactly     *)
(* what has a cause.                                                        *)
(***************************************************************************)
EXTENDS Configuration, WellFoundedInduction, TLAPS

-----------------------------------------------------------------------------
(* Numbers.                                                                 *)

LEMMA GreatestOf ==
  ASSUME NEW n \in Nat, NEW S \in SUBSET (1..n), S # {}
  PROVE  LastOf(S) \in S /\ \A j \in S : j <= LastOf(S)
<1> DEFINE T == {n - i : i \in S}
<1>1. T \subseteq Nat /\ T # {}
  <2>1. \A i \in S : n - i \in Nat
    OBVIOUS
  <2>2. PICK i \in S : TRUE
    OBVIOUS
  <2>3. n - i \in T
    OBVIOUS
  <2> QED  BY <2>1, <2>3
<1>2. PICK t \in T : \A u \in T : <<u, t>> \notin OpToRel(<, Nat)
  <2> HIDE DEF T
  <2> QED  BY <1>1, NatLessThanWellFounded, WFMin
<1>3. \A u \in T : ~(u < t)
  BY <1>1, <1>2 DEF OpToRel
<1>4. PICK i \in S : t = n - i
  OBVIOUS
<1>5. \A j \in S : j <= i
  <2> TAKE j \in S
  <2>1. ~(n - j < n - i)
    BY <1>3, <1>4
  <2> QED  BY <2>1
<1> QED  BY <1>4, <1>5 DEF LastOf

\* One more element, greater than the others.
LEMMA LastAdded ==
  ASSUME NEW n \in Nat, NEW S \in SUBSET (1..n)
  PROVE  LastOf(S \cup {n + 1}) = n + 1
<1> DEFINE m == n + 1
           T == S \cup {m}
           l == LastOf(T)
<1>1. m \in Nat /\ T \in SUBSET (1..m) /\ T # {} /\ \A i \in S : i < m
  OBVIOUS
<1>2. l \in T /\ \A j \in T : j <= l
  <2> HIDE DEF m, T
  <2> QED  BY <1>1, GreatestOf
<1>3. l = m
  <2> HIDE DEF m, l
  <2> QED  BY <1>1, <1>2
<1> QED  BY <1>3

-----------------------------------------------------------------------------
(* The tables and the conversions.                                          *)

Kinds == {"string", "bool", "seconds", "int"}

\* A value of a kind, as TypeOK has it.
Typed(kind, v) ==
    /\ kind = "bool" => v \in BOOLEAN
    /\ kind \in {"seconds", "int"} => v \in Int
    /\ kind = "string" => v \in STRING

\* What is used of an entry of the tables.
Entry(opt) ==
    /\ opt.kind \in Kinds
    /\ opt.flag \notin ConfigFlags \cup {""}
    /\ Len(opt.env) \in Nat
    /\ Typed(opt.kind, opt.default)

LEMMA AgentTable ==
  /\ \A o \in DOMAIN AgentOptions : Entry(AgentOptions[o])
  /\ \A o, p \in DOMAIN AgentOptions : AgentOptions[o].flag = AgentOptions[p].flag => o = p
<1>1. DOMAIN AgentOptions =
        {"ServerAddr", "Transport", "PollIntervalInSec", "ReportIntervalInSec", "RateLimit", "Key",
         "CryptoKey", "GRPCTLSCA"}
  BY DEF AgentOptions
<1>2. Entry(AgentOptions.ServerAddr) /\ AgentOptions.ServerAddr.flag = "a"
  BY DefaultsAreTexts DEF AgentOptions, Option, Entry, Typed, Kinds, ConfigFlags
<1>3. Entry(AgentOptions.Transport) /\ AgentOptions.Transport.flag = "transport"
  BY DefaultsAreTexts DEF AgentOptions, Option, Entry, Typed, Kinds, ConfigFlags
<1>4. Entry(AgentOptions.PollIntervalInSec) /\ AgentOptions.PollIntervalInSec.flag = "p"
  <2> DEFINE opt == AgentOptions.PollIntervalInSec
  <2>1. opt.flag = "p" /\ Len(opt.env) = 1 /\ opt.kind = "seconds" /\ opt.default = 2
    BY DEF AgentOptions, Option
  <2> HIDE DEF opt
  <2>2. Entry(opt)
    BY <2>1 DEF Entry, Typed, Kinds, ConfigFlags
  <2> QED  BY <2>1, <2>2 DEF opt
<1>5. Entry(AgentOptions.ReportIntervalInSec) /\ AgentOptions.ReportIntervalInSec.flag = "r"
  <2> DEFINE opt == AgentOptions.ReportIntervalInSec
  <2>1. opt.flag = "r" /\ Len(opt.env) = 1 /\ opt.kind = "seconds" /\ opt.default = 10
    BY DEF AgentOptions, Option
  <2> HIDE DEF opt
  <2>2. Entry(opt)
    BY <2>1 DEF Entry, Typed, Kinds, ConfigFlags
  <2> QED  BY <2>1, <2>2 DEF opt
<1>6. Entry(AgentOptions.RateLimit) /\ AgentOptions.RateLimit.flag = "l"
  <2> DEFINE opt == AgentOptions.RateLimit
  <2>1. opt.flag = "l" /\ Len(opt.env) = 1 /\ opt.kind = "int" /\ opt.default = 5
    BY DEF AgentOptions, Option
  <2> HIDE DEF opt
  <2>2. Entry(opt)
    BY <2>1 DEF Entry, Typed, Kinds, ConfigFlags
  <2> QED  BY <2>1, <2>2 DEF opt
<1>7. Entry(AgentOptions.Key) /\ AgentOptions.Key.flag = "k"
  BY DefaultsAreTexts DEF AgentOptions, Option, Entry, Typed, Kinds, ConfigFlags
<1>8. Entry(AgentOptions.CryptoKey) /\ AgentOptions.CryptoKey.flag = "crypto-key"
  BY DefaultsAreTexts DEF AgentOptions, Option, Entry, Typed, Kinds, ConfigFlags
<1>9. Entry(AgentOptions.GRPCTLSCA) /\ AgentOptions.GRPCTLSCA.flag = "grpc-tls-ca"
  BY DefaultsAreTexts DEF AgentOptions, Option, Entry, Typed, Kinds, ConfigFlags
<1> QED  BY <1>1, <1>2, <1>3, <1>4, <1>5, <1>6, <1>7, <1>8, <1>9

LEMMA ServerTable ==
  /\ \A o \in DOMAIN ServerOptions : Entry(ServerOptions[o])
  /\ \A o, p \in DOMAIN ServerOptions : ServerOptions[o].flag = ServerOptions[p].flag => o = p
<1>1. DOMAIN ServerOptions =
        {"HTTPAddr", "GRPCAddr", "GRPCTLSCert", "GRPCTLSKey", "StoreIntervalInSec", "FileStoragePath",
         "Restore", "DatabaseDSN", "Key", "CryptoKey", "TrustedSubnet", "AuditFile", "AuditURL"}
  BY DEF ServerOptions
<1>2. Entry(ServerOptions.HTTPAddr) /\ ServerOptions.HTTPAddr.flag = "a"
  BY DefaultsAreTexts DEF ServerOptions, Option, Entry, Typed, Kinds, ConfigFlags
<1>3. Entry(ServerOptions.GRPCAddr) /\ ServerOptions.GRPCAddr.flag = "g"
  BY DefaultsAreTexts DEF ServerOptions, Option, Entry, Typed, Kinds, ConfigFlags
<1>4. Entry(ServerOptions.GRPCTLSCert) /\ ServerOptions.GRPCTLSCert.flag = "grpc-tls-cert"
  BY DefaultsAreTexts DEF ServerOptions, Option, Entry, Typed, Kinds, ConfigFlags
<1>5. Entry(ServerOptions.GRPCTLSKey) /\ ServerOptions.GRPCTLSKey.flag = "grpc-tls-key"
  BY DefaultsAreTexts DEF ServerOptions, Option, Entry, Typed, Kinds, ConfigFlags
<1>6. Entry(ServerOptions.StoreIntervalInSec) /\ ServerOptions.StoreIntervalInSec.flag = "i"
  <2> DEFINE opt == ServerOptions.StoreIntervalInSec
  <2>1. opt.flag = "i" /\ Len(opt.env) = 1 /\ opt.kind = "seconds" /\ opt.default = 300
    BY DEF ServerOptions, Option
  <2> HIDE DEF opt
  <2>2. Entry(opt)
    BY <2>1 DEF Entry, Typed, Kinds, ConfigFlags
  <2> QED  BY <2>1, <2>2 DEF opt
<1>7. Entry(ServerOptions.FileStoragePath) /\ ServerOptions.FileStoragePath.flag = "f"
  BY DefaultsAreTexts DEF ServerOptions, Option, Entry, Typed, Kinds, ConfigFlags
<1>8. Entry(ServerOptions.Restore) /\ ServerOptions.Restore.flag = "r"
  BY DefaultsAreTexts DEF ServerOptions, Option, Entry, Typed, Kinds, ConfigFlags
<1>9. Entry(ServerOptions.DatabaseDSN) /\ ServerOptions.DatabaseDSN.flag = "d"
  BY DefaultsAreTexts DEF ServerOptions, Option, Entry, Typed, Kinds, ConfigFlags
<1>10. Entry(ServerOptions.Key) /\ ServerOptions.Key.flag = "k"
  BY DefaultsAreTexts DEF ServerOptions, Option, Entry, Typed, Kinds, ConfigFlags
<1>11. Entry(ServerOptions.CryptoKey) /\ ServerOptions.CryptoKey.flag = "crypto-key"
  BY DefaultsAreTexts DEF ServerOptions, Option, Entry, Typed, Kinds, ConfigFlags
<1>12. Entry(ServerOptions.TrustedSubnet) /\ ServerOptions.TrustedSubnet.flag = "t"
  BY DefaultsAreTexts DEF ServerOptions, Option, Entry, Typed, Kinds, ConfigFlags
<1>13. Entry(ServerOptions.AuditFile) /\ ServerOptions.AuditFile.flag = "audit-file"
  BY DefaultsAreTexts DEF ServerOptions, Option, Entry, Typed, Kinds, ConfigFlags
<1>14. Entry(ServerOptions.AuditURL) /\ ServerOptions.AuditURL.flag = "audit-url"
  BY DefaultsAreTexts DEF ServerOptions, Option, Entry, Typed, Kinds, ConfigFlags
<1> QED  BY <1>1, <1>2, <1>3, <1>4, <1>5, <1>6, <1>7, <1>8, <1>9, <1>10, <1>11, <1>12, <1>13, <1>14

LEMMA ValueTyped ==
  ASSUME NEW kind \in Kinds, NEW text \in STRING, Parses(kind, text)
  PROVE  Typed(kind, Value(kind, text))
<1>1. CASE kind = "bool"
  <2>1. \A t \in DOMAIN ParseBool : ParseBool[t] \in BOOLEAN
    BY DEF ParseBool
  <2> QED  BY <1>1, <2>1 DEF Typed, Value, Parses
<1>2. CASE kind \in {"seconds", "int"}
  <2>1. \A t \in DOMAIN Atoi : Atoi[t] \in Int
    BY DEF Atoi
  <2> QED  BY <1>2, <2>1 DEF Typed, Value, Parses
<1>3. CASE kind = "string"
  BY <1>3 DEF Typed, Value
<1> QED  BY <1>1, <1>2, <1>3 DEF Kinds

LEMMA FlagValueTyped ==
  ASSUME NEW kind \in Kinds, NEW text \in STRING, FlagParses(kind, text)
  PROVE  Typed(kind, FlagValue(kind, text))
<1>1. CASE kind \in {"seconds", "int"}
  <2>1. \A t \in DOMAIN ParseInt : ParseInt[t] \in Int
    <3>1. \A t \in DOMAIN Atoi : Atoi[t] \in Int
      BY DEF Atoi
    <3> QED  BY <3>1 DEF ParseInt
  <2> QED  BY <1>1, <2>1 DEF Typed, FlagValue, FlagParses
<1>2. CASE kind \notin {"seconds", "int"}
  BY <1>2, ValueTyped DEF FlagValue, FlagParses
<1> QED  BY <1>1, <1>2

LEMMA FileValueTyped ==
  ASSUME NEW kind \in Kinds, NEW text \in STRING, FileParses(kind, text)
  PROVE  Typed(kind, FileValue(kind, text))
<1>1. CASE kind = "seconds"
  <2>1. ParseDuration[text] \in Int
    BY <1>1 DEF FileParses, ParseDuration
  <2> QED  BY <1>1, <2>1 DEF Typed, FileValue
<1>2. CASE kind # "seconds"
  BY <1>2, ValueTyped DEF FileValue, FileParses
<1> QED  BY <1>1, <1>2

\* No rounding: a whole number of seconds is one that survives the division.
LEMMA WholeSeconds ==
  ASSUME NEW text \in DOMAIN ParseDuration
  PROVE  ParseDuration[text] % 1000 = 0 <=> (ParseDuration[text] \div 1000) * 1000 = ParseDuration[text]
  BY DEF ParseDuration

LEMMA Table ==
  /\ \A o \in DOMAIN options : Entry(options[o])
  /\ \A o, p \in DOMAIN options : options[o].flag = options[p].flag => o = p
  BY AgentTable, ServerTable DEF options, Options

-----------------------------------------------------------------------------
(* The invariant.                                                           *)

\* The first n arguments that name one of the flags.
Among(args, n, names) == {i \in 1..n : args[i].flag \in names}

\* An argument that flags.Parse accepts.
Accepted(i) ==
    \/ input.args[i].flag \in ConfigFlags
    \/ \E o \in Named(input.args[i].flag) : FlagParses(options[o].kind, input.args[i].value)

\* The layers of the configuration: defaults and file, then the flags.
FileLayer(o) ==
    IF options[o].json \in DOMAIN UsedKeys THEN FileValue(options[o].kind, UsedKeys[options[o].json])
    ELSE options[o].default

FlagLayer(o) ==
    IF Given({options[o].flag}) # {}
    THEN FlagValue(options[o].kind, input.args[LastOf(Given({options[o].flag}))].value)
    ELSE FileLayer(o)

Effective == [o \in DOMAIN options |-> Expected(o)]

LocateDone == {"file", "flags", "env", "validate", "accepted"}
FileDone   == {"flags", "env", "validate", "accepted"}
EnvDone    == {"validate", "accepted"}

\* What was parsed is accepted, and nothing of it follows the first argument
\* that is not a flag.
ArgsSeen ==
    /\ arg \in 1..(Len(input.args) + 1)
    /\ \A i \in 1..(arg - 1) : input.args[i].flag # "" /\ Accepted(i)
    /\ stage \notin {"args", "rejected"} => Counted = 1..(arg - 1)

\* flagCfg has the last value of every flag that was parsed.
FlagsKept ==
    /\ DOMAIN flagCfg = {o \in DOMAIN options : Among(input.args, arg - 1, {options[o].flag}) # {}}
    /\ \A o \in DOMAIN flagCfg :
         /\ flagCfg[o] = FlagValue(options[o].kind,
                               input.args[LastOf(Among(input.args, arg - 1, {options[o].flag}))].value)
         /\ Typed(options[o].kind, flagCfg[o])

PathKept ==
    /\ stage \in {"args", "locate"} =>
         configPath = IF Among(input.args, arg - 1, ConfigFlags) # {}
                      THEN input.args[LastOf(Among(input.args, arg - 1, ConfigFlags))].value ELSE ""
    /\ stage \in LocateDone => configPath = UsedPath
    /\ stage = "file" => UsedPath # ""

\* A stage that was passed found nothing unreadable.
SourcesRead ==
    /\ stage \in FileDone =>
         /\ UsedPath # "" => UsedPath \in DOMAIN input.files /\ input.files[UsedPath].state = "keys"
         /\ \A o \in DOMAIN options :
              options[o].json \in DOMAIN UsedKeys => FileParses(options[o].kind, UsedKeys[options[o].json])
    /\ stage \in EnvDone => EnvParses

CfgTyped ==
    /\ DOMAIN cfg = DOMAIN options
    /\ \A o \in DOMAIN options : Typed(options[o].kind, cfg[o])

\* The configuration has the layers of the stages that were passed.
Layers ==
    \A o \in DOMAIN options :
        /\ stage \in {"args", "locate", "file"} => cfg[o] = options[o].default
        /\ stage = "flags" => cfg[o] = FileLayer(o)
        /\ stage = "env" => cfg[o] = FlagLayer(o)
        /\ stage \in EnvDone => cfg[o] = Expected(o)

Verdict ==
    /\ stage = "accepted" => Valid(cfg)
    /\ stage = "rejected" => Unreadable \/ ~Valid(Effective)

IInv ==
    /\ input \in Inputs
    /\ stage \in Stages
    /\ ArgsSeen
    /\ FlagsKept
    /\ PathKept
    /\ SourcesRead
    /\ CfgTyped
    /\ Layers
    /\ Verdict

-----------------------------------------------------------------------------
(* Lemmas about the reference.                                              *)

\* The input never changes, so what is read off it does not either.
LEMMA Frame ==
  ASSUME input' = input
  PROVE  /\ options' = options
         /\ Counted' = Counted
         /\ UsedPath' = UsedPath
         /\ UsedKeys' = UsedKeys
         /\ EnvParses' = EnvParses
         /\ \A o : FileLayer(o)' = FileLayer(o)
         /\ \A o : FlagLayer(o)' = FlagLayer(o)
         /\ \A o : Expected(o)' = Expected(o)
         /\ \A i : Accepted(i)' = Accepted(i)
         /\ Effective' = Effective
         /\ Unreadable' <=> Unreadable
<1>1. options' = options /\ Counted' = Counted
  BY DEF options, Counted
<1>2. (\A S : Given(S)' = Given(S)) /\ (\A o : SetVariables(o)' = SetVariables(o)) /\ (\A f : Named(f)' = Named(f))
  BY <1>1 DEF Given, SetVariables, Named, IsSet
<1>3. UsedPath' = UsedPath
  BY <1>2 DEF UsedPath, IsSet
<1>4. UsedKeys' = UsedKeys
  BY <1>3 DEF UsedKeys
<1>5. EnvParses' = EnvParses
  BY <1>1 DEF EnvParses, InEnv, EnvText, IsSet
<1>6. \A o : FileLayer(o)' = FileLayer(o)
  BY <1>1, <1>4 DEF FileLayer
<1>7. \A o : FlagLayer(o)' = FlagLayer(o)
  BY <1>1, <1>2, <1>6 DEF FlagLayer
<1>8. \A o : Expected(o)' = Expected(o)
  BY <1>1, <1>2, <1>4 DEF Expected
<1>9. \A i : Accepted(i)' = Accepted(i)
  BY <1>1, <1>2 DEF Accepted
<1>10. Effective' = Effective
  BY <1>1, <1>8 DEF Effective
<1>11. Unreadable' <=> Unreadable
  <2>1. BadArgument' <=> BadArgument
    BY <1>1, <1>2 DEF BadArgument, Named
  <2>2. BadVariable' <=> BadVariable
    BY <1>1, <1>2 DEF BadVariable
  <2>3. BadFile' <=> BadFile
    BY <1>3 DEF BadFile
  <2>4. BadKey' <=> BadKey
    BY <1>1, <1>4 DEF BadKey
  <2> QED  BY <2>1, <2>2, <2>3, <2>4 DEF Unreadable
<1> QED  BY <1>1, <1>3, <1>4, <1>5, <1>6, <1>7, <1>8, <1>9, <1>10, <1>11

LEMMA Args ==
  ASSUME input \in Inputs
  PROVE  /\ Len(input.args) \in Nat
         /\ \A i \in 1..Len(input.args) : input.args[i].value \in STRING
<1>1. input.args \in Seq([flag : FlagNames, value : STRING])
  BY InputsAssumption
<1> DEFINE A == [flag : FlagNames, value : STRING]
<1>2. \A a \in A : a.value \in STRING
  OBVIOUS
<1>3. input.args \in Seq(A)
  BY <1>1
<1> HIDE DEF A
<1>4. Len(input.args) \in Nat /\ \A i \in 1..Len(input.args) : input.args[i] \in A
  BY <1>3
<1> QED  BY <1>2, <1>4

LEMMA ReadNext ==
  ASSUME input \in Inputs, arg \in 1..Len(input.args), NEW names
  PROVE  /\ input.args[arg].flag \in names =>
              /\ Among(input.args, arg, names) # {}
              /\ LastOf(Among(input.args, arg, names)) = arg
         /\ input.args[arg].flag \notin names =>
              Among(input.args, arg, names) = Among(input.args, arg - 1, names)
<1> DEFINE n == arg - 1
           S == Among(input.args, n, names)
<1>1. arg \in Nat /\ n \in Nat /\ arg = n + 1 /\ 1..arg = 1..n \cup {arg}
  BY Args
<1>2. S \in SUBSET (1..n)
  BY DEF Among
<1>3. ASSUME input.args[arg].flag \in names
      PROVE  Among(input.args, arg, names) # {} /\ LastOf(Among(input.args, arg, names)) = arg
  <2>1. Among(input.args, arg, names) = S \cup {n + 1}
    BY <1>1, <1>3 DEF Among
  <2> HIDE DEF n, S
  <2> QED  BY <2>1, <1>1, <1>2, LastAdded
<1>4. ASSUME input.args[arg].flag \notin names
      PROVE  Among(input.args, arg, names) = S
  BY <1>1, <1>4 DEF Among
<1> QED  BY <1>3, <1>4

\* Once the arguments are parsed, those that count are those that were read.
LEMMA GivenIsRead ==
  ASSUME Counted = 1..(arg - 1), NEW names
  PROVE  Given(names) = Among(input.args, arg - 1, names)
  BY DEF Given, Among

\* What the environment says of an option.
LEMMA Environment ==
  ASSUME input \in Inputs, NEW o \in DOMAIN options
  PROVE  /\ InEnv(o) <=> SetVariables(o) # {}
         /\ EnvText(o) = input.env[options[o].env[LastOf(SetVariables(o))]]
         /\ InEnv(o) => EnvText(o) \in STRING
<1>1. InEnv(o) <=> SetVariables(o) # {}
  BY DEF InEnv, SetVariables
<1>2. EnvText(o) = input.env[options[o].env[LastOf(SetVariables(o))]]
  BY DEF EnvText, SetVariables, LastOf
<1>3. ASSUME InEnv(o)
      PROVE  EnvText(o) \in STRING
  <2>1. Len(options[o].env) \in Nat
    BY Table DEF Entry
  <2>2. SetVariables(o) \in SUBSET (1..Len(options[o].env)) /\ SetVariables(o) # {}
    BY <1>1, <1>3 DEF SetVariables
  <2>3. LastOf(SetVariables(o)) \in SetVariables(o)
    BY <2>1, <2>2, GreatestOf
  <2>4. options[o].env[LastOf(SetVariables(o))] \in DOMAIN input.env
    BY <2>3 DEF SetVariables, IsSet
  <2> QED  BY <1>2, <2>4, InputsAssumption
<1> QED  BY <1>1, <1>2, <1>3

LEMMA ExpectedLayers ==
  ASSUME input \in Inputs, NEW o \in DOMAIN options
  PROVE  Expected(o) = IF InEnv(o) THEN Value(options[o].kind, EnvText(o)) ELSE FlagLayer(o)
  BY Environment DEF Expected, FlagLayer, FileLayer

\* Validation looks at the values only.
LEMMA SameVerdict ==
  ASSUME NEW c, NEW d, \A o \in DOMAIN options : c[o] = d[o]
  PROVE  Valid(c) <=> Valid(d)
<1>1. CASE input.program = "agent"
  <2>1. \A o \in {"ServerAddr", "Transport", "PollIntervalInSec", "ReportIntervalInSec", "RateLimit"} :
          o \in DOMAIN options
    BY <1>1 DEF options, Options, AgentOptions
  <2>2. /\ c.ServerAddr = d.ServerAddr /\ c.Transport = d.Transport
        /\ c.PollIntervalInSec = d.PollIntervalInSec /\ c.ReportIntervalInSec = d.ReportIntervalInSec
        /\ c.RateLimit = d.RateLimit
    BY <2>1
  <2> QED  BY <1>1, <2>2 DEF Valid, ValidAgent
<1>2. CASE input.program # "agent"
  <2>1. \A o \in {"HTTPAddr", "GRPCAddr", "GRPCTLSCert", "GRPCTLSKey", "StoreIntervalInSec",
                  "TrustedSubnet", "AuditURL"} : o \in DOMAIN options
    BY <1>2 DEF options, Options, ServerOptions
  <2>2. /\ c.HTTPAddr = d.HTTPAddr /\ c.GRPCAddr = d.GRPCAddr
        /\ c.GRPCTLSCert = d.GRPCTLSCert /\ c.GRPCTLSKey = d.GRPCTLSKey
        /\ c.StoreIntervalInSec = d.StoreIntervalInSec
        /\ c.TrustedSubnet = d.TrustedSubnet /\ c.AuditURL = d.AuditURL
    BY <2>1
  <2> QED  BY <1>2, <2>2 DEF Valid, ValidServer
<1> QED  BY <1>1, <1>2

-----------------------------------------------------------------------------
(* The steps.                                                               *)

LEMMA NextIndex ==
  ASSUME NEW n \in Nat, NEW a \in 1..n
  PROVE  a \in Nat /\ (a + 1) - 1 = a /\ a + 1 \in 1..(n + 1) /\ 1..a = 1..(a - 1) \cup {a}
  OBVIOUS

LEMMA InRange ==
  ASSUME NEW n \in Nat, NEW a \in 1..(n + 1), a <= n
  PROVE  a \in 1..n
  OBVIOUS

\* The numbers with nothing before or at them that stops the parsing.
LEMMA FirstStop ==
  ASSUME NEW n \in Nat, NEW a \in 1..(n + 1), NEW stop,
         a <= n => a \in stop, \A i \in 1..(a - 1) : i \notin stop
  PROVE  {i \in 1..n : \A j \in 1..i : j \notin stop} = 1..(a - 1)
<1>1. \A i \in 1..n : (\A j \in 1..i : j \notin stop) <=> i \in 1..(a - 1)
  <2> TAKE i \in 1..n
  <2>1. CASE i < a
    <3>1. i \in 1..(a - 1) /\ 1..i \subseteq 1..(a - 1)
      BY <2>1
    <3> QED  BY <3>1
  <2>2. CASE ~(i < a)
    <3>1. a <= n /\ a \in 1..i /\ i \notin 1..(a - 1)
      BY <2>2
    <3> QED  BY <3>1
  <2> QED  BY <2>1, <2>2
<1>2. 1..(a - 1) \subseteq 1..n
  OBVIOUS
<1> QED  BY <1>1, <1>2, Zenon

LEMMA InitIInv == Init => IInv
<1> SUFFICES ASSUME Init
             PROVE  IInv
  OBVIOUS
<1>1. input \in Inputs /\ stage = "args" /\ arg = 1 /\ flagCfg = <<>> /\ configPath = ""
  BY DEF Init
<1>2. 1..(arg - 1) = {} /\ \A S : Among(input.args, arg - 1, S) = {}
  <2>1. 1..(1 - 1) = {}
    OBVIOUS
  <2>2. 1..(arg - 1) = {}
    BY <1>1, <2>1, Zenon
  <2> QED  BY <2>2, Zenon DEF Among
<1>3. ArgsSeen
  <2>1. \A n \in Nat : 1 \in 1..(n + 1)
    OBVIOUS
  <2>2. arg \in 1..(Len(input.args) + 1)
    BY <1>1, <2>1, Args, Zenon
  <2> QED  BY <1>1, <1>2, <2>2, Zenon DEF ArgsSeen
<1>4. FlagsKept
  <2>0. DOMAIN <<>> = {}
    OBVIOUS
  <2>1. DOMAIN flagCfg = {}
    BY <1>1, <2>0, Zenon
  <2>2. {o \in DOMAIN options : Among(input.args, arg - 1, {options[o].flag}) # {}} = {}
    BY <1>2, Zenon
  <2> QED  BY <2>1, <2>2 DEF FlagsKept
<1>5. PathKept
  BY <1>1, <1>2 DEF PathKept, LocateDone
<1>6. SourcesRead
  BY <1>1 DEF SourcesRead, FileDone, EnvDone
<1>7. DOMAIN cfg = DOMAIN options /\ \A o \in DOMAIN options : cfg[o] = options[o].default
  BY DEF Init
<1>8. CfgTyped
  BY <1>7, Table DEF CfgTyped, Entry
<1>9. Layers
  BY <1>1, <1>7 DEF Layers, EnvDone
<1>10. Verdict
  BY <1>1 DEF Verdict
<1> QED  BY <1>1, <1>3, <1>4, <1>5, <1>6, <1>8, <1>9, <1>10 DEF IInv, Stages

\* While arguments are parsed only the flags and the path change.
LEMMA ArgStep ==
  ASSUME IInv, stage = "args", stage' = "args", arg \in 1..Len(input.args), arg' = arg + 1,
         input' = input, cfg' = cfg, input.args[arg].flag # "", Accepted(arg)
  PROVE  /\ input' \in Inputs /\ stage' \in Stages /\ ArgsSeen' /\ SourcesRead' /\ CfgTyped' /\ Layers' /\ Verdict'
         /\ arg' - 1 = arg
<1>1. input \in Inputs /\ Len(input.args) \in Nat
  BY Args DEF IInv
<1>2. arg \in Nat /\ arg' - 1 = arg /\ arg' \in 1..(Len(input.args) + 1)
  BY <1>1, NextIndex, Zenon
<1>3. ArgsSeen'
  <2>1. \A i \in 1..arg : input.args[i].flag # "" /\ Accepted(i)
    <3>1. \A i \in 1..(arg - 1) : input.args[i].flag # "" /\ Accepted(i)
      BY DEF IInv, ArgsSeen
    <3>2. 1..arg = 1..(arg - 1) \cup {arg}
      BY <1>1, NextIndex, Zenon
    <3> QED  BY <3>1, <3>2, Zenon
  <2> QED  BY <1>2, <2>1, Frame DEF ArgsSeen
<1>4. SourcesRead' /\ Verdict'
  BY DEF SourcesRead, Verdict, FileDone, EnvDone
<1>5. CfgTyped' /\ Layers'
  BY Frame DEF IInv, CfgTyped, Layers, EnvDone
<1> QED  BY <1>1, <1>2, <1>3, <1>4, <1>5 DEF Stages

LEMMA ParseConfigFlagKeeps == IInv /\ ParseConfigFlag => IInv'
<1> SUFFICES ASSUME IInv, ParseConfigFlag
             PROVE  IInv'
  OBVIOUS
<1>1. /\ stage = "args" /\ stage' = "args" /\ arg' = arg + 1
      /\ input' = input /\ cfg' = cfg /\ flagCfg' = flagCfg
      /\ input.args[arg].flag \in ConfigFlags /\ configPath' = input.args[arg].value
  BY DEF ParseConfigFlag, Current
<1>2. input \in Inputs /\ arg \in 1..Len(input.args)
  BY Args, InRange, Zenon DEF IInv, ArgsSeen, ParseConfigFlag
<1>3. input.args[arg].flag # "" /\ Accepted(arg)
  BY <1>1 DEF Accepted, ConfigFlags
<1>4. /\ input' \in Inputs /\ stage' \in Stages /\ ArgsSeen' /\ SourcesRead' /\ CfgTyped' /\ Layers' /\ Verdict'
      /\ arg' - 1 = arg
  BY <1>1, <1>2, <1>3, ArgStep
<1>5. FlagsKept'
  <2>1. \A o \in DOMAIN options : input.args[arg].flag \notin {options[o].flag}
    BY <1>1, Table DEF Entry
  <2>2. \A o \in DOMAIN options :
          Among(input.args, arg, {options[o].flag}) = Among(input.args, arg - 1, {options[o].flag})
    BY <1>2, <2>1, ReadNext
  <2> QED  BY <1>1, <1>4, <2>2, Frame DEF IInv, FlagsKept
<1>6. PathKept'
  <2>1. Among(input.args, arg, ConfigFlags) # {} /\ LastOf(Among(input.args, arg, ConfigFlags)) = arg
    BY <1>1, <1>2, ReadNext
  <2> QED  BY <1>1, <1>4, <2>1 DEF PathKept, LocateDone
<1> QED  BY <1>4, <1>5, <1>6 DEF IInv

LEMMA ParseFlagKeeps == IInv /\ ParseFlag => IInv'
<1> SUFFICES ASSUME IInv, ParseFlag
             PROVE  IInv'
  OBVIOUS
<1>1. /\ stage = "args" /\ stage' = "args" /\ arg' = arg + 1
      /\ input' = input /\ cfg' = cfg /\ configPath' = configPath
  BY DEF ParseFlag
<1>2. PICK o \in Named(input.args[arg].flag) :
        /\ FlagParses(options[o].kind, input.args[arg].value)
        /\ flagCfg' = [x \in DOMAIN flagCfg \cup {o} |->
                         IF x = o THEN FlagValue(options[o].kind, input.args[arg].value) ELSE flagCfg[x]]
  BY DEF ParseFlag, Current
<1>3. o \in DOMAIN options /\ input.args[arg].flag = options[o].flag /\ Entry(options[o])
  BY Table DEF Named
<1>4. input \in Inputs /\ arg \in 1..Len(input.args)
  BY Args, InRange, Zenon DEF IInv, ArgsSeen, ParseFlag
<1>5. input.args[arg].flag \notin ConfigFlags /\ input.args[arg].flag # "" /\ Accepted(arg)
  BY <1>2, <1>3 DEF Accepted, Entry
<1>6. /\ input' \in Inputs /\ stage' \in Stages /\ ArgsSeen' /\ SourcesRead' /\ CfgTyped' /\ Layers' /\ Verdict'
      /\ arg' - 1 = arg
  BY <1>1, <1>4, <1>5, ArgStep
<1>7. FlagsKept'
  <2> DEFINE Old(x) == Among(input.args, arg - 1, {options[x].flag})
             New(x) == Among(input.args, arg, {options[x].flag})
  <2>1. New(o) # {} /\ LastOf(New(o)) = arg
    BY <1>3, <1>4, ReadNext
  <2>2. \A x \in DOMAIN options : x # o => New(x) = Old(x)
    <3> TAKE x \in DOMAIN options
    <3> HAVE x # o
    <3>1. input.args[arg].flag \notin {options[x].flag}
      BY <1>3, Table
    <3> QED  BY <3>1, <1>4, ReadNext
  <2>3. Typed(options[o].kind, FlagValue(options[o].kind, input.args[arg].value))
    BY <1>2, <1>3, <1>4, Args, FlagValueTyped DEF Entry
  <2>4. /\ DOMAIN flagCfg = {x \in DOMAIN options : Old(x) # {}}
        /\ \A x \in DOMAIN flagCfg :
             /\ flagCfg[x] = FlagValue(options[x].kind, input.args[LastOf(Old(x))].value)
             /\ Typed(options[x].kind, flagCfg[x])
    BY DEF IInv, FlagsKept
  <2> HIDE DEF Old, New
  <2>5. DOMAIN flagCfg' = DOMAIN flagCfg \cup {o}
    BY <1>2
  <2>6. DOMAIN flagCfg' = {x \in DOMAIN options : New(x) # {}}
    BY <1>3, <2>1, <2>2, <2>4, <2>5
  <2>7. \A x \in DOMAIN flagCfg' :
          /\ flagCfg'[x] = FlagValue(options[x].kind, input.args[LastOf(New(x))].value)
          /\ Typed(options[x].kind, flagCfg'[x])
    <3> TAKE x \in DOMAIN flagCfg'
    <3>1. CASE x = o
      BY <3>1, <1>2, <2>1, <2>3, <2>5
    <3>2. CASE x # o
      <4>1. x \in DOMAIN flagCfg /\ x \in DOMAIN options /\ flagCfg'[x] = flagCfg[x]
        BY <3>2, <1>2, <2>4, <2>5
      <4>2. New(x) = Old(x)
        BY <3>2, <4>1, <2>2
      <4> QED  BY <4>1, <4>2, <2>4
    <3> QED  BY <3>1, <3>2
  <2> QED  BY <1>1, <1>6, <2>6, <2>7, Frame DEF FlagsKept, New
<1>8. PathKept'
  <2>1. Among(input.args, arg, ConfigFlags) = Among(input.args, arg - 1, ConfigFlags)
    BY <1>4, <1>5, ReadNext
  <2> QED  BY <1>1, <1>6, <2>1 DEF IInv, PathKept, LocateDone
<1> QED  BY <1>6, <1>7, <1>8 DEF IInv

\* A step that leaves the arguments, the flags and the input alone.
LEMMA Parsed ==
  ASSUME IInv, input' = input, arg' = arg, flagCfg' = flagCfg
  PROVE  /\ input' \in Inputs
         /\ FlagsKept'
         /\ arg' \in 1..(Len(input'.args) + 1)
         /\ \A i \in 1..(arg' - 1) : input'.args[i].flag # "" /\ Accepted(i)'
         /\ stage \notin {"args", "rejected"} => (Counted' = 1..(arg' - 1))
<1>1. input' \in Inputs /\ arg' \in 1..(Len(input'.args) + 1)
  BY DEF IInv, ArgsSeen
<1>2. FlagsKept'
  BY Frame DEF IInv, FlagsKept
<1>3. /\ \A i \in 1..(arg' - 1) : input'.args[i].flag # "" /\ Accepted(i)'
      /\ stage \notin {"args", "rejected"} => (Counted' = 1..(arg' - 1))
  BY Frame DEF IInv, ArgsSeen
<1> QED  BY <1>1, <1>2, <1>3

\* A step that ends in a refusal.
LEMMA Refused ==
  ASSUME IInv, stage' = "rejected", UNCHANGED <<input, arg, flagCfg, configPath, cfg>>,
         Unreadable \/ ~Valid(Effective)
  PROVE  IInv'
<1>1. input' = input /\ arg' = arg /\ flagCfg' = flagCfg /\ cfg' = cfg
  OBVIOUS
<1>2. input' \in Inputs /\ FlagsKept' /\ ArgsSeen'
  BY <1>1, Parsed DEF ArgsSeen
<1>3. PathKept' /\ SourcesRead'
  BY DEF PathKept, SourcesRead, LocateDone, FileDone, EnvDone
<1>4. CfgTyped' /\ Layers'
  BY <1>1, Frame DEF IInv, CfgTyped, Layers, EnvDone
<1>5. Verdict'
  <2>1. Effective' = Effective /\ (Unreadable' <=> Unreadable)
    BY <1>1, Frame
  <2>2. \A c : c = Effective => (Valid(c) <=> Valid(c)')
    BY <1>1 DEF Valid
  <2> QED  BY <1>1, <2>1, <2>2 DEF Verdict, Valid
<1> QED  BY <1>2, <1>3, <1>4, <1>5 DEF IInv, Stages

LEMMA ParseFlagFailsKeeps == IInv /\ ParseFlagFails => IInv'
<1> SUFFICES ASSUME IInv, ParseFlagFails
             PROVE  IInv'
  OBVIOUS
<1>1. arg \in 1..Len(input.args)
  BY Args, InRange, Zenon DEF IInv, ArgsSeen, ParseFlagFails
<1>2. /\ input.args[arg].flag \notin ConfigFlags \cup {""}
      /\ \A o \in Named(input.args[arg].flag) : ~FlagParses(options[o].kind, input.args[arg].value)
  BY DEF ParseFlagFails, Current
<1>3. arg \in Counted
  <2>1. \A i \in 1..(arg - 1) : input.args[i].flag # ""
    BY DEF IInv, ArgsSeen
  <2>2. 1..arg = 1..(arg - 1) \cup {arg}
    BY <1>1, NextIndex, Args, Zenon DEF IInv
  <2> QED  BY <1>1, <1>2, <2>1, <2>2, Zenon DEF Counted
<1>4. Unreadable
  BY <1>2, <1>3 DEF Unreadable, BadArgument
<1> QED  BY <1>4, Refused DEF ParseFlagFails

LEMMA ParseEndsKeeps == IInv /\ ParseEnds => IInv'
<1> SUFFICES ASSUME IInv, ParseEnds
             PROVE  IInv'
  OBVIOUS
<1>1. /\ stage = "args" /\ stage' = "locate" /\ input' = input /\ arg' = arg
      /\ flagCfg' = flagCfg /\ configPath' = configPath /\ cfg' = cfg
      /\ arg <= Len(input.args) => input.args[arg].flag = ""
  BY DEF ParseEnds, Current
<1>2. Counted = 1..(arg - 1)
  <2>1. Len(input.args) \in Nat /\ arg \in 1..(Len(input.args) + 1)
    BY Args DEF IInv, ArgsSeen
  <2>2. \A i \in 1..(arg - 1) : input.args[i].flag # ""
    BY DEF IInv, ArgsSeen
  <2> DEFINE stop == {i \in 1..Len(input.args) : input.args[i].flag = ""}
  <2>3. arg <= Len(input.args) => arg \in stop
    BY <1>1, <2>1, InRange
  <2>4. \A i \in 1..(arg - 1) : i \notin stop
    BY <2>2
  <2>5. Counted = {i \in 1..Len(input.args) : \A j \in 1..i : j \notin stop}
    <3>1. \A i \in 1..Len(input.args) : \A j \in 1..i : j \in 1..Len(input.args)
      BY <2>1
    <3> QED  BY <3>1 DEF Counted
  <2> HIDE DEF stop
  <2> QED  BY <2>1, <2>3, <2>4, <2>5, FirstStop
<1>3. input' \in Inputs /\ FlagsKept' /\ ArgsSeen'
  BY <1>1, <1>2, Parsed, Frame DEF ArgsSeen
<1>4. PathKept'
  BY <1>1 DEF IInv, PathKept, LocateDone
<1>5. SourcesRead' /\ Verdict'
  BY <1>1 DEF SourcesRead, Verdict, FileDone, EnvDone
<1>6. CfgTyped' /\ Layers'
  BY <1>1, Frame DEF IInv, CfgTyped, Layers, EnvDone
<1> QED  BY <1>1, <1>3, <1>4, <1>5, <1>6 DEF IInv, Stages

LEMMA LocateFileKeeps == IInv /\ LocateFile => IInv'
<1> SUFFICES ASSUME IInv, LocateFile
             PROVE  IInv'
  OBVIOUS
<1>1. /\ stage = "locate" /\ input' = input /\ arg' = arg /\ flagCfg' = flagCfg /\ cfg' = cfg
      /\ configPath' = Located
      /\ stage' = IF configPath' = "" THEN "flags" ELSE "file"
  BY DEF LocateFile
<1>2. Located = UsedPath
  <2>1. Counted = 1..(arg - 1)
    BY <1>1 DEF IInv, ArgsSeen
  <2>2. Given(ConfigFlags) = Among(input.args, arg - 1, ConfigFlags)
    BY <2>1, GivenIsRead
  <2> QED  BY <1>1, <2>2 DEF IInv, PathKept, Located, UsedPath
<1>3. input' \in Inputs /\ FlagsKept' /\ ArgsSeen'
  BY <1>1, Parsed, Frame DEF ArgsSeen
<1>4. PathKept'
  BY <1>1, <1>2, Frame DEF PathKept, LocateDone
<1>5. UsedPath = "" => DOMAIN UsedKeys = {}
  <2>1. "" \notin DOMAIN input.files
    BY InputsAssumption, Zenon DEF IInv
  <2>2. UsedPath = "" => UsedKeys = <<>>
    BY <2>1, Zenon DEF UsedKeys
  <2>3. DOMAIN <<>> = {}
    OBVIOUS
  <2> QED  BY <2>2, <2>3, Zenon
<1>6. SourcesRead'
  BY <1>1, <1>2, <1>5, Frame DEF SourcesRead, FileDone, EnvDone
<1>7. Verdict'
  BY <1>1 DEF Verdict
<1>8. CfgTyped' /\ Layers'
  <2>1. \A o : UsedPath = "" => FileLayer(o) = options[o].default
    BY <1>5 DEF FileLayer
  <2> QED  BY <1>1, <1>2, <2>1, Frame DEF IInv, CfgTyped, Layers, EnvDone
<1> QED  BY <1>1, <1>3, <1>4, <1>6, <1>7, <1>8 DEF IInv, Stages

\* The file of the stage is the one that the reference names.
LEMMA SameFile ==
  ASSUME IInv, stage = "file"
  PROVE  /\ UsedPath # ""
         /\ File.state = "keys" <=> UsedPath \in DOMAIN input.files /\ input.files[UsedPath].state = "keys"
         /\ File.state = "keys" => UsedKeys = File.keys
         /\ \A k \in DOMAIN UsedKeys : UsedKeys[k] \in STRING
<1>1. configPath = UsedPath /\ UsedPath # ""
  BY DEF IInv, PathKept, LocateDone
<1>2. File.state = "keys" <=> UsedPath \in DOMAIN input.files /\ input.files[UsedPath].state = "keys"
  <2>1. Missing.state # "keys"
    BY DEF Missing
  <2> QED  BY <1>1, <2>1 DEF File
<1>3. File.state = "keys" => UsedKeys = File.keys
  BY <1>1, <1>2 DEF UsedKeys, File
<1>4. \A k \in DOMAIN UsedKeys : UsedKeys[k] \in STRING
  <2>1. DOMAIN <<>> = {}
    OBVIOUS
  <2>2. CASE UsedPath \in DOMAIN input.files /\ input.files[UsedPath].state = "keys"
    BY <2>2, InputsAssumption, Zenon DEF UsedKeys, IInv
  <2>3. CASE ~(UsedPath \in DOMAIN input.files /\ input.files[UsedPath].state = "keys")
    BY <2>1, <2>3, Zenon DEF UsedKeys
  <2> QED  BY <2>2, <2>3
<1> QED  BY <1>1, <1>2, <1>3, <1>4

LEMMA LoadFileKeeps == IInv /\ LoadFile => IInv'
<1> SUFFICES ASSUME IInv, LoadFile
             PROVE  IInv'
  OBVIOUS
<1>1. /\ stage = "file" /\ stage' = "flags" /\ input' = input /\ arg' = arg /\ flagCfg' = flagCfg
      /\ configPath' = configPath /\ File.state = "keys"
      /\ \A o \in DOMAIN options : InFile(o) => FileParses(options[o].kind, FileText(o))
      /\ cfg' = [o \in DOMAIN cfg |-> IF InFile(o) THEN FileValue(options[o].kind, FileText(o)) ELSE cfg[o]]
  BY DEF LoadFile, FileLoads
<1>2. /\ UsedPath # "" /\ UsedPath \in DOMAIN input.files /\ input.files[UsedPath].state = "keys"
      /\ UsedKeys = File.keys /\ \A k \in DOMAIN UsedKeys : UsedKeys[k] \in STRING
  BY <1>1, SameFile
<1>3. \A o : (InFile(o) <=> options[o].json \in DOMAIN UsedKeys) /\ FileText(o) = UsedKeys[options[o].json]
  BY <1>2 DEF InFile, FileText
<1>4. DOMAIN cfg = DOMAIN options /\ \A o \in DOMAIN options : cfg[o] = options[o].default
  BY <1>1 DEF IInv, CfgTyped, Layers
<1>5. DOMAIN cfg' = DOMAIN options /\ \A o \in DOMAIN options : cfg'[o] = FileLayer(o)
  BY <1>1, <1>3, <1>4 DEF FileLayer
<1>6. \A o \in DOMAIN options : Typed(options[o].kind, FileLayer(o))
  <2> TAKE o \in DOMAIN options
  <2>1. Entry(options[o])
    BY Table
  <2>2. CASE options[o].json \in DOMAIN UsedKeys
    BY <2>1, <2>2, <1>1, <1>2, <1>3, FileValueTyped DEF FileLayer, Entry
  <2>3. CASE options[o].json \notin DOMAIN UsedKeys
    BY <2>1, <2>3 DEF FileLayer, Entry
  <2> QED  BY <2>2, <2>3
<1>7. input' \in Inputs /\ FlagsKept' /\ ArgsSeen'
  BY <1>1, Parsed DEF ArgsSeen
<1>8. PathKept'
  BY <1>1, Frame DEF IInv, PathKept, LocateDone
<1>9. SourcesRead'
  BY <1>1, <1>2, <1>3, Frame DEF SourcesRead, FileDone, EnvDone
<1>10. CfgTyped'
  BY <1>1, <1>5, <1>6, Frame DEF CfgTyped
<1>11. Layers'
  BY <1>1, <1>5, Frame DEF Layers, EnvDone
<1>12. Verdict'
  BY <1>1 DEF Verdict
<1> QED  BY <1>1, <1>7, <1>8, <1>9, <1>10, <1>11, <1>12 DEF IInv, Stages

LEMMA LoadFileFailsKeeps == IInv /\ LoadFileFails => IInv'
<1> SUFFICES ASSUME IInv, LoadFileFails
             PROVE  IInv'
  OBVIOUS
<1>1. stage = "file" /\ ~FileLoads
  BY DEF LoadFileFails
<1>2. Unreadable
  <2>1. CASE File.state # "keys"
    BY <1>1, <2>1, SameFile DEF Unreadable, BadFile
  <2>2. CASE File.state = "keys"
    <3>1. PICK o \in DOMAIN options : InFile(o) /\ ~FileParses(options[o].kind, FileText(o))
      BY <1>1, <2>2 DEF FileLoads
    <3>2. options[o].json \in DOMAIN UsedKeys /\ FileText(o) = UsedKeys[options[o].json]
      BY <1>1, <2>2, <3>1, SameFile DEF InFile, FileText
    <3>3. BadKey
      BY <3>1, <3>2, WholeSeconds DEF BadKey, FileParses
    <3> QED  BY <3>3 DEF Unreadable
  <2> QED  BY <2>1, <2>2
<1> QED  BY <1>2, Refused DEF LoadFileFails

LEMMA ApplyFlagsKeeps == IInv /\ ApplyFlags => IInv'
<1> SUFFICES ASSUME IInv, ApplyFlags
             PROVE  IInv'
  OBVIOUS
<1>1. /\ stage = "flags" /\ stage' = "env" /\ input' = input /\ arg' = arg /\ flagCfg' = flagCfg
      /\ configPath' = configPath
      /\ cfg' = [o \in DOMAIN cfg |-> IF o \in DOMAIN flagCfg THEN flagCfg[o] ELSE cfg[o]]
  BY DEF ApplyFlags
<1>2. Counted = 1..(arg - 1)
  BY <1>1 DEF IInv, ArgsSeen
<1>3. \A o \in DOMAIN options : Given({options[o].flag}) = Among(input.args, arg - 1, {options[o].flag})
  BY <1>2, GivenIsRead
<1>4. /\ DOMAIN cfg = DOMAIN options
      /\ \A o \in DOMAIN options : cfg[o] = FileLayer(o) /\ Typed(options[o].kind, cfg[o])
  BY <1>1 DEF IInv, CfgTyped, Layers
<1>5. /\ DOMAIN flagCfg = {o \in DOMAIN options : Given({options[o].flag}) # {}}
      /\ \A o \in DOMAIN flagCfg :
           /\ flagCfg[o] = FlagValue(options[o].kind, input.args[LastOf(Given({options[o].flag}))].value)
           /\ Typed(options[o].kind, flagCfg[o])
  BY <1>3 DEF IInv, FlagsKept
<1>6. /\ DOMAIN cfg' = DOMAIN options
      /\ \A o \in DOMAIN options : cfg'[o] = FlagLayer(o) /\ Typed(options[o].kind, cfg'[o])
  BY <1>1, <1>4, <1>5 DEF FlagLayer
<1>7. input' \in Inputs /\ FlagsKept' /\ ArgsSeen'
  BY <1>1, Parsed DEF ArgsSeen
<1>8. PathKept'
  BY <1>1, Frame DEF IInv, PathKept, LocateDone
<1>9. SourcesRead'
  BY <1>1, Frame DEF IInv, SourcesRead, FileDone, EnvDone
<1>10. CfgTyped' /\ Layers'
  BY <1>1, <1>6, Frame DEF CfgTyped, Layers, EnvDone
<1>11. Verdict'
  BY <1>1 DEF Verdict
<1> QED  BY <1>1, <1>7, <1>8, <1>9, <1>10, <1>11 DEF IInv, Stages

LEMMA ApplyEnvironmentKeeps == IInv /\ ApplyEnvironment => IInv'
<1> SUFFICES ASSUME IInv, ApplyEnvironment
             PROVE  IInv'
  OBVIOUS
<1>1. /\ stage = "env" /\ stage' = "validate" /\ input' = input /\ arg' = arg /\ flagCfg' = flagCfg
      /\ configPath' = configPath /\ EnvParses
      /\ cfg' = [o \in DOMAIN cfg |-> IF InEnv(o) THEN Value(options[o].kind, EnvText(o)) ELSE cfg[o]]
  BY DEF ApplyEnvironment
<1>2. input \in Inputs
  BY DEF IInv
<1>3. /\ DOMAIN cfg = DOMAIN options
      /\ \A o \in DOMAIN options : cfg[o] = FlagLayer(o) /\ Typed(options[o].kind, cfg[o])
  BY <1>1 DEF IInv, CfgTyped, Layers, EnvDone
<1>4. /\ DOMAIN cfg' = DOMAIN options
      /\ \A o \in DOMAIN options : cfg'[o] = Expected(o)
  BY <1>1, <1>2, <1>3, ExpectedLayers
<1>5. \A o \in DOMAIN options : Typed(options[o].kind, cfg'[o])
  <2> TAKE o \in DOMAIN options
  <2>1. CASE InEnv(o)
    <3>1. options[o].kind \in Kinds /\ EnvText(o) \in STRING /\ Parses(options[o].kind, EnvText(o))
      BY <1>1, <1>2, <2>1, Table, Environment DEF Entry, EnvParses
    <3> QED  BY <1>1, <1>3, <2>1, <3>1, ValueTyped
  <2>2. CASE ~InEnv(o)
    BY <1>1, <1>3, <2>2
  <2> QED  BY <2>1, <2>2
<1>6. input' \in Inputs /\ FlagsKept' /\ ArgsSeen'
  BY <1>1, Parsed DEF ArgsSeen
<1>7. PathKept'
  BY <1>1, Frame DEF IInv, PathKept, LocateDone
<1>8. SourcesRead'
  BY <1>1, Frame DEF IInv, SourcesRead, FileDone, EnvDone
<1>9. CfgTyped' /\ Layers'
  BY <1>1, <1>4, <1>5, Frame DEF CfgTyped, Layers, EnvDone
<1>10. Verdict'
  BY <1>1 DEF Verdict
<1> QED  BY <1>1, <1>6, <1>7, <1>8, <1>9, <1>10 DEF IInv, Stages

LEMMA ApplyEnvironmentFailsKeeps == IInv /\ ApplyEnvironmentFails => IInv'
<1> SUFFICES ASSUME IInv, ApplyEnvironmentFails
             PROVE  IInv'
  OBVIOUS
<1>1. PICK o \in DOMAIN options : InEnv(o) /\ ~Parses(options[o].kind, EnvText(o))
  BY DEF ApplyEnvironmentFails, EnvParses
<1>2. Unreadable
  BY <1>1, Environment DEF IInv, Unreadable, BadVariable
<1> QED  BY <1>2, Refused DEF ApplyEnvironmentFails

LEMMA ValidateKeeps == IInv /\ Validate => IInv'
<1> SUFFICES ASSUME IInv, Validate
             PROVE  IInv'
  OBVIOUS
<1>1. /\ stage = "validate" /\ input' = input /\ arg' = arg /\ flagCfg' = flagCfg
      /\ configPath' = configPath /\ cfg' = cfg
      /\ stage' = IF Valid(cfg) THEN "accepted" ELSE "rejected"
  BY DEF Validate
<1>2. CASE Valid(cfg)
  <2>1. stage' = "accepted"
    BY <1>1, <1>2
  <2>2. input' \in Inputs /\ FlagsKept' /\ ArgsSeen'
    BY <1>1, Parsed DEF ArgsSeen
  <2>3. PathKept'
    BY <1>1, <2>1, Frame DEF IInv, PathKept, LocateDone
  <2>4. SourcesRead'
    BY <1>1, <2>1, Frame DEF IInv, SourcesRead, FileDone, EnvDone
  <2>5. CfgTyped' /\ Layers'
    BY <1>1, <2>1, Frame DEF IInv, CfgTyped, Layers, EnvDone
  <2>6. Verdict'
    BY <1>1, <1>2, <2>1 DEF Verdict, Valid
  <2> QED  BY <2>1, <2>2, <2>3, <2>4, <2>5, <2>6 DEF IInv, Stages
<1>3. CASE ~Valid(cfg)
  <2>1. \A o \in DOMAIN options : cfg[o] = Effective[o]
    BY <1>1 DEF IInv, Layers, EnvDone, Effective
  <2>2. ~Valid(Effective)
    BY <1>3, <2>1, SameVerdict
  <2> QED  BY <1>1, <1>3, <2>2, Refused
<1> QED  BY <1>2, <1>3

LEMMA Stutter == IInv /\ UNCHANGED vars => IInv'
<1> SUFFICES ASSUME IInv, UNCHANGED vars
             PROVE  IInv'
  OBVIOUS
<1>1. /\ stage' = stage /\ input' = input /\ arg' = arg /\ flagCfg' = flagCfg
      /\ configPath' = configPath /\ cfg' = cfg
  BY DEF vars
<1>2. input' \in Inputs /\ FlagsKept' /\ ArgsSeen'
  BY <1>1, Parsed DEF ArgsSeen
<1>3. PathKept'
  BY <1>1, Frame DEF IInv, PathKept, LocateDone
<1>4. SourcesRead'
  BY <1>1, Frame DEF IInv, SourcesRead, FileDone, EnvDone
<1>5. CfgTyped' /\ Layers'
  BY <1>1, Frame DEF IInv, CfgTyped, Layers, EnvDone
<1>6. Verdict'
  BY <1>1, Frame DEF IInv, Verdict, Valid
<1> QED  BY <1>1, <1>2, <1>3, <1>4, <1>5, <1>6 DEF IInv

\* Every stage of the loading keeps the invariant.
THEOREM Inductive == Spec => []IInv
<1>1. IInv /\ [Next]_vars => IInv'
  BY ParseConfigFlagKeeps, ParseFlagKeeps, ParseFlagFailsKeeps, ParseEndsKeeps, LocateFileKeeps,
     LoadFileKeeps, LoadFileFailsKeeps, ApplyFlagsKeeps, ApplyEnvironmentKeeps,
     ApplyEnvironmentFailsKeeps, ValidateKeeps, Stutter
     DEF Next, Done
<1> QED  BY <1>1, InitIInv, PTL DEF Spec

-----------------------------------------------------------------------------
(* The theorems.                                                            *)

\* Type correctness: at every stage each option has a value of its kind, so the
\* converted flags, variables and file keys never land in the wrong field.
THEOREM TypeCorrect == Spec => []TypeOK
<1>1. IInv => TypeOK
  <2> SUFFICES ASSUME IInv
               PROVE  TypeOK
    OBVIOUS
  <2>1. stage \in Stages /\ arg \in 1..(Len(input.args) + 1) /\ DOMAIN flagCfg \subseteq DOMAIN options
    BY DEF IInv, ArgsSeen, FlagsKept
  <2>2. DOMAIN cfg = DOMAIN options
    BY DEF IInv, CfgTyped
  <2>3. \A o \in DOMAIN cfg :
          CASE options[o].kind = "bool"                -> cfg[o] \in BOOLEAN
            [] options[o].kind \in {"seconds", "int"}  -> cfg[o] \in Int
            [] OTHER                                   -> cfg[o] \in STRING
    <3> TAKE o \in DOMAIN cfg
    <3>1. Typed(options[o].kind, cfg[o]) /\ options[o].kind \in Kinds
      BY <2>2, Table DEF IInv, CfgTyped, Entry
    <3> QED  BY <3>1 DEF Typed, Kinds
  <2> QED  BY <2>1, <2>2, <2>3 DEF TypeOK
<1> QED  BY <1>1, Inductive, PTL

\* The priority that the comments of GetServerConfig and GetAgentConfig state,
\* env > flag > json > default, for every input: the stages of the loading
\* compute what the reference reads off the whole input at once.
THEOREM PrecedenceAlways == Spec => []Precedence
<1>1. IInv => Precedence
  BY DEF IInv, Layers, EnvDone, Precedence
<1> QED  BY <1>1, Inductive, PTL

\* An accepted configuration has passed stages that found nothing unreadable.
LEMMA AcceptedIsReadable ==
  ASSUME IInv, stage = "accepted"
  PROVE  ~Unreadable
<1>1. ~BadArgument
  <2>1. Counted = 1..(arg - 1) /\ \A i \in 1..(arg - 1) : Accepted(i)
    BY DEF IInv, ArgsSeen
  <2> QED  BY <2>1 DEF BadArgument, Accepted
<1>2. ~BadVariable
  <2>1. EnvParses /\ input \in Inputs
    BY DEF IInv, SourcesRead, EnvDone
  <2> QED  BY <2>1, Environment DEF BadVariable, EnvParses
<1>3. ~BadFile
  BY DEF IInv, SourcesRead, FileDone, BadFile
<1>4. ~BadKey
  <2>1. \A o \in DOMAIN options :
          options[o].json \in DOMAIN UsedKeys => FileParses(options[o].kind, UsedKeys[options[o].json])
    BY DEF IInv, SourcesRead, FileDone
  <2> QED  BY <2>1, WholeSeconds DEF BadKey, FileParses
<1> QED  BY <1>1, <1>2, <1>3, <1>4 DEF Unreadable

\* parseServerConfig and parseAgentConfig return an error exactly if a source
\* cannot be read or the effective values are not valid, for every input.
THEOREM RefusedIffCauseAlways == Spec => []RefusedIffCause
<1>1. IInv => RefusedIffCause
  <2> SUFFICES ASSUME IInv
               PROVE  RefusedIffCause
    OBVIOUS
  <2>1. stage = "accepted" => ~Unreadable /\ Valid(Effective)
    <3> HAVE stage = "accepted"
    <3>1. Valid(cfg) /\ \A o \in DOMAIN options : cfg[o] = Effective[o]
      BY DEF IInv, Verdict, Layers, EnvDone, Effective
    <3> QED  BY <3>1, SameVerdict, AcceptedIsReadable
  <2>2. stage = "rejected" => Unreadable \/ ~Valid(Effective)
    BY DEF IInv, Verdict
  <2> QED  BY <2>1, <2>2 DEF RefusedIffCause, Effective
<1> QED  BY <1>1, Inductive, PTL
=============================================================================
