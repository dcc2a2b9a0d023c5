--------------------------- MODULE Configuration ---------------------------
(***************************************************************************)
(* How the agent and the server find their settings (parseAgentConfig,     *)
(* parseServerConfig): the arguments are parsed one by one, the JSON file  *)
(* is located and read over the defaults, then the flags that were set,    *)
(* then the environment, and the result is validated.  The two programs    *)
(* differ in their tables of options and in what they validate.  Values    *)
(* are the texts a user writes; the converted number or boolean is kept.   *)
(***************************************************************************)
EXTENDS Integers, Sequences

CONSTANTS
    Inputs      \* what the user provides: program, args, env, files

-----------------------------------------------------------------------------
(* Conversions of the standard library, on the texts the inputs use; a text *)
(* outside of the domain does not parse.                                    *)

Atoi          == [t \in {"-1", "0", "7"} |-> IF t = "-1" THEN -1 ELSE IF t = "0" THEN 0 ELSE 7]
ParseInt      ==   \* base 0
    [t \in DOMAIN Atoi \cup {"0x7"} |-> IF t = "0x7" THEN 7 ELSE Atoi[t]]
ParseBool     == [t \in {"true", "false"} |-> t = "true"]
ParseDuration ==   \* milliseconds
    [t \in {"-1s", "0s", "7s", "1500ms"} |->
        IF t = "-1s" THEN -1000 ELSE IF t = "0s" THEN 0 ELSE IF t = "7s" THEN 7000 ELSE 1500]
ParseCIDR     == {"10.0.0.0/8"}
AuditURLs     == {"http://audit"}

\* An environment variable of a kind: getEnvInt and getEnvBool.
Parses(kind, text) ==
    CASE kind = "bool"                -> text \in DOMAIN ParseBool
      [] kind \in {"seconds", "int"}  -> text \in DOMAIN Atoi
      [] OTHER                        -> TRUE

Value(kind, text) ==
    CASE kind = "bool"                -> ParseBool[text]
      [] kind \in {"seconds", "int"}  -> Atoi[text]
      [] OTHER                        -> text

\* A flag of a kind: StringVar, BoolVar, and IntVar, which takes prefixes too.
FlagParses(kind, text) ==
    IF kind \in {"seconds", "int"} THEN text \in DOMAIN ParseInt ELSE Parses(kind, text)

FlagValue(kind, text) ==
    IF kind \in {"seconds", "int"} THEN ParseInt[text] ELSE Value(kind, text)

\* Mutant of FileParses: a fraction of a second is cut off.
FileParsesFractions(kind, text) ==
    IF kind = "seconds" THEN text \in DOMAIN ParseDuration ELSE Parses(kind, text)

\* The file writes intervals as durations, of whole seconds; integers and
\* booleans have their JSON type, or Unmarshal fails.
FileParses(kind, text) ==
    IF kind = "seconds"
    THEN text \in DOMAIN ParseDuration /\ ParseDuration[text] % 1000 = 0
    ELSE Parses(kind, text)

FileValue(kind, text) ==
    IF kind = "seconds" THEN ParseDuration[text] \div 1000 ELSE Value(kind, text)

-----------------------------------------------------------------------------
(* The options: flag, environment variables (a later one wins), JSON key,   *)
(* kind and default.                                                        *)

Option(flag, env, json, kind, default) ==
    [flag |-> flag, env |-> env, json |-> json, kind |-> kind, default |-> default]

AgentOptions ==
    [ServerAddr          |-> Option("a", <<"ADDRESS">>, "address", "string", "localhost:50051"),
     Transport           |-> Option("transport", <<"TRANSPORT">>, "transport", "string", "grpc"),
     PollIntervalInSec   |-> Option("p", <<"POLL_INTERVAL">>, "poll_interval", "seconds", 2),
     ReportIntervalInSec |-> Option("r", <<"REPORT_INTERVAL">>, "report_interval", "seconds", 10),
     RateLimit           |-> Option("l", <<"RATE_LIMIT">>, "rate_limit", "int", 5),
     Key                 |-> Option("k", <<"KEY">>, "key", "string", ""),
     CryptoKey           |-> Option("crypto-key", <<"CRYPTO_KEY">>, "crypto_key", "string", ""),
     GRPCTLSCA           |-> Option("grpc-tls-ca", <<"GRPC_TLS_CA">>, "grpc_tls_ca", "string", "")]

ServerOptions ==
    [HTTPAddr           |-> Option("a", <<"ADDRESS">>, "address", "string", "localhost:8080"),
     GRPCAddr           |-> Option("g", <<"GRPC_ADDRESS">>, "grpc_address", "string", "localhost:50051"),
     GRPCTLSCert        |-> Option("grpc-tls-cert", <<"GRPC_TLS_CERT">>, "grpc_tls_cert", "string", ""),
     GRPCTLSKey         |-> Option("grpc-tls-key", <<"GRPC_TLS_KEY">>, "grpc_tls_key", "string", ""),
     StoreIntervalInSec |-> Option("i", <<"STORE_INTERVAL">>, "store_interval", "seconds", 300),
     FileStoragePath    |-> Option("f", <<"FILE_STORAGE_PATH", "STORE_FILE">>, "store_file", "string", "metrics-db.json"),
     Restore            |-> Option("r", <<"RESTORE">>, "restore", "bool", FALSE),
     DatabaseDSN        |-> Option("d", <<"DATABASE_DSN">>, "database_dsn", "string", ""),
     Key                |-> Option("k", <<"KEY">>, "key", "string", ""),
     CryptoKey          |-> Option("crypto-key", <<"CRYPTO_KEY">>, "crypto_key", "string", ""),
     TrustedSubnet      |-> Option("t", <<"TRUSTED_SUBNET">>, "trusted_subnet", "string", ""),
     AuditFile          |-> Option("audit-file", <<"AUDIT_FILE">>, "audit_file", "string", ""),
     AuditURL           |-> Option("audit-url", <<"AUDIT_URL">>, "audit_url", "string", "")]

Options(program) == IF program = "agent" THEN AgentOptions ELSE ServerOptions

ConfigFlags == {"c", "config"}

\* A file is missing, is not JSON, or gives texts for keys.
Missing   == [state |-> "missing"]
Malformed == [state |-> "malformed"]
Keys(k)   == [state |-> "keys", keys |-> k]

\* The empty name stands for the first argument that is not a flag.
FlagNames == {AgentOptions[o].flag : o \in DOMAIN AgentOptions}
    \cup {ServerOptions[o].flag : o \in DOMAIN ServerOptions} \cup ConfigFlags \cup {"", "unknown"}

ASSUME InputsAssumption ==
    \A in \in Inputs :
        /\ in.program \in {"agent", "server"}
        /\ in.args \in Seq([flag : FlagNames, value : STRING])
        /\ \A e \in DOMAIN in.env : in.env[e] \in STRING
        /\ "" \notin DOMAIN in.files
        /\ \A p \in DOMAIN in.files :
             /\ in.files[p].state \in {"missing", "malformed", "keys"}
             /\ in.files[p].state = "keys" => \A k \in DOMAIN in.files[p].keys : in.files[p].keys[k] \in STRING

\* True of any text; the provers do not know that a literal is in STRING.
ASSUME DefaultsAreTexts ==
    {"", "grpc", "localhost:50051", "localhost:8080", "metrics-db.json"} \subseteq STRING

-----------------------------------------------------------------------------
VARIABLES
    input,      \* what the user provided
    stage,      \* the step that comes next, or the outcome
    arg,        \* index of the next argument
    flagCfg,    \* values of the flags that were set: option -> value
    configPath, \* path of the JSON file, or ""
    cfg         \* the configuration

vars == <<input, stage, arg, flagCfg, configPath, cfg>>

options == Options(input.program)
IsSet(name) == name \in DOMAIN input.env

Stages == {"args", "locate", "file", "flags", "env", "validate", "accepted", "rejected"}

TypeOK ==
    /\ stage \in Stages
    /\ arg \in 1..(Len(input.args) + 1)
    /\ DOMAIN flagCfg \subseteq DOMAIN options
    /\ DOMAIN cfg = DOMAIN options
    /\ \A o \in DOMAIN cfg :
         CASE options[o].kind = "bool"                -> cfg[o] \in BOOLEAN
           [] options[o].kind \in {"seconds", "int"}  -> cfg[o] \in Int
           [] OTHER                                   -> cfg[o] \in STRING

Init ==
    /\ input \in Inputs
    /\ stage = "args"
    /\ arg = 1
    /\ flagCfg = <<>>
    /\ configPath = ""
    /\ cfg = [o \in DOMAIN options |-> options[o].default]

-----------------------------------------------------------------------------
(* The steps of parseServerConfig and parseAgentConfig.                     *)

Current == input.args[arg]

Named(name) == {o \in DOMAIN options : options[o].flag = name}

\* flags.Parse, the next argument: the path of the file, or an option.
ParseConfigFlag ==
    /\ stage = "args"
    /\ arg <= Len(input.args)
    /\ Current.flag \in ConfigFlags
    /\ configPath' = Current.value
    /\ arg' = arg + 1
    /\ UNCHANGED <<input, stage, flagCfg, cfg>>

ParseFlag ==
    /\ stage = "args"
    /\ arg <= Len(input.args)
    /\ \E o \in Named(Current.flag) :
         /\ FlagParses(options[o].kind, Current.value)
         /\ flagCfg' = [x \in DOMAIN flagCfg \cup {o} |->
                          IF x = o THEN FlagValue(options[o].kind, Current.value) ELSE flagCfg[x]]
    /\ arg' = arg + 1
    /\ UNCHANGED <<input, stage, configPath, cfg>>

\* A flag that is not defined, or a value that does not parse.
ParseFlagFails ==
    /\ stage = "args"
    /\ arg <= Len(input.args)
    /\ Current.flag \notin ConfigFlags \cup {""}
    /\ \A o \in Named(Current.flag) : ~FlagParses(options[o].kind, Current.value)
    /\ stage' = "rejected"
    /\ UNCHANGED <<input, arg, flagCfg, configPath, cfg>>

\* All arguments are parsed, or the rest are not flags.
ParseEnds ==
    /\ stage = "args"
    /\ arg <= Len(input.args) => Current.flag = ""
    /\ stage' = "locate"
    /\ UNCHANGED <<input, arg, flagCfg, configPath, cfg>>

Located == IF IsSet("CONFIG") THEN input.env["CONFIG"] ELSE configPath

LocateFile ==
    /\ stage = "locate"
    /\ configPath' = Located
    /\ stage' = IF configPath' = "" THEN "flags" ELSE "file"
    /\ UNCHANGED <<input, arg, flagCfg, cfg>>

File == IF configPath \in DOMAIN input.files THEN input.files[configPath] ELSE Missing

InFile(o) == options[o].json \in DOMAIN File.keys
FileText(o) == File.keys[options[o].json]

FileLoads == File.state = "keys" /\ \A o \in DOMAIN options : InFile(o) => FileParses(options[o].kind, FileText(o))

\* Mutant of LoadFile: the file's settings replace the defaults.
LoadFileReplaces ==
    /\ stage = "file"
    /\ FileLoads
    /\ cfg' = [o \in {x \in DOMAIN cfg : InFile(x)} |-> FileValue(options[o].kind, FileText(o))]
    /\ stage' = "flags"
    /\ UNCHANGED <<input, arg, flagCfg, configPath>>

\* loadServerConfigFile, loadAgentConfigFile.
LoadFile ==
    /\ stage = "file"
    /\ FileLoads
    /\ cfg' = [o \in DOMAIN cfg |-> IF InFile(o) THEN FileValue(options[o].kind, FileText(o)) ELSE cfg[o]]
    /\ stage' = "flags"
    /\ UNCHANGED <<input, arg, flagCfg, configPath>>

LoadFileFails ==
    /\ stage = "file"
    /\ ~FileLoads
    /\ stage' = "rejected"
    /\ UNCHANGED <<input, arg, flagCfg, configPath, cfg>>

\* Mutant of ApplyFlags: the flags are applied whether they were set or not.
ApplyAllFlags ==
    /\ stage = "flags"
    /\ cfg' = [o \in DOMAIN cfg |-> IF o \in DOMAIN flagCfg THEN flagCfg[o] ELSE options[o].default]
    /\ stage' = "env"
    /\ UNCHANGED <<input, arg, flagCfg, configPath>>

\* applyServerFlags, applyAgentFlags: only the flags that were set.
ApplyFlags ==
    /\ stage = "flags"
    /\ cfg' = [o \in DOMAIN cfg |-> IF o \in DOMAIN flagCfg THEN flagCfg[o] ELSE cfg[o]]
    /\ stage' = "env"
    /\ UNCHANGED <<input, arg, flagCfg, configPath>>

\* The text of the variable that is looked up last.
EnvText(o) ==
    LET Given == {i \in 1..Len(options[o].env) : IsSet(options[o].env[i])}
    IN  input.env[options[o].env[CHOOSE i \in Given : \A j \in Given : j <= i]]

InEnv(o) == \E i \in 1..Len(options[o].env) : IsSet(options[o].env[i])

EnvParses == \A o \in DOMAIN options : InEnv(o) => Parses(options[o].kind, EnvText(o))

\* applyServerEnvironment, applyAgentEnvironment: a variable that is set and
\* empty overrides too.
ApplyEnvironment ==
    /\ stage = "env"
    /\ EnvParses
    /\ cfg' = [o \in DOMAIN cfg |-> IF InEnv(o) THEN Value(options[o].kind, EnvText(o)) ELSE cfg[o]]
    /\ stage' = "validate"
    /\ UNCHANGED <<input, arg, flagCfg, configPath>>

ApplyEnvironmentFails ==
    /\ stage = "env"
    /\ ~EnvParses
    /\ stage' = "rejected"
    /\ UNCHANGED <<input, arg, flagCfg, configPath, cfg>>

\* validateAgentConfig.
ValidAgent(c) ==
    /\ c.ServerAddr # ""
    /\ c.Transport \in {"grpc", "http"}
    /\ c.PollIntervalInSec > 0 /\ c.ReportIntervalInSec > 0
    /\ c.RateLimit > 0

\* validateServerConfig.
ValidServer(c) ==
    /\ c.HTTPAddr # "" /\ c.GRPCAddr # ""
    /\ (c.GRPCTLSCert # "") = (c.GRPCTLSKey # "")
    /\ c.StoreIntervalInSec >= 0
    /\ c.TrustedSubnet = "" \/ c.TrustedSubnet \in ParseCIDR
    /\ c.AuditURL = "" \/ c.AuditURL \in AuditURLs

Valid(c) == IF input.program = "agent" THEN ValidAgent(c) ELSE ValidServer(c)

Validate ==
    /\ stage = "validate"
    /\ stage' = IF Valid(cfg) THEN "accepted" ELSE "rejected"
    /\ UNCHANGED <<input, arg, flagCfg, configPath, cfg>>

\* The caller has its answer.
Done == stage \in {"accepted", "rejected"} /\ UNCHANGED vars

Next ==
    \/ ParseConfigFlag \/ ParseFlag \/ ParseFlagFails \/ ParseEnds \/ LocateFile \/ LoadFile \/ LoadFileFails
    \/ ApplyFlags \/ ApplyEnvironment \/ ApplyEnvironmentFails \/ Validate \/ Done

Spec == Init /\ [][Next]_vars

-----------------------------------------------------------------------------
(* Properties.  The reference looks at the whole input at once.             *)

\* The arguments that count: those before the first one that is not a flag.
Counted == {i \in 1..Len(input.args) : \A j \in 1..i : input.args[j].flag # ""}
LastOf(S) == CHOOSE i \in S : \A j \in S : j <= i

Given(names) == {i \in Counted : input.args[i].flag \in names}

UsedPath ==
    IF IsSet("CONFIG") THEN input.env["CONFIG"]
    ELSE IF Given(ConfigFlags) # {} THEN input.args[LastOf(Given(ConfigFlags))].value ELSE ""

UsedKeys ==
    IF UsedPath \in DOMAIN input.files /\ input.files[UsedPath].state = "keys"
    THEN input.files[UsedPath].keys ELSE <<>>

SetVariables(o) == {i \in 1..Len(options[o].env) : IsSet(options[o].env[i])}

\* Priority of the sources: env > flag > json > default.
Expected(o) ==
    LET opt == options[o] IN
    IF SetVariables(o) # {} THEN Value(opt.kind, input.env[opt.env[LastOf(SetVariables(o))]])
    ELSE IF Given({opt.flag}) # {} THEN FlagValue(opt.kind, input.args[LastOf(Given({opt.flag}))].value)
    ELSE IF opt.json \in DOMAIN UsedKeys THEN FileValue(opt.kind, UsedKeys[opt.json])
    ELSE opt.default

\* Every option of an accepted configuration comes from the source of the
\* highest priority that mentions it, also if it says "" (comment of
\* GetServerConfig and GetAgentConfig).
Precedence == stage = "accepted" => \A o \in DOMAIN options : cfg[o] = Expected(o)

\* The causes: an argument, a variable, the file or one of its keys cannot be
\* read.
BadArgument ==
    \E i \in Counted : /\ input.args[i].flag \notin ConfigFlags
                       /\ \A o \in Named(input.args[i].flag) : ~FlagParses(options[o].kind, input.args[i].value)

BadVariable ==
    \E o \in DOMAIN options :
        /\ SetVariables(o) # {}
        /\ ~Parses(options[o].kind, input.env[options[o].env[LastOf(SetVariables(o))]])

BadFile == UsedPath # "" /\ (UsedPath \notin DOMAIN input.files \/ input.files[UsedPath].state # "keys")

BadKey ==
    \E o \in DOMAIN options :
        /\ options[o].json \in DOMAIN UsedKeys
        /\ LET text == UsedKeys[options[o].json] IN
           IF options[o].kind = "seconds"
           THEN text \in DOMAIN ParseDuration => (ParseDuration[text] \div 1000) * 1000 # ParseDuration[text]
           ELSE ~Parses(options[o].kind, text)

Unreadable == BadArgument \/ BadVariable \/ BadFile \/ BadKey

\* A configuration is refused if and only if there is a cause: something cannot
\* be read, or a combination of the effective values is not valid.  A value that
\* is overridden is no cause, if it can be read; an interval that is not a whole
\* number of seconds cannot be read, so none is ever rounded.
RefusedIffCause ==
    stage \in {"accepted", "rejected"} =>
        ((stage = "rejected") <=> Unreadable \/ ~Valid([o \in DOMAIN options |-> Expected(o)]))
=============================================================================
