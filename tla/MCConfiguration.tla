-------------------------- MODULE MCConfiguration --------------------------
(* Inputs of Configuration for TLC: for every option all combinations of    *)
(* its sources, and the cases in which options or files interact.           *)
EXTENDS Configuration

NoArgs == <<>>
Arg(flag, value) == [flag |-> flag, value |-> value]

Input(program, args, env, files) == [program |-> program, args |-> args, env |-> env, files |-> files]

\* Texts for an option on the command line or in the environment, and in the file.
Texts(opt) ==
    CASE opt.kind = "bool"               -> {"true", "false", "bad"}
      [] opt.kind \in {"seconds", "int"} -> {"-1", "0", "7", "0x7", "bad"}
      [] opt.flag = "transport"          -> {"http", "bad"}
      [] opt.flag = "t"                  -> {"", "10.0.0.0/8", "bad"}
      [] opt.flag = "audit-url"          -> {"", "http://audit", "bad"}
      [] OTHER                           -> {"", "x"}

JSONTexts(opt) == IF opt.kind = "seconds" THEN {"-1s", "0s", "7s", "1500ms", "7"} ELSE Texts(opt)

Flags(opt) == {NoArgs} \cup {<<Arg(opt.flag, t)>> : t \in Texts(opt)}
Envs(opt)  == {<<>>} \cup {[e \in {opt.env[Len(opt.env)]} |-> t] : t \in Texts(opt)}

ThisFile(f) == [p \in {"c.json"} |-> f]
WithFile(args) == <<Arg("c", "c.json")>> \o args

\* One option from every combination of sources.
OneOption(program, opt) ==
    {Input(program, f, e, <<>>) : f \in Flags(opt), e \in Envs(opt)}
        \cup {Input(program, WithFile(f), e, ThisFile(Keys([k \in {opt.json} |-> t]))) :
                  f \in Flags(opt), e \in Envs(opt), t \in JSONTexts(opt)}

EveryOption == UNION {UNION {OneOption(p, Options(p)[o]) : o \in DOMAIN Options(p)} : p \in {"agent", "server"}}

\* Where the file comes from: two flags for one path, CONFIG, a rest of
\* arguments that are not flags, files that cannot be read.
PathArgs == {<<>>, <<Arg("c", "c.json")>>, <<Arg("config", "d.json")>>,
             <<Arg("c", "c.json"), Arg("config", "d.json")>>, <<Arg("config", "d.json"), Arg("c", "")>>,
             <<Arg("", "rest"), Arg("c", "c.json")>>, <<Arg("unknown", "x")>>, <<Arg("k", "x"), Arg("k", "y")>>}

PathEnvs == {<<>>} \cup {[e \in {"CONFIG"} |-> p] : p \in {"", "c.json", "d.json", "none"}}

Paths ==
    {Input(p, a, e, [f \in {"c.json", "d.json"} |-> IF f = "c.json" THEN c ELSE Keys([k \in {"key"} |-> "z"])]) :
        p \in {"agent", "server"}, a \in PathArgs, e \in PathEnvs,
        c \in {Missing, Malformed, Keys([k \in {"key"} |-> "y"])}}

\* Two variables for one path; certificate and key from different sources.
StoreFiles ==
    {Input("server", a, [FILE_STORAGE_PATH |-> "x", STORE_FILE |-> t], <<>>) :
        a \in {<<>>, <<Arg("f", "y")>>}, t \in {"", "z"}}

TLSPairs ==
    {Input("server", WithFile(a), e, ThisFile(Keys(k))) :
        a \in {<<>>, <<Arg("grpc-tls-cert", "x")>>, <<Arg("grpc-tls-key", "")>>, <<Arg("grpc-tls-key", "x")>>},
        e \in {<<>>, [GRPC_TLS_KEY |-> "y"], [GRPC_TLS_CERT |-> ""]},
        k \in {<<>>, [grpc_tls_cert |-> "z"], [grpc_tls_cert |-> "z", grpc_tls_key |-> "z"]}}

SmallInputs == EveryOption \cup Paths \cup StoreFiles \cup TLSPairs
=============================================================================
