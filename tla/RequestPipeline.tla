-------------------------- MODULE RequestPipeline --------------------------
(***************************************************************************)
(* What happens to one request outside of shared state: how the agent      *)
(* builds it (HTTPSender.Send, requestFromMetrics), how the router's        *)
(* middleware, the gRPC interceptors and the handlers take it apart, check *)
(* and refuse it, and how an answer is compressed and signed on its way    *)
(* out.  Bodies are abstracted to the layers around their metrics, hashes  *)
(* to what they were computed from, addresses to whether the subnet        *)
(* contains them.                                                          *)
(***************************************************************************)
EXTENDS Integers, Sequences, FiniteSets

\* "" is no key; hash keys and RSA key pairs are otherwise just names.
CONSTANTS HashKeys, KeyPairs, Names

\* value: whether Value (gauge) or Delta (counter) is present and parses.
Metric == [id : Names \cup {""}, type : {"gauge", "counter", "other"}, value : BOOLEAN]

\* The layers around the text, outermost first; whether the text is JSON of
\* the expected shape; its metrics.
Body == [layers : Seq({"gzip"} \cup KeyPairs), json : BOOLEAN, metrics : Seq(Metric)]

EmptyBody == [layers |-> <<>>, json |-> FALSE, metrics |-> <<>>]
Plain(ms) == [layers |-> <<>>, json |-> TRUE, metrics |-> ms]

Wrap(b, layer) == [b EXCEPT !.layers = <<layer>> \o @]
Peel(b)        == [b EXCEPT !.layers = Tail(@)]
Outer(b)       == IF b.layers = <<>> THEN "none" ELSE Head(b.layers)

NoHash == [body |-> EmptyBody, key |-> ""]

\* SHA-256 of the body and the key; no key, no hash.
CalcHash(b, key) == IF key = "" THEN NoHash ELSE [body |-> b, key |-> key]

Statuses == {"none", "ok", "badRequest", "forbidden", "notFound", "methodNotAllowed", "serverError"}

Routes      == {"update", "updateJSON", "updatesJSON", "value", "valueJSON", "index", "ping", "grpc"}
WriteRoutes == {"update", "updateJSON", "updatesJSON", "grpc"}

Types == {"", "text", "json", "html"}

\* A request: where it goes, its headers and body, and the status with which
\* it was refused, if it was.
Request ==
    [route : Routes, method : {"GET", "POST"}, type : Types, encoding : {"", "gzip"},
     encryption : {"", "rsa-aes-gcm", "unknown"}, hash : [body : Body, key : HashKeys \cup {""}],
     realIP : {"inside", "outside", "none"}, acceptGzip : BOOLEAN, body : Body, status : Statuses]

\* The settings that matter here: Options of the router, interceptors, observers.
Server == [hashKey : HashKeys \cup {""}, privateKey : KeyPairs \cup {""}, subnet : BOOLEAN,
           auditFile : BOOLEAN, auditURL : BOOLEAN]

-----------------------------------------------------------------------------
(* The agent.                                                               *)

\* AgentConfig as far as the senders use it, and the address LocalIP finds.
Agent == [grpc : BOOLEAN, hashKey : HashKeys \cup {""}, publicKey : KeyPairs \cup {""},
          ip : {"inside", "outside"}]

\* prepareRequestBody, then Encrypt if there is a public key.
SentBody(a, ms) ==
    LET compressed == Wrap(Plain(ms), "gzip")
    IN  IF a.publicKey = "" THEN compressed ELSE Wrap(compressed, a.publicKey)

\* Mutant of SentHash: the hash is taken before encryption.
HashBeforeEncryption(a, ms) == CalcHash(Wrap(Plain(ms), "gzip"), a.hashKey)

\* Computed from the bytes that are sent.
SentHash(a, ms) == CalcHash(SentBody(a, ms), a.hashKey)

\* sendAttempt.
HTTPRequest(a, ms) ==
    [route |-> "updatesJSON", method |-> "POST", type |-> "json", encoding |-> "gzip",
     encryption |-> IF a.publicKey = "" THEN "" ELSE "rsa-aes-gcm",
     hash |-> SentHash(a, ms), realIP |-> a.ip, acceptGzip |-> TRUE,
     body |-> SentBody(a, ms), status |-> "none"]

\* requestFromMetrics and contextWithRealIP: metrics and address only.  The
\* agent's metrics all have a name and a value.
GRPCRequest(a, ms) ==
    [route |-> "grpc", method |-> "POST", type |-> "", encoding |-> "", encryption |-> "",
     hash |-> NoHash, realIP |-> a.ip, acceptGzip |-> FALSE, body |-> Plain(ms), status |-> "none"]

\* newMetricsSender.
AgentRequest(a, ms) == IF a.grpc THEN GRPCRequest(a, ms) ELSE HTTPRequest(a, ms)

-----------------------------------------------------------------------------
(* Middleware, in the order of the router.  Each one passes the request on, *)
(* changed or not, or refuses it.                                           *)

Refuse(q, status) == [q EXCEPT !.status = status]
Passed(q) == q.status = "none"

HashMismatch(s, q) == s.hashKey # "" /\ q.hash # NoHash /\ q.hash # CalcHash(q.body, s.hashKey)

\* Only a hash that was sent is compared.
WithHash(s, q) == IF HashMismatch(s, q) THEN Refuse(q, "badRequest") ELSE q

\* Not installed without a private key; the header is removed with the layer.
WithDecryption(s, q) ==
    IF s.privateKey = "" \/ q.encryption = "" THEN q
    ELSE IF q.encryption = "rsa-aes-gcm" /\ Outer(q.body) = s.privateKey
         THEN [q EXCEPT !.body = Peel(@), !.encryption = ""]
         ELSE Refuse(q, "badRequest")

WithGzip(q) ==
    IF q.encoding = "" THEN q
    ELSE IF Outer(q.body) = "gzip" THEN [q EXCEPT !.body = Peel(@)]
    ELSE Refuse(q, "serverError")

\* chi: the paths without HandleFunc accept one method.
Routed(q) ==
    IF \/ q.route \in {"updateJSON", "updatesJSON", "valueJSON"} /\ q.method # "POST"
       \/ q.route \in {"value", "index", "ping"} /\ q.method # "GET"
    THEN Refuse(q, "methodNotAllowed") ELSE q

\* The group of write routes; the interceptor sees every call.
Guarded(q) == q.route \in WriteRoutes

\* WithTrustedSubnet, TrustedSubnetInterceptor: no or no valid address is refused.
WithTrustedSubnet(s, q) ==
    IF s.subnet /\ Guarded(q) /\ q.realIP # "inside" THEN Refuse(q, "forbidden") ELSE q

-----------------------------------------------------------------------------
(* Checks of the handlers before they call the service.                     *)

\* validateMetric.
ValidateMetric(m) ==
    IF m.id = "" THEN "notFound"
    ELSE IF m.type = "other" \/ ~m.value THEN "badRequest" ELSE "ok"

\* Mutant of CheckBatch: only the first metric is validated.
CheckFirst(q) ==
    IF q.body.metrics = <<>> \/ ValidateMetric(q.body.metrics[1]) = "ok" THEN q
    ELSE Refuse(q, ValidateMetric(q.body.metrics[1]))

\* The loop of UpdatesJSON: the first invalid metric refuses the whole batch.
CheckBatch(q) ==
    LET ms      == q.body.metrics
        Invalid == {i \in 1..Len(ms) : ValidateMetric(ms[i]) # "ok"}
    IN  IF Invalid = {} THEN q
        ELSE Refuse(q, ValidateMetric(ms[CHOOSE i \in Invalid : \A j \in Invalid : i <= j]))

\* decodeJSONRequest: JSON content type, and a body that is JSON.
Decodes(q) == q.type = "json" /\ q.body.layers = <<>> /\ q.body.json

\* Update: metric and value come in the path.
CheckUpdate(q) ==
    IF q.method # "POST" THEN Refuse(q, "methodNotAllowed")
    ELSE IF q.type \notin {"", "text"} THEN Refuse(q, "badRequest") ELSE CheckBatch(q)

\* Value and ValueJSON answer 404 to a nameless metric or an unknown type.
CheckValue(q) ==
    IF q.body.metrics[1].id = "" \/ q.body.metrics[1].type = "other" THEN Refuse(q, "notFound") ELSE q

\* metricsFromProto: an absent value or delta is 0 for protobuf.
FromProto(q) ==
    IF \E i \in 1..Len(q.body.metrics) : q.body.metrics[i].id = "" \/ q.body.metrics[i].type = "other"
    THEN Refuse(q, "badRequest")
    ELSE [q EXCEPT !.body.metrics = [i \in 1..Len(@) |-> [@[i] EXCEPT !.value = TRUE]]]

Checked(q) ==
    CASE q.route = "update" -> CheckUpdate(q)
      [] q.route \in {"updateJSON", "updatesJSON"} -> IF Decodes(q) THEN CheckBatch(q) ELSE Refuse(q, "badRequest")
      [] q.route = "valueJSON" -> IF Decodes(q) THEN CheckValue(q) ELSE Refuse(q, "badRequest")
      [] q.route = "value" -> CheckValue(q)
      [] q.route = "grpc" -> FromProto(q)
      [] OTHER -> q

\* The request as it reaches the service, or refused.
HTTPLayers(s, q) ==
    LET h == WithHash(s, q)
        d == IF Passed(h) THEN WithDecryption(s, h) ELSE h
        z == IF Passed(d) THEN WithGzip(d) ELSE d
    IN  IF Passed(z) THEN Routed(z) ELSE z

Admitted(s, q) ==
    LET l == IF q.route = "grpc" THEN q ELSE HTTPLayers(s, q)
        t == IF Passed(l) THEN WithTrustedSubnet(s, l) ELSE l
    IN  IF Passed(t) THEN Checked(t) ELSE t

-----------------------------------------------------------------------------
(* The answer.                                                              *)

\* The content type a handler sets.  ValueJSON also names the metric that the
\* service does not have.
AnswerType(q, status) ==
    CASE status = "ok" /\ q.route \in {"update", "value"}                 -> "text"
      [] status = "ok" /\ q.route = "index"                               -> "html"
      [] status = "ok" /\ q.route \in {"updateJSON", "valueJSON"}          -> "json"
      [] status = "notFound" /\ q.route = "valueJSON" /\ Passed(q)         -> "json"
      [] OTHER                                                            -> ""

Answer(q, status) ==
    LET type == AnswerType(q, status)
    IN  [status |-> status, type |-> type, encoding |-> "", hash |-> NoHash,
         body |-> IF type = "" \/ q.route = "update" THEN EmptyBody ELSE Plain(q.body.metrics)]

\* compressWriter: JSON and HTML for clients that accept gzip.
Compressed(q, a) ==
    IF q.acceptGzip /\ a.type \in {"json", "html"}
    THEN [a EXCEPT !.encoding = "gzip", !.body = Wrap(@, "gzip")] ELSE a

\* hashResponseWriter signs the bytes that leave it.
Signed(s, a) == [a EXCEPT !.hash = CalcHash(a.body, s.hashKey)]

\* Mutant of Wire: gzip is registered before hash.
WireSignedFirst(s, in, q, status) ==
    IF q.route = "grpc" \/ HashMismatch(s, in) THEN Answer(q, status)
    ELSE Compressed(q, Signed(s, Answer(q, status)))

\* From the handler outwards: gzip, then hash.  in is the request as it came,
\* q what was left of it; WithHash answers a mismatch itself, unsigned.
Wire(s, in, q, status) ==
    IF q.route = "grpc" \/ HashMismatch(s, in) THEN Answer(q, status)
    ELSE Signed(s, Compressed(q, Answer(q, status)))
=============================================================================
