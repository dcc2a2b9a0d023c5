------------------------- MODULE MCRequestHandling -------------------------
(* A small instance of RequestHandling for TLC: many requests one by one,  *)
(* and a few pairs that run at the same time.                              *)
EXTENDS RequestHandling

Gauge   == [id |-> "a", type |-> "gauge", value |-> TRUE]
Counter == [id |-> "b", type |-> "counter", value |-> TRUE]

Nameless == [Gauge EXCEPT !.id = ""]
NoValue  == [Counter EXCEPT !.value = FALSE]
NoType   == [Gauge EXCEPT !.type = "other"]

Batch == <<Gauge, Counter>>

\* What clients other than the agent send to a route.
Base(route) ==
    [route |-> route, method |-> IF route \in {"value", "index", "ping"} THEN "GET" ELSE "POST",
     type |-> IF route \in {"updateJSON", "updatesJSON", "valueJSON"} THEN "json" ELSE "",
     encoding |-> "", encryption |-> "", hash |-> NoHash, realIP |-> "inside",
     acceptGzip |-> FALSE, body |-> Plain(<<Gauge>>), status |-> "none"]

Payloads(route) ==
    {<<m>> : m \in {Gauge, Nameless, NoValue, NoType}}
        \cup IF route \in {"updatesJSON", "grpc"} THEN {<<>>, <<Gauge, NoValue>>, Batch} ELSE {}

\* One or two things about a request differ from the usual.
Unusual(q) ==
    {[q EXCEPT !.body = Plain(ms), !.acceptGzip = g] : ms \in Payloads(q.route), g \in BOOLEAN}
        \cup {[q EXCEPT !.type = t, !.method = m] : t \in Types, m \in {"GET", "POST"}}
        \cup {[q EXCEPT !.realIP = ip, !.method = m] : ip \in {"outside", "none"}, m \in {"GET", "POST"}}
        \cup {[q EXCEPT !.encoding = "gzip", !.body = b] : b \in {q.body, Wrap(q.body, "gzip")}}
        \cup {[q EXCEPT !.encryption = e, !.body = b] :
                  e \in {"rsa-aes-gcm", "unknown"}, b \in {q.body, Wrap(q.body, "p"), Wrap(q.body, "q")}}
        \cup {[q EXCEPT !.hash = CalcHash(q.body, k)] : k \in HashKeys}
        \cup {[q EXCEPT !.body.json = FALSE]}

Settings(hashKey, privateKey, subnet, file, url) ==
    [hashKey |-> hashKey, privateKey |-> privateKey, subnet |-> subnet, auditFile |-> file, auditURL |-> url]

\* Without audit, with every combination of the other settings.
Servers == {Settings(h, p, s, FALSE, FALSE) : h \in {"", "k"}, p \in {"", "p"}, s \in BOOLEAN}

Alone(srv, q, a) ==
    [server |-> srv, sent |-> [r \in Requests |-> q], from |-> [r \in Requests |-> a], present |-> {1}]

Together(srv, q1, q2) ==
    [server |-> srv, sent |-> <<q1, q2>>, from |-> [r \in Requests |-> OtherClient], present |-> {1, 2}]

\* Two requests at the same time, with and without each observer.
PairScenarios ==
    {Together(Settings("", "", FALSE, f, u), Base("updatesJSON"), Base(route)) :
         f \in BOOLEAN, u \in BOOLEAN, route \in {"grpc", "update"}}
        \cup {Together(Settings("", "", FALSE, TRUE, FALSE), Base("updatesJSON"), Base(route)) :
                  route \in {"value", "valueJSON", "index"}}

SmallScenarios ==
    {Alone(s, AgentRequest(a, Batch), a) : s \in Servers, a \in Agent}
        \cup UNION {{Alone(s, q, OtherClient) : q \in Unusual(Base(route))} :
                      route \in Routes, s \in {Settings("k", "p", TRUE, FALSE, FALSE), Settings("", "", FALSE, TRUE, FALSE)}}
        \cup PairScenarios

\* One JSON update that is audited to a file and a receiver.
AuditedUpdate == {Alone(Settings("", "", FALSE, TRUE, TRUE), Base("updatesJSON"), OtherClient)}
=============================================================================
