----------------------- MODULE RequestHandlingProofs -----------------------
(***************************************************************************)
(* Proofs about RequestPipeline and RequestHandling, for any keys, names,  *)
(* settings and requests and any number of requests at the same time.      *)
(***************************************************************************)
EXTENDS RequestHandling, SequenceTheorems, WellFoundedInduction, TLAPS

-----------------------------------------------------------------------------
(* Facts about numbers and sequences.                                       *)

LEMMA LeastOfNaturals ==
  ASSUME NEW S \in SUBSET Nat, S # {}
  PROVE  \E n \in S : \A j \in S : n <= j
<1>1. PICK n \in S : \A j \in S : <<j, n>> \notin OpToRel(<, Nat)
  BY NatLessThanWellFounded, WFMin
<1>2. \A j \in S : ~(j < n)
  BY <1>1 DEF OpToRel
<1> QED  BY <1>2

LEMMA FunctionIsSeq ==
  ASSUME NEW S, NEW n \in Nat, NEW f \in [1..n -> S]
  PROVE  f \in Seq(S) /\ Len(f) = n
  OBVIOUS

-----------------------------------------------------------------------------
(* The layers, one by one.                                                  *)

\* What no layer changes.
Keeps(q, x) ==
    /\ x \in Request
    /\ x.route = q.route /\ x.method = q.method /\ x.realIP = q.realIP /\ x.acceptGzip = q.acceptGzip

LEMMA RefuseKeeps ==
  ASSUME NEW q \in Request, NEW st \in Statuses
  PROVE  Keeps(q, Refuse(q, st)) /\ Refuse(q, st).status = st /\ Refuse(q, st).body = q.body
  BY DEF Keeps, Refuse, Request

LEMMA PeelType ==
  ASSUME NEW b \in Body, b.layers # <<>>
  PROVE  Peel(b) \in Body /\ Peel(b).layers = Tail(b.layers) /\ Peel(b).json = b.json /\ Peel(b).metrics = b.metrics
  BY DEF Peel, Body

LEMMA WrapType ==
  ASSUME NEW b \in Body, NEW l \in {"gzip"} \cup KeyPairs
  PROVE  /\ Wrap(b, l) \in Body
         /\ Outer(Wrap(b, l)) = l
         /\ Peel(Wrap(b, l)) = b
<1> DEFINE w == Wrap(b, l)
<1>1. <<l>> \in Seq({"gzip"} \cup KeyPairs) /\ b.layers \in Seq({"gzip"} \cup KeyPairs)
  BY DEF Body
<1>2. <<l>> \o b.layers \in Seq({"gzip"} \cup KeyPairs) /\ <<l>> \o b.layers # <<>>
  BY <1>1, ConcatProperties
<1>3. w \in Body /\ w.layers = <<l>> \o b.layers
  BY <1>2 DEF Wrap, Body
<1>4. Head(w.layers) = l
  BY <1>1, <1>2, <1>3, ConcatProperties
<1>5. Tail(w.layers) = b.layers
  BY <1>1, <1>2, <1>3
<1>6. Peel(w) = b
  BY <1>3, <1>5 DEF Peel, Wrap, Body
<1>7. Outer(w) = l
  BY <1>2, <1>3, <1>4 DEF Outer
<1> QED  BY <1>3, <1>6, <1>7

LEMMA WithHashKeeps ==
  ASSUME NEW s \in Server, NEW q \in Request
  PROVE  Keeps(q, WithHash(s, q))
  BY RefuseKeeps DEF WithHash, Keeps, Statuses

LEMMA WithDecryptionKeeps ==
  ASSUME NEW s \in Server, NEW q \in Request
  PROVE  Keeps(q, WithDecryption(s, q))
<1>1. CASE s.privateKey # "" /\ q.encryption = "rsa-aes-gcm" /\ Outer(q.body) = s.privateKey
  <2>1. q.body.layers # <<>>
    BY <1>1, NamesAssumption DEF Outer, Server
  <2>2. Peel(q.body) \in Body
    BY <2>1, PeelType DEF Request
  <2>3. WithDecryption(s, q) = [q EXCEPT !.body = Peel(@), !.encryption = ""]
    BY <1>1 DEF WithDecryption
  <2> QED  BY <2>2, <2>3 DEF Keeps, Request
<1>2. CASE ~(s.privateKey # "" /\ q.encryption = "rsa-aes-gcm" /\ Outer(q.body) = s.privateKey)
  BY <1>2, RefuseKeeps DEF WithDecryption, Keeps, Statuses
<1> QED  BY <1>1, <1>2

LEMMA WithGzipKeeps ==
  ASSUME NEW q \in Request
  PROVE  Keeps(q, WithGzip(q))
<1>1. CASE q.encoding # "" /\ Outer(q.body) = "gzip"
  <2>1. q.body.layers # <<>>
    BY <1>1 DEF Outer
  <2>2. Peel(q.body) \in Body
    BY <2>1, PeelType DEF Request
  <2> QED  BY <1>1, <2>2 DEF WithGzip, Keeps, Request
<1>2. CASE ~(q.encoding # "" /\ Outer(q.body) = "gzip")
  BY <1>2, RefuseKeeps DEF WithGzip, Keeps, Statuses
<1> QED  BY <1>1, <1>2

LEMMA ValidateMetricType ==
  ASSUME NEW m
  PROVE  ValidateMetric(m) \in {"notFound", "badRequest", "ok"}
  BY DEF ValidateMetric

\* A batch passes whole or is refused, and it passes only if all of it is valid.
LEMMA CheckBatchResult ==
  ASSUME NEW q \in Request
  PROVE  \/ /\ CheckBatch(q) = q
            /\ \A i \in 1..Len(q.body.metrics) : ValidateMetric(q.body.metrics[i]) = "ok"
         \/ /\ Keeps(q, CheckBatch(q)) /\ ~Passed(CheckBatch(q))
            /\ \E i \in 1..Len(q.body.metrics) : ValidateMetric(q.body.metrics[i]) # "ok"
<1> DEFINE ms == q.body.metrics
           Invalid == {i \in 1..Len(ms) : ValidateMetric(ms[i]) # "ok"}
           st == ValidateMetric(ms[CHOOSE i \in Invalid : \A j \in Invalid : i <= j])
<1>1. CASE Invalid = {}
  BY <1>1 DEF CheckBatch
<1>2. CASE Invalid # {}
  <2>1. CheckBatch(q) = Refuse(q, st)
    BY <1>2 DEF CheckBatch
  <2>2. PICK n \in Invalid : \A j \in Invalid : n <= j
    <3>1. Invalid \in SUBSET Nat
      OBVIOUS
    <3> HIDE DEF Invalid
    <3> QED  BY <1>2, <3>1, LeastOfNaturals
  <2>3. (CHOOSE i \in Invalid : \A j \in Invalid : i <= j) \in Invalid
    <3> HIDE DEF Invalid
    <3> QED  BY <2>2
  <2>4. st \in {"notFound", "badRequest"}
    BY <2>3, ValidateMetricType
  <2> QED  BY <1>2, <2>1, <2>4, RefuseKeeps DEF Passed, Statuses
<1> QED  BY <1>1, <1>2

\* The metrics that leave metricsFromProto have a value, and are otherwise the
\* ones that came in.
LEMMA FromProtoResult ==
  ASSUME NEW q \in Request, q.status = "none"
  PROVE  /\ Keeps(q, FromProto(q))
         /\ Passed(FromProto(q)) =>
              \A i \in 1..Len(FromProto(q).body.metrics) : ValidateMetric(FromProto(q).body.metrics[i]) = "ok"
         /\ (\A i \in 1..Len(q.body.metrics) : ValidateMetric(q.body.metrics[i]) = "ok")
              => Passed(FromProto(q)) /\ FromProto(q).body.metrics = q.body.metrics
<1> DEFINE ms == q.body.metrics
           Bad == \E i \in 1..Len(ms) : ms[i].id = "" \/ ms[i].type = "other"
           filled == [i \in 1..Len(ms) |-> [ms[i] EXCEPT !.value = TRUE]]
<1>1. ms \in Seq(Metric) /\ Len(ms) \in Nat /\ \A i \in 1..Len(ms) : ms[i] \in Metric
  <2>1. ms \in Seq(Metric)
    BY DEF Request, Body
  <2> QED  BY <2>1, ElementOfSeq
<1>2. CASE Bad
  <2>1. FromProto(q) = Refuse(q, "badRequest")
    BY <1>2 DEF FromProto
  <2>2. \E i \in 1..Len(ms) : ValidateMetric(ms[i]) # "ok"
    BY <1>2 DEF ValidateMetric
  <2> QED  BY <2>1, <2>2, RefuseKeeps DEF Passed, Statuses
<1>3. CASE ~Bad
  <2>1. FromProto(q) = [q EXCEPT !.body.metrics = filled]
    BY <1>3 DEF FromProto
  <2>2. \A i \in 1..Len(ms) : filled[i] \in Metric /\ ValidateMetric(filled[i]) = "ok"
    BY <1>1, <1>3 DEF Metric, ValidateMetric
  <2>3. filled \in Seq(Metric) /\ Len(filled) = Len(ms)
    <3>1. filled \in [1..Len(ms) -> Metric]
      BY <2>2
    <3> HIDE DEF filled
    <3> QED  BY <1>1, <3>1, FunctionIsSeq
  <2>4. (\A i \in 1..Len(ms) : ValidateMetric(ms[i]) = "ok") => filled = ms
    <3> SUFFICES ASSUME \A i \in 1..Len(ms) : ValidateMetric(ms[i]) = "ok"
                 PROVE  filled = ms
      OBVIOUS
    <3>1. \A i \in 1..Len(ms) : filled[i] = ms[i]
      BY <1>1 DEF Metric, ValidateMetric
    <3> HIDE DEF filled
    <3> QED  BY <1>1, <2>3, <3>1, SeqEqual
  <2>5. Keeps(q, FromProto(q)) /\ FromProto(q).status = q.status /\ FromProto(q).body.metrics = filled
    <3> HIDE DEF filled
    <3> DEFINE body == [q.body EXCEPT !.metrics = filled]
    <3>1. body \in Body /\ body.metrics = filled
      BY <2>3 DEF Request, Body
    <3>2. FromProto(q) = [q EXCEPT !.body = body]
      BY <2>1
    <3> HIDE DEF body
    <3> QED  BY <3>1, <3>2 DEF Keeps, Request
  <2> QED
    <3> HIDE DEF filled
    <3> QED  BY <2>2, <2>3, <2>4, <2>5 DEF Passed
<1> QED  BY <1>2, <1>3

LEMMA RoutedKeeps ==
  ASSUME NEW q \in Request
  PROVE  Keeps(q, Routed(q)) /\ (Passed(Routed(q)) => Routed(q) = q)
  BY RefuseKeeps DEF Routed, Keeps, Statuses, Passed

LEMMA KeepsTransitive ==
  ASSUME NEW q, NEW x, NEW y, Keeps(q, x), Keeps(x, y)
  PROVE  Keeps(q, y)
  BY DEF Keeps

LEMMA HTTPLayersKeeps ==
  ASSUME NEW s \in Server, NEW q \in Request
  PROVE  Keeps(q, HTTPLayers(s, q))
<1> DEFINE h == WithHash(s, q)
           d == IF Passed(h) THEN WithDecryption(s, h) ELSE h
           z == IF Passed(d) THEN WithGzip(d) ELSE d
           l == IF Passed(z) THEN Routed(z) ELSE z
<1>1. Keeps(q, h) /\ h \in Request
  BY WithHashKeeps DEF Keeps
<1>2. Keeps(q, d) /\ d \in Request
  <2> HIDE DEF h
  <2>1. d \in {h, WithDecryption(s, h)} /\ Keeps(h, WithDecryption(s, h))
    BY <1>1, WithDecryptionKeeps
  <2> HIDE DEF d
  <2>2. Keeps(q, d)
    BY <1>1, <2>1, KeepsTransitive
  <2> QED  BY <2>2 DEF Keeps
<1>3. Keeps(q, z) /\ z \in Request
  <2> HIDE DEF d
  <2>1. z \in {d, WithGzip(d)} /\ Keeps(d, WithGzip(d))
    BY <1>2, WithGzipKeeps
  <2> HIDE DEF z
  <2>2. Keeps(q, z)
    BY <1>2, <2>1, KeepsTransitive
  <2> QED  BY <2>2 DEF Keeps
<1>4. Keeps(q, l)
  <2> HIDE DEF z
  <2>1. l \in {z, Routed(z)} /\ Keeps(z, Routed(z))
    BY <1>3, RoutedKeeps
  <2> HIDE DEF l
  <2> QED  BY <1>3, <2>1, KeepsTransitive
<1>5. HTTPLayers(s, q) = l
  BY DEF HTTPLayers
<1> QED  BY <1>4, <1>5

\* What the handlers let pass on a write route is valid.
LEMMA CheckedResult ==
  ASSUME NEW q \in Request, q.status = "none"
  PROVE  /\ Keeps(q, Checked(q))
         /\ q.route \in WriteRoutes /\ Passed(Checked(q)) =>
              \A i \in 1..Len(Checked(q).body.metrics) : ValidateMetric(Checked(q).body.metrics[i]) = "ok"
<1>1. CASE q.route = "grpc"
  <2>1. Checked(q) = FromProto(q)
    BY <1>1 DEF Checked
  <2> QED  BY <2>1, FromProtoResult
<1>2. Keeps(q, q)
  BY DEF Keeps
<1>3. CASE q.route \in {"update", "updateJSON", "updatesJSON"}
  <2>1. \/ Checked(q) = CheckBatch(q)
        \/ Checked(q) \in {Refuse(q, "badRequest"), Refuse(q, "methodNotAllowed")}
    BY <1>3 DEF Checked, CheckUpdate
  <2>2. CASE Checked(q) = CheckBatch(q)
    BY <1>2, <2>2, CheckBatchResult
  <2>3. CASE Checked(q) \in {Refuse(q, "badRequest"), Refuse(q, "methodNotAllowed")}
    BY <2>3, RefuseKeeps DEF Passed, Statuses
  <2> QED  BY <2>1, <2>2, <2>3
<1>4. CASE q.route \notin WriteRoutes
  <2>1. Checked(q) \in {q, Refuse(q, "badRequest"), Refuse(q, "notFound")}
    BY <1>4 DEF Checked, CheckValue, WriteRoutes
  <2> QED  BY <1>2, <1>4, <2>1, RefuseKeeps DEF Statuses
<1> QED  BY <1>1, <1>3, <1>4 DEF WriteRoutes

\* The whole way in: the route stays, and what passes on a write route came
\* from inside the subnet and is valid.
LEMMA AdmittedResult ==
  ASSUME NEW s \in Server, NEW q \in Request, q.status = "none"
  PROVE  /\ Keeps(q, Admitted(s, q))
         /\ q.route \in WriteRoutes /\ Passed(Admitted(s, q)) =>
              /\ s.subnet => q.realIP = "inside"
              /\ \A i \in 1..Len(Admitted(s, q).body.metrics) :
                   ValidateMetric(Admitted(s, q).body.metrics[i]) = "ok"
<1> DEFINE l == IF q.route = "grpc" THEN q ELSE HTTPLayers(s, q)
           t == IF Passed(l) THEN WithTrustedSubnet(s, l) ELSE l
           c == IF Passed(t) THEN Checked(t) ELSE t
<1>1. Keeps(q, l) /\ l \in Request
  BY HTTPLayersKeeps DEF Keeps
<1>2. /\ Keeps(q, t) /\ t \in Request
      /\ Passed(t) /\ q.route \in WriteRoutes => (s.subnet => q.realIP = "inside")
  <2> HIDE DEF l
  <2>1. CASE t = l /\ ~(Passed(l) /\ s.subnet /\ Guarded(l) /\ l.realIP # "inside")
    <3> HIDE DEF t
    <3>1. Keeps(q, t) /\ t \in Request
      BY <1>1, <2>1
    <3>2. l.route = q.route /\ l.realIP = q.realIP
      BY <1>1 DEF Keeps
    <3> QED  BY <2>1, <3>1, <3>2 DEF Guarded
  <2>2. CASE t = Refuse(l, "forbidden")
    <3> HIDE DEF t
    <3>1. Keeps(l, t) /\ t.status = "forbidden"
      BY <1>1, <2>2, RefuseKeeps DEF Statuses
    <3>2. Keeps(q, t)
      BY <1>1, <3>1, KeepsTransitive
    <3> QED  BY <3>1, <3>2 DEF Passed, Keeps
  <2> QED  BY <2>1, <2>2 DEF WithTrustedSubnet
<1>3. c = Admitted(s, q)
  BY DEF Admitted
<1>4. /\ Keeps(q, c)
      /\ q.route \in WriteRoutes /\ Passed(c) =>
           Passed(t) /\ \A i \in 1..Len(c.body.metrics) : ValidateMetric(c.body.metrics[i]) = "ok"
  <2> HIDE DEF t
  <2>1. CASE Passed(t)
    <3>1. c = Checked(t) /\ t.route = q.route
      BY <1>2, <2>1 DEF Keeps
    <3>2. /\ Keeps(t, Checked(t))
          /\ t.route \in WriteRoutes /\ Passed(Checked(t)) =>
               \A i \in 1..Len(Checked(t).body.metrics) : ValidateMetric(Checked(t).body.metrics[i]) = "ok"
      BY <1>2, <2>1, CheckedResult DEF Passed
    <3> HIDE DEF c
    <3>3. Keeps(q, c)
      BY <1>2, <3>1, <3>2, KeepsTransitive
    <3> QED  BY <2>1, <3>1, <3>2, <3>3
  <2>2. CASE ~Passed(t)
    BY <1>2, <2>2
  <2> QED  BY <2>1, <2>2
<1> HIDE DEF c, t
<1> QED  BY <1>2, <1>3, <1>4

LEMMA PlainType ==
  ASSUME NEW ms \in Seq(Metric)
  PROVE  Plain(ms) \in Body /\ Plain(ms).layers = <<>> /\ Plain(ms).json = TRUE /\ Plain(ms).metrics = ms
<1>1. <<>> \in Seq({"gzip"} \cup KeyPairs)
  BY EmptySeq
<1> QED  BY <1>1 DEF Plain, Body

\* What the agent sends is understood: the layers undo what the sender did, in
\* the opposite order.
LEMMA AgentAdmitted ==
  ASSUME NEW s \in Server, NEW a \in Agent, NEW ms \in Seq(Metric),
         \A i \in 1..Len(ms) : ValidateMetric(ms[i]) = "ok",
         AgentRequest(a, ms) \in Request,
         a.grpc \/ /\ s.hashKey = "" \/ a.hashKey \in {"", s.hashKey}
                   /\ a.publicKey \in {"", s.privateKey},
         s.subnet => a.ip = "inside"
  PROVE  /\ Passed(Admitted(s, AgentRequest(a, ms)))
         /\ Admitted(s, AgentRequest(a, ms)).body.metrics = ms
         /\ Admitted(s, AgentRequest(a, ms)).route \in WriteRoutes
<1> DEFINE q == AgentRequest(a, ms)
<1>1. CASE a.grpc
  <2>1. q = GRPCRequest(a, ms)
    BY <1>1 DEF AgentRequest
  <2>2. q.status = "none" /\ q.route = "grpc" /\ q.realIP = a.ip /\ q.body.metrics = ms
    <3> HIDE DEF q
    <3> QED  BY <2>1, PlainType DEF GRPCRequest
  <2>3. WithTrustedSubnet(s, q) = q
    BY <2>2 DEF WithTrustedSubnet
  <2>4. Admitted(s, q) = FromProto(q)
    BY <2>2, <2>3 DEF Admitted, Passed, Checked
  <2>5. Passed(FromProto(q)) /\ FromProto(q).body.metrics = ms /\ FromProto(q).route = "grpc"
    <3> HIDE DEF q
    <3>1. q \in Request
      BY DEF q
    <3> QED  BY <2>2, <3>1, FromProtoResult DEF Keeps
  <2> QED  BY <2>4, <2>5 DEF WriteRoutes
<1>2. CASE ~a.grpc
  <2> DEFINE z == Wrap(Plain(ms), "gzip")
             d == [q EXCEPT !.body = z, !.encryption = ""]
             p == [d EXCEPT !.body = Plain(ms)]
  <2>1. q = HTTPRequest(a, ms) /\ q \in Request
    BY <1>2 DEF AgentRequest
  <2>2. /\ q.status = "none" /\ q.route = "updatesJSON" /\ q.method = "POST" /\ q.type = "json"
        /\ q.encoding = "gzip" /\ q.realIP = a.ip /\ q.body = SentBody(a, ms)
        /\ q.hash = CalcHash(q.body, a.hashKey)
        /\ q.encryption = IF a.publicKey = "" THEN "" ELSE "rsa-aes-gcm"
    <3> HIDE DEF q
    <3> QED  BY <2>1 DEF HTTPRequest, SentHash
  <2>3. Plain(ms) \in Body
    BY PlainType
  <2>4. z \in Body /\ Outer(z) = "gzip" /\ Peel(z) = Plain(ms)
    BY <2>3, WrapType
  <2>5. WithHash(s, q) = q
    BY <1>2, <2>2 DEF WithHash, HashMismatch, CalcHash
  <2>6. WithDecryption(s, q) = d
    <3>1. CASE a.publicKey = ""
      <4>1. q.body = z /\ q.encryption = ""
        BY <2>2, <3>1 DEF SentBody
      <4> HIDE DEF z
      <4>2. d = q
        BY <2>1, <4>1 DEF Request
      <4> QED  BY <4>1, <4>2 DEF WithDecryption
    <3>2. CASE a.publicKey # ""
      <4>1. a.publicKey \in KeyPairs /\ s.privateKey = a.publicKey
        BY <1>2, <3>2 DEF Agent
      <4>2. q.body = Wrap(z, a.publicKey) /\ q.encryption = "rsa-aes-gcm"
        BY <2>2, <3>2 DEF SentBody
      <4> HIDE DEF z, q
      <4>3. Outer(q.body) = s.privateKey /\ Peel(q.body) = z
        BY <2>4, <4>1, <4>2, WrapType
      <4> QED  BY <3>2, <4>1, <4>2, <4>3 DEF WithDecryption
    <3> QED  BY <3>1, <3>2
  <2>7. /\ d.status = "none" /\ d.route = "updatesJSON" /\ d.method = "POST" /\ d.type = "json"
        /\ d.encoding = "gzip" /\ d.realIP = a.ip /\ d.body = z /\ d \in Request
    <3> HIDE DEF z, q
    <3> QED  BY <2>1, <2>2, <2>4 DEF Request
  <2>8. WithGzip(d) = p
    <3> HIDE DEF d
    <3> QED  BY <2>4, <2>7 DEF WithGzip
  <2>9. /\ p.status = "none" /\ p.route = "updatesJSON" /\ p.method = "POST" /\ p.type = "json"
        /\ p.realIP = a.ip /\ p.body = Plain(ms) /\ p \in Request
    <3> HIDE DEF d
    <3> QED  BY <2>3, <2>7 DEF Request
  <2> HIDE DEF p, d, q
  <2>10. Routed(p) = p /\ WithTrustedSubnet(s, p) = p
    BY <2>9 DEF Routed, WithTrustedSubnet
  <2>11. HTTPLayers(s, q) = p
    BY <2>2, <2>5, <2>6, <2>7, <2>8, <2>9, <2>10 DEF HTTPLayers, Passed
  <2>12. p.body.metrics = ms /\ Decodes(p)
    BY <2>9, PlainType DEF Decodes
  <2>13. CheckBatch(p) = p
    BY <2>9, <2>12, CheckBatchResult
  <2>14. Checked(p) = p
    BY <2>9, <2>12, <2>13 DEF Checked
  <2>15. Admitted(s, q) = p
    BY <2>2, <2>9, <2>10, <2>11, <2>14 DEF Admitted, Passed
  <2> QED  BY <2>9, <2>12, <2>15 DEF Passed, WriteRoutes, q
<1> QED  BY <1>1, <1>2

\* What leaves on the wire of an HTTP route can be verified and decompressed.
LEMMA WireVerifiable ==
  ASSUME NEW s \in Server, NEW in \in Request, NEW q, Keeps(in, q), in.route # "grpc", NEW st
  PROVE  LET x == Wire(s, in, q, st)
         IN  /\ ~HashMismatch(s, in) => x.hash = CalcHash(x.body, s.hashKey)
             /\ (x.encoding = "gzip") = (Outer(x.body) = "gzip")
             /\ x.encoding = "gzip" => in.acceptGzip
<1> DEFINE a == Answer(q, st)
           c == Compressed(q, a)
<1>1. q \in Request /\ q.route # "grpc" /\ q.acceptGzip = in.acceptGzip
  BY DEF Keeps
<1>2. EmptyBody \in Body
  <2>1. <<>> \in Seq({"gzip"} \cup KeyPairs) /\ <<>> \in Seq(Metric)
    BY EmptySeq
  <2> QED  BY <2>1 DEF EmptyBody, Body
<1>3. q.body.metrics \in Seq(Metric)
  BY <1>1 DEF Request, Body
<1>4. EmptyBody.layers = <<>> /\ Plain(q.body.metrics).layers = <<>> /\ Plain(q.body.metrics) \in Body
  BY <1>3, PlainType DEF EmptyBody
<1>5. a.encoding = "" /\ a.body \in {EmptyBody, Plain(q.body.metrics)} /\ DOMAIN a = {"status", "type", "encoding", "hash", "body"}
  BY DEF Answer
<1>6. a.body \in Body /\ Outer(a.body) = "none"
  BY <1>2, <1>4, <1>5 DEF Outer
<1>7. Outer(Wrap(a.body, "gzip")) = "gzip"
  BY <1>6, WrapType
<1>8. /\ (c.encoding = "gzip") = (Outer(c.body) = "gzip")
      /\ c.encoding = "gzip" => q.acceptGzip
      /\ DOMAIN c = DOMAIN a
  <2> HIDE DEF a
  <2> QED  BY <1>5, <1>6, <1>7 DEF Compressed
<1>9. CASE HashMismatch(s, in)
  <2>1. Wire(s, in, q, st) = a
    BY <1>9 DEF Wire
  <2> HIDE DEF a
  <2> QED  BY <1>5, <1>6, <1>9, <2>1
<1>10. CASE ~HashMismatch(s, in)
  <2>1. Wire(s, in, q, st) = Signed(s, c)
    BY <1>1, <1>10 DEF Wire
  <2> HIDE DEF c
  <2>2. LET x == Signed(s, c)
        IN  x.hash = CalcHash(c.body, s.hashKey) /\ x.body = c.body /\ x.encoding = c.encoding
    BY <1>5, <1>8 DEF Signed
  <2> QED  BY <1>1, <1>8, <2>1, <2>2
<1> QED  BY <1>9, <1>10

-----------------------------------------------------------------------------
(* The inductive invariant.                                                 *)

\* The settings and what was sent, by whom.
Given ==
    /\ server \in Server
    /\ sent \in [Requests -> Request] /\ \A r \in Requests : Passed(sent[r])
    /\ from \in [Requests -> Agent \cup {OtherClient}]
    /\ \A r \in Requests : from[r] # OtherClient =>
         LET ms == sent[r].body.metrics
         IN  sent[r] = AgentRequest(from[r], ms) /\ \A i \in 1..Len(ms) : ValidateMetric(ms[i]) = "ok"

Shapes ==
    /\ DOMAIN request = Requests /\ request = [r \in DOMAIN request |-> request[r]]
    /\ DOMAIN response = Requests /\ response = [r \in DOMAIN response |-> response[r]]

AuditSteps == {"file", "fileLock", "fileWrite", "remote", "remoteWait"}

\* What is known of a request where it is: it was admitted, stored, answered.
Progress(r) ==
    /\ pc[r] \notin {"absent", "sent"} => request[r] = Admitted(server, sent[r])
    /\ pc[r] \in {"absent", "sent", "service"} => r \notin DOMAIN stored /\ r \notin storeErr
    /\ pc[r] = "service" => Passed(request[r])
    /\ pc[r] \in AuditSteps => r \in DOMAIN stored \ storeErr /\ status[r] = "ok"
    /\ r \in DOMAIN stored => Passed(request[r]) /\ IsWrite(r) /\ stored[r] = Metrics(r)
    /\ pc[r] \in {"respond", "done"} /\ Passed(request[r]) /\ IsWrite(r) =>
         r \in storeErr \/ (r \in DOMAIN stored /\ status[r] = "ok")
    /\ pc[r] = "done" => response[r] = Wire(server, sent[r], request[r], status[r])

\* Events are of updates that were stored and are reported as a success.
EventsTrue == \A r \in Requests, o \in Observers :
    <<o, r>> \in audited => r \in DOMAIN stored \ storeErr /\ status[r] = "ok"

\* What the observers have seen of an update whose client stays.
Seen(r) ==
    r \in DOMAIN stored \ (storeErr \cup gone) /\ stored[r] # <<>> =>
        /\ server.auditFile /\ pc[r] \in {"remote", "remoteWait", "respond", "done"} =>
             <<"file", r>> \in audited \cup sinkErr
        /\ server.auditURL /\ pc[r] \in {"respond", "done"} => <<"remote", r>> \in audited \cup sinkErr

\* The file is closed when no request runs whose client has stayed.
Stopping ==
    /\ fileOpen <=> server.auditFile /\ phase \notin {"closed", "exited"}
    /\ phase \in {"closing", "closed", "exited"} => \A r \in Requests : Running(r) => r \in gone

IInv ==
    /\ TypeOK /\ Given /\ Shapes /\ EventsTrue /\ Stopping
    /\ \A r \in Requests : Progress(r) /\ Seen(r)

-----------------------------------------------------------------------------
(* The steps.                                                               *)

LEMMA InitIInv == Init => IInv
<1> SUFFICES ASSUME Init PROVE IInv
  OBVIOUS
<1>1. PICK sc \in Scenarios :
        /\ server = sc.server /\ sent = sc.sent /\ from = sc.from
        /\ pc = [r \in Requests |-> IF r \in sc.present THEN "sent" ELSE "absent"]
  BY DEF Init
<1>2. Given
  BY <1>1, ScenariosAssumption DEF Given
<1>3. DOMAIN stored = {}
  BY DEF Init
<1>4. TypeOK
  <2>1. fileOpen \in BOOLEAN
    BY <1>2 DEF Init, Given, Server
  <2>2. status \in [Requests -> Statuses]
    BY DEF Init, Statuses
  <2>3. pc \in [Requests -> {"absent", "sent", "service", "file", "fileLock", "fileWrite",
                             "remote", "remoteWait", "respond", "done"}]
    BY <1>1
  <2> QED  BY <1>3, <2>1, <2>2, <2>3 DEF Init, TypeOK
<1>5. Shapes
  BY <1>2 DEF Init, Given, Shapes
<1>6. EventsTrue
  BY DEF Init, EventsTrue
<1>7. Stopping
  BY <1>2 DEF Init, Stopping, Given, Server
<1>8. \A r \in Requests : Progress(r) /\ Seen(r)
  BY <1>1, <1>3 DEF Init, Progress, Seen, AuditSteps
<1> QED  BY <1>2, <1>4, <1>5, <1>6, <1>7, <1>8 DEF IInv

\* Stored metrics and their status are settled: no other step touches them.
LEMMA AdmitStep ==
  ASSUME IInv, NEW r \in Requests, Admit(r)
  PROVE  IInv'
<1> DEFINE q == Admitted(server, sent[r])
<1>1. /\ pc[r] = "sent" /\ phase \notin {"closing", "closed", "exited"}
      /\ request' = [request EXCEPT ![r] = q] /\ status' = [status EXCEPT ![r] = q.status]
      /\ pc' = [pc EXCEPT ![r] = IF Passed(q) THEN "service" ELSE "respond"]
      /\ abandoned' \in {abandoned, abandoned \cup {r}}
      /\ UNCHANGED <<server, sent, from, response, stored, storeErr, gone, writer, fileOpen, audited,
                     sinkErr, phase, broken>>
  BY DEF Admit, Served, Goto
<1>2. q \in Request
  BY AdmittedResult DEF IInv, Given, Passed, Keeps
<1> HIDE DEF q
<1>3. /\ pc'[r] = (IF Passed(q) THEN "service" ELSE "respond") /\ request'[r] = q /\ status'[r] = q.status
      /\ \A x \in Requests \ {r} : pc'[x] = pc[x] /\ request'[x] = request[x] /\ status'[x] = status[x]
  BY <1>1 DEF IInv, TypeOK, Shapes
<1>4. TypeOK'
  <2>1. status' \in [Requests -> Statuses]
    BY <1>1, <1>2 DEF IInv, TypeOK, Request
  <2>2. pc' \in [Requests -> {"absent", "sent", "service", "file", "fileLock", "fileWrite",
                              "remote", "remoteWait", "respond", "done"}]
    BY <1>1 DEF IInv, TypeOK
  <2>3. writer' \in {Nobody} \cup {x \in Requests : pc'[x] = "fileWrite"}
    BY <1>1, <1>3 DEF IInv, TypeOK
  <2> QED  BY <1>1, <2>1, <2>2, <2>3 DEF IInv, TypeOK
<1>5. Given' /\ Shapes'
  BY <1>1 DEF IInv, Given, Shapes
<1>6. r \notin DOMAIN stored /\ r \notin storeErr
  BY <1>1 DEF IInv, Progress
<1>7. EventsTrue'
  BY <1>1, <1>3, <1>6 DEF IInv, EventsTrue
<1>8. Stopping'
  BY <1>1 DEF IInv, Stopping
<1>9. ASSUME NEW x \in Requests PROVE Progress(x)' /\ Seen(x)'
  <2>1. CASE x = r
    BY <1>1, <1>3, <1>6, <2>1 DEF q, Progress, Seen, AuditSteps
  <2>2. CASE x # r
    BY <1>1, <1>3, <2>2 DEF IInv, Progress, Seen, IsWrite, Metrics
  <2> QED  BY <2>1, <2>2
<1> QED  BY <1>4, <1>5, <1>7, <1>8, <1>9 DEF IInv

LEMMA UpdateStep ==
  ASSUME IInv, NEW r \in Requests, Update(r)
  PROVE  IInv'
<1>1. /\ pc[r] = "service" /\ IsWrite(r)
      /\ UNCHANGED <<server, sent, from, request, response, gone, writer, fileOpen, audited, sinkErr, phase, broken, abandoned>>
  BY DEF Update
<1>2. \/ Store(r) /\ status' = [status EXCEPT ![r] = "ok"] /\ pc' = [pc EXCEPT ![r] = AuditNext(r)] /\ storeErr' = storeErr
      \/ /\ storeErr' = storeErr \cup {r} /\ status' = [status EXCEPT ![r] = "serverError"]
         /\ pc' = [pc EXCEPT ![r] = "respond"] /\ (Store(r) \/ stored' = stored)
  BY DEF Update, Updated, ServiceError, Goto
<1>3. r \notin DOMAIN stored /\ r \notin storeErr /\ Passed(request[r]) /\ request[r] = Admitted(server, sent[r])
  BY <1>1 DEF IInv, Progress
<1>4. \A x \in Requests \ {r} : /\ pc'[x] = pc[x] /\ status'[x] = status[x]
                                /\ x \in storeErr' <=> x \in storeErr
                                /\ x \in DOMAIN stored' <=> x \in DOMAIN stored
                                /\ x \in DOMAIN stored => stored'[x] = stored[x]
  BY <1>2 DEF IInv, TypeOK, Store
<1>5. /\ DOMAIN stored' \subseteq DOMAIN stored \cup {r}
      /\ r \in DOMAIN stored' => stored'[r] = Metrics(r)
      /\ r \notin storeErr' => /\ r \in DOMAIN stored' /\ status'[r] = "ok" /\ pc'[r] = AuditNext(r)
      /\ r \in storeErr' => pc'[r] = "respond"
  BY <1>2, <1>3 DEF IInv, TypeOK, Store
<1>6. AuditNext(r) \in {"file", "respond"}
      /\ (AuditNext(r) = "respond" => (~server.auditFile /\ ~server.auditURL) \/ Metrics(r) = <<>>)
  BY DEF AuditNext
<1>7. TypeOK'
  <2>1. status' \in [Requests -> Statuses]
    BY <1>2 DEF IInv, TypeOK, Statuses
  <2>2. pc' \in [Requests -> {"absent", "sent", "service", "file", "fileLock", "fileWrite",
                              "remote", "remoteWait", "respond", "done"}]
    BY <1>2, <1>6 DEF IInv, TypeOK
  <2>3. writer' \in {Nobody} \cup {x \in Requests : pc'[x] = "fileWrite"}
    BY <1>1, <1>4 DEF IInv, TypeOK
  <2>4. storeErr' \subseteq Requests
    BY <1>2 DEF IInv, TypeOK
  <2> QED  BY <1>1, <1>5, <2>1, <2>2, <2>3, <2>4 DEF IInv, TypeOK
<1>8. Given' /\ Shapes'
  BY <1>1 DEF IInv, Given, Shapes
<1>9. EventsTrue'
  BY <1>1, <1>3, <1>4 DEF IInv, EventsTrue
<1>10. Stopping'
  <2>1. \A x \in Requests : Running(x)' => Running(x)
    BY <1>1, <1>4 DEF Running
  <2> QED  BY <1>1, <2>1 DEF IInv, Stopping
<1>11. ASSUME NEW x \in Requests PROVE Progress(x)' /\ Seen(x)'
  <2>1. CASE x = r
    <3>1. IsWrite(r)' /\ Metrics(r)' = Metrics(r)
      BY <1>1 DEF IsWrite, Metrics
    <3>2. Progress(r)'
      BY <1>1, <1>3, <1>5, <1>6, <3>1 DEF Progress, AuditSteps
    <3>3. Seen(r)'
      BY <1>1, <1>3, <1>5, <1>6 DEF Seen
    <3> QED  BY <2>1, <3>2, <3>3
  <2>2. CASE x # r
    BY <1>1, <1>4, <2>2 DEF IInv, Progress, Seen, IsWrite, Metrics
  <2> QED  BY <2>1, <2>2
<1> QED  BY <1>7, <1>8, <1>9, <1>10, <1>11 DEF IInv

LEMMA ReadStep ==
  ASSUME IInv, NEW r \in Requests, Read(r)
  PROVE  IInv'
<1>1. PICK st \in {"ok", "notFound", "serverError"} : status' = [status EXCEPT ![r] = st]
  BY DEF Read, ReadStatus
<1>2. /\ pc[r] = "service" /\ ~IsWrite(r) /\ pc' = [pc EXCEPT ![r] = "respond"]
      /\ UNCHANGED <<server, sent, from, request, response, stored, storeErr, gone, writer, fileOpen, audited,
                     sinkErr, phase, broken, abandoned>>
  BY DEF Read, Goto
<1>3. r \notin DOMAIN stored /\ r \notin storeErr /\ request[r] = Admitted(server, sent[r])
  BY <1>2 DEF IInv, Progress
<1>4. /\ pc'[r] = "respond"
      /\ \A x \in Requests \ {r} : pc'[x] = pc[x] /\ status'[x] = status[x]
  BY <1>1, <1>2 DEF IInv, TypeOK
<1>5. TypeOK'
  <2>1. status' \in [Requests -> Statuses]
    BY <1>1 DEF IInv, TypeOK, Statuses
  <2>2. pc' \in [Requests -> {"absent", "sent", "service", "file", "fileLock", "fileWrite",
                              "remote", "remoteWait", "respond", "done"}]
    BY <1>2 DEF IInv, TypeOK
  <2>3. writer' \in {Nobody} \cup {x \in Requests : pc'[x] = "fileWrite"}
    BY <1>2, <1>4 DEF IInv, TypeOK
  <2> QED  BY <1>2, <2>1, <2>2, <2>3 DEF IInv, TypeOK
<1>6. Given' /\ Shapes'
  BY <1>2 DEF IInv, Given, Shapes
<1>7. EventsTrue'
  BY <1>2, <1>3, <1>4 DEF IInv, EventsTrue
<1>8. Stopping'
  <2>1. \A x \in Requests : Running(x)' => Running(x)
    BY <1>2, <1>4 DEF Running
  <2> QED  BY <1>2, <2>1 DEF IInv, Stopping
<1>9. ASSUME NEW x \in Requests PROVE Progress(x)' /\ Seen(x)'
  <2>1. CASE x = r
    BY <1>2, <1>3, <1>4, <2>1 DEF Progress, Seen, IsWrite, AuditSteps
  <2>2. CASE x # r
    BY <1>2, <1>4, <2>2 DEF IInv, Progress, Seen, IsWrite, Metrics
  <2> QED  BY <2>1, <2>2
<1> QED  BY <1>5, <1>6, <1>7, <1>8, <1>9 DEF IInv

\* A step of Notify: r goes on with the events that this needs.
AuditMove(r) ==
    /\ pc[r] \in AuditSteps
    /\ pc' = [pc EXCEPT ![r] = pc'[r]]
    /\ pc'[r] \in AuditSteps \cup {"respond"}
    /\ audited' \in {audited, audited \cup {<<"file", r>>}, audited \cup {<<"remote", r>>}}
    /\ sinkErr' \in {sinkErr, sinkErr \cup {<<"file", r>>}, sinkErr \cup {<<"remote", r>>}}
    /\ writer' \in {Nobody} \cup {x \in Requests : pc'[x] = "fileWrite"}
    /\ r \notin gone /\ stored[r] # <<>> =>
         /\ server.auditFile /\ pc'[r] \in {"remote", "remoteWait", "respond"} => <<"file", r>> \in audited' \cup sinkErr'
         /\ server.auditURL /\ pc'[r] = "respond" => <<"remote", r>> \in audited' \cup sinkErr'
    /\ UNCHANGED <<server, sent, from, request, status, response, stored, storeErr, gone, fileOpen, phase, broken, abandoned>>

LEMMA AuditMoveStep ==
  ASSUME IInv, NEW r \in Requests, AuditMove(r)
  PROVE  IInv'
<1>1. /\ pc[r] \in AuditSteps /\ pc'[r] \in AuditSteps \cup {"respond"}
      /\ UNCHANGED <<server, sent, from, request, status, response, stored, storeErr, gone, fileOpen, phase, broken, abandoned>>
  BY DEF AuditMove
<1>2. \A x \in Requests \ {r} : pc'[x] = pc[x]
  BY DEF IInv, TypeOK, AuditMove
<1>3. r \in DOMAIN stored \ storeErr /\ status[r] = "ok"
  BY <1>1 DEF IInv, Progress
<1>4. TypeOK'
  <2>1. pc' \in [Requests -> {"absent", "sent", "service", "file", "fileLock", "fileWrite",
                              "remote", "remoteWait", "respond", "done"}]
    BY DEF IInv, TypeOK, AuditMove, AuditSteps
  <2>2. audited' \subseteq Observers \X Requests /\ sinkErr' \subseteq Observers \X Requests
    BY DEF IInv, TypeOK, AuditMove, Observers
  <2>3. writer' \in {Nobody} \cup {x \in Requests : pc'[x] = "fileWrite"}
    BY DEF AuditMove
  <2> QED  BY <1>1, <2>1, <2>2, <2>3 DEF IInv, TypeOK
<1>5. Given' /\ Shapes'
  BY <1>1 DEF IInv, Given, Shapes
<1>6. EventsTrue'
  BY <1>1, <1>3 DEF IInv, EventsTrue, AuditMove
<1>7. Stopping'
  <2>1. \A x \in Requests : Running(x)' => Running(x)
    BY <1>1, <1>2 DEF Running, AuditSteps
  <2> QED  BY <1>1, <2>1 DEF IInv, Stopping
<1>8. ASSUME NEW x \in Requests PROVE Progress(x)' /\ Seen(x)'
  <2>1. CASE x = r
    <3>1. Progress(r)'
      BY <1>1, <1>3 DEF IInv, Progress, IsWrite, Metrics, AuditSteps
    <3>2. Seen(r)'
      BY <1>1 DEF AuditMove, Seen, AuditSteps
    <3> QED  BY <2>1, <3>1, <3>2
  <2>2. CASE x # r
    <3>1. Progress(x)'
      BY <1>1, <1>2, <2>2 DEF IInv, Progress, IsWrite, Metrics
    <3>2. audited \subseteq audited' /\ sinkErr \subseteq sinkErr'
      BY DEF AuditMove
    <3>3. Seen(x)'
      BY <1>1, <1>2, <2>2, <3>2 DEF IInv, Seen
    <3> QED  BY <3>1, <3>3
  <2> QED  BY <2>1, <2>2
<1> QED  BY <1>4, <1>5, <1>6, <1>7, <1>8 DEF IInv

\* Each step of Notify is such a move.
LEMMA NotifyStep ==
  ASSUME IInv, NEW r \in Requests,
         \/ FileCheck(r) \/ FileLock(r) \/ FileWrite(r) \/ RemoteStart(r) \/ RemoteAccepts(r)
         \/ RemoteFails(r) \/ RemoteCancelled(r)
  PROVE  IInv'
<1> DEFINE Rest == UNCHANGED <<server, sent, from, request, status, response, stored, storeErr, gone, fileOpen, phase, broken, abandoned>>
<1> USE DEF AuditSteps
<1>1. ASSUME NEW l \in AuditSteps \cup {"respond"}, Goto(r, l)
      PROVE  pc' = [pc EXCEPT ![r] = pc'[r]] /\ pc'[r] = l /\ \A x \in Requests \ {r} : pc'[x] = pc[x]
  BY <1>1 DEF Goto, IInv, TypeOK
<1>2. ASSUME NEW l \in AuditSteps \cup {"respond"}, Goto(r, l), writer' = writer, pc[r] # "fileWrite"
      PROVE  writer' \in {Nobody} \cup {x \in Requests : pc'[x] = "fileWrite"}
  BY <1>1, <1>2 DEF IInv, TypeOK
<1>3. CASE FileCheck(r)
  <2> DEFINE l == IF server.auditFile /\ r \notin gone THEN "fileLock" ELSE AfterFile(r, ~server.auditFile)
  <2>1. pc[r] = "file" /\ Goto(r, l) /\ Rest /\ UNCHANGED <<writer, audited, sinkErr>>
    BY <1>3 DEF FileCheck
  <2>2. l \in {"fileLock", "remote", "respond"} /\ (r \notin gone /\ server.auditFile => l = "fileLock")
        /\ (l = "respond" => ~server.auditURL)
    BY DEF AfterFile
  <2> HIDE DEF l
  <2> QED  BY <1>1, <1>2, <2>1, <2>2, AuditMoveStep DEF AuditMove
<1>4. CASE FileLock(r)
  <2>1. pc[r] = "fileLock" /\ Rest /\ UNCHANGED <<audited, sinkErr>>
    BY <1>4 DEF FileLock
  <2>2. CASE fileOpen
    <3>1. writer' = r /\ Goto(r, "fileWrite")
      BY <1>4, <2>2 DEF FileLock
    <3>2. pc' = [pc EXCEPT ![r] = pc'[r]] /\ pc'[r] = "fileWrite"
      BY <1>1, <3>1
    <3>3. AuditMove(r)
      BY <2>1, <3>1, <3>2 DEF AuditMove
    <3> QED  BY <3>3, AuditMoveStep
  <2>3. CASE ~fileOpen
    <3>1. writer' = writer /\ Goto(r, AfterFile(r, FALSE))
      BY <1>4, <2>3 DEF FileLock
    <3>2. AfterFile(r, FALSE) \in {"remote", "respond"} /\ (AfterFile(r, FALSE) = "respond" => ~server.auditURL)
      BY DEF AfterFile
    <3>3. server.auditFile => r \in gone
      BY <2>1, <2>3 DEF IInv, Stopping, Running
    <3> QED  BY <1>1, <1>2, <2>1, <3>1, <3>2, <3>3, AuditMoveStep DEF AuditMove
  <2> QED  BY <2>2, <2>3
<1>5. CASE FileWrite(r)
  <2>1. /\ pc[r] = "fileWrite" /\ Rest /\ writer' = Nobody
        /\ \/ audited' = audited \cup {<<"file", r>>} /\ sinkErr' = sinkErr /\ Goto(r, AfterFile(r, TRUE))
           \/ sinkErr' = sinkErr \cup {<<"file", r>>} /\ audited' = audited /\ Goto(r, AfterFile(r, FALSE))
    BY <1>5 DEF FileWrite, FileUnlock
  <2>2. \E l \in {"remote", "respond"} : Goto(r, l) /\ (l = "respond" => ~server.auditURL)
    BY <2>1 DEF AfterFile
  <2> QED  BY <1>1, <2>1, <2>2, AuditMoveStep DEF AuditMove
<1>6. CASE RemoteStart(r) \/ RemoteAccepts(r) \/ RemoteFails(r) \/ RemoteCancelled(r)
  <2>1. pc[r] \in {"remote", "remoteWait"} /\ Rest /\ writer' = writer
    BY <1>6 DEF RemoteStart, RemoteAccepts, RemoteFails, RemoteCancelled
  <2>2. \E l \in {"remoteWait", "respond"} :
          /\ Goto(r, l)
          /\ l = "respond" => r \in gone \/ <<"remote", r>> \in audited' \cup sinkErr'
    BY <1>6 DEF RemoteStart, RemoteAccepts, RemoteFails, RemoteCancelled
  <2>3. audited' \in {audited, audited \cup {<<"remote", r>>}} /\ sinkErr' \in {sinkErr, sinkErr \cup {<<"remote", r>>}}
    BY <1>6 DEF RemoteStart, RemoteAccepts, RemoteFails, RemoteCancelled
  <2>4. r \notin gone /\ stored[r] # <<>> /\ server.auditFile => <<"file", r>> \in audited' \cup sinkErr'
    BY <2>1, <2>3 DEF IInv, Progress, Seen
  <2> QED  BY <1>1, <1>2, <2>1, <2>2, <2>3, <2>4, AuditMoveStep DEF AuditMove
<1> QED  BY <1>3, <1>4, <1>5, <1>6

LEMMA RespondStep ==
  ASSUME IInv, NEW r \in Requests, Respond(r)
  PROVE  IInv'
<1> DEFINE x == Wire(server, sent[r], request[r], status[r])
<1>1. /\ pc[r] = "respond" /\ pc' = [pc EXCEPT ![r] = "done"] /\ response' = [response EXCEPT ![r] = x]
      /\ UNCHANGED <<server, sent, from, request, status, stored, storeErr, gone, writer, fileOpen, audited,
                     sinkErr, phase, broken, abandoned>>
  BY DEF Respond, Goto
<1> HIDE DEF x
<1>2. /\ pc'[r] = "done" /\ response'[r] = x
      /\ \A y \in Requests \ {r} : pc'[y] = pc[y] /\ response'[y] = response[y]
  BY <1>1 DEF IInv, TypeOK, Shapes
<1>3. TypeOK'
  <2>1. pc' \in [Requests -> {"absent", "sent", "service", "file", "fileLock", "fileWrite",
                              "remote", "remoteWait", "respond", "done"}]
    BY <1>1 DEF IInv, TypeOK
  <2>2. writer' \in {Nobody} \cup {y \in Requests : pc'[y] = "fileWrite"}
    BY <1>1, <1>2 DEF IInv, TypeOK
  <2> QED  BY <1>1, <2>1, <2>2 DEF IInv, TypeOK
<1>4. Given' /\ Shapes' /\ EventsTrue'
  BY <1>1 DEF IInv, Given, Shapes, EventsTrue
<1>5. Stopping'
  <2>1. \A y \in Requests : Running(y)' => Running(y)
    BY <1>1, <1>2 DEF Running
  <2> QED  BY <1>1, <2>1 DEF IInv, Stopping
<1>6. ASSUME NEW y \in Requests PROVE Progress(y)' /\ Seen(y)'
  <2>1. CASE y = r
    <3>1. Progress(r)'
      BY <1>1, <1>2 DEF x, IInv, Progress, IsWrite, Metrics, AuditSteps
    <3>2. Seen(r)'
      BY <1>1, <1>2 DEF IInv, Seen
    <3> QED  BY <2>1, <3>1, <3>2
  <2>2. CASE y # r
    BY <1>1, <1>2, <2>2 DEF IInv, Progress, Seen, IsWrite, Metrics
  <2> QED  BY <2>1, <2>2
<1> QED  BY <1>3, <1>4, <1>5, <1>6 DEF IInv

\* Clients leave and the server stops: the requests stay where they are.
LEMMA StopStep ==
  ASSUME IInv, (\E r \in Requests : Disconnect(r)) \/ Stop \/ UNCHANGED vars
  PROVE  IInv'
<1> USE DEF Stop, Disconnect, Shutdown, ServeFails, ForcedStop, TransportsReturn, CloseServers, CloseFile, Exit, vars
<1>1. /\ gone \subseteq gone'
      /\ UNCHANGED <<server, sent, from, pc, request, status, response, stored, storeErr, writer, audited, sinkErr>>
  OBVIOUS
<1>2. gone' \subseteq Requests /\ abandoned' \subseteq Requests /\ broken' \subseteq {"http", "grpc"}
  BY DEF IInv, TypeOK
<1>3. /\ phase' \in {"running", "draining", "forced", "stopped", "closing", "closed", "exited"}
      /\ fileOpen' \in BOOLEAN
  BY DEF IInv, TypeOK
<1>4. TypeOK'
  BY <1>1, <1>2, <1>3 DEF IInv, TypeOK
<1>5. Given' /\ Shapes' /\ EventsTrue'
  BY <1>1 DEF IInv, Given, Shapes, EventsTrue
<1>6. \A r \in Requests : Running(r)' <=> Running(r)
  BY <1>1 DEF Running
<1>7. Stopping'
  <2>1. fileOpen' <=> server.auditFile /\ phase' \notin {"closed", "exited"}
    BY DEF IInv, Stopping
  <2>2. phase' \in {"closing", "closed", "exited"} =>
          phase \in {"closing", "closed", "exited"} \/ \A r \in Requests : Running(r) => r \in gone'
    OBVIOUS
  <2> QED  BY <1>1, <1>6, <2>1, <2>2 DEF IInv, Stopping
<1>8. \A r \in Requests : Progress(r)' /\ Seen(r)'
  BY <1>1 DEF IInv, Progress, Seen, IsWrite, Metrics
<1> QED  BY <1>4, <1>5, <1>7, <1>8 DEF IInv

LEMMA NextIInv == IInv /\ [Next]_vars => IInv'
<1> SUFFICES ASSUME IInv, [Next]_vars PROVE IInv'
  OBVIOUS
<1>1. CASE \E r \in Requests : Admit(r) \/ Handler(r) \/ RemoteAccepts(r)
  BY <1>1, AdmitStep, UpdateStep, ReadStep, NotifyStep, RespondStep DEF Handler
<1>2. CASE (\E r \in Requests : Disconnect(r)) \/ Stop \/ UNCHANGED vars
  BY <1>2, StopStep
<1> QED  BY <1>1, <1>2 DEF Next, Gone

\* Every step of handlers, observers, clients and the stop keeps the invariant.
THEOREM Inductive == Spec => []IInv
  BY InitIInv, NextIInv, PTL DEF Spec

-----------------------------------------------------------------------------
(* The theorems.                                                            *)

\* The state of the requests, of the audit file and of the server has its type.
THEOREM TypeCorrect == Spec => []TypeOK
<1>1. IInv => TypeOK
  BY DEF IInv
<1> QED  BY <1>1, Inductive, PTL

\* What any agent sends with keys that belong to the server's and an address in
\* its subnet is stored as it was sent, unless the storage fails.
THEOREM AgentUnderstoodAlways == Spec => []AgentUnderstood
<1>1. IInv => AgentUnderstood
  <2> SUFFICES ASSUME IInv, NEW r \in Requests \ storeErr, pc[r] = "done", from[r] # OtherClient,
                      KeysBelong(from[r]), server.subnet => from[r].ip = "inside"
               PROVE  status[r] = "ok" /\ r \in DOMAIN stored /\ stored[r] = sent[r].body.metrics
    BY DEF AgentUnderstood, Finished
  <2> DEFINE ms == sent[r].body.metrics
  <2>1. /\ server \in Server /\ sent[r] \in Request /\ from[r] \in Agent /\ sent[r] = AgentRequest(from[r], ms)
        /\ \A i \in 1..Len(ms) : ValidateMetric(ms[i]) = "ok"
    BY DEF IInv, Given
  <2>2. ms \in Seq(Metric)
    BY <2>1 DEF Request, Body
  <2>3. request[r] = Admitted(server, sent[r])
    BY DEF IInv, Progress
  <2> HIDE DEF ms
  <2>4. Passed(request[r]) /\ request[r].body.metrics = ms /\ request[r].route \in WriteRoutes
    <3> DEFINE a == from[r]
               q == AgentRequest(a, ms)
    <3>1. a.grpc \/ /\ server.hashKey = "" \/ a.hashKey \in {"", server.hashKey}
                    /\ a.publicKey \in {"", server.privateKey}
      BY DEF KeysBelong
    <3>2. server \in Server /\ a \in Agent /\ q \in Request /\ request[r] = Admitted(server, q)
      BY <2>1, <2>3
    <3>3. server.subnet => a.ip = "inside"
      OBVIOUS
    <3>4. \A i \in 1..Len(ms) : ValidateMetric(ms[i]) = "ok"
      BY <2>1
    <3> HIDE DEF a
    <3>5. Passed(Admitted(server, q)) /\ Admitted(server, q).body.metrics = ms /\ Admitted(server, q).route \in WriteRoutes
      BY <2>2, <3>1, <3>2, <3>3, <3>4, AgentAdmitted
    <3> HIDE DEF q
    <3> QED  BY <3>2, <3>5
  <2>5. r \in DOMAIN stored /\ status[r] = "ok" /\ stored[r] = request[r].body.metrics
    BY <2>4 DEF IInv, Progress, IsWrite, Metrics
  <2> QED  BY <2>4, <2>5 DEF ms
<1> QED  BY <1>1, Inductive, PTL

\* Nothing reaches the storage from outside of the trusted subnet or without a
\* name, a known type and a value, whatever clients send.
THEOREM OnlyAdmissibleAlways == Spec => []OnlyAdmissible
<1>1. IInv => OnlyAdmissible
  <2> SUFFICES ASSUME IInv, NEW r \in DOMAIN stored
               PROVE  /\ server.subnet => sent[r].realIP = "inside"
                      /\ \A i \in 1..Len(stored[r]) : ValidateMetric(stored[r][i]) = "ok"
    BY DEF OnlyAdmissible
  <2>1. r \in Requests
    BY DEF IInv, TypeOK
  <2>2. /\ Passed(request[r]) /\ request[r].route \in WriteRoutes /\ stored[r] = request[r].body.metrics
        /\ request[r] = Admitted(server, sent[r])
    BY <2>1 DEF IInv, Progress, IsWrite, Metrics
  <2>3. server \in Server /\ sent[r] \in Request /\ sent[r].status = "none"
    BY <2>1 DEF IInv, Given, Passed
  <2>4. sent[r].route \in WriteRoutes
    BY <2>2, <2>3, AdmittedResult DEF Keeps
  <2> QED  BY <2>2, <2>3, <2>4, AdmittedResult
<1> QED  BY <1>1, Inductive, PTL

\* The hash of every HTTP answer is that of the bytes that leave, and they are
\* compressed if and only if the header says so, for a client that accepts it.
THEOREM AnswersVerifiableAlways == Spec => []AnswersVerifiable
<1>1. IInv => AnswersVerifiable
  <2> SUFFICES ASSUME IInv, NEW r \in Requests, pc[r] = "done", sent[r].route # "grpc"
               PROVE  /\ ~HashMismatch(server, sent[r]) => response[r].hash = CalcHash(response[r].body, server.hashKey)
                      /\ (response[r].encoding = "gzip") = (Outer(response[r].body) = "gzip")
                      /\ response[r].encoding = "gzip" => sent[r].acceptGzip
    BY DEF AnswersVerifiable, Finished
  <2>1. server \in Server /\ sent[r] \in Request /\ sent[r].status = "none"
    BY DEF IInv, Given, Passed
  <2>2. /\ response[r] = Wire(server, sent[r], request[r], status[r])
        /\ request[r] = Admitted(server, sent[r])
    BY DEF IInv, Progress
  <2>3. Keeps(sent[r], request[r])
    BY <2>1, <2>2, AdmittedResult
  <2> QED  BY <2>1, <2>2, <2>3, WireVerifiable
<1> QED  BY <1>1, Inductive, PTL

\* Events are only recorded for updates that were stored and are reported as a
\* success, and such an update whose client stays reaches every observer that
\* does not fail, also while the server stops.
THEOREM AuditedAlways == Spec => []Audited
<1>1. IInv => Audited
  <2> SUFFICES ASSUME IInv PROVE Audited
    OBVIOUS
  <2>1. ASSUME NEW e \in audited
        PROVE  e[2] \in DOMAIN stored \ storeErr /\ status[e[2]] = "ok"
    <3>1. PICK o \in Observers, r \in Requests : e = <<o, r>>
      BY DEF IInv, TypeOK
    <3> QED  BY <3>1 DEF IInv, EventsTrue
  <2>2. ASSUME NEW r \in DOMAIN stored \ (storeErr \cup gone), pc[r] = "done", stored[r] # <<>>, NEW o \in Configured
        PROVE  <<o, r>> \in audited \cup sinkErr
    <3>1. r \in Requests
      BY DEF IInv, TypeOK
    <3>2. (o = "file" /\ server.auditFile) \/ (o = "remote" /\ server.auditURL)
      BY DEF Configured, Observers
    <3> QED  BY <2>2, <3>1, <3>2 DEF IInv, Seen
  <2> QED  BY <2>1, <2>2 DEF Audited, Finished
<1> QED  BY <1>1, Inductive, PTL
=============================================================================
