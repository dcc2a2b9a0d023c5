----------------------------- MODULE MCDelivery -----------------------------
(* Small instances of Delivery for TLC. *)
EXTENDS Delivery

CONSTANTS w1, w2

\* One worker or two, both transports, with and without a hostile network and a
\* server that fails after storing; the server may always reject a request.
\* The workers run the same code: it does not matter which one is alone.
AllEnvironments ==
    {e \in Environment : e.rejections = {"serverError", "clientError"} /\ e.workers # {w2}}

\* One unreliable environment is enough to meet a lost answer.
LossyHTTP ==
    {[transport |-> "http", workers |-> {w1}, lossy |-> TRUE, rejections |-> {}, saveMayFail |-> FALSE]}
=============================================================================
