----------------------------- MODULE PollLedger -----------------------------
(***************************************************************************)
(* What the agent promises about PollCount: every poll is acknowledged at  *)
(* most once, by whole reports, and the agent claims success only          *)
(* when nothing is left unacknowledged.  How reports are formed, queued,   *)
(* retried and restored is hidden; AgentRuntime implements this module.    *)
(***************************************************************************)
EXTENDS Integers, FiniteSets

CONSTANT MaxPolls   \* bound: polls that are explored

VARIABLES
    polls,    \* number of polls made
    acked,    \* polls the server acknowledged
    reported, \* the total PollCount the server acknowledged
    result    \* what the agent reported when it stopped

vars == <<polls, acked, reported, result>>

Init == polls = 0 /\ acked = {} /\ reported = 0 /\ result = "none"

Poll ==
    /\ result # "ok"
    /\ polls < MaxPolls
    /\ polls' = polls + 1
    /\ UNCHANGED <<acked, reported, result>>

\* A report is acknowledged: its polls were pending until now.
Acknowledge(S) ==
    /\ result # "ok"
    /\ acked' = acked \cup S
    /\ reported' = reported + Cardinality(S)
    /\ UNCHANGED <<polls, result>>

\* The final report is acknowledged and the agent stops: nothing is pending.
Finish ==
    /\ result = "none"
    /\ acked' = 1..polls
    /\ reported' = polls
    /\ result' = "ok"
    /\ UNCHANGED polls

GiveUp ==
    /\ result = "none"
    /\ result' = "error"
    /\ UNCHANGED <<polls, acked, reported>>

Next ==
    \/ Poll
    \/ \E S \in SUBSET ((1..polls) \ acked) : Acknowledge(S)
    \/ Finish
    \/ GiveUp

Spec == Init /\ [][Next]_vars
=============================================================================
