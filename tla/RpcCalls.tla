------------------------------ MODULE RpcCalls ------------------------------
(***************************************************************************)
(* What client.Client promises to the goroutines that use it, without     *)
(* sequence numbers, mutexes, goroutines or messages: every call is        *)
(* settled at most once, with the answer the server's method gave to its   *)
(* own inputs or with an error; a caller leaves with what it was settled   *)
(* with, or with a timeout if its context is over; and once the client     *)
(* went down, no call is answered any more and every open one is settled.  *)
(***************************************************************************)
CONSTANT Calls

VARIABLES
    phase,      \* of each call: idle, open, settled, returned
    outcome,    \* none, then answer, error or timeout
    expired,    \* the calls whose context is over
    down        \* the client went down: client.isShutdown

vars == <<phase, outcome, expired, down>>

Init ==
    /\ phase = [c \in Calls |-> "idle"]
    /\ outcome = [c \in Calls |-> "none"]
    /\ expired = {}
    /\ down = FALSE

Invoke(c) ==
    /\ phase[c] = "idle"
    /\ phase' = [phase EXCEPT ![c] = "open"]
    /\ UNCHANGED <<outcome, expired, down>>

Expire(c) ==
    /\ phase[c] \in {"open", "settled"} /\ c \notin expired
    /\ expired' = expired \cup {c}
    /\ UNCHANGED <<phase, outcome, down>>

Settle(c, o) ==
    /\ phase[c] = "open"
    /\ o = "answer" => ~down
    /\ phase' = [phase EXCEPT ![c] = "settled"]
    /\ outcome' = [outcome EXCEPT ![c] = o]
    /\ UNCHANGED <<expired, down>>

GoDown ==
    /\ ~down
    /\ down' = TRUE
    /\ UNCHANGED <<phase, outcome, expired>>

Return(c) ==
    /\ phase[c] = "settled"
    /\ phase' = [phase EXCEPT ![c] = "returned"]
    /\ UNCHANGED <<outcome, expired, down>>

Abandon(c) ==
    /\ phase[c] \in {"open", "settled"} /\ c \in expired
    /\ phase' = [phase EXCEPT ![c] = "returned"]
    /\ outcome' = [outcome EXCEPT ![c] = "timeout"]
    /\ UNCHANGED <<expired, down>>

Fail(c) == down /\ Settle(c, "error")

Next ==
    \/ \E c \in Calls :
         \/ Invoke(c) \/ Expire(c) \/ Return(c) \/ Abandon(c)
         \/ \E o \in {"answer", "error"} : Settle(c, o)
    \/ GoDown

Spec == Init /\ [][Next]_vars

\* A settled call returns, and a client that went down settles every open one.
FairSpec ==
    /\ Spec
    /\ \A c \in Calls : WF_vars(Return(c) \/ Fail(c))
=============================================================================
