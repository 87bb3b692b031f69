--------------------------- MODULE HostedCheckout ---------------------------
(***************************************************************************)
(* What the payments application promises about the hosted checkouts of    *)
(* one intent, without leases, receipts, retries or provider evidence:     *)
(* one checkout is in progress at a time, the provider is called for it by *)
(* one worker at a time, a checkout is not closed under the feet of the    *)
(* worker that is creating it, and a closed checkout stays closed.         *)
(***************************************************************************)
CONSTANTS Checkouts, Callers

VARIABLES
    phase,   \* of each checkout: absent, waiting, open or closed
    calling  \* the workers engaged with the provider for it

vars == <<phase, calling>>

Init ==
    /\ phase = [c \in Checkouts |-> "absent"]
    /\ calling = [c \in Checkouts |-> {}]

Request(c) ==
    /\ phase[c] = "absent"
    /\ \A o \in Checkouts : phase[o] \in {"absent", "closed"}
    /\ phase' = [phase EXCEPT ![c] = "waiting"]
    /\ UNCHANGED calling

Call(c, k) ==
    /\ phase[c] \in {"waiting", "open"}
    /\ calling[c] = {}
    /\ calling' = [calling EXCEPT ![c] = {k}]
    /\ UNCHANGED phase

\* The call ends without an outcome: an error, a timeout or a dead worker.
GiveUp(c, k) ==
    /\ calling[c] = {k}
    /\ calling' = [calling EXCEPT ![c] = {}]
    /\ UNCHANGED phase

\* The provider's checkout is recorded.
Open(c, k) ==
    /\ phase[c] = "waiting"
    /\ calling[c] = {k}
    /\ phase' = [phase EXCEPT ![c] = "open"]
    /\ calling' = [calling EXCEPT ![c] = {}]

\* The outcome of an open checkout may come from anyone; a waiting one closes
\* only while nobody is creating it.
Close(c) ==
    /\ \/ phase[c] = "open"
       \/ phase[c] = "waiting" /\ calling[c] = {}
    /\ phase' = [phase EXCEPT ![c] = "closed"]
    /\ UNCHANGED calling

\* The cancellation call brings the outcome.
CloseByCall(c, k) ==
    /\ phase[c] = "open"
    /\ calling[c] = {k}
    /\ phase' = [phase EXCEPT ![c] = "closed"]
    /\ calling' = [calling EXCEPT ![c] = {}]

Next ==
    \E c \in Checkouts :
        \/ Request(c)
        \/ Close(c)
        \/ \E k \in Callers : Call(c, k) \/ GiveUp(c, k) \/ Open(c, k) \/ CloseByCall(c, k)

Spec == Init /\ [][Next]_vars
=============================================================================
