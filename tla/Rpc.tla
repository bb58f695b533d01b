-------------------------------- MODULE Rpc ---------------------------------
(***************************************************************************)
(* What the callers of an MsysClient are promised, with no threads, locks, *)
(* queues or socket: every call gets a request id of its own and exactly   *)
(* one outcome.  A reply is the answer to that request; a failure means    *)
(* that the client has terminated, and gives the one reason it terminated  *)
(* with (or that this caller's own send failed); once it has terminated no *)
(* call begins.                                                            *)
(***************************************************************************)
EXTENDS MipcOutcome

CONSTANT Caller

VARIABLES state,     \* "none", or the reason the client terminated
          fresh,     \* the next request id
          active,    \* the id of the call a caller is in, or 0
          answered,  \* ids that were answered
          outcome    \* what a caller's last call returned or raised

rpcVars == <<state, fresh, active, answered, outcome>>

Init ==
    /\ state = "none" /\ fresh = 1 /\ answered = {}
    /\ active = [c \in Caller |-> 0]
    /\ outcome = [c \in Caller |-> Nothing]

Begin(c) ==
    /\ active[c] = 0 /\ state = "none"
    /\ active' = [active EXCEPT ![c] = fresh]
    /\ fresh' = fresh + 1
    /\ UNCHANGED <<state, answered, outcome>>

Reject(c) ==
    /\ active[c] = 0 /\ state # "none"
    /\ outcome' = [outcome EXCEPT ![c] = Fail(state)]
    /\ UNCHANGED <<state, fresh, active, answered>>

\* The outcomes a call may have now.
Possible(c) ==
    {TimedOut, Invalid}
        \cup (IF active[c] \in answered THEN {Reply(active[c])} ELSE {})
        \cup (IF state # "none" THEN {Fail(state), Fail("send")} ELSE {})

End(c) ==
    /\ active[c] # 0
    /\ \E o \in Possible(c) : outcome' = [outcome EXCEPT ![c] = o]
    /\ active' = [active EXCEPT ![c] = 0]
    /\ UNCHANGED <<state, fresh, answered>>

Answer(i) ==
    /\ i < fresh
    /\ answered' = answered \cup {i}
    /\ UNCHANGED <<state, fresh, active, outcome>>

Break(e) ==
    /\ state = "none"
    /\ state' = e
    /\ UNCHANGED <<fresh, active, answered, outcome>>

Next ==
    \/ \E c \in Caller : Begin(c) \/ Reject(c) \/ End(c)
    \/ \E i \in 1..(fresh - 1) : Answer(i)
    \/ \E e \in Reason : Break(e)

Spec == Init /\ [][Next]_rpcVars
=============================================================================
