------------------------------- MODULE Channel -------------------------------
(***************************************************************************)
(* What the callers of a component channel are promised, with no threads,  *)
(* locks, waiters or descriptor: every call gets a request id of its own   *)
(* and one outcome.  A reply is the answer to that request.  A channel has *)
(* two ends.  close() refuses the calls that come after it and fails those *)
(* in progress; the end of the pump fails those in progress, with the      *)
(* reason it ended for, and no other: a call that begins afterwards is not *)
(* told, and can only time out, fail to be sent, or be failed by close().  *)
(***************************************************************************)
EXTENDS MipcOutcome

CONSTANT Caller

VARIABLES started,   \* start() was called
          closed,    \* close() was called
          end,       \* "none", or the reason the pump ended
          fresh,     \* the next request id
          active,    \* the id of the call a caller is in, or 0
          lost,      \* the callers whose call the pump left without an answer
          answered,  \* ids that were answered
          outcome    \* what a caller's last call returned or raised

channelVars == <<started, closed, end, fresh, active, lost, answered, outcome>>

\* Why a pump ends, other than because of close().
PumpReason == {"eof", "shutdown", "protocol", "reset"}

Init ==
    /\ started = FALSE /\ closed = FALSE /\ end = "none" /\ fresh = 1
    /\ active = [c \in Caller |-> 0] /\ lost = {} /\ answered = {}
    /\ outcome = [c \in Caller |-> Nothing]

Start ==
    /\ ~started /\ started' = TRUE
    /\ UNCHANGED <<closed, end, fresh, active, lost, answered, outcome>>

Begin(c) ==
    /\ active[c] = 0 /\ started /\ ~closed
    /\ active' = [active EXCEPT ![c] = fresh]
    /\ fresh' = fresh + 1
    /\ UNCHANGED <<started, closed, end, lost, answered, outcome>>

Reject(c) ==
    /\ active[c] = 0 /\ (started => closed)
    /\ outcome' = [outcome EXCEPT ![c] = IF started THEN Fail("close") ELSE Invalid]
    /\ UNCHANGED <<started, closed, end, fresh, active, lost, answered>>

\* The outcomes a call may have now.
Possible(c) ==
    {TimedOut, Fail("send")}
        \cup IF c \in lost THEN {Fail(end)}
             ELSE (IF active[c] \in answered THEN {Reply(active[c])} ELSE {})
                  \cup (IF closed THEN {Fail("close")} ELSE {})

End(c) ==
    /\ active[c] # 0
    /\ \E o \in Possible(c) : outcome' = [outcome EXCEPT ![c] = o]
    /\ active' = [active EXCEPT ![c] = 0]
    /\ lost' = lost \ {c}
    /\ UNCHANGED <<started, closed, end, fresh, answered>>

Answer(i) ==
    /\ i < fresh
    /\ answered' = answered \cup {i}
    /\ UNCHANGED <<started, closed, end, fresh, active, lost, outcome>>

\* The pump ends and leaves nobody alone but who has an answer or is failed by close().
PumpEnd(e) ==
    /\ started /\ end = "none" /\ end' = e
    /\ lost' \subseteq {c \in Caller : active[c] # 0}
    /\ \A c \in Caller \ lost' : active[c] # 0 => closed \/ active[c] \in answered
    /\ UNCHANGED <<started, closed, fresh, active, answered, outcome>>

Close ==
    /\ closed' = TRUE
    /\ UNCHANGED <<started, end, fresh, active, lost, answered, outcome>>

Next ==
    \/ Start \/ Close
    \/ \E c \in Caller : Begin(c) \/ Reject(c) \/ End(c)
    \/ \E i \in 1..(fresh - 1) : Answer(i)
    \/ \E e \in PumpReason : PumpEnd(e)

Spec == Init /\ [][Next]_channelVars
=============================================================================
