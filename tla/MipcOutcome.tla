---------------------------- MODULE MipcOutcome -----------------------------
(***************************************************************************)
(* Why a client of msys_sdk/client.py terminates, and what one of its      *)
(* calls returns or raises.                                                *)
(***************************************************************************)
EXTENDS Naturals

\* The ways _terminate() is called.
Reason == {"eof", "shutdown", "protocol", "reset", "send", "close"}

\* Those it reports to recv() as a record; of the others recv() raises an error.
Quiet == {"eof", "shutdown", "close"}

\* What a waiter holds, and what call() returns or raises.
Outcome == [kind : {"none", "reply", "fail", "timeout", "invalid"},
            id : Nat, why : Reason \cup {"none"}]
Nothing == [kind |-> "none", id |-> 0, why |-> "none"]
Reply(i) == [kind |-> "reply", id |-> i, why |-> "none"]
Fail(e) == [kind |-> "fail", id |-> 0, why |-> e]
TimedOut == [kind |-> "timeout", id |-> 0, why |-> "none"]
Invalid == [kind |-> "invalid", id |-> 0, why |-> "none"]
=============================================================================
