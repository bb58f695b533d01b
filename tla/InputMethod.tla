---------------------------- MODULE InputMethod -----------------------------
(***************************************************************************)
(* TkInputMethodBinding of msys_sdk/ui_input_method.py: focus and touch    *)
(* events of the editors of one window, turned into show and hide calls on *)
(* the input-method role.                                                  *)
(*                                                                         *)
(* The events and close() run on Tk's thread, one after the other.  They   *)
(* leave the newest request in _pending; a worker thread, started when     *)
(* there is none, takes it and makes the role call, and ends when it finds *)
(* no request.  A role call is call() of the mIPC client or of a component *)
(* channel: the provider gets the requests in the order they were sent, a  *)
(* call that times out included, which it may serve after the caller has   *)
(* given up.  A refusal is an exception of the channel's call(), but an    *)
(* ordinary result of the client's, which the worker does not look at.     *)
(***************************************************************************)
EXTENDS Naturals, Sequences, FiniteSets

CONSTANTS Editor,  \* editable widgets
          Mode,    \* input modes, "en" among them
          Worker,  \* worker threads; one that has ended may be started again
          Nobody,  \* what has the focus when no editor has
          CallCap  \* bound: requests on their way to the provider

ASSUME ModeAssumption == "en" \in Mode /\ "none" \notin Mode
ASSUME ThreadAssumption ==
    /\ Worker # {} /\ "ui" \notin Worker
    /\ Nobody \notin Editor /\ CallCap \in Nat \ {0}

Request == [show : BOOLEAN, mode : Mode]
None == [show |-> FALSE, mode |-> "none"]
Req(visible, m) == [show |-> visible, mode |-> m]

VARIABLES
    widgets,    \* the mode an editor is bound with, or "none" (_widgets)
    focus,      \* the editor focus_get() answers, or Nobody
    check,      \* a focus check is scheduled (_focus_check)
    ui,         \* where Tk's thread is
    desired,    \* _desired
    pending,    \* _pending
    running,    \* _worker_running
    closed,     \* _closed
    worker,     \* where each worker is
    held,       \* the request a worker took
    calls,      \* requests sent that the provider has not answered
    replied,    \* the request it answered last, but for answers that a call raises
    ack         \* how many more it answers before the call of a thread ends

Caller == Worker \cup {"ui"}

queueVars == <<desired, pending, running>>
roleVars == <<calls, replied, ack>>
vars == <<widgets, focus, check, ui, queueVars, closed, worker, held, roleVars>>

Init ==
    /\ widgets = [e \in Editor |-> "none"]
    /\ focus = Nobody /\ check = FALSE /\ ui = "ready"
    /\ desired = None /\ pending = None /\ running = FALSE /\ closed = FALSE
    /\ worker = [w \in Worker |-> "off"] /\ held = [w \in Worker |-> None]
    /\ calls = <<>> /\ replied = None /\ ack = [t \in Caller |-> 0]

-----------------------------------------------------------------------------
(* Mistakes the properties must tell from the code. *)

OldestFirst(r) == IF pending = None THEN r ELSE pending
DiesOfFailure == "off"

-----------------------------------------------------------------------------
(* _queue().  A request equal to the desired one is dropped; a forced one only *)
(* while that is still on its way.                                             *)

Dropped(v, m, force) ==
    desired = Req(v, m) /\ (~force \/ pending # None \/ running)

Newest(r) == r

Queue(v, m, force) ==
    IF closed \/ Dropped(v, m, force)
    THEN UNCHANGED <<queueVars, worker>>
    ELSE /\ desired' = Req(v, m)
         /\ pending' = Newest(Req(v, m))
         /\ running' = TRUE
         /\ IF running THEN UNCHANGED worker
            ELSE LET new == CHOOSE w \in Worker : worker[w] = "off"
                 IN worker' = [worker EXCEPT ![new] = "take"]

-----------------------------------------------------------------------------
(* Events of the window, and what the application calls *)

\* hide() looks at _desired and takes the mode from it in two reads.
HideNow ==
    IF desired = None
    THEN Queue(FALSE, "en", FALSE) /\ UNCHANGED ui
    ELSE ui' = "hide" /\ UNCHANGED <<queueVars, worker>>

\* Between them a worker may set it to None, which has no mode.
Hide ==
    /\ ui = "hide"
    /\ IF desired = None
       THEN ui' = "raised" /\ UNCHANGED <<queueVars, worker>>
       ELSE ui' = "ready" /\ Queue(FALSE, desired.mode, FALSE)
    /\ UNCHANGED <<widgets, focus, check, closed, held, roleVars>>

\* Tk reports the exception of an event and goes on.
Recover ==
    /\ ui = "raised"
    /\ ui' = "ready"
    /\ UNCHANGED <<widgets, focus, check, queueVars, closed, worker, held, roleVars>>

Bound(e) == widgets[e] # "none"

\* bind(): a widget that is bound already gets its new mode and is synchronised.
Bind(e, m) ==
    /\ ui = "ready" /\ ~closed
    /\ widgets' = [widgets EXCEPT ![e] = m]
    /\ IF Bound(e) /\ focus # Nobody /\ Bound(focus)
       THEN Queue(TRUE, widgets'[focus], FALSE)
       ELSE UNCHANGED <<queueVars, worker>>
    /\ UNCHANGED <<focus, check, ui, closed, held, roleVars>>

FocusIn(e) ==
    /\ ui = "ready" /\ focus = Nobody
    /\ focus' = e
    /\ IF Bound(e) THEN check' = FALSE /\ Queue(TRUE, widgets[e], FALSE)
                   ELSE UNCHANGED <<check, queueVars, worker>>
    /\ UNCHANGED <<widgets, ui, closed, held, roleVars>>

FocusOut(e) ==
    /\ ui = "ready" /\ focus = e
    /\ focus' = Nobody
    /\ check' = (check \/ (Bound(e) /\ ~closed))
    /\ UNCHANGED <<widgets, ui, queueVars, closed, worker, held, roleVars>>

Touch(e) ==
    /\ ui = "ready" /\ Bound(e)
    /\ check' = FALSE
    /\ Queue(TRUE, widgets[e], TRUE)
    /\ UNCHANGED <<widgets, focus, ui, closed, held, roleVars>>

\* A press outside the editors, hide() of the application.
OutsidePress ==
    /\ ui = "ready"
    /\ check' = FALSE
    /\ HideNow
    /\ UNCHANGED <<widgets, focus, closed, held, roleVars>>

\* show() of the application.
Show(m) ==
    /\ ui = "ready"
    /\ check' = FALSE
    /\ Queue(TRUE, m, FALSE)
    /\ UNCHANGED <<widgets, focus, ui, closed, held, roleVars>>

\* sync_focus(): after_idle, the application, or the check that comes due.
\* It does nothing when focus_get() raises.
SyncFocus(hideIfMissing) ==
    \/ UNCHANGED <<ui, queueVars, worker>>
    \/ /\ ~closed
       /\ IF focus # Nobody /\ Bound(focus)
          THEN Queue(TRUE, widgets[focus], FALSE) /\ UNCHANGED ui
          ELSE IF hideIfMissing THEN HideNow ELSE UNCHANGED <<ui, queueVars, worker>>

Sync ==
    /\ ui = "ready"
    /\ SyncFocus(FALSE)
    /\ UNCHANGED <<widgets, focus, check, closed, held, roleVars>>

Settle ==
    /\ ui = "ready" /\ check
    /\ check' = FALSE
    /\ SyncFocus(TRUE)
    /\ UNCHANGED <<widgets, focus, closed, held, roleVars>>

Destroy(e) ==
    /\ ui = "ready" /\ Bound(e)
    /\ widgets' = [widgets EXCEPT ![e] = "none"]
    /\ focus' = IF focus = e THEN Nobody ELSE focus
    /\ check' = FALSE
    /\ HideNow
    /\ UNCHANGED <<closed, held, roleVars>>

-----------------------------------------------------------------------------
(* _worker() *)

Ends == pending = None \/ closed
Stays(w) == UNCHANGED running

Take(w) ==
    /\ worker[w] = "take"
    /\ pending' = None
    /\ IF Ends
       THEN /\ worker' = [worker EXCEPT ![w] = "off"]
            /\ running' = FALSE
            /\ UNCHANGED held
       ELSE /\ worker' = [worker EXCEPT ![w] = "call"]
            /\ held' = [held EXCEPT ![w] = pending]
            /\ Stays(w)
    /\ UNCHANGED <<widgets, focus, check, ui, desired, closed, roleVars>>

\* role_call() sends the request, or fails before that.
Sends(t, r) ==
    /\ Len(calls) < CallCap
    /\ calls' = Append(calls, r)
    /\ ack' = [ack EXCEPT ![t] = Len(calls) + 1]
    /\ UNCHANGED replied

Call(w) ==
    /\ worker[w] = "call"
    /\ \/ Sends(w, held[w]) /\ worker' = [worker EXCEPT ![w] = "await"]
       \/ worker' = [worker EXCEPT ![w] = "failed"] /\ UNCHANGED roleVars
    /\ UNCHANGED <<widgets, focus, check, ui, queueVars, closed, held>>

Answered(w) ==
    /\ worker[w] = "await" /\ ack[w] = 0
    /\ worker' = [worker EXCEPT ![w] = "take"]
    /\ UNCHANGED <<widgets, focus, check, ui, queueVars, closed, held, roleVars>>

TimesOut(w) ==
    /\ worker[w] = "await" /\ ack[w] # 0
    /\ worker' = [worker EXCEPT ![w] = "failed"]
    /\ ack' = [ack EXCEPT ![w] = 0]
    /\ UNCHANGED <<widgets, focus, check, ui, queueVars, closed, held, calls, replied>>

\* A failed request is forgotten unless there is a newer one.
Forgets(w) == desired = held[w] /\ pending = None
AfterFailure == "take"

Failed(w) ==
    /\ worker[w] = "failed"
    /\ desired' = IF Forgets(w) THEN None ELSE desired
    /\ worker' = [worker EXCEPT ![w] = AfterFailure]
    /\ UNCHANGED <<widgets, focus, check, ui, pending, running, closed, held, roleVars>>

-----------------------------------------------------------------------------
(* close().  request_hide may be false. *)

Close ==
    /\ ui = "ready" /\ ~closed
    /\ check' = FALSE
    /\ pending' = None
    /\ desired' = Req(FALSE, IF desired = None THEN "en" ELSE desired.mode)
    /\ closed' = TRUE
    /\ ui' \in {"closed"} \cup (IF desired.show THEN {"closeHide"} ELSE {})
    /\ widgets' = IF ui' = "closed" THEN [e \in Editor |-> "none"] ELSE widgets
    /\ UNCHANGED <<focus, running, worker, held, roleVars>>

CloseHide ==
    /\ ui = "closeHide"
    /\ \/ Sends("ui", Req(FALSE, "en")) /\ ui' = "closeAwait"
       \/ ui' = "unbind" /\ UNCHANGED roleVars
    /\ UNCHANGED <<widgets, focus, check, queueVars, closed, worker, held>>

CloseTimesOut ==
    /\ ui = "closeAwait" /\ ack["ui"] # 0
    /\ ui' = "unbind"
    /\ ack' = [ack EXCEPT !["ui"] = 0]
    /\ UNCHANGED <<widgets, focus, check, queueVars, closed, worker, held, calls, replied>>

\* "hidden" is "closed" after a hide that was answered.
Unbind ==
    /\ ui = "unbind" \/ (ui = "closeAwait" /\ ack["ui"] = 0)
    /\ ui' = IF ui = "unbind" THEN "closed" ELSE "hidden"
    /\ widgets' = [e \in Editor |-> "none"]
    /\ UNCHANGED <<focus, check, queueVars, closed, worker, held, roleVars>>

-----------------------------------------------------------------------------
(* The provider of the input-method role, and the calls on their way to it *)

\* Every call before it in the line is one answer nearer to its own.
Answer ==
    /\ calls # <<>>
    /\ calls' = Tail(calls)
    /\ ack' = [t \in Caller |-> IF ack[t] = 0 THEN 0 ELSE ack[t] - 1]
    /\ UNCHANGED <<widgets, focus, check, queueVars, closed, held>>

Serve ==
    /\ Answer
    /\ replied' = Head(calls)
    /\ UNCHANGED <<ui, worker>>

\* It answers with an error: MsysClient.call() returns the record as it returns any
\* other, call() of a component channel raises it in the thread that waits.
Refuse ==
    /\ Answer
    /\ \/ replied' = Head(calls) /\ UNCHANGED <<ui, worker>>
       \/ /\ worker' = [w \in Worker |-> IF ack[w] = 1 THEN "failed" ELSE worker[w]]
          /\ ui' = IF ack["ui"] = 1 THEN "unbind" ELSE ui
          /\ UNCHANGED replied

-----------------------------------------------------------------------------
Window ==
    \/ \E e \in Editor : \/ \E m \in Mode : Bind(e, m)
                         \/ FocusIn(e) \/ FocusOut(e) \/ Touch(e) \/ Destroy(e)
    \/ \E m \in Mode : Show(m)
    \/ OutsidePress \/ Sync \/ Settle \/ Close

UiStep == Hide \/ Recover \/ CloseHide \/ CloseTimesOut \/ Unbind

WorkerStep(w) == Take(w) \/ Call(w) \/ Answered(w) \/ TimesOut(w) \/ Failed(w)

Next == Window \/ UiStep \/ (\E w \in Worker : WorkerStep(w)) \/ Serve \/ Refuse

Spec == Init /\ [][Next]_vars

\* Workers are scheduled and their calls time out; windows and the provider
\* promise nothing.
FairSpec == Spec /\ \A w \in Worker : WF_vars(WorkerStep(w))

-----------------------------------------------------------------------------
(* Properties *)

\* The type invariant.
TypeOK ==
    /\ widgets \in [Editor -> Mode \cup {"none"}]
    /\ focus \in Editor \cup {Nobody} /\ check \in BOOLEAN
    /\ ui \in {"ready", "hide", "raised", "closeHide", "closeAwait", "unbind", "closed",
               "hidden"}
    /\ {desired, pending, replied} \subseteq Request \cup {None}
    /\ running \in BOOLEAN /\ closed \in BOOLEAN
    /\ worker \in [Worker -> {"off", "take", "call", "await", "failed"}]
    /\ held \in [Worker -> Request \cup {None}]
    /\ calls \in Seq(Request) /\ ack \in [Caller -> Nat]

\* There is at most one worker, and there is one when _worker_running says so:
\* two would make role calls at once and could swap a show and a hide.
OneWorker ==
    Cardinality({w \in Worker : worker[w] # "off"}) = IF running THEN 1 ELSE 0

\* When no worker is left, what is desired is what the provider answered last: no request
\* is lost in the coalescing, none is overtaken by an older one, and one whose call
\* raised (it was not sent, timed out, or was refused through a channel) is not taken
\* for granted.  A refusal that call() returns as a record is: the worker takes
\* whatever comes back for success.
Settled ==
    ~running /\ ~closed /\ desired # None =>
        pending = None /\ calls = <<>> /\ replied = desired

\* A request that waits for the worker is taken, whatever became of the ones
\* before it.
RequestsTaken == pending # None ~> pending = None

\* What the README says of close(): an ordered hide.  Once it was answered, and
\* nothing is on its way any more, the provider has not been asked to show after it.
HideOrdered ==
    ui = "hidden" /\ calls = <<>> /\ (\A w \in Worker : worker[w] = "off") => ~replied.show

-----------------------------------------------------------------------------
(* The inductive invariant: what OneWorker and Settled rest on. *)

\* The workers that run: the one that was started last, or none.
Active == {w \in Worker : worker[w] # "off"}
Single == IF running THEN \E w \in Worker : Active = {w} ELSE Active = {}

\* Only a thread in role_call() waits for an answer, only one with a request makes
\* a call, and Tk's thread makes one only after it has set closed.
Waiting ==
    /\ \A w \in Worker : /\ ack[w] # 0 => worker[w] = "await"
                         /\ worker[w] \in {"call", "await", "failed"} => held[w] # None
    /\ ack["ui"] # 0 => ui = "closeAwait"
    /\ ui \in {"closeHide", "closeAwait", "unbind", "closed", "hidden"} => closed

\* The request the provider answers last, of those that were sent.
Latest == IF calls = <<>> THEN replied ELSE calls[Len(calls)]

\* Until close(): what is desired waits for the worker, is what the worker works on, or
\* was answered last.
InTurn == ~closed =>
    /\ pending # None => running /\ pending = desired
    /\ \A w \in Worker :
        /\ worker[w] \in {"call", "await", "failed"} /\ pending = None => held[w] = desired
        /\ worker[w] = "await" => ack[w] = Len(calls) /\ Latest = held[w]
        /\ worker[w] = "take" /\ pending = None =>
               desired = None \/ (calls = <<>> /\ replied = desired)

IInv == TypeOK /\ OneWorker /\ Settled /\ Single /\ Waiting /\ InTurn
=============================================================================
