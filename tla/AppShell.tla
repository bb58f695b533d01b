------------------------------ MODULE AppShell ------------------------------
(***************************************************************************)
(* TouchApplication of msys_sdk/tk_app.py: the window of an application    *)
(* and its place between msysd and the input-method role.                  *)
(*                                                                         *)
(* Tk's thread runs one event, timer or idle callback at a time.  The pump *)
(* of the ComponentChannel and threads of the application post messages to *)
(* it, which a timer takes from the queue.  Requests to the input-method   *)
(* role go through a worker of the shell's own, over the channel.  close() *)
(* is called by the window manager, by the message that ends the channel   *)
(* or by the application's handle_message(), and blocks Tk's thread in a   *)
(* last hide call.                                                         *)
(*                                                                         *)
(* Of the channel this module takes what ComponentChannel is shown to do:  *)
(* its end is told once and last, and a call ends by an answer or by an    *)
(* error.                                                                  *)
(***************************************************************************)
EXTENDS Naturals, Sequences, FiniteSets

CONSTANTS Editor,  \* editable widgets
          Mode,    \* input modes, "en" among them
          Worker,  \* worker threads; one that has ended may be started again
          Nobody,  \* what has the focus when no editor has
          CallCap, \* bound: requests on their way to the provider
          PostCap  \* bound: messages before the one that ends the channel

ASSUME ModeAssumption == "en" \in Mode /\ "none" \notin Mode
ASSUME ThreadAssumption == Worker # {} /\ "ui" \notin Worker
ASSUME BoundAssumption == Nobody \notin Editor /\ CallCap \in Nat \ {0} /\ PostCap \in Nat

Request == [show : BOOLEAN, mode : Mode]
None == [show |-> FALSE, mode |-> "none"]
Req(visible, m) == [show |-> visible, mode |-> m]

\* Messages: an event of msysd, one of the application, the end of the channel
\* (shutdown or eof).
Message == {"event", "work", "end"}

VARIABLES
    widgets,    \* "new", the mode an editor is attached with, or "gone" (_input_widgets)
    focus,      \* the editor focus_get() answers, or Nobody
    check,      \* a focus check is scheduled (_input_focus_check)
    idle,       \* the reconciliation of activate_lifecycle() is scheduled
    missed,     \* the attached editor that has the focus got it before there was a channel
    ui,         \* where Tk's thread is
    back,       \* where it returns to from close()
    timer,      \* _poll_messages() is scheduled
    closed,     \* self.closed
    chan,       \* _channel: "none", "refused" (no handshake), "up", "closed"
    told,       \* the pump has posted its last record and ended
    messages,   \* _messages
    posted,     \* how many messages were posted
    handled,    \* how many were handled
    desired, pending, running,  \* _input_desired, _input_pending, _input_worker_running
    worker,     \* where each worker is
    held,       \* the request a worker took
    calls,      \* requests sent that the provider has not served
    applied,    \* the request the provider served last
    ack         \* how many more are served before the call of a thread is answered

Caller == Worker \cup {"ui"}

windowVars == <<widgets, focus, missed>>
queueVars == <<desired, pending, running>>
chanVars == <<chan, told>>
roleVars == <<calls, applied, ack>>
mailVars == <<timer, messages, posted, handled>>
vars == <<windowVars, check, idle, ui, back, closed, chanVars, mailVars, queueVars, worker,
          held, roleVars>>

Init ==
    /\ widgets = [e \in Editor |-> "new"] /\ focus = Nobody /\ missed = FALSE
    /\ check = FALSE /\ idle = FALSE /\ ui = "ready" /\ back = "gone"
    /\ closed = FALSE /\ chan = "none" /\ told = FALSE
    /\ timer = TRUE /\ messages = <<>> /\ posted = 0 /\ handled = 0
    /\ desired = None /\ pending = None /\ running = FALSE
    /\ worker = [w \in Worker |-> "off"] /\ held = [w \in Worker |-> None]
    /\ calls = <<>> /\ applied = None /\ ack = [t \in Caller |-> 0]

-----------------------------------------------------------------------------
(* Mistakes the properties must tell from the code. *)

NeverForgets(w) == FALSE
GoesOn == "poll"
NoTimer == timer' = FALSE
NotScheduled == idle' = FALSE

-----------------------------------------------------------------------------
(* _queue_input_method() *)

Attached(e) == widgets[e] \in Mode

\* A request equal to the desired one is dropped; a forced one only while that
\* is still on its way.
Dropped(v, m, force) ==
    desired = Req(v, m) /\ (~force \/ pending # None \/ running)

Queue(v, m, force) ==
    IF closed \/ chan = "none" \/ Dropped(v, m, force)
    THEN UNCHANGED <<queueVars, worker>>
    ELSE /\ desired' = Req(v, m)
         /\ pending' = Req(v, m)
         /\ running' = TRUE
         /\ IF running THEN UNCHANGED worker
            ELSE LET new == CHOOSE w \in Worker : worker[w] = "off"
                 IN worker' = [worker EXCEPT ![new] = "take"]

-----------------------------------------------------------------------------
(* Events of the window *)

\* request_input_method_hide() looks at _input_desired and takes the mode from
\* it in two reads.
HideNow ==
    IF desired = None
    THEN Queue(FALSE, "en", FALSE) /\ UNCHANGED ui
    ELSE ui' = "hide" /\ UNCHANGED <<queueVars, worker>>

\* Between them a worker may set it to None: the callback raises, and Tk reports it.
Hide ==
    /\ ui = "hide" /\ ui' = "ready"
    /\ IF desired = None THEN UNCHANGED <<queueVars, worker>>
                         ELSE Queue(FALSE, desired.mode, FALSE)
    /\ UNCHANGED <<windowVars, check, idle, back, closed, chanVars, mailVars, held, roleVars>>

\* attach_input_method(), once for an editor.
Attach(e, m) ==
    /\ ui = "ready" /\ widgets[e] = "new"
    /\ widgets' = [widgets EXCEPT ![e] = m]
    /\ UNCHANGED <<focus, missed, check, idle, ui, back, closed, chanVars, mailVars, queueVars,
                   worker, held, roleVars>>

FocusIn(e) ==
    /\ ui = "ready" /\ focus = Nobody /\ widgets[e] # "gone"
    /\ focus' = e
    /\ IF Attached(e) THEN check' = FALSE /\ Queue(TRUE, widgets[e], FALSE)
                      ELSE UNCHANGED <<check, queueVars, worker>>
    /\ UNCHANGED <<widgets, missed, idle, ui, back, closed, chanVars, mailVars, held, roleVars>>

FocusOut(e) ==
    /\ ui = "ready" /\ focus = e
    /\ focus' = Nobody /\ missed' = FALSE
    /\ check' = (check \/ Attached(e))
    /\ UNCHANGED <<widgets, idle, ui, back, closed, chanVars, mailVars, queueVars, worker, held,
                   roleVars>>

Touch(e) ==
    /\ ui = "ready" /\ Attached(e)
    /\ check' = FALSE
    /\ Queue(TRUE, widgets[e], TRUE)
    /\ UNCHANGED <<windowVars, idle, ui, back, closed, chanVars, mailVars, held, roleVars>>

\* A press outside the editors, or request_input_method_hide() of the application.
OutsidePress ==
    /\ ui = "ready"
    /\ check' = FALSE
    /\ HideNow
    /\ UNCHANGED <<windowVars, idle, back, closed, chanVars, mailVars, held, roleVars>>

Destroy(e) ==
    /\ ui = "ready" /\ Attached(e)
    /\ widgets' = [widgets EXCEPT ![e] = "gone"]
    /\ focus' = IF focus = e THEN Nobody ELSE focus
    /\ missed' = (missed /\ focus # e)
    /\ Queue(FALSE, widgets[e], FALSE)
    /\ UNCHANGED <<check, idle, ui, back, closed, chanVars, mailVars, held, roleVars>>

\* _reconcile_input_method_focus().  focus_get() raises only when the window is gone.
Reconcile(hideIfMissing) ==
    IF closed \/ chan = "none"
    THEN UNCHANGED <<ui, queueVars, worker>>
    ELSE IF focus # Nobody /\ Attached(focus)
         THEN Queue(TRUE, widgets[focus], FALSE) /\ UNCHANGED ui
         ELSE IF hideIfMissing THEN HideNow ELSE UNCHANGED <<ui, queueVars, worker>>

\* The check that comes due.
Settle ==
    /\ ui = "ready" /\ check
    /\ check' = FALSE
    /\ Reconcile(TRUE)
    /\ UNCHANGED <<windowVars, idle, back, closed, chanVars, mailVars, held, roleVars>>

-----------------------------------------------------------------------------
(* activate_lifecycle().  Without MSYS_CONTROL_FD, or when it is invalid, the  *)
(* application stays standalone; a handshake that fails leaves a channel       *)
(* without a pump.                                                             *)

Schedule == idle' = TRUE

Activate ==
    /\ ui = "ready" /\ chan = "none"
    /\ \/ chan' = "refused" /\ UNCHANGED idle
       \/ chan' = "up" /\ Schedule
    /\ missed' = (chan' = "up" /\ focus # Nobody /\ Attached(focus))
    /\ UNCHANGED <<widgets, focus, check, ui, back, closed, told, mailVars, queueVars, worker,
                   held, roleVars>>

\* What it schedules for when Tk is idle.
IdleRuns ==
    /\ ui = "ready" /\ idle
    /\ idle' = FALSE
    /\ Reconcile(FALSE)
    /\ UNCHANGED <<windowVars, check, back, closed, chanVars, mailVars, held, roleVars>>

-----------------------------------------------------------------------------
(* post() by other threads *)

Post(m) ==
    /\ messages' = Append(messages, m)
    /\ UNCHANGED <<windowVars, check, idle, ui, back, closed, chan, timer, handled, queueVars,
                   worker, held, roleVars>>

\* A thread of the application, or the pump with an event.
PostMessage(m) ==
    /\ posted < PostCap /\ posted' = posted + 1
    /\ m = "event" => chan = "up" /\ ~told
    /\ Post(m)
    /\ UNCHANGED told

\* The pump with the last record: msysd is gone, or the channel was closed here.
ChannelEnds ==
    /\ chan \in {"up", "closed"} /\ ~told
    /\ told' = TRUE
    /\ Post("end")
    /\ UNCHANGED posted

-----------------------------------------------------------------------------
(* _poll_messages().  What handle_message() does is up to the application; it  *)
(* returns, and may have called close().                                       *)

PollStart ==
    /\ ui = "ready" /\ timer
    /\ timer' = FALSE
    /\ ui' = "poll"
    /\ UNCHANGED <<windowVars, check, idle, back, closed, chanVars, messages, posted, handled,
                   queueVars, worker, held, roleVars>>

\* close() up to the lock.
CloseBegins(return) ==
    /\ ~closed /\ closed' = TRUE
    /\ check' = FALSE
    /\ ui' = "closing" /\ back' = return

Handled == handled' = handled + 1
AfterEnd == "gone"

\* On a window that is gone lift() raises, and the callback ends.
HandleEvent ==
    /\ IF closed THEN ui' = "gone" /\ UNCHANGED handled ELSE Handled /\ UNCHANGED ui
    /\ UNCHANGED <<check, back, closed>>

HandleWork ==
    /\ Handled
    /\ CloseBegins("poll") \/ UNCHANGED <<check, ui, back, closed>>

HandleEnd ==
    /\ UNCHANGED handled
    /\ IF closed THEN ui' = AfterEnd /\ UNCHANGED <<check, back, closed>>
                 ELSE CloseBegins(AfterEnd)

PollNext ==
    /\ ui = "poll" /\ messages # <<>>
    /\ messages' = Tail(messages)
    /\ CASE Head(messages) = "event" -> HandleEvent
         [] Head(messages) = "work" -> HandleWork
         [] Head(messages) = "end" -> HandleEnd
    /\ UNCHANGED <<windowVars, idle, chanVars, timer, posted, queueVars, worker, held,
                   roleVars>>

Rearm == timer' = TRUE

\* after() raises when the window is gone.
PollEnd ==
    /\ ui = "poll" /\ messages = <<>>
    /\ IF closed THEN ui' = "gone" /\ UNCHANGED timer ELSE ui' = "ready" /\ Rearm
    /\ UNCHANGED <<windowVars, check, idle, back, closed, chanVars, messages, posted, handled,
                   queueVars, worker, held, roleVars>>

-----------------------------------------------------------------------------
(* _input_method_worker() *)

Ends == pending = None \/ closed
Stays(w) == UNCHANGED running

Take(w) ==
    /\ worker[w] = "take"
    /\ pending' = None
    /\ IF Ends
       THEN /\ worker' = [worker EXCEPT ![w] = "off"]
            /\ running' = FALSE
            /\ UNCHANGED held
       ELSE /\ worker' = [worker EXCEPT ![w] = "call"]
            /\ held' = [held EXCEPT ![w] = pending]
            /\ Stays(w)
    /\ UNCHANGED <<windowVars, check, idle, ui, back, closed, chanVars, mailVars, desired,
                   roleVars>>

\* ComponentChannel.call() sends the request, unless it fails first; it can only
\* fail on a channel that has no pump or is closed.
Sends(t, r) ==
    /\ chan = "up" /\ Len(calls) < CallCap
    /\ calls' = Append(calls, r)
    /\ ack' = [ack EXCEPT ![t] = Len(calls) + 1]
    /\ UNCHANGED applied

Call(w) ==
    /\ worker[w] = "call"
    /\ \/ Sends(w, held[w]) /\ worker' = [worker EXCEPT ![w] = "await"]
       \/ worker' = [worker EXCEPT ![w] = "failed"] /\ UNCHANGED roleVars
    /\ UNCHANGED <<windowVars, check, idle, ui, back, closed, chanVars, mailVars, queueVars,
                   held>>

Answered(w) ==
    /\ worker[w] = "await" /\ ack[w] = 0
    /\ worker' = [worker EXCEPT ![w] = "take"]
    /\ UNCHANGED <<windowVars, check, idle, ui, back, closed, chanVars, mailVars, queueVars,
                   held, roleVars>>

\* The call times out, or the end of the channel fails it.
CallFails(w) ==
    /\ worker[w] = "await" /\ ack[w] # 0
    /\ worker' = [worker EXCEPT ![w] = "failed"]
    /\ ack' = [ack EXCEPT ![w] = 0]
    /\ UNCHANGED <<windowVars, check, idle, ui, back, closed, chanVars, mailVars, queueVars,
                   held, calls, applied>>

\* A failed request is forgotten unless there is a newer one.
Forgets(w) == desired = held[w] /\ pending = None

Failed(w) ==
    /\ worker[w] = "failed"
    /\ desired' = IF Forgets(w) THEN None ELSE desired
    /\ worker' = [worker EXCEPT ![w] = "take"]
    /\ UNCHANGED <<windowVars, check, idle, ui, back, closed, chanVars, mailVars, pending,
                   running, held, roleVars>>

-----------------------------------------------------------------------------
(* close() *)

CloseWindow ==
    /\ ui = "ready"
    /\ CloseBegins("gone")
    /\ UNCHANGED <<windowVars, idle, chanVars, mailVars, queueVars, worker, held, roleVars>>

\* Under the lock.
DropRequests ==
    /\ ui = "closing"
    /\ pending' = None
    /\ desired' = Req(FALSE, IF desired = None THEN "en" ELSE desired.mode)
    /\ ui' = IF chan # "none" /\ desired.show THEN "closeHide" ELSE "destroy"
    /\ UNCHANGED <<windowVars, check, idle, back, closed, chanVars, mailVars, running, worker,
                   held, roleVars>>

AfterHide == "destroy"

\* The last call is made once.
CloseHide ==
    /\ ui = "closeHide"
    /\ \/ Sends("ui", Req(FALSE, "en")) /\ ui' = "closeAwait"
       \/ ui' = AfterHide /\ UNCHANGED roleVars
    /\ UNCHANGED <<windowVars, check, idle, back, closed, chanVars, mailVars, queueVars, worker,
                   held>>

CloseReturns ==
    /\ ui = "closeAwait"
    /\ ui' = IF ack["ui"] = 0 THEN "destroy" ELSE AfterHide
    /\ ack' = [ack EXCEPT !["ui"] = 0]
    /\ UNCHANGED <<windowVars, check, idle, back, closed, chanVars, mailVars, queueVars, worker,
                   held, calls, applied>>

\* channel.close() and root.destroy().
DestroyRoot ==
    /\ ui = "destroy"
    /\ chan' = IF chan = "up" THEN "closed" ELSE chan
    /\ ui' = back
    /\ UNCHANGED <<windowVars, check, idle, back, closed, told, mailVars, queueVars, worker,
                   held, roleVars>>

-----------------------------------------------------------------------------
(* The provider of the role.  Its answers arrive while the pump runs. *)

Answer ==
    IF chan = "up" /\ ~told
    THEN ack' = [t \in Caller |-> IF ack[t] = 0 THEN 0 ELSE ack[t] - 1]
    ELSE UNCHANGED ack

Serve ==
    /\ calls # <<>>
    /\ calls' = Tail(calls)
    /\ applied' = Head(calls)
    /\ Answer
    /\ UNCHANGED <<windowVars, check, idle, ui, back, closed, chanVars, mailVars, queueVars,
                   worker, held>>

\* It answers with an error.
Refuse ==
    /\ calls # <<>>
    /\ calls' = Tail(calls)
    /\ Answer
    /\ worker' = [w \in Worker |-> IF ack[w] = 1 /\ ack'[w] = 0 THEN "failed" ELSE worker[w]]
    /\ UNCHANGED <<windowVars, check, idle, ui, back, closed, chanVars, mailVars, queueVars,
                   held, applied>>

-----------------------------------------------------------------------------
Window ==
    \/ \E e \in Editor : \/ \E m \in Mode : Attach(e, m)
                         \/ FocusIn(e) \/ FocusOut(e) \/ Touch(e) \/ Destroy(e)
    \/ OutsidePress \/ Settle \/ Activate \/ IdleRuns \/ CloseWindow

Others == ChannelEnds \/ (\E m \in {"event", "work"} : PostMessage(m)) \/ Serve \/ Refuse

TkStep ==
    Hide \/ PollNext \/ PollEnd \/ DropRequests \/ CloseHide \/ CloseReturns \/ DestroyRoot

WorkerStep(w) == Take(w) \/ Call(w) \/ Answered(w) \/ CallFails(w) \/ Failed(w)

Next == Window \/ Others \/ PollStart \/ TkStep \/ (\E w \in Worker : WorkerStep(w))

Spec == Init /\ [][Next]_vars

\* A callback of Tk goes on until it returns, workers are scheduled, and calls
\* time out.  Between events Tk serves a timer that is due and what waits for it
\* to be idle, however many events there are.
FairSpec ==
    /\ Spec
    /\ WF_vars(TkStep) /\ SF_vars(PollStart) /\ SF_vars(IdleRuns)
    /\ \A w \in Worker : WF_vars(WorkerStep(w))

-----------------------------------------------------------------------------
(* Properties *)

\* The type invariant.
TypeOK ==
    /\ widgets \in [Editor -> Mode \cup {"new", "gone"}]
    /\ focus \in Editor \cup {Nobody}
    /\ {missed, check, idle, timer, closed, told, running} \subseteq BOOLEAN
    /\ ui \in {"ready", "hide", "poll", "closing", "closeHide", "closeAwait", "destroy", "gone"}
    /\ back \in {"poll", "gone"}
    /\ chan \in {"none", "refused", "up", "closed"}
    /\ messages \in Seq(Message) /\ posted \in 0..PostCap /\ handled \in 0..posted
    /\ {desired, pending, applied} \subseteq Request \cup {None}
    /\ worker \in [Worker -> {"off", "take", "call", "await", "failed"}]
    /\ held \in [Worker -> Request \cup {None}]
    /\ calls \in Seq(Request) /\ ack \in [Caller -> Nat]

\* There is at most one worker, and there is one when _input_worker_running says
\* so: two would make role calls at once and could swap a show and a hide.
OneWorker ==
    Cardinality({w \in Worker : worker[w] # "off"}) = IF running THEN 1 ELSE 0

\* When no worker is left, the provider was asked last for what is desired, and
\* the answer was not an error: no request is lost in the coalescing or overtaken
\* by an older one, and a failed one is not taken for granted.
Settled ==
    ~running /\ ~closed /\ desired # None =>
        pending = None /\ calls = <<>> /\ applied = desired

EndTaken == told /\ \A i \in DOMAIN messages : messages[i] # "end"

\* The message that ends the channel is the last one _poll_messages() acts on,
\* even if threads of the application post more while close() runs.
NothingAfterEnd == [][EndTaken => handled' = handled]_vars

\* The end of the channel closes the window: the timer is set again after
\* whatever was handled before.  And close() returns although the provider is
\* silent or the channel has ended, and leaves no worker behind.
EndCloses ==
    /\ told ~> closed
    /\ closed ~> ui = "gone" /\ \A w \in Worker : worker[w] = "off"

\* An editor that got the focus before there was a channel, and has kept it, is
\* not forgotten: a request follows and a worker takes it.
EarlyFocusServed == missed ~> (\E w \in Worker : held[w] # None) \/ closed \/ ~missed

-----------------------------------------------------------------------------
(* The inductive invariant: what OneWorker, Settled and NothingAfterEnd rest on. *)

\* The workers that run: the one that was started last, or none.
Active == {w \in Worker : worker[w] # "off"}
Single == IF running THEN \E w \in Worker : Active = {w} ELSE Active = {}

\* Only a thread in call() waits for an answer, on a channel that was up, and only one
\* with a request makes a call.
Waiting ==
    /\ \A w \in Worker :
        /\ ack[w] # 0 => worker[w] = "await"
        /\ worker[w] = "await" => chan \in {"up", "closed"}
        /\ worker[w] \in {"call", "await", "failed"} => held[w] # None
    /\ ack["ui"] # 0 => ui = "closeAwait"

\* close() runs once, and the channel is closed by nobody else.
Closing ==
    /\ ui \in {"closing", "closeHide", "closeAwait", "destroy", "gone"} => closed
    /\ chan = "closed" => closed

\* The request the provider serves last, of those that were sent.
Latest == IF calls = <<>> THEN applied ELSE calls[Len(calls)]

\* Until close(): what is desired waits for the worker, is what the worker works on, or
\* was served last.  The answer to a call is behind those to the calls before it, and
\* does not come once the channel has ended.
InTurn == ~closed =>
    /\ pending # None => running /\ pending = desired
    /\ \A w \in Worker :
        /\ worker[w] \in {"call", "await", "failed"} /\ pending = None => held[w] = desired
        /\ worker[w] = "await" => /\ Len(calls) <= ack[w] /\ (~told => ack[w] = Len(calls))
                                  /\ Latest = held[w] \/ (told /\ ack[w] # 0)
        /\ worker[w] = "take" /\ pending = None =>
               desired = None \/ (calls = <<>> /\ applied = desired)

\* One message ends the channel; the others are handled at most once; and after it the
\* window is on its way to the end, wherever close() was called.
EndsQueued == {i \in DOMAIN messages : messages[i] = "end"}
Mail ==
    /\ \A i, j \in EndsQueued : i = j
    /\ ~told => EndsQueued = {}
    /\ handled + Len(messages) <= posted + (IF EndsQueued = {} THEN 0 ELSE 1)
    /\ EndTaken => /\ ui \in {"closing", "closeHide", "closeAwait", "destroy", "gone"}
                   /\ ui # "gone" => back = "gone"

IInv == TypeOK /\ OneWorker /\ Settled /\ Single /\ Waiting /\ Closing /\ InTurn /\ Mail
=============================================================================
