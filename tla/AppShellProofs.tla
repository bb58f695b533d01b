--------------------------- MODULE AppShellProofs ---------------------------
(* Proofs about AppShell, for any editors, modes, workers and bounds. *)
EXTENDS AppShell, FiniteSetTheorems, TLAPS

USE DEF windowVars, queueVars, chanVars, roleVars, mailVars

\* Places of Tk's thread between and in the events of the window.
Open == {"ready", "hide"}

\* The variables of the window and its timers have their types.
WindowOK ==
    /\ widgets \in [Editor -> Mode \cup {"new", "gone"}]
    /\ focus \in Editor \cup {Nobody}
    /\ {missed, check, idle} \subseteq BOOLEAN

\* An event of the window asks for one thing, or nothing; the first sets up the channel.
Asks ==
    /\ UNCHANGED <<closed, told, held, roleVars, back, mailVars>>
    /\ ui \in Open /\ ui' \in Open
    /\ \/ UNCHANGED chan
       \/ chan = "none" /\ chan' \in {"refused", "up"}
    /\ \/ UNCHANGED <<queueVars, worker>>
       \/ \E v, f \in BOOLEAN, m \in Mode : Queue(v, m, f)

LEMMA Values ==
    /\ None \notin Request
    /\ \A v \in BOOLEAN, m \in Mode : Req(v, m) \in Request /\ Req(v, m) # None
  BY ModeAssumption DEF Request, None, Req

-----------------------------------------------------------------------------
(* The window *)

LEMMA HideAsks ==
  ASSUME UNCHANGED <<closed, chan, told, held, roleVars, back, mailVars>>, ui = "ready", HideNow
  PROVE  Asks
  <1>1. "en" \in Mode /\ FALSE \in BOOLEAN
    BY ModeAssumption
  <1> QED
    BY <1>1 DEF Asks, Open, HideNow

LEMMA ReconcileAsks ==
  ASSUME UNCHANGED <<closed, chan, told, held, roleVars, back, mailVars>>, ui = "ready",
         NEW h \in BOOLEAN, Reconcile(h)
  PROVE  Asks
  <1>1. CASE UNCHANGED <<ui, queueVars, worker>>
    BY <1>1 DEF Asks, Open
  <1>2. CASE focus # Nobody /\ Attached(focus) /\ Queue(TRUE, widgets[focus], FALSE) /\ UNCHANGED ui
    BY <1>2 DEF Asks, Open, Attached
  <1>3. CASE HideNow
    BY <1>3, HideAsks
  <1> QED
    BY <1>1, <1>2, <1>3 DEF Reconcile

\* Every event of the window but close(), and the hide it may go on with, is Asks.
LEMMA WindowAsks ==
  ASSUME TypeOK, (Window /\ ~CloseWindow) \/ Hide
  PROVE  Asks /\ WindowOK'
  <1> USE DEF TypeOK, Open
  <1>1. ASSUME NEW e \in Editor, NEW m \in Mode, Attach(e, m) PROVE Asks /\ WindowOK'
    BY <1>1 DEF Attach, WindowOK, Asks
  <1>2. ASSUME NEW e \in Editor, FocusIn(e) PROVE Asks /\ WindowOK'
    <2>1. WindowOK' /\ UNCHANGED <<ui, closed, chan, told, held, roleVars, back, mailVars>> /\ ui = "ready"
      BY <1>2 DEF FocusIn, WindowOK
    <2> QED
      BY <1>2, <2>1 DEF FocusIn, Asks, Attached
  <1>3. ASSUME NEW e \in Editor, FocusOut(e) PROVE Asks /\ WindowOK'
    BY <1>3 DEF FocusOut, WindowOK, Asks
  <1>4. ASSUME NEW e \in Editor, Touch(e) PROVE Asks /\ WindowOK'
    <2>1. WindowOK' /\ UNCHANGED <<ui, closed, chan, told, held, roleVars, back, mailVars>> /\ ui = "ready"
      BY <1>4 DEF Touch, WindowOK
    <2> QED
      BY <1>4, <2>1 DEF Touch, Asks, Attached
  <1>5. ASSUME NEW e \in Editor, Destroy(e) PROVE Asks /\ WindowOK'
    <2>1. UNCHANGED <<ui, closed, chan, told, held, roleVars, back, mailVars>> /\ ui = "ready"
      BY <1>5 DEF Destroy
    <2>2. WindowOK'
      <3>1. missed' \in BOOLEAN /\ focus' \in Editor \cup {Nobody}
        BY <1>5 DEF Destroy
      <3>2. widgets' \in [Editor -> Mode \cup {"new", "gone"}]
        BY <1>5 DEF Destroy
      <3> QED
        BY <1>5, <3>1, <3>2 DEF Destroy, WindowOK
    <2> QED
      BY <1>5, <2>1, <2>2 DEF Destroy, Asks, Attached
  <1>6. CASE OutsidePress
    BY <1>6, HideAsks DEF OutsidePress, WindowOK
  <1>7. CASE Settle \/ IdleRuns
    BY <1>7, ReconcileAsks DEF Settle, IdleRuns, WindowOK
  <1>8. CASE Activate
    <2>1. UNCHANGED <<ui, closed, told, held, roleVars, back, mailVars, queueVars, worker>> /\ ui = "ready"
          /\ chan = "none" /\ chan' \in {"refused", "up"}
      BY <1>8 DEF Activate
    <2>2. missed' \in BOOLEAN
      BY <1>8 DEF Activate
    <2>3. idle' \in BOOLEAN
      BY <1>8 DEF Activate, Schedule
    <2> QED
      BY <1>8, <2>1, <2>2, <2>3 DEF Activate, Asks, WindowOK
  <1>9. CASE Hide
    <2>1. WindowOK' /\ UNCHANGED <<closed, chan, told, held, roleVars, back, mailVars>>
          /\ ui \in Open /\ ui' \in Open
      BY <1>9 DEF Hide, WindowOK
    <2>2. desired # None => desired.mode \in Mode
      BY DEF Request
    <2> QED
      BY <1>9, <2>1, <2>2 DEF Hide, Asks
  <1> QED
    BY <1>1, <1>2, <1>3, <1>4, <1>5, <1>6, <1>7, <1>8, <1>9 DEF Window

-----------------------------------------------------------------------------
(* Steps that leave the requests alone *)

\* Messages, the timer and close().
Mailing == (\E m \in {"event", "work"} : PostMessage(m)) \/ ChannelEnds \/ PollStart
           \/ PollNext \/ PollEnd
ClosingDown == CloseWindow \/ DropRequests \/ CloseHide \/ CloseReturns \/ DestroyRoot

LEMMA SeqSteps ==
  ASSUME NEW S, NEW s \in Seq(S)
  PROVE  /\ Len(s) \in Nat /\ (s = <<>> <=> Len(s) = 0) /\ DOMAIN s = 1..Len(s)
         /\ \A x \in S : /\ Append(s, x) \in Seq(S) /\ Len(Append(s, x)) = Len(s) + 1
                         /\ Append(s, x)[Len(s) + 1] = x
                         /\ \A j \in 1..Len(s) : Append(s, x)[j] = s[j]
         /\ s # <<>> => /\ Head(s) = s[1] /\ Head(s) \in S /\ Tail(s) \in Seq(S)
                        /\ Len(Tail(s)) = Len(s) - 1
                        /\ \A j \in 1..(Len(s) - 1) : Tail(s)[j] = s[j + 1]
  OBVIOUS

\* The message at the head decides what _poll_messages() does.
LEMMA PollCases ==
  ASSUME TypeOK, PollNext
  PROVE  /\ messages[1] \in Message
         /\ \/ messages[1] = "event" /\ HandleEvent
            \/ messages[1] = "work" /\ HandleWork
            \/ messages[1] = "end" /\ HandleEnd
  <1>1. messages # <<>> /\ Head(messages) = messages[1] /\ messages[1] \in Message
    BY SeqSteps DEF PollNext, TypeOK
  <1> QED
    BY <1>1 DEF PollNext, Message

LEMMA MailingAside ==
  ASSUME TypeOK, Mailing
  PROVE  /\ UNCHANGED <<queueVars, worker, held, roleVars, chan, widgets, focus, missed, idle>>
         /\ closed => closed'
         /\ told => told'
  <1>1. ASSUME NEW m \in {"event", "work"}, PostMessage(m)
        PROVE  /\ UNCHANGED <<queueVars, worker, held, roleVars, chan, widgets, focus, missed, idle>>
               /\ UNCHANGED <<closed, told>>
    BY <1>1 DEF PostMessage, Post
  <1>2. CASE ChannelEnds \/ PollStart \/ PollEnd
    BY <1>2 DEF ChannelEnds, Post, PollStart, PollEnd
  <1>3. CASE PollNext
    <2>1. closed => closed'
      BY <1>3, PollCases DEF HandleEvent, HandleWork, HandleEnd, CloseBegins
    <2> QED
      BY <1>3, <2>1 DEF PollNext
  <1> QED
    BY <1>1, <1>2, <1>3 DEF Mailing

LEMMA Steps ==
  ASSUME [Next]_vars
  PROVE  \/ (Window /\ ~CloseWindow) \/ Hide
         \/ Mailing \/ ClosingDown
         \/ \E w \in Worker : Take(w)
         \/ \E w \in Worker : Call(w)
         \/ \E w \in Worker : Answered(w) \/ CallFails(w) \/ Failed(w)
         \/ Serve \/ Refuse
         \/ UNCHANGED vars
  BY DEF Next, Others, TkStep, WorkerStep, Mailing, ClosingDown

-----------------------------------------------------------------------------
(* The workers *)

\* A request starts the worker there is none of, and no other.
LEMMA QueueStarts ==
  ASSUME TypeOK, Single, NEW v, NEW m, NEW f, Queue(v, m, f), worker' # worker
  PROVE  /\ ~running /\ running'
         /\ \E w \in Worker : worker[w] = "off" /\ worker' = [worker EXCEPT ![w] = "take"]
  <1>1. ~running /\ running'
    BY DEF Queue
  <1>2. \E w \in Worker : worker[w] = "off"
    BY <1>1, ThreadAssumption DEF Single, Active
  <1> QED
    BY <1>1, <1>2 DEF Queue

LEMMA SingleStep ==
  ASSUME IInv, [Next]_vars PROVE Single'
  <1> USE DEF IInv, TypeOK, Single, Active
  <1>1. CASE UNCHANGED <<worker, running>>
    BY <1>1
  <1>2. ASSUME NEW v, NEW m, NEW f, Queue(v, m, f) PROVE Single'
    <2>1. CASE worker' = worker
      <3>1. running' = running
        BY <1>2, <2>1, ThreadAssumption DEF Queue
      <3> QED
        BY <1>1, <2>1, <3>1
    <2>2. CASE worker' # worker
      <3>1. PICK w \in Worker : worker[w] = "off" /\ worker' = [worker EXCEPT ![w] = "take"]
        BY <1>2, <2>2, QueueStarts
      <3>2. ~running /\ running'
        BY <1>2, <2>2, QueueStarts
      <3>3. Active' = {w}
        BY <3>1, <3>2
      <3> QED
        BY <3>2, <3>3
    <2> QED
      BY <2>1, <2>2
  <1>3. ASSUME NEW w \in Worker, Take(w) PROVE Single'
    <2>1. running /\ Active = {w}
      BY <1>3 DEF Take
    <2>2. CASE Ends
      <3>1. Active' = {} /\ ~running'
        BY <1>3, <2>1, <2>2 DEF Take
      <3> QED
        BY <3>1
    <2>3. CASE ~Ends
      <3>1. Active' = {w} /\ running'
        BY <1>3, <2>1, <2>3 DEF Take, Stays
      <3> QED
        BY <3>1
    <2> QED
      BY <2>2, <2>3
  <1>4. ASSUME NEW w \in Worker, Call(w) \/ Answered(w) \/ CallFails(w) \/ Failed(w) PROVE Single'
    <2>1. Active' = Active /\ UNCHANGED running
      BY <1>4 DEF Call, Answered, CallFails, Failed
    <2> QED
      BY <2>1
  <1>5. CASE Refuse
    <2>1. \A w \in Worker : ack[w] = 1 => worker[w] = "await"
      BY DEF Waiting
    <2>2. Active' = Active /\ UNCHANGED running
      BY <1>5, <2>1 DEF Refuse
    <2> QED
      BY <2>2
  <1>6. CASE ClosingDown \/ Serve \/ UNCHANGED vars
    <2>1. UNCHANGED <<worker, running>>
      BY <1>6 DEF ClosingDown, CloseWindow, DropRequests, CloseHide, CloseReturns, DestroyRoot,
                  Serve, vars
    <2> QED
      BY <1>1, <2>1
  <1>7. CASE Mailing
    BY <1>1, <1>7, MailingAside
  <1>8. CASE (Window /\ ~CloseWindow) \/ Hide
    BY <1>1, <1>2, <1>8, WindowAsks DEF Asks
  <1> QED
    BY <1>3, <1>4, <1>5, <1>6, <1>7, <1>8, Steps

LEMMA WaitingStep ==
  ASSUME IInv, [Next]_vars PROVE Waiting'
  <1> USE ThreadAssumption DEF IInv, TypeOK, Waiting, Caller
  <1>1. CASE (Window /\ ~CloseWindow) \/ Hide
    <2>1. Asks
      BY <1>1, WindowAsks
    <2>2. \A w \in Worker : worker'[w] = worker[w] \/ (worker[w] = "off" /\ worker'[w] = "take")
      BY <2>1, QueueStarts DEF Asks
    <2> QED
      BY <2>1, <2>2 DEF Asks, Open
  <1>2. CASE Mailing
    <2>1. UNCHANGED <<worker, held, ack, chan>>
      BY <1>2, MailingAside
    <2>2. UNCHANGED ui \/ ui # "closeAwait"
      BY <1>2 DEF Mailing, PostMessage, ChannelEnds, Post, PollStart, PollNext, PollEnd
    <2> QED
      BY <2>1, <2>2
  <1>3. CASE CloseWindow \/ DropRequests \/ DestroyRoot
    BY <1>3 DEF CloseWindow, CloseBegins, DropRequests, DestroyRoot
  <1>4. CASE CloseHide \/ CloseReturns
    BY <1>4 DEF CloseHide, CloseReturns, Sends, AfterHide
  <1>5. ASSUME NEW w \in Worker, Take(w) PROVE Waiting'
    BY <1>5 DEF Take, Ends, Stays
  <1>6. ASSUME NEW w \in Worker, Call(w) PROVE Waiting'
    BY <1>6 DEF Call, Sends
  <1>7. ASSUME NEW w \in Worker, Answered(w) \/ CallFails(w) \/ Failed(w) PROVE Waiting'
    BY <1>7 DEF Answered, CallFails, Failed
  <1>8. CASE Serve
    BY <1>8 DEF Serve, Answer
  <1>9. CASE Refuse
    BY <1>9 DEF Refuse, Answer
  <1>10. CASE UNCHANGED vars
    BY <1>10 DEF vars
  <1> QED
    BY <1>1, <1>2, <1>3, <1>4, <1>5, <1>6, <1>7, <1>8, <1>9, <1>10, Steps DEF ClosingDown
-----------------------------------------------------------------------------
(* The end of the application *)

LEMMA ClosingStep ==
  ASSUME IInv, [Next]_vars PROVE Closing'
  <1> USE DEF IInv, Closing
  <1>1. CASE (Window /\ ~CloseWindow) \/ Hide
    BY <1>1, WindowAsks DEF Asks, Open
  <1>2. CASE Mailing
    <2>1. UNCHANGED chan /\ (closed => closed')
      BY <1>2, MailingAside
    <2>2. CASE PollNext
      <3>1. UNCHANGED ui \/ closed'
        BY <2>2, PollCases DEF HandleEvent, HandleWork, HandleEnd, CloseBegins
      <3> QED
        BY <2>1, <3>1
    <2>3. CASE PollStart \/ PollEnd
      BY <2>3 DEF PollStart, PollEnd
    <2>4. ASSUME NEW m \in {"event", "work"}, PostMessage(m) PROVE Closing'
      BY <2>4 DEF PostMessage, Post
    <2>5. CASE ChannelEnds
      BY <2>5 DEF ChannelEnds, Post
    <2> QED
      BY <1>2, <2>2, <2>3, <2>4, <2>5 DEF Mailing
  <1>3. CASE ClosingDown
    BY <1>3 DEF ClosingDown, CloseWindow, CloseBegins, DropRequests, CloseHide, CloseReturns,
                DestroyRoot, Sends
  <1>4. CASE \E w \in Worker : Take(w) \/ Call(w) \/ Answered(w) \/ CallFails(w) \/ Failed(w)
    BY <1>4 DEF Take, Call, Answered, CallFails, Failed
  <1>5. CASE Serve \/ Refuse \/ UNCHANGED vars
    BY <1>5 DEF Serve, Refuse, vars
  <1> QED
    BY <1>1, <1>2, <1>3, <1>4, <1>5, Steps

\* The parts of Mail: the queue and the count, and what comes after the end.
Queued ==
    /\ \A i, j \in EndsQueued : i = j
    /\ ~told => EndsQueued = {}
    /\ handled + Len(messages) <= posted + (IF EndsQueued = {} THEN 0 ELSE 1)
Over ==
    EndTaken => /\ ui \in {"closing", "closeHide", "closeAwait", "destroy", "gone"}
                /\ ui # "gone" => back = "gone"

LEMMA MailParts == Mail <=> Queued /\ Over
  BY DEF Mail, Queued, Over

LEMMA Taken == EndTaken <=> told /\ EndsQueued = {}
  BY DEF EndTaken, EndsQueued

\* Steps that neither post nor handle a message.
LEMMA MailKept ==
  ASSUME IInv, UNCHANGED <<messages, posted, handled, told>>,
         \/ UNCHANGED <<ui, back>>
         \/ ui \in {"ready", "hide", "poll"}
         \/ ClosingDown /\ ~CloseWindow
  PROVE  Mail'
  <1>1. Mail /\ EndsQueued' = EndsQueued /\ EndTaken' = EndTaken
    BY DEF IInv, EndsQueued, EndTaken
  <1>2. Queued'
    BY <1>1, MailParts DEF Queued
  <1>3. Over'
    <2>1. CASE UNCHANGED <<ui, back>>
      BY <1>1, <2>1, MailParts DEF Over
    <2>2. CASE ui \in {"ready", "hide", "poll"}
      BY <1>1, <2>2, MailParts DEF Over
    <2>3. CASE ClosingDown /\ ~CloseWindow
      BY <1>1, <2>3, MailParts
      DEF Over, ClosingDown, DropRequests, CloseHide, CloseReturns, DestroyRoot, AfterHide
    <2> QED
      BY <2>1, <2>2, <2>3
  <1> QED
    BY <1>2, <1>3 DEF Mail, Queued, Over

LEMMA MailPosted ==
  ASSUME IInv, NEW m \in {"event", "work"}, PostMessage(m) PROVE Mail'
  <1>0. messages \in Seq(Message) /\ posted \in Nat /\ handled \in Nat /\ m \in Message
    BY DEF IInv, TypeOK, Message
  <1>1. messages' = Append(messages, m) /\ posted' = posted + 1 /\ UNCHANGED <<handled, told, ui, back>>
    BY DEF PostMessage, Post
  <1>2. /\ Len(messages') = Len(messages) + 1 /\ Len(messages) \in Nat
        /\ DOMAIN messages = 1..Len(messages) /\ DOMAIN messages' = 1..(Len(messages) + 1)
        /\ messages'[Len(messages) + 1] = m
        /\ \A j \in 1..Len(messages) : messages'[j] = messages[j]
    BY <1>0, <1>1, SeqSteps
  <1>3. EndsQueued' = EndsQueued
    BY <1>2 DEF EndsQueued
  <1>4. Queued'
    BY <1>0, <1>1, <1>2, <1>3, MailParts DEF IInv, Queued
  <1>5. Over'
    BY <1>1, <1>3, Taken, MailParts DEF IInv, Over, EndTaken, EndsQueued
  <1> QED
    BY <1>4, <1>5 DEF Mail, Queued, Over

LEMMA MailEnd ==
  ASSUME IInv, ChannelEnds PROVE Mail'
  <1>0. messages \in Seq(Message) /\ posted \in Nat /\ handled \in Nat /\ "end" \in Message
    BY DEF IInv, TypeOK, Message
  <1>1. /\ messages' = Append(messages, "end") /\ UNCHANGED <<handled, posted>>
        /\ ~told /\ told'
    BY DEF ChannelEnds, Post
  <1>2. /\ Len(messages') = Len(messages) + 1 /\ Len(messages) \in Nat
        /\ DOMAIN messages = 1..Len(messages) /\ DOMAIN messages' = 1..(Len(messages) + 1)
        /\ messages'[Len(messages) + 1] = "end"
        /\ \A j \in 1..Len(messages) : messages'[j] = messages[j]
    BY <1>0, <1>1, SeqSteps
  <1>3. EndsQueued = {} /\ Queued
    BY <1>1, MailParts DEF IInv, Queued
  <1>4. EndsQueued' = {Len(messages) + 1}
    BY <1>2, <1>3 DEF EndsQueued
  <1>5. handled + Len(messages) <= posted
    BY <1>0, <1>2, <1>3 DEF Queued
  <1>6. handled' + Len(messages') <= posted' + 1
    BY <1>0, <1>1, <1>2, <1>5
  <1>7. Queued' /\ ~EndTaken'
    BY <1>1, <1>2, <1>4, <1>6 DEF Queued, EndTaken
  <1> QED
    BY <1>7 DEF Mail, Queued, Over

LEMMA MailTaken ==
  ASSUME IInv, PollNext PROVE Mail' /\ handled' \in 0..posted'
  <1>0. messages \in Seq(Message) /\ posted \in Nat /\ handled \in Nat /\ handled <= posted
    BY DEF IInv, TypeOK
  <1>1. ui = "poll" /\ messages # <<>> /\ messages' = Tail(messages) /\ UNCHANGED <<posted, told>>
    BY DEF PollNext
  <1>2. /\ Len(messages') = Len(messages) - 1 /\ Len(messages) \in Nat \ {0}
        /\ DOMAIN messages = 1..Len(messages) /\ DOMAIN messages' = 1..(Len(messages) - 1)
        /\ \A j \in 1..(Len(messages) - 1) : messages'[j] = messages[j + 1]
    BY <1>0, <1>1, SeqSteps
  <1>3. Queued /\ ~EndTaken
    BY <1>1, MailParts DEF IInv, Over
  <1>4. \A j \in EndsQueued' : j \in Int /\ j > 0 /\ j + 1 \in EndsQueued
    BY <1>2 DEF EndsQueued
  <1>5. \A i, j \in EndsQueued' : i = j
    <2> SUFFICES ASSUME NEW i \in EndsQueued', NEW j \in EndsQueued' PROVE i = j
      OBVIOUS
    <2>1. i + 1 = j + 1 /\ i \in Int /\ j \in Int
      BY <1>3, <1>4 DEF Queued
    <2> QED
      BY <2>1
  <1>6. CASE messages[1] = "end"
    <2>1. HandleEnd
      BY <1>6, PollCases DEF IInv
    <2>2. 1 \in EndsQueued
      BY <1>2, <1>6 DEF EndsQueued
    <2>3. EndsQueued' = {}
      <3>1. \A j \in EndsQueued' : j + 1 = 1 /\ j \in Int /\ j > 0
        BY <1>3, <1>4, <2>2 DEF Queued
      <3> QED
        BY <3>1
    <2>4. Over'
      BY <2>1 DEF HandleEnd, CloseBegins, AfterEnd, Over
    <2>5. UNCHANGED handled /\ handled + Len(messages) <= posted + 1
      BY <1>3, <2>1, <2>2 DEF HandleEnd, Queued
    <2>6. handled' + Len(messages') <= posted' + 0
      BY <1>0, <1>1, <1>2, <2>5
    <2>7. Queued'
      BY <1>1, <1>5, <2>3, <2>6 DEF Queued
    <2> QED
      <3>1. Mail'
        BY <2>4, <2>7 DEF Mail, Queued, Over
      <3> QED
        BY <1>0, <1>1, <2>5, <3>1
  <1>7. CASE messages[1] # "end"
    <2>1. handled' \in {handled, handled + 1}
      BY <1>7, PollCases DEF IInv, HandleEvent, HandleWork, Handled
    <2>2. \A i \in EndsQueued : i - 1 \in EndsQueued' /\ i \in Int /\ i > 1
      <3> SUFFICES ASSUME NEW i \in EndsQueued PROVE i - 1 \in EndsQueued' /\ i \in Int /\ i > 1
        OBVIOUS
      <3>1. i \in 1..Len(messages) /\ messages[i] = "end" /\ i # 1
        BY <1>2, <1>7 DEF EndsQueued
      <3>2. i - 1 \in 1..(Len(messages) - 1) /\ (i - 1) + 1 = i
        BY <1>2, <3>1
      <3>3. messages'[i - 1] = "end"
        BY <1>2, <3>1, <3>2
      <3> QED
        BY <1>2, <3>1, <3>2, <3>3 DEF EndsQueued
    <2>3. EndsQueued' = {} <=> EndsQueued = {}
      BY <1>4, <2>2
    <2>4. Queued'
      BY <1>0, <1>1, <1>2, <1>3, <1>5, <2>1, <2>3 DEF Queued
    <2>5. Over'
      <3>1. EndTaken <=> told /\ EndsQueued = {}
        BY Taken
      <3>2. EndTaken' <=> told' /\ EndsQueued' = {}
        BY DEF EndTaken, EndsQueued
      <3> QED
        BY <1>1, <1>3, <2>3, <3>1, <3>2 DEF Over
    <2>6. handled + 1 <= posted
      <3>1. CASE EndsQueued = {}
        <4>1. handled + Len(messages) <= posted
          BY <1>0, <1>2, <1>3, <3>1 DEF Queued
        <4> QED
          BY <1>0, <1>2, <4>1
      <3>2. CASE EndsQueued # {}
        <4>1. PICK i \in EndsQueued : TRUE
          BY <3>2
        <4>2. i \in Int /\ i > 1 /\ i \in 1..Len(messages)
          BY <1>2, <2>2, <4>1 DEF EndsQueued
        <4>3. handled + Len(messages) <= posted + 1
          BY <1>3, <3>2 DEF Queued
        <4> QED
          BY <1>0, <1>2, <4>2, <4>3
      <3> QED
        BY <3>1, <3>2
    <2> QED
      <3>1. Mail'
        BY <2>4, <2>5 DEF Mail, Queued, Over
      <3> QED
        BY <1>0, <1>1, <2>1, <2>6, <3>1
  <1> QED
    BY <1>6, <1>7

LEMMA MailStep ==
  ASSUME IInv, [Next]_vars PROVE Mail'
  <1>1. CASE (Window /\ ~CloseWindow) \/ Hide
    <2>1. Asks
      BY <1>1, WindowAsks DEF IInv
    <2> QED
      BY <2>1, MailKept DEF Asks, Open
  <1>2. CASE Mailing
    <2>1. CASE PollStart \/ PollEnd
      BY <2>1, MailKept DEF PollStart, PollEnd
    <2> QED
      BY <1>2, <2>1, MailPosted, MailEnd, MailTaken DEF Mailing
  <1>3. CASE ClosingDown
    <2>1. UNCHANGED <<messages, posted, handled, told>> /\ (CloseWindow => ui = "ready")
      BY <1>3 DEF ClosingDown, CloseWindow, DropRequests, CloseHide, CloseReturns, DestroyRoot
    <2> QED
      BY <1>3, <2>1, MailKept
  <1>4. CASE \E w \in Worker : Take(w) \/ Call(w) \/ Answered(w) \/ CallFails(w) \/ Failed(w)
    BY <1>4, MailKept DEF Take, Call, Answered, CallFails, Failed
  <1>5. CASE Serve \/ Refuse \/ UNCHANGED vars
    BY <1>5, MailKept DEF Serve, Refuse, vars
  <1> QED
    BY <1>1, <1>2, <1>3, <1>4, <1>5, Steps
-----------------------------------------------------------------------------
(* The types *)

LEMMA EmptySeq == \A S : <<>> \in Seq(S)
  OBVIOUS

LEMMA QueueTypes ==
  ASSUME TypeOK, Single, NEW v \in BOOLEAN, NEW m \in Mode, NEW f, Queue(v, m, f)
  PROVE  /\ {desired', pending'} \subseteq Request \cup {None} /\ running' \in BOOLEAN
         /\ worker' \in [Worker -> {"off", "take", "call", "await", "failed"}]
  <1>1. worker' \in [Worker -> {"off", "take", "call", "await", "failed"}]
    <2>1. CASE worker' = worker
      BY <2>1 DEF TypeOK
    <2>2. CASE worker' # worker
      BY <2>2, QueueStarts DEF TypeOK
    <2> QED
      BY <2>1, <2>2
  <1>2. {desired', pending'} \subseteq Request \cup {None} /\ running' \in BOOLEAN
    <2>1. Req(v, m) \in Request
      BY Values
    <2>2. \/ UNCHANGED queueVars
          \/ desired' = Req(v, m) /\ pending' = Req(v, m) /\ running' = TRUE
      BY DEF Queue
    <2> QED
      BY <2>1, <2>2 DEF TypeOK
  <1> QED
    BY <1>1, <1>2

\* The types of what Tk's thread and messages are about, and of the requests.
ShellOK ==
    /\ widgets \in [Editor -> Mode \cup {"new", "gone"}]
    /\ focus \in Editor \cup {Nobody}
    /\ {missed, check, idle, timer, closed, told} \subseteq BOOLEAN
    /\ ui \in {"ready", "hide", "poll", "closing", "closeHide", "closeAwait", "destroy", "gone"}
    /\ back \in {"poll", "gone"}
    /\ chan \in {"none", "refused", "up", "closed"}
MailOK == messages \in Seq(Message) /\ posted \in 0..PostCap /\ handled \in 0..posted
RoleOK ==
    /\ running \in BOOLEAN
    /\ {desired, pending, applied} \subseteq Request \cup {None}
    /\ worker \in [Worker -> {"off", "take", "call", "await", "failed"}]
    /\ held \in [Worker -> Request \cup {None}]
    /\ calls \in Seq(Request) /\ ack \in [Caller -> Nat]

LEMMA TypeParts == TypeOK => ShellOK /\ MailOK /\ RoleOK
  BY DEF TypeOK, ShellOK, MailOK, RoleOK

LEMMA ShellStep ==
  ASSUME TypeOK, [Next]_vars PROVE ShellOK'
  <1> USE TypeParts DEF ShellOK
  <1>1. CASE (Window /\ ~CloseWindow) \/ Hide
    BY <1>1, WindowAsks DEF Asks, Open, WindowOK
  <1>2. CASE Mailing
    <2>1. UNCHANGED <<chan, widgets, focus, missed, idle>>
      BY <1>2, MailingAside
    <2>2. ASSUME NEW m \in {"event", "work"}, PostMessage(m) PROVE ShellOK'
      BY <2>2 DEF PostMessage, Post
    <2>3. CASE ChannelEnds
      BY <2>3 DEF ChannelEnds, Post
    <2>4. CASE PollStart \/ PollEnd
      BY <2>4 DEF PollStart, PollEnd, Rearm
    <2>5. CASE PollNext
      <3>1. UNCHANGED <<timer, told>>
        BY <2>5 DEF PollNext
      <3>2. /\ ui' \in {"poll", "gone", "closing"} \cup {ui} /\ back' \in {"poll", "gone"}
            /\ check' \in BOOLEAN /\ closed' \in BOOLEAN
        BY <2>5, PollCases DEF HandleEvent, HandleWork, HandleEnd, CloseBegins, AfterEnd
      <3> QED
        BY <2>1, <3>1, <3>2
    <2> QED
      BY <1>2, <2>2, <2>3, <2>4, <2>5 DEF Mailing
  <1>3. CASE ClosingDown
    BY <1>3 DEF ClosingDown, CloseWindow, CloseBegins, DropRequests, CloseHide, CloseReturns,
                DestroyRoot, AfterHide
  <1>4. CASE \E w \in Worker : Take(w) \/ Call(w) \/ Answered(w) \/ CallFails(w) \/ Failed(w)
    BY <1>4 DEF Take, Call, Answered, CallFails, Failed
  <1>5. CASE Serve \/ Refuse \/ UNCHANGED vars
    BY <1>5 DEF Serve, Refuse, vars
  <1> QED
    BY <1>1, <1>2, <1>3, <1>4, <1>5, Steps

LEMMA MailTypes ==
  ASSUME IInv, [Next]_vars PROVE MailOK'
  <1> USE TypeParts DEF IInv, MailOK
  <1>1. CASE UNCHANGED <<messages, posted, handled>>
    BY <1>1
  <1>2. ASSUME NEW m \in {"event", "work"}, PostMessage(m) PROVE MailOK'
    <2>1. messages' \in Seq(Message)
      BY <1>2, SeqSteps DEF PostMessage, Post, Message
    <2>2. posted' \in 0..PostCap /\ handled' \in 0..posted'
      BY <1>2, BoundAssumption DEF PostMessage, Post
    <2> QED
      BY <2>1, <2>2
  <1>3. CASE ChannelEnds
    <2>1. messages' \in Seq(Message)
      BY <1>3, SeqSteps DEF ChannelEnds, Post, Message
    <2> QED
      BY <1>3, <2>1 DEF ChannelEnds, Post
  <1>4. CASE PollNext
    <2>1. messages' \in Seq(Message) /\ UNCHANGED posted
      BY <1>4, SeqSteps DEF PollNext
    <2> QED
      BY <1>4, <2>1, MailTaken
  <1>5. CASE PollStart \/ PollEnd
    BY <1>1, <1>5 DEF PollStart, PollEnd
  <1>6. CASE (Window /\ ~CloseWindow) \/ Hide
    BY <1>1, <1>6, WindowAsks DEF Asks
  <1>7. CASE ClosingDown
    BY <1>1, <1>7 DEF ClosingDown, CloseWindow, DropRequests, CloseHide, CloseReturns, DestroyRoot
  <1>8. CASE \E w \in Worker : Take(w) \/ Call(w) \/ Answered(w) \/ CallFails(w) \/ Failed(w)
    BY <1>1, <1>8 DEF Take, Call, Answered, CallFails, Failed
  <1>9. CASE Serve \/ Refuse \/ UNCHANGED vars
    BY <1>1, <1>9 DEF Serve, Refuse, vars
  <1> QED
    BY <1>2, <1>3, <1>4, <1>5, <1>6, <1>7, <1>8, <1>9, Steps DEF Mailing

LEMMA RoleStep ==
  ASSUME IInv, [Next]_vars PROVE RoleOK'
  <1> USE TypeParts DEF IInv, RoleOK
  <1>1. CASE (Window /\ ~CloseWindow) \/ Hide
    <2>1. Asks
      BY <1>1, WindowAsks
    <2>2. /\ {desired', pending'} \subseteq Request \cup {None} /\ running' \in BOOLEAN
          /\ worker' \in [Worker -> {"off", "take", "call", "await", "failed"}]
      BY <2>1, QueueTypes DEF Asks
    <2> QED
      BY <2>1, <2>2 DEF Asks
  <1>2. CASE Mailing
    BY <1>2, MailingAside
  <1>3. ASSUME NEW t \in Caller, NEW r \in Request, Sends(t, r)
        PROVE  calls' \in Seq(Request) /\ ack' \in [Caller -> Nat] /\ UNCHANGED applied
    BY <1>3, SeqSteps DEF Sends
  <1>4. CASE CloseHide
    <2>1. "ui" \in Caller /\ Req(FALSE, "en") \in Request
      BY Values, ModeAssumption DEF Caller
    <2>2. calls' \in Seq(Request) /\ ack' \in [Caller -> Nat] /\ UNCHANGED applied
      BY <1>3, <1>4, <2>1 DEF CloseHide
    <2> QED
      BY <1>4, <2>2 DEF CloseHide
  <1>5. CASE DropRequests
    <2>1. desired' \in Request
      <3>1. desired # None => desired.mode \in Mode
        BY DEF Request
      <3>2. (IF desired = None THEN "en" ELSE desired.mode) \in Mode
        BY <3>1, ModeAssumption
      <3> QED
        BY <1>5, <3>2, Values DEF DropRequests
    <2> QED
      BY <1>5, <2>1 DEF DropRequests
  <1>6. CASE CloseWindow \/ CloseReturns \/ DestroyRoot
    BY <1>6 DEF CloseWindow, CloseReturns, DestroyRoot, Caller
  <1>7. ASSUME NEW w \in Worker, Call(w) PROVE RoleOK'
    <2>1. w \in Caller /\ held[w] \in Request
      BY <1>7 DEF Caller, Call, Waiting
    <2>2. calls' \in Seq(Request) /\ ack' \in [Caller -> Nat] /\ UNCHANGED applied
      BY <1>3, <1>7, <2>1 DEF Call
    <2> QED
      BY <1>7, <2>2 DEF Call
  <1>8. ASSUME NEW w \in Worker, Take(w) PROVE RoleOK'
    BY <1>8 DEF Take, Stays
  <1>9. ASSUME NEW w \in Worker, Answered(w) \/ CallFails(w) \/ Failed(w) PROVE RoleOK'
    <2>1. CASE Answered(w)
      BY <2>1 DEF Answered
    <2>2. CASE CallFails(w)
      BY <2>2 DEF CallFails
    <2>3. CASE Failed(w)
      BY <2>3 DEF Failed
    <2> QED
      BY <1>9, <2>1, <2>2, <2>3
  <1>10. CASE Serve \/ Refuse
    <2>1. calls # <<>> => Head(calls) \in Request /\ Tail(calls) \in Seq(Request)
      BY SeqSteps
    <2>2. calls' \in Seq(Request) /\ applied' \in Request \cup {None}
      BY <1>10, <2>1 DEF Serve, Refuse
    <2>3. ack' \in [Caller -> Nat]
      BY <1>10 DEF Serve, Refuse, Answer
    <2>4. worker' \in [Worker -> {"off", "take", "call", "await", "failed"}]
      BY <1>10 DEF Serve, Refuse
    <2> QED
      BY <1>10, <2>2, <2>3, <2>4 DEF Serve, Refuse
  <1>11. CASE UNCHANGED vars
    BY <1>11 DEF vars
  <1> QED
    BY <1>1, <1>2, <1>4, <1>5, <1>6, <1>7, <1>8, <1>9, <1>10, <1>11, Steps DEF ClosingDown

-----------------------------------------------------------------------------
(* The requests *)

LEMMA LastKept ==
  ASSUME NEW S, NEW s \in Seq(S), Len(s) > 1
  PROVE  Tail(s) # <<>> /\ Tail(s)[Len(Tail(s))] = s[Len(s)]
  OBVIOUS

\* While no request is made or sent, only a worker's place matters.
LEMMA QueueInTurn ==
  ASSUME IInv, NEW v \in BOOLEAN, NEW m \in Mode, NEW f, Queue(v, m, f),
         UNCHANGED <<closed, told, held, roleVars>>
  PROVE  InTurn' /\ Settled'
  <1> USE DEF IInv, TypeOK
  <1>1. CASE UNCHANGED <<queueVars, worker>>
    BY <1>1 DEF InTurn, Settled, Latest
  <1>2. CASE ~UNCHANGED <<queueVars, worker>>
    <2>1. pending' = Req(v, m) /\ desired' = Req(v, m) /\ running' /\ pending' # None
      BY <1>2, Values DEF Queue
    <2>2. \A w \in Worker : worker'[w] = worker[w] \/ (worker[w] = "off" /\ worker'[w] = "take")
      BY QueueStarts
    <2>3. \A w \in Worker : worker'[w] = "await" => worker[w] = "await"
      BY <2>2
    <2> QED
      BY <2>1, <2>3 DEF InTurn, Settled, Latest
  <1> QED
    BY <1>1, <1>2

\* Before close() the provider's answers arrive until the channel has ended.
LEMMA AnswerInTurn ==
  ASSUME IInv, ~closed', Serve \/ Refuse PROVE InTurn' /\ Settled'
  <1> USE DEF IInv, TypeOK
  <1>0. calls \in Seq(Request)
    OBVIOUS
  <1>1. /\ UNCHANGED <<desired, pending, running, held, closed, told, chan>> /\ calls # <<>>
        /\ calls' = Tail(calls) /\ Len(calls') = Len(calls) - 1 /\ Len(calls) \in Nat \ {0}
    BY SeqSteps DEF Serve, Refuse
  <1>2. Settled'
    BY <1>1 DEF Settled
  <1>3. ASSUME NEW w \in Worker
        PROVE  worker'[w] = worker[w] \/ (worker[w] = "await" /\ worker'[w] = "failed")
    BY DEF Serve, Refuse, Waiting
  <1>4. ASSUME NEW w \in Worker, worker'[w] = "await"
        PROVE  /\ Len(calls') <= ack'[w] /\ (~told' => ack'[w] = Len(calls'))
               /\ Latest' = held'[w] \/ (told' /\ ack'[w] # 0)
    <2>1. worker[w] = "await" /\ Len(calls) <= ack[w] /\ (~told => ack[w] = Len(calls))
          /\ (Latest = held[w] \/ told) /\ ack[w] \in Nat /\ w \in Caller
      BY <1>1, <1>3, <1>4 DEF InTurn, Caller
    <2>2. CASE told
      <3>1. ack'[w] = ack[w]
        BY <2>1, <2>2 DEF Serve, Refuse, Answer
      <3> QED
        BY <1>1, <2>1, <2>2, <3>1
    <2>3. CASE ~told
      <3>1. chan = "up"
        BY <1>1, <2>1 DEF Waiting, Closing
      <3>2. ack'[w] = ack[w] - 1 /\ ack[w] = Len(calls)
        BY <1>1, <2>1, <2>3, <3>1 DEF Serve, Refuse, Answer
      <3>3. calls[Len(calls)] = held[w]
        BY <1>1, <2>1, <2>3 DEF Latest
      <3>4. CASE Len(calls) > 1
        <4>1. calls' # <<>> /\ calls'[Len(calls')] = calls[Len(calls)]
          BY <1>0, <1>1, <3>4, LastKept
        <4> QED
          BY <1>1, <3>2, <3>3, <4>1 DEF Latest
      <3>5. CASE Len(calls) = 1
        <4>1. Serve
          BY <1>4, <3>2, <3>5 DEF Refuse
        <4>2. calls' = <<>> /\ applied' = calls[1]
          BY <1>0, <1>1, <3>5, <4>1, SeqSteps DEF Serve
        <4> QED
          BY <1>1, <3>2, <3>3, <3>5, <4>2 DEF Latest
      <3> QED
        BY <1>1, <3>4, <3>5
    <2> QED
      BY <2>2, <2>3
  <1>5. ASSUME NEW w \in Worker, worker'[w] = "take", pending' = None
        PROVE  desired' = None
    BY <1>1, <1>3, <1>5 DEF InTurn
  <1>6. ASSUME NEW w \in Worker, worker'[w] \in {"call", "await", "failed"}, pending' = None
        PROVE  held'[w] = desired'
    BY <1>1, <1>3, <1>6 DEF InTurn
  <1>7. pending' # None => running' /\ pending' = desired'
    BY <1>1 DEF InTurn
  <1> QED
    BY <1>2, <1>4, <1>5, <1>6, <1>7 DEF InTurn

LEMMA InTurnStep ==
  ASSUME IInv, [Next]_vars PROVE InTurn' /\ Settled'
  <1> USE ThreadAssumption DEF IInv, TypeOK
  <1>0. ASSUME NEW w \in Worker, NEW x \in Worker, worker[w] # "off", worker[x] # "off"
        PROVE  w = x /\ running
    BY <1>0 DEF Single, Active
  <1>1. CASE (Window /\ ~CloseWindow) \/ Hide
    <2>1. Asks
      BY <1>1, WindowAsks
    <2>2. CASE UNCHANGED <<queueVars, worker>>
      BY <2>1, <2>2 DEF Asks, InTurn, Settled, Latest
    <2> QED
      BY <2>1, <2>2, QueueInTurn DEF Asks
  <1>2. CASE closed'
    BY <1>2 DEF InTurn, Settled
  <1>3. ASSUME ~closed', NEW w \in Worker, Take(w) PROVE InTurn' /\ Settled'
    <2>1. \A x \in Worker \ {w} : worker[x] = "off" /\ worker'[x] = "off"
      BY <1>0, <1>3 DEF Take
    <2>2. /\ worker[w] = "take" /\ pending' = None
          /\ UNCHANGED <<desired, calls, applied, ack, told, closed>>
      BY <1>3 DEF Take
    <2>3. CASE pending = None
      <3>1. worker'[w] = "off" /\ ~running'
        BY <1>3, <2>3 DEF Take, Ends
      <3>2. desired = None \/ (calls = <<>> /\ applied = desired)
        BY <1>3, <2>2, <2>3 DEF InTurn, Take
      <3> QED
        BY <2>1, <2>2, <3>1, <3>2 DEF InTurn, Settled
    <2>4. CASE pending # None
      <3>1. ~Ends /\ ~closed
        BY <1>3, <2>2, <2>4 DEF Ends
      <3>2. running /\ pending = desired
        BY <2>4, <3>1 DEF InTurn
      <3>3. worker'[w] = "call" /\ held'[w] = pending /\ running' = running
        BY <1>3, <3>1 DEF Take, Stays
      <3> QED
        BY <2>1, <2>2, <3>2, <3>3 DEF InTurn, Settled
    <2> QED
      BY <2>3, <2>4
  <1>4. ASSUME ~closed', NEW w \in Worker, Call(w) PROVE InTurn' /\ Settled'
    <2>1. \A x \in Worker \ {w} : worker[x] = "off" /\ worker'[x] = "off"
      BY <1>0, <1>4 DEF Call
    <2>2. UNCHANGED <<desired, pending, running, held, told>> /\ running /\ ~closed
      BY <1>0, <1>4 DEF Call
    <2>3. pending # None => pending = desired
      BY <2>2 DEF InTurn
    <2>4. pending = None => held[w] = desired
      BY <1>4, <2>2 DEF InTurn, Call
    <2>5. CASE worker'[w] = "failed"
      BY <2>1, <2>2, <2>3, <2>4, <2>5 DEF InTurn, Settled
    <2>6. CASE worker'[w] = "await"
      <3>1. Sends(w, held[w]) /\ held[w] \in Request
        BY <1>4, <2>6 DEF Call, Waiting
      <3>2. ack'[w] = Len(calls') /\ Len(calls') \in Nat /\ Latest' = held[w]
        <4>1. calls' = Append(calls, held[w]) /\ ack'[w] = Len(calls) + 1
          BY <3>1 DEF Sends, Caller
        <4>2. /\ Len(calls') = Len(calls) + 1 /\ Len(calls) \in Nat /\ calls' # <<>>
              /\ calls'[Len(calls) + 1] = held[w]
          <5> DEFINE next == Append(calls, held[w])
          <5>1. /\ Len(next) = Len(calls) + 1 /\ Len(calls) \in Nat /\ next \in Seq(Request)
                /\ next[Len(calls) + 1] = held[w]
            BY <3>1, SeqSteps
          <5>2. next # <<>>
            <6> HIDE DEF next
            <6> QED
              BY <5>1, SeqSteps
          <5> QED
            BY <4>1, <5>1, <5>2
        <4>3. Latest' = calls'[Len(calls')]
          BY <4>2 DEF Latest
        <4> QED
          BY <4>1, <4>2, <4>3
      <3> QED
        BY <2>1, <2>2, <2>3, <2>4, <2>6, <3>2 DEF InTurn, Settled
    <2> QED
      BY <1>4, <2>5, <2>6 DEF Call
  <1>5. ASSUME ~closed', NEW w \in Worker, Answered(w) PROVE InTurn' /\ Settled'
    <2>1. \A x \in Worker \ {w} : worker[x] = "off" /\ worker'[x] = "off"
      BY <1>0, <1>5 DEF Answered
    <2>2. /\ UNCHANGED <<desired, pending, running, held, roleVars>> /\ running /\ ~closed
          /\ worker'[w] = "take"
      BY <1>0, <1>5 DEF Answered
    <2>3. Len(calls) <= 0 /\ Latest = held[w]
      BY <1>5, <2>2 DEF Answered, InTurn
    <2>4. calls = <<>> /\ applied = held[w]
      BY <2>3, SeqSteps DEF Latest
    <2>5. pending # None => pending = desired
      BY <2>2 DEF InTurn
    <2>6. pending = None => held[w] = desired
      BY <1>5, <2>2 DEF InTurn, Answered
    <2> QED
      BY <2>1, <2>2, <2>4, <2>5, <2>6 DEF InTurn, Settled
  <1>6. ASSUME ~closed', NEW w \in Worker, CallFails(w) PROVE InTurn' /\ Settled'
    <2>1. \A x \in Worker \ {w} : worker[x] = "off" /\ worker'[x] = "off"
      BY <1>0, <1>6 DEF CallFails
    <2>2. /\ UNCHANGED <<desired, pending, running, held>> /\ running /\ ~closed
          /\ worker[w] = "await" /\ worker'[w] = "failed"
      BY <1>0, <1>6 DEF CallFails
    <2> QED
      BY <2>1, <2>2 DEF InTurn, Settled
  <1>7. ASSUME ~closed', NEW w \in Worker, Failed(w) PROVE InTurn' /\ Settled'
    <2>1. \A x \in Worker \ {w} : worker[x] = "off" /\ worker'[x] = "off"
      BY <1>0, <1>7 DEF Failed
    <2>2. UNCHANGED <<pending, running, held, roleVars>> /\ running /\ ~closed /\ worker'[w] = "take"
      BY <1>0, <1>7 DEF Failed
    <2>3. pending = None => desired' = None
      BY <1>7, <2>2 DEF InTurn, Failed, Forgets
    <2>4. pending # None => desired' = pending
      BY <1>7, <2>2 DEF InTurn, Failed, Forgets
    <2> QED
      BY <2>1, <2>2, <2>3, <2>4 DEF InTurn, Settled
  <1>8. CASE Mailing /\ ~closed'
    <2>1. UNCHANGED <<queueVars, worker, held, roleVars>> /\ (told => told') /\ ~closed
      BY <1>8, MailingAside
    <2>2. Latest' = Latest /\ InTurn /\ Settled
      BY <2>1 DEF Latest
    <2>3. Settled'
      BY <2>1, <2>2 DEF Settled
    <2>4. InTurn'
      BY <2>1, <2>2 DEF InTurn
    <2> QED
      BY <2>3, <2>4
  <1>9. CASE UNCHANGED vars
    BY <1>9 DEF vars, InTurn, Settled, Latest
  <1>10. CASE ClosingDown
    BY <1>2, <1>10 DEF ClosingDown, CloseWindow, CloseBegins, DropRequests, CloseHide,
                       CloseReturns, DestroyRoot, Closing
  <1> QED
    BY <1>1, <1>2, <1>3, <1>4, <1>5, <1>6, <1>7, <1>8, <1>9, <1>10, AnswerInTurn, Steps

-----------------------------------------------------------------------------
(* Theorems *)

LEMMA IInvInit == Init => IInv
  <1> SUFFICES ASSUME Init PROVE IInv
    OBVIOUS
  <1>1. TypeOK
    <2>1. messages \in Seq(Message) /\ posted \in 0..PostCap /\ handled \in 0..posted
      BY BoundAssumption DEF Init
    <2>2. calls \in Seq(Request) /\ ack \in [Caller -> Nat]
      BY DEF Init
    <2>3. worker \in [Worker -> {"off", "take", "call", "await", "failed"}]
      BY DEF Init
    <2>4. held \in [Worker -> Request \cup {None}]
      BY DEF Init
    <2>5. widgets \in [Editor -> Mode \cup {"new", "gone"}] /\ focus \in Editor \cup {Nobody}
      BY DEF Init
    <2>6. /\ {missed, check, idle, timer, closed, told, running} \subseteq BOOLEAN
          /\ {desired, pending, applied} \subseteq Request \cup {None}
      BY DEF Init
    <2> QED
      BY <2>1, <2>2, <2>3, <2>4, <2>5, <2>6 DEF Init, TypeOK
  <1>2. Single /\ Waiting /\ Closing /\ InTurn /\ Settled
    BY ThreadAssumption DEF Init, Single, Active, Waiting, Closing, InTurn, Settled, Caller
  <1>3. EndsQueued = {} /\ ~told /\ handled + Len(messages) = posted
    BY DEF Init, EndsQueued
  <1>4. Mail
    BY <1>3 DEF Mail, EndTaken, Init
  <1>5. OneWorker
    BY <1>2, FS_EmptySet, FS_Singleton DEF Single, Active, OneWorker
  <1> QED
    BY <1>1, <1>2, <1>4, <1>5 DEF IInv

\* The inductive invariant of the shell: one worker, a desired request that waits for it,
\* is worked on or was served last, and messages that are handled at most once and none
\* after the end.
THEOREM Inductive == Spec => []IInv
  <1>1. ASSUME IInv, [Next]_vars PROVE IInv'
    <2>1. Single' => OneWorker'
      BY FS_EmptySet, FS_Singleton DEF Single, Active, OneWorker
    <2>2. TypeOK'
      BY <1>1, ShellStep, MailTypes, RoleStep DEF IInv, TypeOK, ShellOK, MailOK, RoleOK
    <2> QED
      BY <1>1, <2>1, <2>2, SingleStep, WaitingStep, ClosingStep, InTurnStep, MailStep DEF IInv
  <1> QED
    BY IInvInit, <1>1, PTL DEF Spec

\* A shell at rest has told the provider last what is desired, also when the channel has
\* ended and the answers to older requests never come.
THEOREM RestsSettled == Spec => []Settled
  <1>1. IInv => Settled
    BY DEF IInv
  <1> QED
    BY <1>1, Inductive, PTL

\* Once the message that ends the channel is taken nothing is handled, whoever posts
\* and wherever close() was called.
THEOREM NothingHandledAfter == Spec => NothingAfterEnd
  <1>1. ASSUME IInv, [Next]_vars, EndTaken PROVE handled' = handled
    <2>1. ui \notin {"ready", "hide", "poll"}
      BY <1>1 DEF IInv, Mail
    <2>2. CASE (Window /\ ~CloseWindow) \/ Hide
      BY <1>1, <2>2, WindowAsks DEF Asks, IInv
    <2>3. CASE Mailing
      BY <2>1, <2>3 DEF Mailing, PostMessage, ChannelEnds, Post, PollStart, PollNext, PollEnd
    <2>4. CASE ClosingDown
      BY <2>4 DEF ClosingDown, CloseWindow, DropRequests, CloseHide, CloseReturns, DestroyRoot
    <2>5. CASE \E w \in Worker : Take(w) \/ Call(w) \/ Answered(w) \/ CallFails(w) \/ Failed(w)
      BY <2>5 DEF Take, Call, Answered, CallFails, Failed
    <2>6. CASE Serve \/ Refuse \/ UNCHANGED vars
      BY <2>6 DEF Serve, Refuse, vars
    <2> QED
      BY <1>1, <2>2, <2>3, <2>4, <2>5, <2>6, Steps
  <1>2. IInv /\ [Next]_vars => [EndTaken => handled' = handled]_vars
    BY <1>1
  <1> QED
    BY <1>2, Inductive, PTL DEF Spec, NothingAfterEnd
=============================================================================
