------------------------- MODULE InputMethodProofs --------------------------
(* Proofs about InputMethod, for any editors, modes, workers and bound. *)
EXTENDS InputMethod, FiniteSetTheorems, TLAPS

USE DEF queueVars, roleVars

\* Places of Tk's thread before close() has set closed.
Open == {"ready", "hide", "raised"}

\* The variables of the window and of Tk's thread have their types.
WindowOK ==
    /\ widgets \in [Editor -> Mode \cup {"none"}]
    /\ focus \in Editor \cup {Nobody} /\ check \in BOOLEAN

\* An event of the window asks for one thing, or nothing.
Asks ==
    /\ UNCHANGED <<closed, held, roleVars>>
    /\ ui \in Open /\ ui' \in Open
    /\ \/ UNCHANGED <<queueVars, worker>>
       \/ \E v, f \in BOOLEAN, m \in Mode : Queue(v, m, f)

LEMMA Values ==
    /\ None \notin Request
    /\ \A v \in BOOLEAN, m \in Mode : Req(v, m) \in Request /\ Req(v, m) # None
  BY ModeAssumption DEF Request, None, Req

-----------------------------------------------------------------------------
(* The window *)

LEMMA HideAsks ==
  ASSUME UNCHANGED <<closed, held, roleVars>>, ui = "ready", HideNow
  PROVE  Asks
  <1>1. "en" \in Mode /\ FALSE \in BOOLEAN
    BY ModeAssumption
  <1> QED
    BY <1>1 DEF Asks, Open, HideNow

\* Every event of the window, and the hide() it may go on with, is Asks.
LEMMA WindowAsks ==
  ASSUME TypeOK, (Window /\ ~Close) \/ Hide \/ Recover
  PROVE  Asks /\ WindowOK'
  <1> USE DEF TypeOK, Open
  <1>0. ASSUME NEW e \in Editor, Bound(e) PROVE widgets[e] \in Mode
    BY <1>0 DEF Bound
  <1>1. ASSUME NEW e \in Editor, NEW m \in Mode, Bind(e, m) PROVE Asks /\ WindowOK'
    <2>1. WindowOK' /\ UNCHANGED <<ui, closed, held, roleVars>> /\ ui = "ready"
      BY <1>1 DEF Bind, WindowOK
    <2>2. CASE Bound(e) /\ focus # Nobody /\ Bound(focus)
      <3>1. widgets'[focus] \in Mode /\ Queue(TRUE, widgets'[focus], FALSE)
        BY <1>0, <1>1, <2>2 DEF Bind
      <3> QED
        BY <2>1, <3>1 DEF Asks
    <2>3. CASE ~(Bound(e) /\ focus # Nobody /\ Bound(focus))
      BY <1>1, <2>1, <2>3 DEF Bind, Asks
    <2> QED
      BY <2>2, <2>3
  <1>2. ASSUME NEW e \in Editor, FocusIn(e) \/ Touch(e) PROVE Asks /\ WindowOK'
    <2>1. WindowOK' /\ UNCHANGED <<ui, closed, held, roleVars>> /\ ui = "ready"
      BY <1>2 DEF FocusIn, Touch, WindowOK
    <2>2. CASE Bound(e)
      <3>1. \E f \in BOOLEAN : Queue(TRUE, widgets[e], f)
        BY <1>2, <2>2 DEF FocusIn, Touch
      <3> QED
        BY <1>0, <2>1, <2>2, <3>1 DEF Asks
    <2>3. CASE ~Bound(e)
      BY <1>2, <2>1, <2>3 DEF FocusIn, Touch, Asks
    <2> QED
      BY <2>2, <2>3
  <1>3. ASSUME NEW e \in Editor, FocusOut(e) PROVE Asks /\ WindowOK'
    BY <1>3 DEF FocusOut, WindowOK, Asks
  <1>4. ASSUME NEW e \in Editor, Destroy(e) PROVE Asks /\ WindowOK'
    BY <1>4, HideAsks DEF Destroy, WindowOK
  <1>5. ASSUME NEW m \in Mode, Show(m) PROVE Asks /\ WindowOK'
    BY <1>5 DEF Show, WindowOK, Asks
  <1>6. CASE OutsidePress
    BY <1>6, HideAsks DEF OutsidePress, WindowOK
  <1>7. ASSUME NEW h \in BOOLEAN, SyncFocus(h), UNCHANGED <<closed, held, roleVars>>, ui = "ready"
        PROVE  Asks
    <2>1. CASE UNCHANGED <<ui, queueVars, worker>>
      BY <1>7, <2>1 DEF Asks
    <2>2. CASE focus # Nobody /\ Bound(focus) /\ Queue(TRUE, widgets[focus], FALSE) /\ UNCHANGED ui
      BY <1>0, <1>7, <2>2 DEF Asks
    <2>3. CASE HideNow
      BY <1>7, <2>3, HideAsks
    <2> QED
      BY <1>7, <2>1, <2>2, <2>3 DEF SyncFocus
  <1>8. CASE Sync \/ Settle
    BY <1>7, <1>8 DEF Sync, Settle, WindowOK
  <1>9. CASE Hide
    <2>1. WindowOK' /\ UNCHANGED <<closed, held, roleVars>> /\ ui \in Open /\ ui' \in Open
      BY <1>9 DEF Hide, WindowOK
    <2>2. desired # None => desired.mode \in Mode
      BY DEF Request
    <2> QED
      BY <1>9, <2>1, <2>2 DEF Hide, Asks
  <1>10. CASE Recover
    BY <1>10 DEF Recover, WindowOK, Asks
  <1> QED
    BY <1>1, <1>2, <1>3, <1>4, <1>5, <1>6, <1>8, <1>9, <1>10 DEF Window

-----------------------------------------------------------------------------
(* The workers *)

\* A request starts the worker there is none of, and no other.
LEMMA QueueStarts ==
  ASSUME TypeOK, Single, NEW v, NEW m, NEW f, Queue(v, m, f), worker' # worker
  PROVE  /\ ~running /\ running'
         /\ \E w \in Worker : worker[w] = "off" /\ worker' = [worker EXCEPT ![w] = "take"]
  <1>1. ~running /\ running'
    BY DEF Queue
  <1>2. \E w \in Worker : worker[w] = "off"
    BY <1>1, ThreadAssumption DEF Single, Active
  <1> QED
    BY <1>1, <1>2 DEF Queue

LEMMA SingleStep ==
  ASSUME IInv, [Next]_vars PROVE Single'
  <1> USE DEF IInv, TypeOK, Single, Active
  <1>1. CASE UNCHANGED <<worker, running>>
    BY <1>1
  <1>2. ASSUME NEW v, NEW m, NEW f, Queue(v, m, f) PROVE Single'
    <2>1. CASE worker' = worker
      <3>1. running' = running
        BY <1>2, <2>1, ThreadAssumption DEF Queue
      <3> QED
        BY <1>1, <2>1, <3>1
    <2>2. CASE worker' # worker
      <3>1. PICK w \in Worker : worker[w] = "off" /\ worker' = [worker EXCEPT ![w] = "take"]
        BY <1>2, <2>2, QueueStarts
      <3>2. ~running /\ running'
        BY <1>2, <2>2, QueueStarts
      <3>3. Active' = {w}
        BY <3>1, <3>2
      <3> QED
        BY <3>2, <3>3
    <2> QED
      BY <2>1, <2>2
  <1>3. ASSUME NEW w \in Worker, Take(w) PROVE Single'
    <2>1. running /\ Active = {w}
      BY <1>3 DEF Take
    <2>2. CASE Ends
      <3>1. Active' = {} /\ ~running'
        BY <1>3, <2>1, <2>2 DEF Take
      <3> QED
        BY <3>1
    <2>3. CASE ~Ends
      <3>1. Active' = {w} /\ running'
        BY <1>3, <2>1, <2>3 DEF Take, Stays
      <3> QED
        BY <3>1
    <2> QED
      BY <2>2, <2>3
  <1>4. ASSUME NEW w \in Worker, Call(w) \/ Answered(w) \/ TimesOut(w) \/ Failed(w) PROVE Single'
    <2>1. Active' = Active /\ UNCHANGED running
      BY <1>4 DEF Call, Answered, TimesOut, Failed, AfterFailure
    <2> QED
      BY <2>1
  <1>5. CASE Refuse
    <2>1. \A w \in Worker : ack[w] = 1 => worker[w] = "await"
      BY DEF Waiting
    <2>2. Active' = Active /\ UNCHANGED running
      BY <1>5, <2>1 DEF Refuse, Answer
    <2> QED
      BY <2>2
  <1>6. CASE Close \/ CloseHide \/ CloseTimesOut \/ Unbind \/ Serve \/ UNCHANGED vars
    <2>1. UNCHANGED <<worker, running>>
      BY <1>6 DEF Close, CloseHide, CloseTimesOut, Unbind, Serve, Answer, vars
    <2> QED
      BY <1>1, <2>1
  <1> QED
    BY <1>1, <1>2, <1>3, <1>4, <1>5, <1>6, WindowAsks DEF Next, UiStep, WorkerStep, Window, Asks

\* As many workers as _worker_running says.
LEMMA OneOfThem == Single => OneWorker
  BY FS_EmptySet, FS_Singleton DEF Single, Active, OneWorker
-----------------------------------------------------------------------------
(* The types *)

LEMMA EmptySeq == \A S : <<>> \in Seq(S)
  OBVIOUS

LEMMA SeqSteps ==
  ASSUME NEW S, NEW s \in Seq(S)
  PROVE  /\ Len(s) \in Nat /\ (s = <<>> <=> Len(s) = 0)
         /\ \A x \in S : /\ Append(s, x) \in Seq(S) /\ Len(Append(s, x)) = Len(s) + 1
                         /\ Append(s, x)[Len(s) + 1] = x
         /\ s # <<>> => /\ Head(s) = s[1] /\ Head(s) \in S /\ Tail(s) \in Seq(S)
                        /\ Len(Tail(s)) = Len(s) - 1
                        /\ \A j \in 1..(Len(s) - 1) : Tail(s)[j] = s[j + 1]
  OBVIOUS

LEMMA LastKept ==
  ASSUME NEW S, NEW s \in Seq(S), Len(s) > 1
  PROVE  Tail(s) # <<>> /\ Tail(s)[Len(Tail(s))] = s[Len(s)]
  OBVIOUS

LEMMA QueueTypes ==
  ASSUME TypeOK, Single, NEW v \in BOOLEAN, NEW m \in Mode, NEW f, Queue(v, m, f)
  PROVE  /\ {desired', pending'} \subseteq Request \cup {None} /\ running' \in BOOLEAN
         /\ worker' \in [Worker -> {"off", "take", "call", "await", "failed"}]
  <1>1. worker' \in [Worker -> {"off", "take", "call", "await", "failed"}]
    <2>1. CASE worker' = worker
      BY <2>1 DEF TypeOK
    <2>2. CASE worker' # worker
      BY <2>2, QueueStarts DEF TypeOK
    <2> QED
      BY <2>1, <2>2
  <1>2. {desired', pending'} \subseteq Request \cup {None} /\ running' \in BOOLEAN
    <2>1. Req(v, m) \in Request
      BY Values
    <2>2. \/ UNCHANGED queueVars
          \/ desired' = Req(v, m) /\ pending' = Req(v, m) /\ running' = TRUE
      BY DEF Queue, Newest
    <2> QED
      BY <2>1, <2>2 DEF TypeOK
  <1> QED
    BY <1>1, <1>2

LEMMA TypeStep ==
  ASSUME IInv, [Next]_vars PROVE TypeOK'
  <1> USE DEF IInv, TypeOK
  <1>1. CASE (Window /\ ~Close) \/ Hide \/ Recover
    <2>1. WindowOK' /\ Asks
      BY <1>1, WindowAsks
    <2>2. /\ {desired', pending'} \subseteq Request \cup {None} /\ running' \in BOOLEAN
          /\ worker' \in [Worker -> {"off", "take", "call", "await", "failed"}]
      BY <2>1, QueueTypes DEF Asks
    <2> QED
      BY <2>1, <2>2 DEF Asks, WindowOK, Open
  <1>2. CASE Close
    <2>1. desired' \in Request
      <3>1. desired # None => desired.mode \in Mode
        BY DEF Request
      <3>2. (IF desired = None THEN "en" ELSE desired.mode) \in Mode
        BY <3>1, ModeAssumption
      <3> QED
        BY <1>2, <3>2, Values DEF Close
    <2>2. widgets' \in [Editor -> Mode \cup {"none"}]
      BY <1>2 DEF Close
    <2> QED
      BY <1>2, <2>1, <2>2 DEF Close
  <1>3. ASSUME NEW t \in Caller, NEW r \in Request, Sends(t, r)
        PROVE  calls' \in Seq(Request) /\ ack' \in [Caller -> Nat] /\ UNCHANGED replied
    BY <1>3, SeqSteps DEF Sends
  <1>4. CASE CloseHide
    <2>1. "ui" \in Caller /\ Req(FALSE, "en") \in Request
      BY Values, ModeAssumption DEF Caller
    <2>2. calls' \in Seq(Request) /\ ack' \in [Caller -> Nat] /\ UNCHANGED replied
      BY <1>3, <1>4, <2>1 DEF CloseHide
    <2> QED
      BY <1>4, <2>2 DEF CloseHide
  <1>5. ASSUME NEW w \in Worker, Call(w) PROVE TypeOK'
    <2>1. w \in Caller /\ held[w] \in Request
      BY <1>5 DEF Caller, Call, Waiting
    <2>2. calls' \in Seq(Request) /\ ack' \in [Caller -> Nat] /\ UNCHANGED replied
      BY <1>3, <1>5, <2>1 DEF Call
    <2> QED
      BY <1>5, <2>2 DEF Call
  <1>6. CASE CloseTimesOut \/ Unbind
    BY <1>6 DEF CloseTimesOut, Unbind, Caller
  <1>7. ASSUME NEW w \in Worker, Take(w) PROVE TypeOK'
    BY <1>7 DEF Take, Stays
  <1>8. ASSUME NEW w \in Worker, Answered(w) \/ TimesOut(w) \/ Failed(w) PROVE TypeOK'
    <2>1. CASE Answered(w)
      BY <2>1 DEF Answered
    <2>2. CASE TimesOut(w)
      BY <2>2 DEF TimesOut
    <2>3. CASE Failed(w)
      BY <2>3 DEF Failed, AfterFailure
    <2> QED
      BY <1>8, <2>1, <2>2, <2>3
  <1>9. CASE Serve \/ Refuse
    <2>1. calls # <<>> => Head(calls) \in Request /\ Tail(calls) \in Seq(Request)
      BY SeqSteps
    <2>2. calls' \in Seq(Request) /\ replied' \in Request \cup {None}
      BY <1>9, <2>1 DEF Serve, Refuse, Answer
    <2>3. ack' \in [Caller -> Nat]
      BY <1>9 DEF Serve, Refuse, Answer
    <2> QED
      BY <1>9, <2>2, <2>3 DEF Serve, Refuse, Answer
  <1>10. CASE UNCHANGED vars
    BY <1>10 DEF vars
  <1> QED
    BY <1>1, <1>2, <1>4, <1>5, <1>6, <1>7, <1>8, <1>9, <1>10
    DEF Next, UiStep, WorkerStep

-----------------------------------------------------------------------------
(* The requests *)

LEMMA WaitingStep ==
  ASSUME IInv, [Next]_vars PROVE Waiting'
  <1> USE ThreadAssumption DEF IInv, TypeOK, Waiting, Caller
  <1>1. CASE (Window /\ ~Close) \/ Hide \/ Recover
    <2>1. Asks
      BY <1>1, WindowAsks
    <2>2. \A w \in Worker : worker'[w] = worker[w] \/ (worker[w] = "off" /\ worker'[w] = "take")
      BY <2>1, QueueStarts DEF Asks
    <2> QED
      BY <2>1, <2>2 DEF Asks, Open
  <1>2. CASE Close
    BY <1>2 DEF Close
  <1>3. CASE CloseHide \/ CloseTimesOut \/ Unbind
    BY <1>3 DEF CloseHide, Sends, CloseTimesOut, Unbind
  <1>4. ASSUME NEW w \in Worker, Take(w) PROVE Waiting'
    BY <1>4 DEF Take, Ends, Stays
  <1>5. ASSUME NEW w \in Worker, Call(w) PROVE Waiting'
    BY <1>5 DEF Call, Sends
  <1>6. ASSUME NEW w \in Worker, Answered(w) \/ TimesOut(w) \/ Failed(w) PROVE Waiting'
    BY <1>6 DEF Answered, TimesOut, Failed, AfterFailure
  <1>7. CASE Serve
    BY <1>7 DEF Serve, Answer
  <1>8. CASE Refuse
    BY <1>8 DEF Refuse, Answer
  <1>9. CASE UNCHANGED vars
    BY <1>9 DEF vars
  <1> QED
    BY <1>1, <1>2, <1>3, <1>4, <1>5, <1>6, <1>7, <1>8, <1>9 DEF Next, UiStep, WorkerStep

\* While no request is made or sent, only a worker's place matters.
LEMMA QueueInTurn ==
  ASSUME IInv, NEW v \in BOOLEAN, NEW m \in Mode, NEW f, Queue(v, m, f),
         UNCHANGED <<closed, held, roleVars>>
  PROVE  InTurn' /\ Settled'
  <1> USE DEF IInv, TypeOK
  <1>1. CASE UNCHANGED <<queueVars, worker>>
    BY <1>1 DEF InTurn, Settled, Latest
  <1>2. CASE ~UNCHANGED <<queueVars, worker>>
    <2>1. pending' = Req(v, m) /\ desired' = Req(v, m) /\ running' /\ pending' # None
      BY <1>2, Values DEF Queue, Newest
    <2>2. \A w \in Worker : worker'[w] = worker[w] \/ (worker[w] = "off" /\ worker'[w] = "take")
      BY QueueStarts
    <2>3. \A w \in Worker : worker'[w] = "await" => worker[w] = "await"
      BY <2>2
    <2> QED
      BY <2>1, <2>3 DEF InTurn, Settled, Latest
  <1> QED
    BY <1>1, <1>2

LEMMA InTurnStep ==
  ASSUME IInv, [Next]_vars PROVE InTurn' /\ Settled'
  <1> USE ThreadAssumption DEF IInv, TypeOK
  <1>0. ASSUME NEW w \in Worker, NEW x \in Worker, worker[w] # "off", worker[x] # "off"
        PROVE  w = x /\ running
    BY <1>0 DEF Single, Active
  <1>1. CASE (Window /\ ~Close) \/ Hide \/ Recover
    <2>1. Asks
      BY <1>1, WindowAsks
    <2>2. CASE UNCHANGED <<queueVars, worker>>
      BY <2>1, <2>2 DEF Asks, InTurn, Settled, Latest
    <2> QED
      BY <2>1, <2>2, QueueInTurn DEF Asks
  <1>2. CASE closed'
    BY <1>2 DEF InTurn, Settled
  <1>3. ASSUME ~closed', NEW w \in Worker, Take(w) PROVE InTurn' /\ Settled'
    <2>1. \A x \in Worker \ {w} : worker[x] = "off" /\ worker'[x] = "off"
      BY <1>0, <1>3 DEF Take
    <2>2. worker[w] = "take" /\ pending' = None /\ UNCHANGED <<desired, calls, replied, ack>>
      BY <1>3 DEF Take
    <2>3. CASE pending = None
      <3>1. worker'[w] = "off" /\ ~running'
        BY <1>3, <2>3 DEF Take, Ends
      <3>2. desired = None \/ (calls = <<>> /\ replied = desired)
        BY <1>3, <2>2, <2>3 DEF InTurn, Take
      <3> QED
        BY <2>1, <2>2, <3>1, <3>2 DEF InTurn, Settled
    <2>4. CASE pending # None
      <3>1. worker'[w] = "call" /\ held'[w] = pending /\ pending = desired /\ running'
        BY <1>3, <2>4 DEF Take, Ends, Stays, InTurn
      <3> QED
        BY <2>1, <2>2, <3>1 DEF InTurn, Settled
    <2> QED
      BY <2>3, <2>4
  <1>4. ASSUME ~closed', NEW w \in Worker, Call(w) PROVE InTurn' /\ Settled'
    <2>1. \A x \in Worker \ {w} : worker[x] = "off" /\ worker'[x] = "off"
      BY <1>0, <1>4 DEF Call
    <2>2. UNCHANGED <<desired, pending, running, held>> /\ running /\ ~closed
      BY <1>0, <1>4 DEF Call
    <2>3. pending # None => pending = desired
      BY <2>2 DEF InTurn
    <2>4. pending = None => held[w] = desired
      BY <1>4, <2>2 DEF InTurn, Call
    <2>5. CASE worker'[w] = "failed"
      BY <2>1, <2>2, <2>3, <2>4, <2>5 DEF InTurn, Settled
    <2>6. CASE worker'[w] = "await"
      <3>1. Sends(w, held[w]) /\ held[w] \in Request
        BY <1>4, <2>6 DEF Call, Waiting
      <3>2. ack'[w] = Len(calls') /\ Latest' = held[w]
        BY <3>1, SeqSteps DEF Sends, Latest, Caller
      <3> QED
        BY <2>1, <2>2, <2>3, <2>4, <2>6, <3>2 DEF InTurn, Settled
    <2> QED
      BY <1>4, <2>5, <2>6 DEF Call
  <1>5. ASSUME ~closed', NEW w \in Worker, Answered(w) PROVE InTurn' /\ Settled'
    <2>1. \A x \in Worker \ {w} : worker[x] = "off" /\ worker'[x] = "off"
      BY <1>0, <1>5 DEF Answered
    <2>2. /\ UNCHANGED <<desired, pending, running, held, roleVars>> /\ running /\ ~closed
          /\ worker'[w] = "take"
      BY <1>0, <1>5 DEF Answered
    <2>3. calls = <<>> /\ replied = held[w]
      BY <1>5, <2>2, SeqSteps DEF Answered, InTurn, Latest
    <2>4. pending # None => pending = desired
      BY <2>2 DEF InTurn
    <2>5. pending = None => held[w] = desired
      BY <1>5, <2>2 DEF InTurn, Answered
    <2> QED
      BY <2>1, <2>2, <2>3, <2>4, <2>5 DEF InTurn, Settled
  <1>6. ASSUME ~closed', NEW w \in Worker, TimesOut(w) PROVE InTurn' /\ Settled'
    <2>1. \A x \in Worker \ {w} : worker[x] = "off" /\ worker'[x] = "off"
      BY <1>0, <1>6 DEF TimesOut
    <2>2. UNCHANGED <<desired, pending, running, held>> /\ running /\ ~closed /\ worker'[w] = "failed"
      BY <1>0, <1>6 DEF TimesOut
    <2> QED
      BY <1>6, <2>1, <2>2 DEF InTurn, Settled, TimesOut
  <1>7. ASSUME ~closed', NEW w \in Worker, Failed(w) PROVE InTurn' /\ Settled'
    <2>1. \A x \in Worker \ {w} : worker[x] = "off" /\ worker'[x] = "off"
      BY <1>0, <1>7 DEF Failed
    <2>2. UNCHANGED <<pending, running, held, roleVars>> /\ running /\ ~closed /\ worker'[w] = "take"
      BY <1>0, <1>7 DEF Failed, AfterFailure
    <2>3. pending = None => desired' = None
      BY <1>7, <2>2 DEF InTurn, Failed, Forgets
    <2>4. pending # None => desired' = pending
      BY <1>7, <2>2 DEF InTurn, Failed, Forgets
    <2> QED
      BY <2>1, <2>2, <2>3, <2>4 DEF InTurn, Settled
  <1>8. ASSUME ~closed', Serve \/ Refuse PROVE InTurn' /\ Settled'
    <2>1. /\ UNCHANGED <<desired, pending, running, held, closed>> /\ calls # <<>>
          /\ calls' = Tail(calls) /\ Len(calls') = Len(calls) - 1 /\ Len(calls) \in Nat \ {0}
      BY <1>8, SeqSteps DEF Serve, Refuse, Answer
    <2>2. Settled'
      BY <1>8, <2>1 DEF Settled
    <2>3. ASSUME NEW w \in Worker
          PROVE  worker'[w] = worker[w] \/ (worker[w] = "await" /\ worker'[w] = "failed")
      BY <1>8 DEF Serve, Refuse, Answer, Waiting
    <2>4. ASSUME NEW w \in Worker, worker'[w] = "await"
          PROVE  ack'[w] = Len(calls') /\ Latest' = held'[w]
      <3>1. worker[w] = "await" /\ ack[w] = Len(calls) /\ calls[Len(calls)] = held[w]
        BY <1>8, <2>1, <2>3, <2>4 DEF InTurn, Latest
      <3>2. ack'[w] = Len(calls')
        BY <1>8, <2>1, <3>1 DEF Serve, Refuse, Answer, Caller
      <3>3. CASE Len(calls) > 1
        <4>1. calls' # <<>> /\ calls'[Len(calls')] = calls[Len(calls)]
          BY <2>1, <3>3, LastKept
        <4> QED
          BY <2>1, <3>1, <3>2, <4>1 DEF Latest
      <3>4. CASE Len(calls) = 1
        <4>1. replied' = Head(calls)
          BY <1>8, <2>4, <3>1, <3>4 DEF Serve, Refuse, Answer
        <4>2. calls' = <<>> /\ replied' = calls[1]
          BY <2>1, <3>4, <4>1, SeqSteps
        <4> QED
          BY <2>1, <3>1, <3>2, <3>4, <4>2 DEF Latest
      <3> QED
        BY <2>1, <3>3, <3>4
    <2> QED
      BY <2>1, <2>2, <2>3, <2>4 DEF InTurn
  <1>9. CASE UNCHANGED vars
    BY <1>9 DEF vars, InTurn, Settled, Latest
  <1>10. CASE Close \/ CloseHide \/ CloseTimesOut \/ Unbind
    BY <1>2, <1>10 DEF Close, CloseHide, CloseTimesOut, Unbind, Waiting
  <1> QED
    BY <1>1, <1>2, <1>3, <1>4, <1>5, <1>6, <1>7, <1>8, <1>9, <1>10
    DEF Next, UiStep, WorkerStep

-----------------------------------------------------------------------------
(* Theorems *)

LEMMA IInvInit == Init => IInv
  <1> SUFFICES ASSUME Init PROVE IInv
    OBVIOUS
  <1>1. TypeOK
    BY EmptySeq DEF Init, TypeOK
  <1>2. Single /\ Waiting /\ InTurn /\ Settled
    BY ThreadAssumption DEF Init, Single, Active, Waiting, InTurn, Settled, Caller
  <1> QED
    BY <1>1, <1>2, OneOfThem DEF IInv

\* The inductive invariant of the binding: one worker, and a desired request that waits
\* for it, is worked on, or was answered last.
THEOREM Inductive == Spec => []IInv
  <1>1. ASSUME IInv, [Next]_vars PROVE IInv'
    <2>1. Single' => OneWorker'
      BY FS_EmptySet, FS_Singleton DEF Single, Active, OneWorker
    <2> QED
      BY <1>1, <2>1, TypeStep, SingleStep, WaitingStep, InTurnStep DEF IInv
  <1> QED
    BY IInvInit, <1>1, PTL DEF Spec

\* There is never a second worker, and one exactly while _worker_running is set.
THEOREM NeverTwoWorkers == Spec => []OneWorker
  <1>1. IInv => OneWorker
    BY DEF IInv
  <1> QED
    BY <1>1, Inductive, PTL

\* What a binding at rest desires is what the provider answered last: no request was
\* lost, overtaken by an older one, or taken for granted after a call that raised.
THEOREM RestsSettled == Spec => []Settled
  <1>1. IInv => Settled
    BY DEF IInv
  <1> QED
    BY <1>1, Inductive, PTL
=============================================================================
