----------------------- MODULE ComponentChannelProofs -----------------------
(* Proofs about ComponentChannel, for any sets of threads and any bounds. *)
EXTENDS ComponentChannel, TLAPS

USE DEF Jump, Goto, callVars, readVars, peerVars

LEMMA OutcomeTypes ==
    /\ Nothing \in Outcome /\ TimedOut \in Outcome /\ Invalid \in Outcome
    /\ \A i \in Nat : Reply(i) \in Outcome /\ Reply(i) # Nothing
    /\ \A e \in Reason : Fail(e) \in Outcome /\ Fail(e) # Nothing
  BY DEF Outcome, Nothing, TimedOut, Invalid, Reply, Fail, Reason

LEMMA EmptySeq == \A S : <<>> \in Seq(S)
  OBVIOUS

\* Steps on a sequence of members of S.
LEMMA SeqSteps ==
  ASSUME NEW S, NEW s \in Seq(S)
  PROVE  /\ \A x \in S : Append(s, x) \in Seq(S)
         /\ s # <<>> => Head(s) \in S /\ Tail(s) \in Seq(S)
         /\ \A T : S \subseteq T => s \in Seq(T)
  OBVIOUS

LEMMA TypeInit == Init => TypeOK
  <1> SUFFICES ASSUME Init PROVE TypeOK
    OBVIOUS
  <1>1. PcOK
    BY ThreadAssumption DEF Init, PcOK, Thread, CallerPc, CloserPc, MainPc, PumpPc
  <1>2. CallOK
    <2>1. nextId = 1 /\ nextId - 1 = 0 /\ 0 \in 0..0
      BY DEF Init
    <2>2. slot \in [1..0 -> Outcome] /\ taken \in [Closer \cup {Pump} -> SUBSET (1..0)]
      BY DEF Init
    <2>3. req \in [Calling -> 0..0] /\ result \in [Calling -> Outcome]
      BY OutcomeTypes, <2>1 DEF Init
    <2>4. /\ closed \in BOOLEAN /\ pumpThread \in BOOLEAN
          /\ pendingLock \in Calling \cup {Free} /\ pending \subseteq 1..0
      BY DEF Init
    <2> QED
      BY <2>1, <2>2, <2>3, <2>4 DEF CallOK
  <1>3. PumpOK
    BY DEF Init, PumpOK, Eof, Record, Reason
  <1>4. WireOK
    <2>1. out \in Seq(0..(nextId - 1)) /\ in \in Seq(Record)
      BY EmptySeq DEF Init
    <2>2. nSent \in 0..MaxWire
      BY BoundAssumption DEF Init
    <2> QED
      BY <2>1, <2>2 DEF Init, WireOK
  <1> QED
    BY <1>1, <1>2, <1>3, <1>4 DEF TypeOK

-----------------------------------------------------------------------------
(* Where a step moves its thread *)

Moves(t, L) == \E l \in L : pc' = [pc EXCEPT ![t] = l]

\* The places of a thread that calls.
CallPc(c) == IF c = Pump THEN PumpPc ELSE CallerPc

\* A step of call() moves its thread to a place of that thread's code, or none.
LEMMA CallMoves ==
  ASSUME NEW c \in Calling, CallerStep(c) \/ CallBegin(c) \/ Expire(c)
  PROVE  Moves(c, CallPc(c)) \/ UNCHANGED pc
  BY ThreadAssumption
  DEF Moves, CallPc, PumpPc, CallerPc, CallerStep, CallBegin, Expire, RegisterCheck,
      Register, Send, Sends, TakeReply, Finish, After

LEMMA PumpMoves ==
  ASSUME PumpStep PROVE Moves(Pump, PumpPc)
  <1> USE ThreadAssumption DEF Moves, PumpPc
  <1>1. CASE PumpLoop \/ ReceiveTimeout \/ Receive \/ ReceiveEof \/ ReceiveError \/ ReceiveRaises
    BY <1>1 DEF PumpLoop, ReceiveTimeout, Receive, ReceiveEof, ReceiveError, ReceiveRaises
  <1>2. CASE Route \/ Put \/ Handle \/ SendReply \/ SendErrorReply
    BY <1>2 DEF Route, Put, Handle, HandlerFailed, SendReply, SendErrorReply, Replied, Sends
  <1>3. CASE Callback \/ CallbackEof \/ Clear(Pump) \/ FailTaken(Pump)
    BY <1>3 DEF Callback, CallbackEof, Clear, FailTaken, AfterFail, AfterError
  <1> QED
    BY <1>1, <1>2, <1>3 DEF PumpStep

LEMMA CloserMoves ==
  ASSUME NEW k \in Closer, CloserStep(k) \/ Close(k) PROVE Moves(k, CloserPc)
  BY ThreadAssumption
  DEF Moves, CloserPc, CloserStep, Close, SetClosed, Clear, FailTaken, AfterFail, Shutdown,
      CloseSock

LEMMA PcStep ==
  ASSUME PcOK, [Next]_vars PROVE PcOK'
  <1> USE ThreadAssumption DEF Thread, Calling
  <1>1. ASSUME NEW c \in Calling, Moves(c, CallPc(c)) \/ UNCHANGED pc PROVE PcOK'
    BY <1>1 DEF PcOK, Moves, CallPc
  <1>2. ASSUME Moves(Pump, PumpPc) PROVE PcOK'
    BY <1>2 DEF PcOK, Moves
  <1>3. ASSUME NEW k \in Closer, Moves(k, CloserPc) PROVE PcOK'
    BY <1>3 DEF PcOK, Moves
  <1>4. CASE MainStep \/ Hello \/ NoHandshake
    BY <1>4 DEF PcOK, MainStep, Hello, NoHandshake, Welcome, Ready, Start, Sends, MainPc, PumpPc
  <1>5. CASE Peer \/ UNCHANGED vars
    BY <1>5 DEF PcOK, Peer, PeerRead, PeerClose, PeerSend, vars
  <1> QED
    BY <1>1, <1>2, <1>3, <1>4, <1>5, CallMoves, PumpMoves, CloserMoves DEF Next, Choice

-----------------------------------------------------------------------------
(* The types of the other variables *)

LEMMA CallTypes ==
  ASSUME TypeOK, IdsOwned, [Next]_vars PROVE CallOK'
  <1> USE TypeOK, OutcomeTypes DEF TypeOK, CallOK
  <1>1. ASSUME NEW c \in Calling, CallBegin(c) \/ RegisterCheck(c) PROVE CallOK'
    BY <1>1 DEF CallBegin, RegisterCheck, HoldLock, Rejected, Reason
  <1>2. ASSUME NEW c \in Calling, Register(c) PROVE CallOK'
    <2>1. nextId' = nextId + 1 /\ nextId' - 1 = nextId
      BY <1>2 DEF Register
    <2>2. slot' \in [1..nextId -> Outcome]
      BY <1>2 DEF Register
    <2>3. pending' \subseteq 1..nextId /\ req' \in [Calling -> 0..nextId]
      BY <1>2 DEF Register, NewId
    <2>4. taken' \in [Closer \cup {Pump} -> SUBSET (1..nextId)]
      BY <1>2 DEF Register
    <2> QED
      BY <1>2, <2>1, <2>2, <2>3, <2>4 DEF Register
  <1>3. ASSUME NEW c \in Calling, Send(c) \/ Expire(c) \/ Finish(c) PROVE CallOK'
    <2>1. Fail("send") \in Outcome
      BY DEF Reason
    <2>2. req' \in [Calling -> 0..(nextId - 1)] /\ result' \in [Calling -> Outcome]
      BY <1>3, <2>1 DEF Send, Expire, Finish
    <2> QED
      BY <1>3, <2>2 DEF Send, Expire, Finish, Unregistered
  <1>4. ASSUME NEW c \in Calling, TakeReply(c) PROVE CallOK'
    <2>1. slot[req[c]] \in Outcome
      BY <1>4 DEF TakeReply, IdsOwned
    <2> QED
      BY <1>4, <2>1 DEF TakeReply
  <1>5. CASE Put
    <2>1. Reply(hand.id) \in Outcome
      BY DEF PumpOK, Record
    <2> QED
      BY <1>5, <2>1 DEF Put
  <1>6. ASSUME NEW t \in Closer \cup {Pump}, Clear(t) PROVE CallOK'
    BY <1>6 DEF Clear, AllPending
  <1>7. ASSUME NEW t \in Closer \cup {Pump}, FailTaken(t) PROVE CallOK'
    <2>1. Fail(Why(t)) \in Outcome
      BY DEF Why, PumpOK, Reason
    <2>2. slot' \in [1..(nextId - 1) -> Outcome]
      BY <1>7, <2>1 DEF FailTaken
    <2> QED
      BY <1>7, <2>2 DEF FailTaken
  <1>8. ASSUME NEW k \in Closer, Close(k) \/ SetClosed(k) \/ Shutdown(k) \/ CloseSock(k)
        PROVE  CallOK'
    BY <1>8 DEF Close, SetClosed, Shutdown, CloseSock
  <1>9. CASE MainStep \/ Hello \/ NoHandshake
    BY <1>9 DEF MainStep, Hello, NoHandshake, Welcome, Ready, Start
  <1>10. CASE PumpLoop \/ ReceiveTimeout \/ Receive \/ ReceiveEof \/ ReceiveError \/ ReceiveRaises
    BY <1>10 DEF PumpLoop, ReceiveTimeout, Receive, ReceiveEof, ReceiveError, ReceiveRaises
  <1>11. CASE Route \/ Handle \/ SendReply \/ SendErrorReply \/ Callback \/ CallbackEof
    BY <1>11 DEF Route, Handle, SendReply, SendErrorReply, Callback, CallbackEof
  <1>12. CASE Peer \/ UNCHANGED vars
    BY <1>12 DEF Peer, PeerRead, PeerClose, PeerSend, vars
  <1> QED
    BY <1>1, <1>2, <1>3, <1>4, <1>5, <1>6, <1>7, <1>8, <1>9, <1>10, <1>11, <1>12
    DEF Next, CallerStep, PumpStep, CloserStep, Choice

LEMMA PumpTypes ==
  ASSUME TypeOK, [Next]_vars PROVE PumpOK'
  <1> USE TypeOK DEF TypeOK, PumpOK
  <1>1. CASE Receive \/ ReceiveEof \/ ReceiveError
    <2>1. in # <<>> => Head(in) \in Record
      BY SeqSteps DEF WireOK
    <2> QED
      BY <1>1, <2>1 DEF Receive, ReceiveEof, ReceiveError, Eof, Record, Reason
  <1>2. CASE SendReply \/ SendErrorReply
    <2>1. replied' \in [1..MaxWire -> Nat]
      BY <1>2 DEF SendReply, SendErrorReply, ReplyCount
    <2> QED
      BY <1>2, <2>1 DEF SendReply, SendErrorReply
  <1>3. CASE Callback
    <2>1. lastSeq' \in Nat /\ ended' \in Nat /\ cause' \in {"eof", "shutdown", "protocol", "reset"}
      BY <1>3 DEF Callback, Record, Last
    <2> QED
      BY <1>3, <2>1 DEF Callback
  <1>4. CASE CallbackEof
    BY <1>4 DEF CallbackEof
  <1>5. ASSUME NEW c, CallerStep(c) \/ CallBegin(c) \/ Expire(c) PROVE PumpOK'
    BY <1>5 DEF CallerStep, CallBegin, Expire, RegisterCheck, Register, Send, TakeReply, Finish
  <1>6. ASSUME NEW t, Clear(t) \/ FailTaken(t) \/ Close(t) \/ SetClosed(t) \/ Shutdown(t)
                      \/ CloseSock(t)
        PROVE  PumpOK'
    BY <1>6 DEF Clear, FailTaken, Close, SetClosed, Shutdown, CloseSock
  <1>7. CASE MainStep \/ Hello \/ NoHandshake
    BY <1>7 DEF MainStep, Hello, NoHandshake, Welcome, Ready, Start
  <1>8. CASE PumpLoop \/ ReceiveTimeout \/ ReceiveRaises \/ Route \/ Put \/ Handle
    BY <1>8 DEF PumpLoop, ReceiveTimeout, ReceiveRaises, Route, Put, Handle
  <1>9. CASE Peer \/ UNCHANGED vars
    BY <1>9 DEF Peer, PeerRead, PeerClose, PeerSend, vars
  <1> QED
    BY <1>1, <1>2, <1>3, <1>4, <1>5, <1>6, <1>7, <1>8, <1>9
    DEF Next, PumpStep, CloserStep, Choice

LEMMA WireTypes ==
  ASSUME TypeOK, [Next]_vars PROVE WireOK'
  <1> USE TypeOK DEF TypeOK, WireOK
  <1>1. ASSUME NEW t, NEW i \in 0..(nextId - 1), NEW a, NEW b, Sends(t, i, a, b)
        PROVE  out' \in Seq(0..(nextId - 1))
    <2>1. Append(out, i) \in Seq(0..(nextId - 1))
      BY SeqSteps
    <2> QED
      BY <1>1, <2>1 DEF Sends
  <1>2. 0 \in 0..(nextId - 1)
    BY DEF CallOK
  <1>3. CASE Hello \/ Ready \/ SendReply \/ SendErrorReply
    <2>1. out' \in Seq(0..(nextId - 1))
      BY <1>1, <1>2, <1>3 DEF Hello, Ready, SendReply, SendErrorReply
    <2> QED
      BY <1>3, <2>1 DEF Hello, Ready, SendReply, SendErrorReply
  <1>4. ASSUME NEW c \in Calling, Send(c) PROVE WireOK'
    <2>1. out' \in Seq(0..(nextId - 1))
      BY <1>1, <1>4 DEF Send, CallOK
    <2> QED
      BY <1>4, <2>1 DEF Send
  <1>5. ASSUME NEW c \in Calling, Register(c) PROVE WireOK'
    <2>1. 0..(nextId - 1) \subseteq 0..(nextId' - 1) /\ 1..(nextId - 1) \subseteq 1..(nextId' - 1)
      BY <1>5 DEF Register, CallOK
    <2>2. out \in Seq(0..(nextId' - 1))
      BY <2>1, SeqSteps
    <2> QED
      BY <1>5, <2>1, <2>2 DEF Register
  <1>6. CASE Welcome \/ Receive
    <2>1. in' \in Seq(Record)
      BY <1>6, SeqSteps DEF Welcome, Receive
    <2> QED
      BY <1>6, <2>1 DEF Welcome, Receive
  <1>7. CASE PeerRead
    <2>1. Head(out) \in 0..(nextId - 1) /\ out' \in Seq(0..(nextId - 1))
      BY <1>7, SeqSteps DEF PeerRead
    <2>2. {Head(out)} \ {0} \subseteq 1..(nextId - 1)
      BY <2>1 DEF CallOK
    <2> QED
      BY <1>7, <2>1, <2>2 DEF PeerRead
  <1>8. ASSUME NEW type \in PeerKind, NEW i \in seen \cup {0}, PeerSend(type, i) PROVE WireOK'
    <2>1. [type |-> type, id |-> i, n |-> nSent + 1] \in Record
      BY PeerAssumption DEF Record, CallOK
    <2>2. in' \in Seq(Record)
      BY <1>8, <2>1, SeqSteps DEF PeerSend
    <2>3. nSent' \in 0..MaxWire
      BY <1>8, BoundAssumption DEF PeerSend
    <2> QED
      BY <1>8, <2>2, <2>3 DEF PeerSend
  <1>9. CASE PeerClose
    BY <1>9, EmptySeq DEF PeerClose
  <1>10. ASSUME NEW c, \/ CallBegin(c) \/ Expire(c) \/ RegisterCheck(c) \/ TakeReply(c)
                       \/ Finish(c)
         PROVE  WireOK'
    BY <1>10 DEF CallBegin, Expire, RegisterCheck, TakeReply, Finish
  <1>11. ASSUME NEW t, Clear(t) \/ FailTaken(t) \/ Close(t) \/ SetClosed(t) \/ Shutdown(t)
                       \/ CloseSock(t)
         PROVE  WireOK'
    BY <1>11 DEF Clear, FailTaken, Close, SetClosed, Shutdown, CloseSock
  <1>12. CASE NoHandshake \/ Start \/ PumpLoop \/ ReceiveTimeout \/ ReceiveEof \/ ReceiveError
    BY <1>12 DEF NoHandshake, Start, PumpLoop, ReceiveTimeout, ReceiveEof, ReceiveError
  <1>13. CASE ReceiveRaises \/ Route \/ Put \/ Handle \/ Callback \/ CallbackEof
    BY <1>13 DEF ReceiveRaises, Route, Put, Handle, Callback, CallbackEof
  <1>14. CASE UNCHANGED vars
    BY <1>14 DEF vars
  <1>15. CASE Peer
    BY <1>15, <1>7, <1>8, <1>9 DEF Peer, PeerSend
  <1> QED
    BY <1>3, <1>4, <1>5, <1>6, <1>10, <1>11, <1>12, <1>13, <1>14, <1>15
    DEF Next, MainStep, CallerStep, PumpStep, CloserStep, Choice
-----------------------------------------------------------------------------
(* Calls: the lock, the ids and the waiters *)

LEMMA LockStep ==
  ASSUME IInv, [Next]_vars PROVE LockHeld'
  <1> USE IInv, ThreadAssumption DEF IInv, TypeOK, PcOK, CallOK, LockHeld, Thread, Calling
  <1>1. ASSUME NEW c \in Calling, RegisterCheck(c) PROVE LockHeld'
    BY <1>1 DEF RegisterCheck, HoldLock, Rejected, After
  <1>2. ASSUME NEW c \in Calling, Register(c) PROVE LockHeld'
    BY <1>2 DEF Register
  <1>3. ASSUME NEW c \in Calling, CallBegin(c) \/ Send(c) PROVE LockHeld'
    BY <1>3 DEF CallBegin, Before, Send, Sends
  <1>4. ASSUME NEW c \in Calling, TakeReply(c) \/ Expire(c) \/ Finish(c) PROVE LockHeld'
    BY <1>4 DEF TakeReply, Expire, Finish, After
  <1>5. CASE PumpLoop \/ ReceiveTimeout \/ Receive \/ ReceiveEof \/ ReceiveError \/ ReceiveRaises
    BY <1>5 DEF PumpLoop, ReceiveTimeout, Receive, ReceiveEof, ReceiveError, ReceiveRaises
  <1>6. CASE Route \/ Put \/ Handle \/ SendReply \/ SendErrorReply
    BY <1>6 DEF Route, Put, Handle, HandlerFailed, SendReply, SendErrorReply, Sends, Replied
  <1>7. CASE Callback \/ CallbackEof \/ Clear(Pump) \/ FailTaken(Pump)
    BY <1>7 DEF Callback, CallbackEof, Clear, FailTaken, AfterFail, AfterError
  <1>8. ASSUME NEW k \in Closer, CloserStep(k) \/ Close(k) PROVE LockHeld'
    BY <1>8 DEF CloserStep, Close, SetClosed, Clear, FailTaken, AfterFail, Shutdown, CloseSock
  <1>9. CASE Hello \/ NoHandshake \/ Welcome \/ Ready \/ Start
    BY <1>9 DEF Hello, NoHandshake, Welcome, Ready, Start, Sends, PumpStarted
  <1>10. CASE Peer \/ UNCHANGED vars
    BY <1>10 DEF Peer, PeerRead, PeerSend, PeerClose, vars
  <1> QED
    BY <1>1, <1>2, <1>3, <1>4, <1>5, <1>6, <1>7, <1>8, <1>9, <1>10
    DEF Next, MainStep, CallerStep, PumpStep, Choice

LEMMA IdsStep ==
  ASSUME IInv, [Next]_vars PROVE IdsOwned'
  <1> USE IInv, ThreadAssumption DEF IInv, TypeOK, PcOK, CallOK, IdsOwned, Thread, Calling
  <1>1. ASSUME NEW c \in Calling, Register(c) PROVE IdsOwned'
    BY <1>1 DEF Register, NewId
  <1>2. ASSUME NEW c \in Calling, Finish(c) PROVE IdsOwned'
    BY <1>2 DEF Finish, After
  <1>3. ASSUME NEW c \in Calling, RegisterCheck(c) \/ CallBegin(c) PROVE IdsOwned'
    BY <1>3 DEF RegisterCheck, After, CallBegin, Before
  <1>4. ASSUME NEW c \in Calling, Send(c) \/ TakeReply(c) \/ Expire(c) PROVE IdsOwned'
    BY <1>4 DEF Send, Sends, TakeReply, Expire
  <1>5. CASE PumpLoop \/ ReceiveTimeout \/ Receive \/ ReceiveEof \/ ReceiveError \/ ReceiveRaises
    BY <1>5 DEF PumpLoop, ReceiveTimeout, Receive, ReceiveEof, ReceiveError, ReceiveRaises
  <1>6. CASE Route \/ Put \/ Handle \/ SendReply \/ SendErrorReply
    BY <1>6 DEF Route, Put, Handle, HandlerFailed, SendReply, SendErrorReply, Sends, Replied
  <1>7. CASE Callback \/ CallbackEof \/ Clear(Pump) \/ FailTaken(Pump)
    BY <1>7 DEF Callback, CallbackEof, Clear, FailTaken, AfterFail, AfterError
  <1>8. ASSUME NEW k \in Closer, CloserStep(k) \/ Close(k) PROVE IdsOwned'
    BY <1>8 DEF CloserStep, Close, SetClosed, Clear, FailTaken, AfterFail, Shutdown, CloseSock
  <1>9. CASE Hello \/ NoHandshake \/ Welcome \/ Ready \/ Start
    BY <1>9 DEF Hello, NoHandshake, Welcome, Ready, Start, Sends, PumpStarted
  <1>10. CASE Peer \/ UNCHANGED vars
    BY <1>10 DEF Peer, PeerRead, PeerSend, PeerClose, vars
  <1> QED
    BY <1>1, <1>2, <1>3, <1>4, <1>5, <1>6, <1>7, <1>8, <1>9, <1>10
    DEF Next, MainStep, CallerStep, PumpStep, Choice

LEMMA ServedStep ==
  ASSUME IInv, [Next]_vars PROVE Served'
  <1> USE IInv, ThreadAssumption
      DEF IInv, TypeOK, PcOK, CallOK, Served, Thread, Calling, IdsOwned
  <1>1. ASSUME NEW c \in Calling, Register(c) PROVE Served'
    BY <1>1 DEF Register, NewId
  <1>2. ASSUME NEW c \in Calling, Finish(c) PROVE Served'
    BY <1>2 DEF Finish, After, Unregistered
  <1>3. ASSUME NEW c \in Calling, RegisterCheck(c) \/ CallBegin(c) PROVE Served'
    BY <1>3 DEF RegisterCheck, After, CallBegin, Before
  <1>4. ASSUME NEW c \in Calling, Send(c) \/ Expire(c) PROVE Served'
    BY <1>4 DEF Send, Sends, Expire
  <1>5. ASSUME NEW c \in Calling, TakeReply(c) PROVE Served'
    BY <1>5 DEF TakeReply
  <1>6. CASE PumpLoop \/ ReceiveTimeout \/ Receive \/ ReceiveEof \/ ReceiveError \/ ReceiveRaises
    BY <1>6 DEF PumpLoop, ReceiveTimeout, Receive, ReceiveEof, ReceiveError, ReceiveRaises
  <1>7. CASE Route \/ Handle \/ SendReply \/ SendErrorReply \/ Callback \/ CallbackEof
    BY <1>7 DEF Route, Handle, HandlerFailed, SendReply, SendErrorReply, Sends, Replied,
                Callback, CallbackEof
  <1>8. CASE Put
    <2>1. Reply(hand.id) # Nothing
      BY OutcomeTypes DEF PumpOK, Record
    <2> QED
      BY <1>8, <2>1 DEF Put
  <1>9. ASSUME NEW t \in Closer \cup {Pump}, Clear(t) PROVE Served'
    <2>1. taken[t] = {}
      BY <1>9 DEF Clear, ClosingOrder
    <2> QED
      BY <1>9, <2>1 DEF Clear, AllPending
  <1>10. ASSUME NEW t \in Closer \cup {Pump}, FailTaken(t) PROVE Served'
    <2>1. Fail(Why(t)) # Nothing
      BY OutcomeTypes DEF Why, PumpOK, Reason
    <2>2. \A i \in 1..(nextId - 1) : i \in taken[t] \/ slot[i] # Nothing => slot'[i] # Nothing
      BY <1>10, <2>1 DEF FailTaken
    <2>3. ASSUME NEW c \in Calling, pc'[c] \in {"send", "wait"}
          PROVE  pc[c] \in {"send", "wait"} /\ req'[c] = req[c] /\ req[c] \in 1..(nextId - 1)
      BY <1>10, <2>3 DEF FailTaken, AfterFail, AfterError
    <2> QED
      BY <1>10, <2>2, <2>3 DEF FailTaken
  <1>11. ASSUME NEW k \in Closer, Close(k) \/ SetClosed(k) \/ Shutdown(k) \/ CloseSock(k)
         PROVE  Served'
    BY <1>11 DEF Close, SetClosed, Shutdown, CloseSock
  <1>12. CASE Hello \/ NoHandshake \/ Welcome \/ Ready \/ Start
    BY <1>12 DEF Hello, NoHandshake, Welcome, Ready, Start, Sends, PumpStarted
  <1>13. CASE Peer \/ UNCHANGED vars
    BY <1>13 DEF Peer, PeerRead, PeerSend, PeerClose, vars
  <1> QED
    BY <1>1, <1>2, <1>3, <1>4, <1>5, <1>6, <1>7, <1>8, <1>9, <1>10, <1>11, <1>12, <1>13
    DEF Next, MainStep, CallerStep, PumpStep, CloserStep, Choice

\* A step of a thread that calls, of the pump or of Main cannot disturb the order.
LEMMA ClosingKept ==
  ASSUME ClosingOrder, UNCHANGED <<closed, taken>>, pending' \subseteq pending,
         \A k \in Closer : pc'[k] = pc[k], pc[Pump] = "fail" => pc'[Pump] = "fail",
         \A c \in Calling : pc'[c] = "register" => pc[c] = "register" \/ ~closed
  PROVE  ClosingOrder'
  BY DEF ClosingOrder

LEMMA ClosingStep ==
  ASSUME IInv, [Next]_vars PROVE ClosingOrder'
  <1> USE IInv, ThreadAssumption DEF IInv, TypeOK, PcOK, CallOK, LockHeld, Thread, Calling
  <1> DEFINE Kept == /\ UNCHANGED <<closed, taken>> /\ pending' \subseteq pending
                     /\ \A k \in Closer : pc'[k] = pc[k]
                     /\ pc[Pump] = "fail" => pc'[Pump] = "fail"
                     /\ \A c \in Calling : pc'[c] = "register" => pc[c] = "register" \/ ~closed
  <1>0. Kept => ClosingOrder'
    BY ClosingKept
  <1>1. ASSUME NEW c \in Calling, Register(c) PROVE ClosingOrder'
    BY <1>1 DEF Register, NewId, ClosingOrder
  <1>2. ASSUME NEW c \in Calling, RegisterCheck(c) \/ CallBegin(c) PROVE Kept
    BY <1>2 DEF RegisterCheck, After, CallBegin, Before
  <1>3. ASSUME NEW c \in Calling, Send(c) \/ TakeReply(c) \/ Expire(c) \/ Finish(c) PROVE Kept
    BY <1>3 DEF Send, Sends, TakeReply, Expire, Finish, After, Unregistered
  <1>4. CASE PumpLoop \/ ReceiveTimeout \/ Receive \/ ReceiveEof \/ ReceiveError \/ ReceiveRaises
    <2>1. Kept
      BY <1>4 DEF PumpLoop, ReceiveTimeout, Receive, ReceiveEof, ReceiveError, ReceiveRaises
    <2> QED
      BY <1>0, <2>1
  <1>5. CASE Route \/ Put \/ Handle \/ SendReply \/ SendErrorReply \/ Callback \/ CallbackEof
    <2>1. Kept
      BY <1>5 DEF Route, Put, Handle, HandlerFailed, SendReply, SendErrorReply, Sends, Replied,
                  Callback, CallbackEof
    <2> QED
      BY <1>0, <2>1
  <1>6. ASSUME NEW t \in Closer \cup {Pump}, Clear(t) PROVE ClosingOrder'
    BY <1>6 DEF Clear, AllPending, ClosingOrder
  <1>7. ASSUME NEW t \in Closer \cup {Pump}, FailTaken(t) PROVE ClosingOrder'
    BY <1>7 DEF FailTaken, AfterFail, AfterError, ClosingOrder
  <1>8. ASSUME NEW k \in Closer, Close(k) PROVE ClosingOrder'
    BY <1>8 DEF Close, ClosingOrder
  <1>9. ASSUME NEW k \in Closer, SetClosed(k) PROVE ClosingOrder'
    BY <1>9 DEF SetClosed, ClosingOrder
  <1>10. ASSUME NEW k \in Closer, Shutdown(k) \/ CloseSock(k) PROVE ClosingOrder'
    BY <1>10 DEF Shutdown, CloseSock, ClosingOrder
  <1>11. CASE Hello \/ NoHandshake \/ Welcome \/ Ready \/ Start
    <2>1. Kept
      BY <1>11 DEF Hello, NoHandshake, Welcome, Ready, Start, Sends, PumpStarted
    <2> QED
      BY <1>0, <2>1
  <1>12. CASE Peer \/ UNCHANGED vars
    <2>1. Kept
      BY <1>12 DEF Peer, PeerRead, PeerSend, PeerClose, vars
    <2> QED
      BY <1>0, <2>1
  <1> QED
    BY <1>0, <1>1, <1>2, <1>3, <1>4, <1>5, <1>6, <1>7, <1>8, <1>9, <1>10, <1>11, <1>12
    DEF Next, MainStep, CallerStep, PumpStep, CloserStep, Choice

\* Once the pump has ended it has ended, for the same reason, and it ends by emptying the table.
LEMMA EndStays ==
  ASSUME IInv, [Next]_vars
  PROVE  \/ EndedBy = "none" /\ EndedBy' = "none"
         \/ EndedBy = cause /\ EndedBy' = cause /\ cause' = cause
         \/ Clear(Pump) /\ EndedBy = "none" /\ EndedBy' = cause /\ cause' = cause
  <1> DEFINE Same == \/ EndedBy = "none" /\ EndedBy' = "none"
                     \/ EndedBy = cause /\ EndedBy' = cause /\ cause' = cause
  <1> USE IInv, ThreadAssumption DEF IInv, TypeOK, PcOK, PumpOK, Ending, EndedBy, Thread, Calling
  <1>1. ASSUME NEW c \in Calling, CallerStep(c) \/ CallBegin(c) \/ Expire(c) PROVE Same
    BY <1>1 DEF CallerStep, CallBegin, Before, Expire, RegisterCheck, Register, Send, Sends,
                TakeReply, Finish, After
  <1>2. CASE PumpLoop \/ ReceiveTimeout \/ Receive \/ ReceiveEof \/ ReceiveError \/ ReceiveRaises
    <2>1. Same
      BY <1>2 DEF PumpLoop, ReceiveTimeout, Receive, ReceiveEof, ReceiveError, ReceiveRaises
    <2> QED
      BY <2>1
  <1>3. CASE Route \/ Put \/ Handle \/ SendReply \/ SendErrorReply \/ Callback
    <2>1. Same
      BY <1>3 DEF Route, Put, Handle, HandlerFailed, SendReply, SendErrorReply, Sends, Replied,
                  Callback
    <2> QED
      BY <2>1
  <1>4. CASE Clear(Pump)
    BY <1>4 DEF Clear
  <1>5. CASE FailTaken(Pump) \/ CallbackEof
    <2>1. Same
      BY <1>5 DEF FailTaken, AfterFail, AfterError, CallbackEof
    <2> QED
      BY <2>1
  <1>6. ASSUME NEW k \in Closer, CloserStep(k) \/ Close(k) PROVE Same
    BY <1>6 DEF CloserStep, Close, SetClosed, Clear, FailTaken, AfterFail, Shutdown, CloseSock
  <1>7. CASE Hello \/ NoHandshake \/ Welcome \/ Ready \/ Start
    <2>1. Same
      BY <1>7 DEF Hello, NoHandshake, Welcome, Ready, Start, Sends, PumpStarted
    <2> QED
      BY <2>1
  <1>8. CASE Peer \/ UNCHANGED vars
    <2>1. Same
      BY <1>8 DEF Peer, PeerRead, PeerSend, PeerClose, vars
    <2> QED
      BY <2>1
  <1> QED
    BY <1>1, <1>2, <1>3, <1>4, <1>5, <1>6, <1>7, <1>8 DEF Next, MainStep, PumpStep, Choice

\* Whom a thread takes is no longer registered, and whoever registers has a new id.
LEMMA ApartStep ==
  ASSUME IInv, [Next]_vars PROVE TakenApart'
  <1> USE IInv, ThreadAssumption DEF IInv, TypeOK, CallOK, TakenApart, Calling
  <1> DEFINE Kept == UNCHANGED taken /\ pending' \subseteq pending
  <1>0. Kept => TakenApart'
    OBVIOUS
  <1>1. ASSUME NEW c \in Calling, Register(c) PROVE TakenApart'
    BY <1>1 DEF Register, NewId
  <1>2. ASSUME NEW c \in Calling, \/ RegisterCheck(c) \/ CallBegin(c) \/ Send(c) \/ TakeReply(c)
                                  \/ Expire(c) \/ Finish(c)
        PROVE  Kept
    BY <1>2 DEF RegisterCheck, CallBegin, Send, Sends, TakeReply, Expire, Finish, Unregistered
  <1>3. CASE PumpStep /\ ~Clear(Pump) /\ ~FailTaken(Pump)
    <2>1. Kept
      BY <1>3 DEF PumpStep, PumpLoop, ReceiveTimeout, Receive, ReceiveEof, ReceiveError,
                  ReceiveRaises, Route, Put, Handle, SendReply, SendErrorReply, Callback, CallbackEof
    <2> QED
      BY <1>0, <2>1
  <1>4. ASSUME NEW t \in Closer \cup {Pump}, Clear(t) PROVE TakenApart'
    <2>1. pending' = {} /\ taken' = [taken EXCEPT ![t] = pending]
      BY <1>4 DEF Clear, AllPending
    <2> QED
      BY <2>1
  <1>5. ASSUME NEW t \in Closer \cup {Pump}, FailTaken(t) PROVE TakenApart'
    <2>1. pending' = pending /\ taken' = [taken EXCEPT ![t] = {}]
      BY <1>5 DEF FailTaken
    <2> QED
      BY <2>1
  <1>6. ASSUME NEW k \in Closer, Close(k) \/ SetClosed(k) \/ Shutdown(k) \/ CloseSock(k)
        PROVE  Kept
    BY <1>6 DEF Close, SetClosed, Shutdown, CloseSock
  <1>7. CASE Hello \/ NoHandshake \/ MainStep \/ Peer \/ UNCHANGED vars
    <2>1. Kept
      BY <1>7 DEF Hello, NoHandshake, MainStep, Welcome, Ready, Start, Peer, PeerRead, PeerSend,
                  PeerClose, vars
    <2> QED
      BY <1>0, <2>1
  <1> QED
    BY <1>0, <1>1, <1>2, <1>3, <1>4, <1>5, <1>6, <1>7
    DEF Next, CallerStep, PumpStep, CloserStep, Choice

LEMMA ItemsStep ==
  ASSUME IInv, [Next]_vars PROVE ItemsTrue'
  <1> DEFINE Kept == UNCHANGED slot /\ answered \subseteq answered' /\ (closed => closed')
  <1> USE IInv, ThreadAssumption DEF IInv, TypeOK, CallOK, ItemsTrue, Calling
  <1>0. EndedBy = cause => EndedBy' = cause' /\ cause' = cause
    BY EndStays DEF PumpOK
  <1>1. Kept => ItemsTrue'
    BY <1>0
  <1>2. ASSUME NEW c \in Calling, Register(c) PROVE ItemsTrue'
    BY <1>0, <1>2 DEF Register
  <1>3. ASSUME NEW c \in Calling, TakeReply(c) PROVE ItemsTrue'
    BY <1>0, <1>3 DEF TakeReply
  <1>4. ASSUME NEW c \in Calling, \/ RegisterCheck(c) \/ CallBegin(c) \/ Send(c) \/ Expire(c)
                                  \/ Finish(c)
        PROVE  Kept
    BY <1>4 DEF RegisterCheck, CallBegin, Send, Expire, Finish
  <1>5. CASE Put
    <2>1. hand.id \in answered
      BY <1>5 DEF Put, RepliesTrue
    <2> QED
      BY <1>0, <1>5, <2>1 DEF Put, Waiter
  <1>6. CASE FailTaken(Pump)
    <2>1. EndedBy = cause
      BY <1>6 DEF FailTaken, EndedBy
    <2> QED
      BY <1>0, <1>6, <2>1 DEF FailTaken, Why
  <1>7. ASSUME NEW k \in Closer, FailTaken(k) PROVE ItemsTrue'
    <2>1. closed /\ Why(k) = "close"
      BY <1>7 DEF FailTaken, Why, ClosingOrder
    <2> QED
      BY <1>0, <1>7, <2>1 DEF FailTaken
  <1>8. CASE PumpStep /\ ~Put /\ ~FailTaken(Pump)
    <2>1. Kept
      BY <1>8 DEF PumpStep, PumpLoop, ReceiveTimeout, Receive, ReceiveEof, ReceiveError,
                  ReceiveRaises, Route, Handle, SendReply, SendErrorReply, Callback, CallbackEof,
                  Clear
    <2> QED
      BY <1>1, <2>1
  <1>9. ASSUME NEW k \in Closer, Clear(k) \/ Close(k) \/ SetClosed(k) \/ Shutdown(k) \/ CloseSock(k)
        PROVE  Kept
    BY <1>9 DEF Clear, Close, SetClosed, Shutdown, CloseSock
  <1>10. CASE Hello \/ NoHandshake \/ MainStep \/ Peer \/ UNCHANGED vars
    <2>1. Kept
      BY <1>10 DEF Hello, NoHandshake, MainStep, Welcome, Ready, Start, Peer, PeerRead, PeerSend,
                   PeerClose, vars
    <2> QED
      BY <1>1, <2>1
  <1> QED
    BY <1>1, <1>2, <1>3, <1>4, <1>5, <1>6, <1>7, <1>8, <1>9, <1>10
    DEF Next, CallerStep, PumpStep, CloserStep, Choice
-----------------------------------------------------------------------------
(* The pump: what it reads, answers and tells *)

LEMMA SeqIndex ==
  ASSUME NEW S, NEW s \in Seq(S)
  PROVE  /\ Len(s) \in Nat
         /\ s # <<>> => /\ Len(s) > 0 /\ Head(s) = s[1] /\ Len(Tail(s)) = Len(s) - 1
                        /\ \A j \in 1..(Len(s) - 1) : Tail(s)[j] = s[j + 1]
         /\ \A x : /\ Append(s, x) # s /\ Len(Append(s, x)) = Len(s) + 1
                   /\ Append(s, x)[Len(s) + 1] = x
                   /\ \A j \in 1..Len(s) : Append(s, x)[j] = s[j]
  OBVIOUS

LEMMA StartedStep ==
  ASSUME IInv, [Next]_vars PROVE PumpStarted'
  <1> USE IInv, ThreadAssumption DEF IInv, TypeOK, PcOK, PumpStarted, Thread, Calling
  <1>1. ASSUME NEW c \in Calling, CallerStep(c) \/ CallBegin(c) \/ Expire(c) PROVE PumpStarted'
    BY <1>1 DEF CallerStep, CallBegin, Before, Expire, RegisterCheck, Register, Send, Sends,
                TakeReply, Finish, After
  <1>2. CASE PumpLoop \/ ReceiveTimeout \/ Receive \/ ReceiveEof \/ ReceiveError \/ ReceiveRaises
    BY <1>2 DEF PumpLoop, ReceiveTimeout, Receive, ReceiveEof, ReceiveError, ReceiveRaises
  <1>3. CASE Route \/ Put \/ Handle \/ SendReply \/ SendErrorReply
    BY <1>3 DEF Route, Put, Handle, HandlerFailed, SendReply, SendErrorReply, Sends, Replied
  <1>4. CASE Callback \/ CallbackEof \/ Clear(Pump) \/ FailTaken(Pump)
    BY <1>4 DEF Callback, CallbackEof, Clear, FailTaken, AfterFail, AfterError
  <1>5. ASSUME NEW k \in Closer, CloserStep(k) \/ Close(k) PROVE PumpStarted'
    BY <1>5 DEF CloserStep, Close, SetClosed, Clear, FailTaken, AfterFail, Shutdown, CloseSock
  <1>6. CASE Hello \/ NoHandshake \/ Welcome \/ Ready \/ Start
    BY <1>6 DEF Hello, NoHandshake, Welcome, Ready, Start, Sends
  <1>7. CASE Peer \/ UNCHANGED vars
    <2>1. UNCHANGED <<pc, pumpThread>>
      BY <1>7 DEF Peer, PeerRead, PeerSend, PeerClose, vars
    <2> QED
      BY <2>1
  <1> QED
    BY <1>1, <1>2, <1>3, <1>4, <1>5, <1>6, <1>7 DEF Next, MainStep, PumpStep, Choice

\* A step that neither takes a record nor adds one, nor moves the pump to "put".
LEMMA RepliesKept ==
  ASSUME RepliesTrue, UNCHANGED <<hand, in>>, answered \subseteq answered',
         pc'[Pump] = "put" => pc[Pump] = "put" \/ hand.type = "return"
  PROVE  RepliesTrue'
  BY DEF RepliesTrue

LEMMA RepliesStep ==
  ASSUME IInv, [Next]_vars PROVE RepliesTrue'
  <1> USE IInv, ThreadAssumption DEF IInv, TypeOK, PcOK, WireOK, Thread, Calling
  <1> DEFINE Kept == /\ UNCHANGED <<hand, in>> /\ answered \subseteq answered'
                     /\ pc'[Pump] = "put" => pc[Pump] = "put" \/ hand.type = "return"
  <1>0. Kept => RepliesTrue'
    BY RepliesKept
  <1>1. CASE Receive
    BY <1>1, SeqIndex DEF Receive, RepliesTrue
  <1>2. CASE ReceiveEof
    BY <1>2 DEF ReceiveEof, RepliesTrue, Eof
  <1>3. CASE Welcome
    <2>1. UNCHANGED <<hand, answered>> /\ pc'[Pump] = pc[Pump]
      BY <1>3 DEF Welcome
    <2>2. /\ Len(in) \in Nat /\ Len(in') \in Nat /\ Len(in') <= Len(in)
          /\ \A j \in 1..Len(in') : in'[j] = in[j] \/ (in'[j] = in[j + 1] /\ j + 1 \in 1..Len(in))
      BY <1>3, SeqIndex DEF Welcome
    <2> QED
      BY <2>1, <2>2 DEF RepliesTrue
  <1>4. ASSUME NEW type \in PeerKind, NEW i \in seen \cup {0}, PeerSend(type, i),
               type = "return" => i \in seen
        PROVE  RepliesTrue'
    <2>1. type = "return" => i \in answered'
      BY <1>4 DEF PeerSend, CallOK
    <2>2. answered \subseteq answered' /\ UNCHANGED <<pc, hand>>
      BY <1>4 DEF PeerSend
    <2>3. Len(in') = Len(in) + 1 /\ in'[Len(in) + 1].type = type /\ in'[Len(in) + 1].id = i
          /\ (\A j \in 1..Len(in) : in'[j] = in[j]) /\ Len(in) \in Nat
      BY <1>4, SeqIndex DEF PeerSend
    <2>4. ASSUME NEW j \in 1..Len(in'), in'[j].type = "return" PROVE in'[j].id \in answered'
      <3>1. CASE j = Len(in) + 1
        BY <2>1, <2>3, <2>4, <3>1
      <3>2. CASE j # Len(in) + 1
        <4>1. j \in 1..Len(in) /\ in'[j] = in[j]
          BY <2>3, <3>2
        <4> QED
          BY <2>2, <2>4, <4>1 DEF RepliesTrue
      <3> QED
        BY <3>1, <3>2
    <2>5. hand'.type = "return" => hand'.id \in answered'
      BY <2>2 DEF RepliesTrue
    <2>6. pc'[Pump] = "put" => hand'.type = "return"
      BY <2>2 DEF RepliesTrue
    <2> QED
      BY <2>4, <2>5, <2>6 DEF RepliesTrue
  <1>5. ASSUME NEW c \in Calling, CallerStep(c) \/ CallBegin(c) \/ Expire(c) PROVE Kept
    BY <1>5 DEF CallerStep, CallBegin, Before, Expire, RegisterCheck, Register, Send, Sends,
                TakeReply, Finish, After
  <1>6. CASE PumpLoop \/ ReceiveTimeout \/ ReceiveError \/ ReceiveRaises \/ Route \/ Put \/ Handle
    <2>1. Kept
      BY <1>6 DEF PumpLoop, ReceiveTimeout, ReceiveError, ReceiveRaises, Route, Put, Handle,
                  HandlerFailed
    <2> QED
      BY <1>0, <2>1
  <1>7. CASE \/ SendReply \/ SendErrorReply \/ Callback \/ CallbackEof \/ Clear(Pump)
             \/ FailTaken(Pump)
    <2>1. Kept
      BY <1>7 DEF SendReply, SendErrorReply, Sends, Replied, Callback, CallbackEof, Clear,
                  FailTaken, AfterFail, AfterError
    <2> QED
      BY <1>0, <2>1
  <1>8. ASSUME NEW k \in Closer, CloserStep(k) \/ Close(k) PROVE Kept
    BY <1>8 DEF CloserStep, Close, SetClosed, Clear, FailTaken, AfterFail, Shutdown, CloseSock
  <1>9. CASE Hello \/ NoHandshake \/ Ready \/ Start
    <2>1. Kept
      BY <1>9 DEF Hello, NoHandshake, Ready, Start, Sends
    <2> QED
      BY <1>0, <2>1
  <1>10. CASE PeerRead \/ PeerClose \/ UNCHANGED vars
    <2>1. Kept
      BY <1>10 DEF PeerRead, PeerClose, vars
    <2> QED
      BY <1>0, <2>1
  <1>11. CASE Peer
    BY <1>11, <1>4, <1>10 DEF Peer, PeerSend
  <1> QED
    BY <1>0, <1>1, <1>2, <1>3, <1>5, <1>6, <1>7, <1>8, <1>9, <1>10, <1>11
    DEF Next, MainStep, PumpStep, Choice

\* Only these steps change what is buffered or what the pump holds.
LEMMA Reading ==
  ASSUME [Next]_vars, ~Receive, ~ReceiveEof, ~Welcome,
         \A type \in PeerKind, i \in seen \cup {0} : ~PeerSend(type, i)
  PROVE  UNCHANGED <<hand, in, nSent>>
  <1>1. ASSUME NEW c, CallerStep(c) \/ CallBegin(c) \/ Expire(c) PROVE UNCHANGED <<hand, in, nSent>>
    BY <1>1 DEF CallerStep, CallBegin, Expire, RegisterCheck, Register, Send, TakeReply, Finish
  <1>2. CASE PumpStep
    BY <1>2 DEF PumpStep, PumpLoop, ReceiveTimeout, ReceiveError, ReceiveRaises, Route, Put,
                Handle, SendReply, SendErrorReply, Callback, CallbackEof, Clear, FailTaken
  <1>3. ASSUME NEW k, CloserStep(k) \/ Close(k) PROVE UNCHANGED <<hand, in, nSent>>
    BY <1>3 DEF CloserStep, Close, SetClosed, Clear, FailTaken, Shutdown, CloseSock
  <1>4. CASE Hello \/ NoHandshake \/ MainStep
    BY <1>4 DEF Hello, NoHandshake, MainStep, Ready, Start
  <1>5. CASE Peer
    BY <1>5 DEF Peer, PeerRead, PeerClose, PeerSend
  <1> QED
    BY <1>1, <1>2, <1>3, <1>4, <1>5 DEF Next, Choice, vars

LEMMA NumberedStep ==
  ASSUME IInv, [Next]_vars PROVE Numbered'
  <1> USE IInv DEF IInv, TypeOK, WireOK, PumpOK
  <1>0. /\ hand.n \in Nat /\ nSent \in Nat /\ Len(in) \in Nat /\ in \in Seq(Record)
        /\ \A j \in 1..Len(in) : in[j].n \in Nat
    <2>1. \A j \in 1..Len(in) : in[j] \in Record
      OBVIOUS
    <2> QED
      BY <2>1, BoundAssumption, SeqIndex DEF Record
  <1>n. /\ Len(in) <= nSent /\ hand.n + Len(in) <= nSent
        /\ \A j \in 1..Len(in) : in[j].n + Len(in) = nSent + j
    BY DEF Numbered
  <1> HIDE DEF IInv, TypeOK, WireOK, PumpOK
  <1>1. CASE Receive \/ (Welcome /\ in # <<>> /\ in' = Tail(in))
    <2>1. /\ UNCHANGED nSent /\ in # <<>> /\ in' = Tail(in) /\ hand' \in {hand, in[1]}
      BY <1>0, <1>1, SeqIndex DEF Receive, Welcome
    <2>2. /\ Len(in') = Len(in) - 1 /\ Len(in) > 0
          /\ \A j \in 1..(Len(in) - 1) : in'[j] = in[j + 1]
      BY <1>0, <2>1, SeqIndex
    <2>3. hand'.n + Len(in') <= nSent
      BY <1>0, <1>n, <2>1, <2>2
    <2>4. ASSUME NEW j \in 1..Len(in') PROVE in'[j].n + Len(in') = nSent + j
      <3>1. j + 1 \in 1..Len(in) /\ j \in 1..(Len(in) - 1)
        BY <1>0, <2>2
      <3>2. /\ in'[j].n = in[j + 1].n /\ in[j + 1].n \in Nat
            /\ in[j + 1].n + Len(in) = nSent + (j + 1)
        BY <1>0, <1>n, <2>2, <3>1
      <3>3. Len(in') = Len(in) - 1 /\ Len(in) \in Nat /\ nSent \in Nat /\ j \in Nat
        BY <1>0, <2>2
      <3> QED
        BY <3>2, <3>3
    <2> QED
      BY <1>0, <1>n, <2>1, <2>2, <2>3, <2>4 DEF Numbered
  <1>2. CASE ReceiveEof
    BY <1>2, <1>0, <1>n DEF ReceiveEof, Numbered, Eof
  <1>3. CASE UNCHANGED <<hand, in, nSent>>
    BY <1>3, <1>n DEF Numbered
  <1>4. ASSUME NEW type, NEW i, PeerSend(type, i) PROVE Numbered'
    <2>1. /\ Len(in') = Len(in) + 1 /\ in'[Len(in) + 1].n = nSent + 1
          /\ (\A j \in 1..Len(in) : in'[j] = in[j]) /\ nSent' = nSent + 1 /\ UNCHANGED hand
      BY <1>0, <1>4, SeqIndex DEF PeerSend
    <2>2. ASSUME NEW j \in 1..Len(in') PROVE in'[j].n + Len(in') = nSent' + j
      <3>1. CASE j \in 1..Len(in)
        <4>1. in'[j].n = in[j].n /\ in[j].n \in Nat /\ in[j].n + Len(in) = nSent + j
          BY <1>0, <1>n, <2>1, <3>1
        <4>2. j \in Nat /\ Len(in') = Len(in) + 1 /\ nSent' = nSent + 1 /\ Len(in) \in Nat /\ nSent \in Nat
          BY <1>0, <2>1, <3>1
        <4> QED
          BY <4>1, <4>2
      <3>2. CASE j = Len(in) + 1
        BY <1>0, <2>1, <3>2
      <3> QED
        BY <1>0, <2>1, <3>1, <3>2
    <2>3. Len(in') <= nSent' /\ hand'.n + Len(in') <= nSent'
      BY <1>0, <1>n, <2>1
    <2> QED
      BY <2>2, <2>3 DEF Numbered
  <1> QED
    BY <1>1, <1>2, <1>3, <1>4, Reading DEF Welcome

LEMMA UnansweredStep ==
  ASSUME IInv, [Next]_vars PROVE Unanswered' /\ OneAnswer'
  <1> USE IInv, ThreadAssumption
      DEF IInv, TypeOK, PcOK, PumpOK, WireOK, OneAnswer, Thread, Calling, Answering, CallerPc
  <1>0. /\ hand.n \in Nat /\ nSent \in Nat /\ Len(in) \in Nat /\ MaxWire \in Nat
        /\ hand.n + Len(in) <= nSent
    BY BoundAssumption DEF Record, Numbered
  <1> DEFINE Kept == /\ UNCHANGED <<hand, in, nSent, replied>>
                     /\ pc'[Pump] \in Answering => pc[Pump] \in Answering
  <1>a. Kept => Unanswered' /\ OneAnswer'
    BY DEF Unanswered
  <1>1. CASE SendReply \/ SendErrorReply
    <2>1. CASE out' = out
      <3>1. Kept
        BY <1>1, <2>1 DEF SendReply, SendErrorReply, Sends, ReplyCount
      <3> QED
        BY <3>1, <1>a
    <2>2. CASE out' # out
      <3>1. /\ pc'[Pump] = "loop" /\ pc[Pump] \in Answering
            /\ replied' = [replied EXCEPT ![hand.n] = @ + 1]
        BY <1>1, <2>2 DEF SendReply, SendErrorReply, Sends, ReplyCount, Replied
      <3>2. UNCHANGED <<hand, in, nSent>>
        BY <1>1 DEF SendReply, SendErrorReply
      <3>3. hand.n \in 1..MaxWire => replied[hand.n] = 0
        BY <3>1 DEF Unanswered
      <3> QED
        BY <1>0, <3>1, <3>2, <3>3 DEF Unanswered
    <2> QED
      BY <2>1, <2>2
  <1>2. CASE Receive
    <2>1. /\ Len(in') = Len(in) - 1 /\ hand' = in[1] /\ in[1].n + Len(in) = nSent + 1
          /\ UNCHANGED <<nSent, replied>>
      BY <1>2, <1>0, SeqIndex DEF Receive, Numbered
    <2>2. in[1].n + Len(in) > nSent
      BY <1>0, <2>1
    <2> QED
      BY <1>0, <2>1, <2>2 DEF Unanswered
  <1>3. CASE ReceiveEof
    BY <1>3, <1>0 DEF ReceiveEof, Unanswered, Eof
  <1>4. CASE Welcome
    <2>1. UNCHANGED <<nSent, replied, hand>> /\ Len(in') \in Nat /\ Len(in') <= Len(in)
      BY <1>4, <1>0, SeqIndex DEF Welcome
    <2>2. pc'[Pump] = pc[Pump]
      BY <1>4 DEF Welcome
    <2> QED
      BY <1>0, <2>1, <2>2 DEF Unanswered
  <1>5. ASSUME NEW type, NEW i, PeerSend(type, i) PROVE Unanswered' /\ OneAnswer'
    <2>1. Len(in') = Len(in) + 1 /\ nSent' = nSent + 1 /\ UNCHANGED <<hand, replied, pc>>
      BY <1>5, SeqIndex DEF PeerSend
    <2> QED
      BY <1>0, <2>1 DEF Unanswered
  <1>6. ASSUME NEW c \in Calling, CallerStep(c) \/ CallBegin(c) \/ Expire(c) PROVE Kept
    BY <1>6 DEF CallerStep, CallBegin, Before, Expire, RegisterCheck, Register, Send, Sends,
                TakeReply, Finish, After
  <1>7. CASE PumpLoop \/ ReceiveTimeout \/ ReceiveError \/ ReceiveRaises \/ Route \/ Put \/ Handle
    <2>1. Kept
      BY <1>7 DEF PumpLoop, ReceiveTimeout, ReceiveError, ReceiveRaises, Route, Put, Handle,
                  HandlerFailed
    <2> QED
      BY <1>a, <2>1
  <1>8. CASE Callback \/ CallbackEof \/ Clear(Pump) \/ FailTaken(Pump)
    <2>1. Kept
      BY <1>8 DEF Callback, CallbackEof, Clear, FailTaken, AfterFail, AfterError
    <2> QED
      BY <1>a, <2>1
  <1>9. ASSUME NEW k \in Closer, CloserStep(k) \/ Close(k) PROVE Kept
    BY <1>9 DEF CloserStep, Close, SetClosed, Clear, FailTaken, AfterFail, Shutdown, CloseSock
  <1>10. CASE Hello \/ NoHandshake \/ Ready \/ Start
    <2>1. Kept
      BY <1>10 DEF Hello, NoHandshake, Ready, Start, Sends
    <2> QED
      BY <1>a, <2>1
  <1>11. CASE PeerRead \/ PeerClose \/ UNCHANGED vars
    <2>1. Kept
      BY <1>11 DEF PeerRead, PeerClose, vars
    <2> QED
      BY <1>a, <2>1
  <1> QED
    BY <1>a, <1>1, <1>2, <1>3, <1>4, <1>5, <1>6, <1>7, <1>8, <1>9, <1>10, <1>11
    DEF Next, MainStep, PumpStep, Choice, Peer

LEMMA EndingStep ==
  ASSUME IInv, [Next]_vars PROVE Ending'
  <1> USE IInv, ThreadAssumption DEF IInv, TypeOK, PcOK, PumpOK, CallOK, Ending, Thread, Calling
  <1>1. ASSUME NEW c \in Calling, CallerStep(c) \/ CallBegin(c) \/ Expire(c) PROVE Ending'
    BY <1>1 DEF CallerStep, CallBegin, Before, Expire, RegisterCheck, Register, Send, Sends,
                TakeReply, Finish, After
  <1>2. CASE PumpLoop \/ ReceiveTimeout \/ Receive \/ ReceiveEof \/ ReceiveError \/ ReceiveRaises
    BY <1>2 DEF PumpLoop, ReceiveTimeout, Receive, ReceiveEof, ReceiveError, ReceiveRaises
  <1>3. CASE Route \/ Put \/ Handle \/ SendReply \/ SendErrorReply
    BY <1>3 DEF Route, Put, Handle, HandlerFailed, SendReply, SendErrorReply, Sends, Replied
  <1>4. CASE Callback
    BY <1>4 DEF Callback, Last
  <1>5. CASE CallbackEof \/ Clear(Pump) \/ FailTaken(Pump)
    BY <1>5 DEF CallbackEof, Clear, FailTaken, AfterFail, AfterError
  <1>6. ASSUME NEW k \in Closer, CloserStep(k) \/ Close(k) PROVE Ending'
    BY <1>6 DEF CloserStep, Close, SetClosed, Clear, FailTaken, AfterFail, Shutdown, CloseSock
  <1>7. CASE Hello \/ NoHandshake \/ Welcome \/ Ready \/ Start
    BY <1>7 DEF Hello, NoHandshake, Welcome, Ready, Start, Sends, PumpStarted
  <1>8. CASE Peer \/ UNCHANGED vars
    BY <1>8 DEF Peer, PeerRead, PeerSend, PeerClose, vars
  <1> QED
    BY <1>1, <1>2, <1>3, <1>4, <1>5, <1>6, <1>7, <1>8 DEF Next, MainStep, PumpStep, Choice

-----------------------------------------------------------------------------
(* Theorems *)

LEMMA IInvInit == Init => IInv
  <1> SUFFICES ASSUME Init PROVE IInv
    OBVIOUS
  <1> USE ThreadAssumption DEF Init, Thread, Calling
  <1>1. LockHeld /\ IdsOwned /\ Served
    BY DEF LockHeld, IdsOwned, Served
  <1>2. ClosingOrder /\ TakenApart /\ ItemsTrue /\ PumpStarted
    BY DEF ClosingOrder, TakenApart, ItemsTrue, PumpStarted
  <1>3. RepliesTrue /\ Numbered
    BY DEF RepliesTrue, Numbered, Eof
  <1>4. Unanswered /\ OneAnswer /\ Ending
    BY DEF Unanswered, OneAnswer, Ending
  <1> QED
    BY <1>1, <1>2, <1>3, <1>4, TypeInit DEF IInv

\* The inductive invariant of the channel: its types, one holder of the lock and one
\* owner of an id, a waiter for every call, replies that are answers, and a pump that
\* tells the end once.
THEOREM Inductive == Spec => []IInv
  <1>1. ASSUME IInv, [Next]_vars PROVE IInv'
    <2>1. TypeOK'
      BY <1>1, PcStep, CallTypes, PumpTypes, WireTypes DEF IInv, TypeOK
    <2>2. LockHeld' /\ IdsOwned' /\ Served' /\ ClosingOrder' /\ TakenApart' /\ ItemsTrue'
      BY <1>1, LockStep, IdsStep, ServedStep, ClosingStep, ApartStep, ItemsStep
    <2>3. PumpStarted' /\ RepliesTrue' /\ Numbered' /\ Unanswered' /\ OneAnswer' /\ Ending'
      BY <1>1, StartedStep, RepliesStep, NumberedStep, UnansweredStep, EndingStep
    <2> QED
      BY <2>1, <2>2, <2>3 DEF IInv
  <1> QED
    BY IInvInit, <1>1, PTL DEF Spec

\* close() strands no call, whichever thread registers or fails waiters meanwhile.
THEOREM NeverStranded == Spec => []NoStrandedCall
  <1>1. IInv => NoStrandedCall
    <2> SUFFICES ASSUME IInv, closed, \A t \in Closer \cup {Pump} : pc[t] \notin {"clear", "fail"}
                 PROVE  pending = {} /\ \A c \in Calling : pc[c] = "wait" => slot[req[c]] # Nothing
      BY DEF NoStrandedCall
    <2>1. pending = {} /\ \A t \in Closer \cup {Pump} : taken[t] = {}
      BY DEF IInv, ClosingOrder
    <2> QED
      BY <2>1 DEF IInv, TypeOK, CallOK, Served
  <1> QED
    BY <1>1, Inductive, PTL

\* An inbound call is answered at most once, however often the sending of an answer fails.
THEOREM AnsweredOnce == Spec => []OneAnswer
  <1>1. IInv => OneAnswer
    BY DEF IInv
  <1> QED
    BY <1>1, Inductive, PTL

\* A pump that returned has told its callback the end, once and last, unless close() ended it.
THEOREM EndIsTold == Spec => EndTold
  <1> DEFINE Told == /\ pc'[Pump] = "dead" /\ ~closed' => ended' = 1
                     /\ ended > 0 => UNCHANGED <<ended, lastSeq>>
  <1>1. ASSUME IInv, IInv', [Next]_vars PROVE [Told]_vars
    <2>1. pc'[Pump] = "dead" /\ ~closed' => ended' = 1
      BY <1>1 DEF IInv, Ending
    <2>2. ASSUME ended > 0 PROVE UNCHANGED <<ended, lastSeq>>
      <3>1. pc[Pump] \in {"clear", "fail", "dead"}
        BY <1>1, <2>2 DEF IInv, Ending
      <3>2. ~Callback /\ ~CallbackEof
        BY <3>1 DEF Callback, CallbackEof
      <3>3. ASSUME NEW c, CallerStep(c) \/ CallBegin(c) \/ Expire(c) PROVE UNCHANGED <<ended, lastSeq>>
        BY <3>3 DEF CallerStep, CallBegin, Expire, RegisterCheck, Register, Send, TakeReply, Finish
      <3>4. CASE PumpStep
        BY <3>2, <3>4 DEF PumpStep, PumpLoop, ReceiveTimeout, Receive, ReceiveEof, ReceiveError,
           ReceiveRaises, Route, Put, Handle, SendReply, SendErrorReply, Clear, FailTaken
      <3>5. ASSUME NEW k, CloserStep(k) \/ Close(k) PROVE UNCHANGED <<ended, lastSeq>>
        BY <3>5 DEF CloserStep, Close, SetClosed, Clear, FailTaken, Shutdown, CloseSock
      <3>6. CASE Hello \/ NoHandshake \/ MainStep \/ Peer \/ UNCHANGED vars
        BY <3>6 DEF Hello, NoHandshake, MainStep, Welcome, Ready, Start, Peer, PeerRead, PeerSend,
                    PeerClose, vars
      <3> QED
        BY <1>1, <3>3, <3>4, <3>5, <3>6 DEF Next, Choice
    <2> QED
      BY <2>1, <2>2
  <1> QED
    BY <1>1, Inductive, PTL DEF Spec, EndTold
-----------------------------------------------------------------------------
(* Every step of ComponentChannel is a step of Channel, or none *)

View == <<pumpThread, closed, EndedBy, Fresh, Active, Lost, answered, result>>

\* What callers see of each other depends on few places only.
SamePlaces ==
    \A c \in Calling : /\ pc'[c] = "register" <=> pc[c] = "register"
                       /\ pc'[c] = "finish" <=> pc[c] = "finish"
                       /\ pc'[c] \in {"send", "wait"} <=> pc[c] \in {"send", "wait"}

LEMMA ChannelInit == Init => C!Init
  <1> SUFFICES ASSUME Init PROVE C!Init
    OBVIOUS
  <1>1. \A c \in Calling : pc[c] \in {"idle", "unstarted"}
    BY ThreadAssumption DEF Init, Calling, Thread
  <1>2. Fresh = 1 /\ Lost = {} /\ Active = [c \in Calling |-> 0]
    BY <1>1 DEF Init, Fresh, Lost, Active
  <1>3. EndedBy = "none"
    BY ThreadAssumption DEF Init, EndedBy, Thread
  <1> QED
    BY <1>2, <1>3 DEF Init, C!Init, C!Nothing, Nothing

LEMMA SameCalls ==
  ASSUME UNCHANGED <<nextId, req>>, SamePlaces
  PROVE  Fresh' = Fresh /\ Active' = Active
  <1> USE DEF SamePlaces
  <1>1. Fresh' = Fresh
    BY DEF Fresh
  <1>2. ASSUME NEW c \in Calling
        PROVE  (IF pc'[c] = "register" THEN nextId' ELSE IF pc'[c] = "finish" THEN 0 ELSE req'[c])
               = (IF pc[c] = "register" THEN nextId ELSE IF pc[c] = "finish" THEN 0 ELSE req[c])
    OBVIOUS
  <1>3. Active' = Active
    BY <1>2 DEF Active
  <1> QED
    BY <1>1, <1>3

\* Nobody is lost before the pump ends.
LEMMA NoneLost == IInv /\ EndedBy = "none" => Lost = {}
  <1> SUFFICES ASSUME IInv, EndedBy = "none" PROVE Lost = {}
    OBVIOUS
  <1>1. taken[Pump] = {}
    BY DEF EndedBy, IInv, TypeOK, PumpOK, ClosingOrder
  <1>2. ASSUME NEW c \in Calling, pc[c] \in {"send", "wait"} PROVE slot[req[c]] # Fail(cause)
    <2>1. req[c] \in DOMAIN slot
      BY <1>2 DEF IInv, TypeOK, CallOK, IdsOwned
    <2>2. cause # "close" /\ cause # "none"
      BY DEF IInv, TypeOK, PumpOK
    <2>3. Fail(cause) # Nothing /\ Fail(cause) # Reply(req[c]) /\ Fail(cause) # Fail("close")
      BY <2>2 DEF Fail, Reply, Nothing
    <2> QED
      BY <2>1, <2>2, <2>3 DEF IInv, ItemsTrue
  <1> QED
    BY <1>1, <1>2 DEF Lost

LEMMA SameLost ==
  ASSUME IInv, IInv', [Next]_vars, SamePlaces, UNCHANGED req, taken'[Pump] = taken[Pump],
         \A c \in Calling : pc[c] \in {"send", "wait"} => slot'[req[c]] = slot[req[c]]
  PROVE  Lost' = Lost
  <1>1. CASE EndedBy = "none" /\ EndedBy' = "none"
    <2>1. Lost = {}
      BY <1>1, NoneLost
    <2>2. (IInv /\ EndedBy = "none" => Lost = {})'
      BY NoneLost, PTL
    <2> QED
      BY <1>1, <2>1, <2>2
  <1>2. CASE cause' = cause
    BY <1>2 DEF Lost, SamePlaces
  <1> QED
    BY <1>1, <1>2, EndStays

\* A step that callers do not see.
LEMMA Unseen ==
  ASSUME IInv, IInv', [Next]_vars, SamePlaces, taken'[Pump] = taken[Pump],
         UNCHANGED <<pumpThread, closed, EndedBy, nextId, req, answered, result>>,
         \A c \in Calling : pc[c] \in {"send", "wait"} => slot'[req[c]] = slot[req[c]]
  PROVE  UNCHANGED View
  <1>1. Fresh' = Fresh /\ Active' = Active
    BY SameCalls
  <1>2. Lost' = Lost
    BY SameLost
  <1> QED
    BY <1>1, <1>2 DEF View

\* A call that ends with an outcome it may have.
LEMMA ChannelEnd ==
  ASSUME IInv, NEW c \in Calling, pc[c] \in {"send", "wait"}, pc' = [pc EXCEPT ![c] = "finish"],
         NEW o \in C!Possible(c), result' = [result EXCEPT ![c] = o],
         \A d \in Calling \ {c} : pc[d] \in {"send", "wait"} => slot'[req[d]] = slot[req[d]],
         UNCHANGED <<pumpThread, closed, EndedBy, nextId, req, taken, cause, answered>>
  PROVE  C!End(c)
  <1>1. /\ pc'[c] = "finish" /\ req[c] # 0
        /\ \A d \in Calling \ {c} : pc'[d] = pc[d]
    BY DEF IInv, TypeOK, PcOK, IdsOwned, Thread, Calling
  <1>2. Active[c] = req[c] /\ Active' = [Active EXCEPT ![c] = 0]
    BY <1>1 DEF Active
  <1>3. UNCHANGED Fresh
    BY <1>1 DEF Fresh
  <1>4. Lost' = Lost \ {c}
    BY <1>1 DEF Lost
  <1> QED
    BY <1>1, <1>2, <1>3, <1>4 DEF C!End

\* The outcomes of a call: a waiter's item is one of them.
LEMMA PossibleItems ==
  ASSUME IInv, NEW c \in Calling, pc[c] \in {"send", "wait"}
  PROVE  /\ TimedOut \in C!Possible(c) /\ Fail("send") \in C!Possible(c)
         /\ slot[req[c]] # Nothing => slot[req[c]] \in C!Possible(c)
  <1>1. Active[c] = req[c] /\ req[c] \in DOMAIN slot
    BY DEF Active, IInv, TypeOK, CallOK, IdsOwned
  <1>2. TimedOut \in C!Possible(c) /\ Fail("send") \in C!Possible(c)
    BY DEF C!Possible, C!TimedOut, C!Fail, TimedOut, Fail
  <1>3. cause # "close"
    BY DEF IInv, TypeOK, PumpOK
  <1>4. CASE slot[req[c]] = Reply(req[c]) /\ req[c] \in answered
    <2>1. c \notin Lost
      BY <1>4 DEF Lost, Reply, Fail, Nothing
    <2> QED
      BY <1>1, <1>2, <1>4, <2>1 DEF C!Possible, C!Reply, Reply
  <1>5. CASE slot[req[c]] = Fail("close") /\ closed
    <2>1. c \notin Lost
      BY <1>3, <1>5 DEF Lost, Fail, Nothing
    <2> QED
      BY <1>2, <1>5, <2>1 DEF C!Possible, C!Fail, Fail
  <1>6. CASE slot[req[c]] = Fail(cause) /\ EndedBy = cause
    <2>1. c \in Lost
      BY <1>6 DEF Lost
    <2> QED
      BY <1>2, <1>6, <2>1 DEF C!Possible, C!Fail, Fail
  <1> QED
    BY <1>1, <1>2, <1>4, <1>5, <1>6 DEF IInv, ItemsTrue

LEMMA ChannelCaller ==
  ASSUME IInv, IInv', [Next]_vars, NEW c \in Calling, CallerStep(c) \/ CallBegin(c) \/ Expire(c)
  PROVE  C!Next \/ UNCHANGED View
  <1>0. c \in Thread /\ DOMAIN pc = Thread /\ \A d \in Calling : d \in Thread
    BY DEF Thread, Calling, IInv, TypeOK, PcOK
  <1>1. UNCHANGED <<pumpThread, closed, taken, cause, ended, answered>>
    BY DEF CallerStep, CallBegin, Expire, RegisterCheck, Register, Send, Sends, TakeReply, Finish
  <1>2. \A d \in Calling \ {c} : pc'[d] = pc[d]
    BY <1>0 DEF CallerStep, CallBegin, Expire, RegisterCheck, Register, Send, Sends, TakeReply, Finish
  <1>3. UNCHANGED EndedBy
    <2>1. pc[Pump] \notin {"fail", "callbackEof", "dead"} \/ pc'[Pump] = pc[Pump]
      BY <1>0, <1>2, ThreadAssumption
      DEF Calling, CallerStep, CallBegin, Before, Expire, RegisterCheck, Register, Send, Sends,
          TakeReply, Finish, IInv, TypeOK, PcOK, CallerPc
    <2>2. pc'[Pump] \notin {"fail", "callbackEof", "dead"} \/ pc'[Pump] = pc[Pump]
      BY <1>0, <1>2, ThreadAssumption
      DEF Calling, CallerStep, CallBegin, After, Expire, RegisterCheck, Register, Send, Sends,
          TakeReply, Finish
    <2> QED
      BY <1>1, <2>1, <2>2 DEF EndedBy
  <1>4. CASE CallBegin(c) /\ pumpThread
    <2>1. SamePlaces
      BY <1>0, <1>2, <1>4 DEF SamePlaces, CallBegin, Before
    <2> QED
      BY <1>1, <1>3, <1>4, <2>1, Unseen DEF CallBegin
  <1>5. CASE CallBegin(c) /\ ~pumpThread
    <2>1. UNCHANGED <<pc, nextId, req, slot>> /\ result' = [result EXCEPT ![c] = Invalid]
      BY <1>5 DEF CallBegin
    <2>2. UNCHANGED <<Fresh, Active, Lost>>
      BY <1>1, <2>1 DEF Fresh, Active, Lost
    <2>3. Active[c] = 0
      BY <1>5 DEF Active, CallBegin, Before, IInv, IdsOwned
    <2>4. C!Reject(c)
      BY <1>1, <1>3, <1>5, <2>1, <2>2, <2>3 DEF C!Reject, C!Invalid, Invalid
    <2> QED
      BY <2>4 DEF C!Next
  <1>6. CASE RegisterCheck(c) /\ closed
    <2>1. /\ UNCHANGED <<nextId, req, slot>> /\ result' = [result EXCEPT ![c] = Fail("close")]
          /\ pc[c] = "registerCheck" /\ pc'[c] \in {"idle", "handled"}
      BY <1>0, <1>6 DEF RegisterCheck, After
    <2>2. SamePlaces
      BY <1>2, <2>1 DEF SamePlaces
    <2>3. UNCHANGED <<Fresh, Active, Lost>>
      BY <1>1, <2>1, <2>2, SameCalls, SameLost
    <2>4. Active[c] = 0
      BY <2>1 DEF Active, IInv, IdsOwned
    <2>5. C!Reject(c)
      <3>1. pumpThread => Fail("close") = C!Fail("close")
        BY DEF C!Fail, Fail
      <3>2. pumpThread
        BY <2>1, ThreadAssumption DEF IInv, PumpStarted, Calling
      <3> QED
        BY <1>1, <1>3, <1>6, <2>1, <2>3, <2>4, <3>1, <3>2 DEF C!Reject
    <2> QED
      BY <2>5 DEF C!Next
  <1>7. CASE RegisterCheck(c) /\ ~closed
    <2>1. /\ UNCHANGED <<nextId, req, slot, result>>
          /\ pc[c] = "registerCheck" /\ pc'[c] = "register" /\ pendingLock = Free
      BY <1>0, <1>7 DEF RegisterCheck
    <2>2. \A d \in Calling : pc[d] # "register"
      BY <2>1, ThreadAssumption DEF IInv, LockHeld, Thread, Calling
    <2>3. Fresh = nextId /\ Fresh' = nextId + 1
      BY <2>1, <2>2 DEF Fresh
    <2>4. Active[c] = 0 /\ Active' = [Active EXCEPT ![c] = nextId]
      BY <1>2, <2>1, <2>2 DEF Active, IInv, IdsOwned
    <2>5. Lost' = Lost
      BY <1>1, <1>2, <2>1 DEF Lost
    <2>6. pumpThread
      BY <2>1, ThreadAssumption DEF IInv, PumpStarted, Calling
    <2>7. C!Begin(c)
      BY <1>1, <1>3, <1>7, <2>1, <2>3, <2>4, <2>5, <2>6 DEF C!Begin
    <2> QED
      BY <2>7 DEF C!Next
  <1>8. CASE Register(c)
    <2>1. /\ pc[c] = "register" /\ pc'[c] = "send" /\ UNCHANGED result
          /\ req' = [req EXCEPT ![c] = nextId] /\ nextId' = nextId + 1
          /\ slot' = [i \in 1..nextId |-> IF i = nextId THEN Nothing ELSE slot[i]]
      BY <1>0, <1>8 DEF Register, NewId
    <2>2. \A d \in Calling \ {c} : pc[d] # "register" /\ req'[d] = req[d]
      BY <2>1 DEF IInv, LockHeld, TypeOK, CallOK
    <2>3. Fresh' = Fresh
      BY <1>2, <2>1, <2>2 DEF Fresh
    <2>4. Active' = Active
      BY <1>2, <2>1, <2>2 DEF Active, IInv, TypeOK, CallOK
    <2>5. Lost' = Lost
      <3>1. c \notin Lost' /\ c \notin Lost
        <4>1. req'[c] = nextId /\ slot'[nextId] = Nothing /\ nextId \notin taken[Pump]
          BY <2>1 DEF IInv, TypeOK, CallOK
        <4>2. Nothing # Fail(cause)
          BY DEF Nothing, Fail
        <4> QED
          BY <1>1, <2>1, <4>1, <4>2 DEF Lost
      <3>2. ASSUME NEW d \in Calling \ {c} PROVE d \in Lost' <=> d \in Lost
        <4>1. pc[d] \in {"send", "wait"} => slot'[req[d]] = slot[req[d]]
          BY <2>1 DEF IInv, TypeOK, CallOK, IdsOwned
        <4> QED
          BY <1>1, <1>2, <2>2, <4>1 DEF Lost
      <3> QED
        BY <3>1, <3>2 DEF Lost
    <2> QED
      BY <1>1, <1>3, <2>1, <2>3, <2>4, <2>5 DEF View
  <1>9. CASE Send(c) /\ pc'[c] = "wait"
    <2>1. UNCHANGED <<nextId, req, slot>> /\ pc[c] = "send"
      BY <1>9 DEF Send
    <2>2. UNCHANGED result
      BY <1>0, <1>9, SeqSteps DEF Send, Sends
    <2>3. SamePlaces
      BY <1>2, <1>9, <2>1 DEF SamePlaces
    <2> QED
      BY <1>1, <1>3, <2>1, <2>2, <2>3, Unseen
  <1>10. CASE Send(c) /\ pc'[c] # "wait"
    <2>1. /\ UNCHANGED <<nextId, req, slot>> /\ pc[c] = "send" /\ pc' = [pc EXCEPT ![c] = "finish"]
          /\ result' = [result EXCEPT ![c] = Fail("send")]
      BY <1>0, <1>10 DEF Send, Sends
    <2>2. C!End(c)
      BY <1>1, <1>3, <2>1, ChannelEnd, PossibleItems
    <2> QED
      BY <2>2 DEF C!Next
  <1>11. CASE TakeReply(c)
    <2>1. /\ UNCHANGED <<nextId, req>> /\ pc[c] = "wait" /\ pc' = [pc EXCEPT ![c] = "finish"]
          /\ slot[req[c]] # Nothing /\ result' = [result EXCEPT ![c] = slot[req[c]]]
          /\ slot' = [slot EXCEPT ![req[c]] = Nothing]
      BY <1>11 DEF TakeReply
    <2>2. \A d \in Calling \ {c} : pc[d] \in {"send", "wait"} => slot'[req[d]] = slot[req[d]]
      BY <2>1 DEF IInv, TypeOK, CallOK, IdsOwned
    <2>3. C!End(c)
      BY <1>1, <1>3, <2>1, <2>2, ChannelEnd, PossibleItems
    <2> QED
      BY <2>3 DEF C!Next
  <1>12. CASE Expire(c)
    <2>1. /\ UNCHANGED <<nextId, req, slot>> /\ pc[c] = "wait" /\ pc' = [pc EXCEPT ![c] = "finish"]
          /\ result' = [result EXCEPT ![c] = TimedOut]
      BY <1>12 DEF Expire
    <2>2. C!End(c)
      BY <1>1, <1>3, <2>1, ChannelEnd, PossibleItems
    <2> QED
      BY <2>2 DEF C!Next
  <1>13. CASE Finish(c)
    <2>1. /\ UNCHANGED <<nextId, slot, result>> /\ pc[c] = "finish" /\ pc'[c] \in {"idle", "handled"}
          /\ req' = [req EXCEPT ![c] = 0]
      BY <1>0, <1>13 DEF Finish, After
    <2>2. Fresh' = Fresh
      BY <1>2, <2>1 DEF Fresh
    <2>3. Active' = Active
      BY <1>2, <2>1 DEF Active, IInv, TypeOK, CallOK
    <2>4. Lost' = Lost
      BY <1>1, <1>2, <2>1 DEF Lost, IInv, TypeOK, CallOK
    <2> QED
      BY <1>1, <1>3, <2>1, <2>2, <2>3, <2>4 DEF View
  <1> QED
    BY <1>4, <1>5, <1>6, <1>7, <1>8, <1>9, <1>10, <1>11, <1>12, <1>13 DEF CallerStep

\* The pump ends: it takes whoever waits and has nothing yet.
LEMMA ChannelClear ==
  ASSUME IInv, IInv', Clear(Pump)
  PROVE  C!Next
  <1>1. /\ pc[Pump] = "clear" /\ pendingLock = Free /\ pc' = [pc EXCEPT ![Pump] = "fail"]
        /\ taken' = [taken EXCEPT ![Pump] = pending]
        /\ UNCHANGED <<pumpThread, closed, nextId, req, slot, result, cause, answered>>
    BY DEF Clear, AllPending
  <1>2. DOMAIN pc = Thread /\ DOMAIN taken = Closer \cup {Pump} /\ Pump \in Thread
        /\ \A c \in Calling : c \in Thread
    BY DEF IInv, TypeOK, PcOK, CallOK, Thread, Calling
  <1>3. SamePlaces
    BY <1>1, <1>2 DEF SamePlaces
  <1>4. Fresh' = Fresh /\ Active' = Active
    BY <1>1, <1>3, SameCalls
  <1>5. EndedBy = "none" /\ EndedBy' = cause
    BY <1>1, <1>2 DEF EndedBy
  <1>6. pumpThread
    BY <1>1 DEF IInv, PumpStarted
  <1>7. Lost' \subseteq {c \in Calling : Active[c] # 0}
    <2>1. ASSUME NEW c \in Lost' PROVE c \in Calling /\ Active[c] # 0
      <3>1. c \in Calling /\ pc[c] \in {"send", "wait"}
        BY <1>3 DEF Lost, SamePlaces
      <3> QED
        BY <3>1 DEF Active, IInv, IdsOwned
    <2> QED
      BY <2>1
  <1>8. ASSUME NEW c \in Calling, c \notin Lost', Active[c] # 0
        PROVE  closed \/ Active[c] \in answered
    <2>1. pc[c] # "register"
      BY <1>1, ThreadAssumption DEF IInv, LockHeld, Thread, Calling
    <2>2. pc[c] \in {"send", "wait"} /\ Active[c] = req[c]
      BY <1>8, <2>1 DEF Active, IInv, IdsOwned
    <2>3. slot[req[c]] # Nothing \/ req[c] \notin pending
      BY <1>1, <1>2, <1>3, <1>8, <2>2 DEF Lost, SamePlaces
    <2>4. CASE slot[req[c]] # Nothing
      <3>1. req[c] \in DOMAIN slot
        BY <2>2 DEF IInv, TypeOK, CallOK, IdsOwned
      <3>2. EndedBy # cause
        BY <1>5 DEF IInv, TypeOK, PumpOK
      <3> QED
        BY <2>2, <2>4, <3>1, <3>2 DEF IInv, ItemsTrue
    <2>5. CASE slot[req[c]] = Nothing
      <3>1. PICK t \in DOMAIN taken : req[c] \in taken[t]
        BY <2>2, <2>3, <2>5 DEF IInv, Served
      <3>2. t \in Closer
        BY <1>1, <1>2, <3>1 DEF IInv, ClosingOrder
      <3> QED
        BY <3>1, <3>2 DEF IInv, ClosingOrder
    <2> QED
      BY <2>4, <2>5
  <1>9. cause \in C!PumpReason
    BY DEF C!PumpReason, IInv, TypeOK, PumpOK
  <1>10. C!PumpEnd(cause)
    BY <1>1, <1>4, <1>5, <1>6, <1>7, <1>8 DEF C!PumpEnd
  <1> QED
    BY <1>9, <1>10 DEF C!Next

\* Filling the waiters that were taken: by the pump, who is lost already; by close(), nobody who is.
LEMMA ChannelFail ==
  ASSUME IInv, IInv', [Next]_vars, NEW t \in Closer \cup {Pump}, FailTaken(t)
  PROVE  UNCHANGED View
  <1>1. /\ pc[t] = "fail" /\ pc' = [pc EXCEPT ![t] = AfterFail(t)]
        /\ taken' = [taken EXCEPT ![t] = {}]
        /\ slot' = [i \in 1..(nextId - 1) |-> IF i \in taken[t] /\ slot[i] = Nothing
                                              THEN Fail(Why(t)) ELSE slot[i]]
        /\ UNCHANGED <<pumpThread, closed, nextId, req, result, cause, ended, answered>>
    BY DEF FailTaken
  <1>2. DOMAIN pc = Thread /\ DOMAIN taken = Closer \cup {Pump} /\ t \in Thread
        /\ \A c \in Calling : c \in Thread
    BY DEF IInv, TypeOK, PcOK, CallOK, Thread, Calling
  <1>3. AfterFail(t) \in {"shutdown", "callbackEof", "dead"}
    BY DEF AfterFail, AfterError
  <1>4. SamePlaces
    BY <1>1, <1>2, <1>3 DEF SamePlaces
  <1>5. Fresh' = Fresh /\ Active' = Active
    BY <1>1, <1>4, SameCalls
  <1>6. UNCHANGED EndedBy
    <2>1. CASE t = Pump
      BY <1>1, <2>1, EndStays DEF EndedBy, IInv, TypeOK, PumpOK
    <2>2. CASE t # Pump
      <3>1. pc'[Pump] = pc[Pump]
        BY <1>1, <2>2
      <3> QED
        BY <1>1, <3>1 DEF EndedBy
    <2> QED
      BY <2>1, <2>2
  <1>7. \A c \in Calling : pc[c] \in {"send", "wait"} => req[c] \in 1..(nextId - 1)
    BY DEF IInv, TypeOK, CallOK, IdsOwned
  <1>8. cause # "close" /\ Fail(cause) # Nothing /\ (cause # "close" => Fail("close") # Fail(cause))
        /\ Fail("close") # Nothing
    BY DEF IInv, TypeOK, PumpOK, Fail, Nothing
  <1>9. CASE t = Pump
    <2>1. Why(t) = cause /\ taken'[Pump] = {}
      BY <1>1, <1>2, <1>9 DEF Why
    <2>2. ASSUME NEW c \in Calling PROVE c \in Lost' <=> c \in Lost
      <3>1. CASE pc[c] \in {"send", "wait"}
        <4>1. slot'[req[c]] = IF req[c] \in taken[Pump] /\ slot[req[c]] = Nothing
                              THEN Fail(cause) ELSE slot[req[c]]
          BY <1>1, <1>7, <1>9, <2>1, <3>1
        <4> QED
          BY <1>1, <1>4, <1>8, <2>1, <3>1, <4>1 DEF Lost, SamePlaces
      <3>2. CASE pc[c] \notin {"send", "wait"}
        BY <1>4, <3>2 DEF Lost, SamePlaces
      <3> QED
        BY <3>1, <3>2
    <2>3. Lost' = Lost
      BY <2>2 DEF Lost
    <2> QED
      BY <1>1, <1>5, <1>6, <2>3 DEF View
  <1>10. CASE t # Pump
    <2>1. Why(t) = "close" /\ taken'[Pump] = taken[Pump] /\ taken[t] \cap taken[Pump] = {}
      BY <1>1, <1>2, <1>10 DEF Why, IInv, TakenApart
    <2>2. ASSUME NEW c \in Calling PROVE c \in Lost' <=> c \in Lost
      <3>1. CASE pc[c] \in {"send", "wait"}
        <4>1. slot'[req[c]] = IF req[c] \in taken[t] /\ slot[req[c]] = Nothing
                              THEN Fail("close") ELSE slot[req[c]]
          BY <1>1, <1>7, <2>1, <3>1
        <4> QED
          BY <1>1, <1>4, <1>8, <2>1, <3>1, <4>1 DEF Lost, SamePlaces
      <3>2. CASE pc[c] \notin {"send", "wait"}
        BY <1>4, <3>2 DEF Lost, SamePlaces
      <3> QED
        BY <3>1, <3>2
    <2>3. Lost' = Lost
      BY <2>2 DEF Lost
    <2> QED
      BY <1>1, <1>5, <1>6, <2>3 DEF View
  <1> QED
    BY <1>9, <1>10

LEMMA ChannelPump ==
  ASSUME IInv, IInv', [Next]_vars, PumpStep
  PROVE  C!Next \/ UNCHANGED View
  <1>1. CASE Clear(Pump)
    BY <1>1, ChannelClear
  <1>2. CASE FailTaken(Pump)
    BY <1>2, ChannelFail
  <1>3. CASE ~Clear(Pump) /\ ~FailTaken(Pump)
    <2>1. UNCHANGED <<pumpThread, closed, nextId, req, taken, answered, result>>
      BY <1>3 DEF PumpStep, PumpLoop, ReceiveTimeout, Receive, ReceiveEof, ReceiveError,
                  ReceiveRaises, Route, Put, Handle, SendReply, SendErrorReply, Callback, CallbackEof
    <2>2. SamePlaces
      BY <1>3, ThreadAssumption
      DEF SamePlaces, Calling, Thread, IInv, TypeOK, PcOK, PumpStep, PumpLoop, ReceiveTimeout, Receive,
          ReceiveEof, ReceiveError, ReceiveRaises, Route, Put, Handle, HandlerFailed, SendReply,
          SendErrorReply, Sends, Replied, Callback, CallbackEof
    <2>3. Fresh' = Fresh /\ Active' = Active
      BY <2>1, <2>2, SameCalls
    <2>4. EndedBy' = EndedBy /\ Lost' = Lost
      <3>1. CASE EndedBy = "none" /\ EndedBy' = "none"
        <4>1. (IInv /\ EndedBy = "none" => Lost = {})'
          BY NoneLost, PTL
        <4> QED
          BY <3>1, <4>1, NoneLost
      <3>2. CASE EndedBy = cause /\ EndedBy' = cause /\ cause' = cause
        <4>1. UNCHANGED slot
          <5>1. pc[Pump] \in {"fail", "callbackEof", "dead"}
            BY <3>2 DEF EndedBy, IInv, TypeOK, PumpOK
          <5> QED
            BY <1>3, <5>1 DEF PumpStep, PumpLoop, ReceiveTimeout, Receive, ReceiveEof, ReceiveError,
                  ReceiveRaises, Route, Put, Handle, SendReply, SendErrorReply, Callback, CallbackEof
        <4> QED
          BY <2>1, <2>2, <3>2, <4>1 DEF Lost, SamePlaces
      <3> QED
        BY <1>3, <3>1, <3>2, EndStays
    <2> QED
      BY <2>1, <2>3, <2>4 DEF View
  <1> QED
    BY <1>1, <1>2, <1>3

LEMMA ChannelCloser ==
  ASSUME IInv, IInv', [Next]_vars, NEW k \in Closer, CloserStep(k) \/ Close(k)
  PROVE  C!Next \/ UNCHANGED View
  <1>1. CASE FailTaken(k)
    BY <1>1, ChannelFail
  <1>2. CASE ~FailTaken(k)
    <2>1. /\ UNCHANGED <<pumpThread, nextId, req, slot, result, cause, ended, answered>>
          /\ \A t \in Thread \ {k} : pc'[t] = pc[t]
          /\ taken'[Pump] = taken[Pump]
      BY <1>2, ThreadAssumption
      DEF CloserStep, SetClosed, Clear, Shutdown, CloseSock, Close, IInv, TypeOK, PcOK, CallOK, Thread
    <2>2. SamePlaces /\ pc'[Pump] = pc[Pump]
      BY <2>1, ThreadAssumption DEF SamePlaces, Calling, Thread
    <2>3. Fresh' = Fresh /\ Active' = Active /\ Lost' = Lost
      BY <2>1, <2>2, SameCalls, SameLost
    <2>4. EndedBy' = EndedBy
      BY <2>1, <2>2 DEF EndedBy
    <2>5. UNCHANGED closed \/ closed' = TRUE
      BY <1>2 DEF CloserStep, SetClosed, Clear, Shutdown, CloseSock, Close
    <2>6. CASE UNCHANGED closed
      BY <2>1, <2>3, <2>4, <2>6 DEF View
    <2>7. CASE closed' = TRUE
      <3>1. C!Close
        BY <2>1, <2>3, <2>4, <2>7 DEF C!Close
      <3> QED
        BY <3>1 DEF C!Next
    <2> QED
      BY <2>5, <2>6, <2>7
  <1> QED
    BY <1>1, <1>2

LEMMA ChannelOther ==
  ASSUME IInv, IInv', [Next]_vars, MainStep \/ Hello \/ NoHandshake \/ Peer \/ UNCHANGED vars
  PROVE  C!Next \/ UNCHANGED View
  <1>1. /\ UNCHANGED <<closed, nextId, req, slot, taken, result, cause, ended>>
        /\ \A t \in Thread \ {Main, Pump} : pc'[t] = pc[t]
        /\ pc'[Pump] = pc[Pump] \/ (pc[Pump] = "unstarted" /\ pc'[Pump] = "loop")
    BY ThreadAssumption
    DEF MainStep, Hello, NoHandshake, Welcome, Ready, Start, Sends, Peer, PeerRead, PeerSend, PeerClose,
        vars, IInv, TypeOK, PcOK, PumpStarted, Thread
  <1>2. SamePlaces
    BY <1>1, ThreadAssumption DEF SamePlaces, Calling, Thread
  <1>3. Fresh' = Fresh /\ Active' = Active /\ Lost' = Lost
    BY <1>1, <1>2, SameCalls, SameLost
  <1>4. EndedBy' = EndedBy
    BY <1>1 DEF EndedBy
  <1>5. CASE Start
    <2>1. ~pumpThread /\ pumpThread' = TRUE /\ UNCHANGED answered
      BY <1>5 DEF Start, IInv, PumpStarted
    <2>2. C!Start
      BY <1>1, <1>3, <1>4, <2>1 DEF C!Start
    <2> QED
      BY <2>2 DEF C!Next
  <1>6. CASE ~Start /\ UNCHANGED answered
    <2>1. UNCHANGED pumpThread
      BY <1>6 DEF MainStep, Hello, NoHandshake, Welcome, Ready, Peer, PeerRead, PeerSend, PeerClose, vars
    <2> QED
      BY <1>1, <1>3, <1>4, <1>6, <2>1 DEF View
  <1>7. CASE answered' # answered
    <2>1. PICK i \in seen : PeerSend("return", i)
      BY <1>7 DEF MainStep, Hello, NoHandshake, Welcome, Ready, Start, Peer, PeerRead, PeerSend,
                  PeerClose, vars
    <2>2. i \in 1..(Fresh - 1) /\ i < Fresh /\ answered' = answered \cup {i} /\ UNCHANGED pumpThread
      BY <2>1 DEF PeerSend, Fresh, IInv, TypeOK, WireOK, CallOK
    <2>3. C!Answer(i)
      BY <1>1, <1>3, <1>4, <2>2 DEF C!Answer
    <2> QED
      BY <2>2, <2>3 DEF C!Next
  <1> QED
    BY <1>5, <1>6, <1>7

LEMMA ChannelStep == IInv /\ IInv' /\ [Next]_vars => [C!Next]_(C!channelVars)
  <1> SUFFICES ASSUME IInv, IInv', [Next]_vars PROVE C!Next \/ UNCHANGED View
    BY DEF View, C!channelVars
  <1> QED
    BY ChannelCaller, ChannelPump, ChannelCloser, ChannelOther DEF Next, Choice

\* ComponentChannel implements Channel: whatever the pump, close() and any number of callers do
\* to the table and the waiters at the same time, every call has an id of its own and one outcome
\* that Channel allows, and the end of the pump reaches those it leaves behind and no others.
THEOREM Refinement == Spec => ImplementsChannel
  BY ChannelInit, ChannelStep, Inductive, PTL DEF Spec, ImplementsChannel, C!Spec
=============================================================================
