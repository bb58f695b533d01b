-------------------------- MODULE MsysClientProofs --------------------------
(* Proofs about MsysClient, for any sets of threads and any bounds. *)
EXTENDS MsysClient, FiniteSetTheorems, TLAPS

USE DEF Jump, others, wireVars, threadVars

LEMMA OutcomeTypes ==
    /\ Nothing \in Outcome /\ TimedOut \in Outcome /\ Invalid \in Outcome
    /\ \A i \in Nat : Reply(i) \in Outcome
    /\ \A e \in Reason : Fail(e) \in Outcome
  BY DEF Outcome, Nothing, TimedOut, Invalid, Reply, Fail, Reason

LEMMA RecordTypes == Eof \in Record /\ Failure \in Record
  BY DEF Record, Eof, Failure

LEMMA EmptySeq == \A S : <<>> \in Seq(S)
  OBVIOUS

\* Steps on a sequence of members of S.
LEMMA SeqSteps ==
  ASSUME NEW S, NEW s \in Seq(S)
  PROVE  /\ \A x \in S : Append(s, x) \in Seq(S)
         /\ s # <<>> => Head(s) \in S /\ Tail(s) \in Seq(S)
         /\ \A T : S \subseteq T => s \in Seq(T)
  OBVIOUS

LEMMA TypeInit == Init => TypeOK
  <1> SUFFICES ASSUME Init PROVE TypeOK
    OBVIOUS
  <1>1. PcOK
    BY ThreadAssumption
    DEF Init, PcOK, Thread, CallerPc, ReaderPc, CloserPc, ConsumerPc, Terminating
  <1>2. CallOK
    BY OutcomeTypes DEF Init, CallOK, Reason
  <1>3. RecvOK
    BY RecordTypes DEF Init, RecvOK
  <1>4. WireOK
    BY EmptySeq DEF Init, WireOK
  <1> QED
    BY <1>1, <1>2, <1>3, <1>4 DEF TypeOK

-----------------------------------------------------------------------------
(* Where a step moves its thread *)

Moves(t, L) == \E l \in L : pc' = [pc EXCEPT ![t] = l]

LEMMA CallerMoves ==
  ASSUME NEW c \in Caller, CallerStep(c), ~StartReader(c)
  PROVE  Moves(c, CallerPc)
  <1> USE ThreadAssumption DEF Moves, CallerPc, Terminating, Goto, Leave, Terminated
  <1>1. CASE RegisterCheck(c) \/ Register(c)
    BY <1>1 DEF RegisterCheck, Register
  <1>2. CASE SendInvalid(c) \/ SendCheck(c) \/ SendLock(c)
    BY <1>2 DEF SendInvalid, SendCheck, SendLock
  <1>3. CASE SendAll(c) \/ SendError(c) \/ SendFailed(c)
    BY <1>3 DEF SendAll, SendError, SendFailed
  <1>4. CASE TakeReply(c) \/ Expired(c) \/ Finish(c)
    BY <1>4 DEF TakeReply, Expired, Finish
  <1>5. CASE Terminate(c) \/ Drain(c) \/ Post(c)
    BY <1>5 DEF Terminate, Drain, Post
  <1> QED
    BY <1>1, <1>2, <1>3, <1>4, <1>5 DEF CallerStep

LEMMA ReaderMoves ==
  ASSUME ReaderStep PROVE Moves(Reader, ReaderPc)
  <1> USE ThreadAssumption DEF Moves, ReaderPc, Terminating, Goto, Terminated
  <1>1. CASE ReaderRuns \/ ReaderLoop
    BY <1>1 DEF ReaderRuns, ReaderLoop
  <1>2. CASE ReadRecord \/ ReadEof \/ ReadError
    BY <1>2 DEF ReadRecord, ReadEof, ReadError
  <1>3. CASE Dispatch \/ Enqueue
    BY <1>3 DEF Dispatch, Enqueue
  <1>4. CASE Terminate(Reader) \/ Drain(Reader) \/ Post(Reader) \/ CloseSocket(Reader)
    BY <1>4 DEF Terminate, Drain, Post, CloseSocket
  <1> QED
    BY <1>1, <1>2, <1>3, <1>4 DEF ReaderStep

LEMMA CloserMoves ==
  ASSUME NEW k \in Closer, CloserStep(k) \/ Close(k) PROVE Moves(k, CloserPc)
  BY ThreadAssumption
  DEF Moves, CloserPc, Terminating, Goto, Terminated, CloserStep, Close, Terminate,
      Drain, Post, CloseSocket, Join

LEMMA ConsumerMoves ==
  ASSUME NEW r \in Consumer, ~StartReader(r),
         ConsumerStep(r) \/ RecvBegin(r) \/ RunBegin(r) \/ GetExpire(r)
  PROVE  Moves(r, ConsumerPc)
  BY ThreadAssumption
  DEF Moves, ConsumerPc, Goto, Deliver, ConsumerStep, RecvBegin, RunBegin, GetExpire,
      Recv, RecvCheck, Get, GetNowaitEmpty, GetExpired

LEMMA PcStep ==
  ASSUME PcOK, [Next]_vars PROVE PcOK'
  <1> USE ThreadAssumption DEF Thread
  <1>1. ASSUME NEW c \in Caller, Moves(c, CallerPc) PROVE PcOK'
    BY <1>1 DEF PcOK, Moves
  <1>2. ASSUME Moves(Reader, ReaderPc) PROVE PcOK'
    BY <1>2 DEF PcOK, Moves
  <1>3. ASSUME NEW k \in Closer, Moves(k, CloserPc) PROVE PcOK'
    BY <1>3 DEF PcOK, Moves
  <1>4. ASSUME NEW r \in Consumer, Moves(r, ConsumerPc) PROVE PcOK'
    BY <1>4 DEF PcOK, Moves
  <1>5. ASSUME NEW t \in Caller \cup Consumer, StartReader(t) PROVE PcOK'
    BY <1>5 DEF PcOK, StartReader, CallerPc, ReaderPc, ConsumerPc
  <1>6. CASE Choice
    <2>1. ASSUME NEW c \in Caller, CallBegin(c) \/ SendBegin(c) \/ Expire(c) PROVE PcOK'
      <3>1. Moves(c, CallerPc) \/ UNCHANGED pc
        BY <2>1 DEF CallBegin, SendBegin, Expire, Moves, CallerPc, Goto
      <3> QED
        BY <3>1, <1>1 DEF PcOK
    <2> QED
      BY <1>6, <2>1, <1>3, <1>4, CloserMoves, ConsumerMoves
      DEF Choice, RecvBegin, RunBegin, GetExpire, StartReader
  <1>7. CASE Peer
    BY <1>7 DEF PcOK, Peer, PeerRead, PeerClose, PeerSend
  <1>8. CASE UNCHANGED vars
    BY <1>8 DEF PcOK, vars
  <1> QED
    BY <1>1, <1>2, <1>3, <1>4, <1>5, <1>6, <1>7, <1>8, CallerMoves, ReaderMoves,
       CloserMoves, ConsumerMoves DEF Next
-----------------------------------------------------------------------------
(* The types of the other variables *)

LEMMA CallStep ==
  ASSUME TypeOK, [Next]_vars PROVE CallOK'
  <1> USE DEF CallOK
  <1> USE TypeOK DEF TypeOK
  <1>1. ASSUME NEW c \in Caller, RegisterCheck(c) \/ SendLock(c) \/ CallBegin(c) PROVE CallOK'
    BY <1>1, OutcomeTypes
    DEF RegisterCheck, HoldLock, SendLock, CallBegin, Leave, closed, readVars
  <1>2. ASSUME NEW c \in Caller, Register(c) PROVE CallOK'
    <2>1. nextId' = nextId + 1 /\ nextId' - 1 = nextId
      BY <1>2 DEF Register
    <2>2. slot' \in [1..nextId -> Outcome]
      BY <1>2, OutcomeTypes DEF Register
    <2>3. pending' \subseteq 1..nextId /\ req' \in [Caller -> 0..nextId]
      BY <1>2 DEF Register, NewId
    <2> QED
      BY <1>2, <2>1, <2>2, <2>3 DEF Register, readVars
  <1>3. ASSUME NEW c \in Caller,
               \/ SendInvalid(c) \/ SendCheck(c) \/ SendAll(c) \/ SendError(c) \/ SendFailed(c)
        PROVE  CallOK'
    BY <1>3, OutcomeTypes
    DEF SendInvalid, SendCheck, SendAll, SendError, SendFailed, Leave, closed, readVars
  <1>4. ASSUME NEW c \in Caller, TakeReply(c) PROVE CallOK'
    <2>1. slot[req[c]] \in Outcome \/ req[c] = 0
      OBVIOUS
    <2> QED
      BY <1>4, <2>1, OutcomeTypes DEF TakeReply, Leave, readVars
  <1>5. ASSUME NEW c \in Caller, Expired(c) PROVE CallOK'
    <2>1. slot[req[c]] \in Outcome \/ req[c] = 0
      OBVIOUS
    <2> QED
      BY <1>5, <2>1, OutcomeTypes DEF Expired, Unregistered, Leave, readVars
  <1>6. ASSUME NEW c \in Caller, Finish(c) PROVE CallOK'
    <2>1. req' \in [Caller -> 0..(nextId - 1)]
      BY <1>6 DEF Finish
    <2> QED
      BY <1>6, <2>1 DEF Finish, Unregistered, readVars
  <1>7. ASSUME NEW t, Terminate(t) PROVE CallOK'
    <2>1. Cause(t) \in Reason
      BY DEF Cause, Reason
    <2>2. Fail("send") \in Outcome
      BY OutcomeTypes DEF Reason
    <2> QED
      BY <1>7, <2>1, <2>2 DEF Terminate, Terminated, Leave, readVars
  <1>8. ASSUME NEW t, Drain(t) PROVE CallOK'
    <2>1. Fail(Cause(t)) \in Outcome
      BY OutcomeTypes DEF Cause, Reason
    <2> QED
      BY <1>8, <2>1 DEF Drain, FailedSlots, readVars
  <1>9. ASSUME NEW t, Post(t) PROVE CallOK'
    <2>1. Fail("send") \in Outcome
      BY OutcomeTypes DEF Reason
    <2> QED
      BY <1>9, <2>1 DEF Post, Terminated, Leave, readVars
  <1>10. ASSUME Dispatch PROVE CallOK'
    <2>1. Reply(hand.id) \in Outcome
      BY OutcomeTypes DEF RecvOK, Record
    <2> QED
      BY <1>10, <2>1 DEF Dispatch
  <1>11. ASSUME ReadRecord \/ ReadEof \/ ReadError PROVE CallOK'
    BY <1>11 DEF ReadRecord, ReadEof, ReadError, callVars, Reason
  <1>12. ASSUME ReaderRuns \/ ReaderLoop \/ Enqueue PROVE CallOK'
    BY <1>12 DEF ReaderRuns, ReaderLoop, Enqueue, callVars, readVars
  <1>13. ASSUME NEW t, StartReader(t) \/ SendBegin(t) \/ Expire(t) \/ Close(t)
                        \/ CloseSocket(t) \/ Join(t)
         PROVE CallOK'
    BY <1>13 DEF StartReader, SendBegin, Expire, Close, CloseSocket, Join, callVars, readVars
  <1>14. ASSUME NEW r, Recv(r) \/ RecvCheck(r) \/ Get(r) \/ GetNowaitEmpty(r)
                        \/ GetExpired(r) \/ GetExpire(r) \/ RecvBegin(r) \/ RunBegin(r)
         PROVE CallOK'
    BY <1>14 DEF Recv, RecvCheck, Get, GetNowaitEmpty, GetExpired, GetExpire, RecvBegin,
                 RunBegin, callVars, readVars
  <1>15. ASSUME Peer PROVE CallOK'
    BY <1>15 DEF Peer, PeerRead, PeerClose, PeerSend, callVars, readVars
  <1>16. CASE UNCHANGED vars
    BY <1>16 DEF vars, callVars, readVars
  <1> QED
    BY <1>1, <1>2, <1>3, <1>4, <1>5, <1>6, <1>7, <1>8, <1>9, <1>10, <1>11, <1>12,
       <1>13, <1>14, <1>15, <1>16
    DEF Next, CallerStep, ReaderStep, CloserStep, ConsumerStep, Choice

LEMMA RecvStep ==
  ASSUME TypeOK, [Next]_vars PROVE RecvOK'
  <1> USE TypeOK DEF TypeOK, RecvOK
  <1>1. ASSUME NEW t, Post(t) PROVE RecvOK'
    <2>1. LastRecord(t) \in Record
      BY RecordTypes DEF LastRecord
    <2>2. inbox' \in Seq(Record)
      BY <1>1, <2>1, SeqSteps DEF Post, Queued
    <2> QED
      BY <1>1, <2>2, RecordTypes DEF Post
  <1>2. ASSUME Enqueue PROVE RecvOK'
    <2>1. inbox' \in Seq(Record)
      BY <1>2, SeqSteps DEF Enqueue, Queued
    <2> QED
      BY <1>2, <2>1, RecordTypes DEF Enqueue
  <1>3. ASSUME Dispatch \/ ReadRecord PROVE RecvOK'
    <2>1. in # <<>> => Head(in) \in Record
      BY SeqSteps DEF WireOK
    <2> QED
      BY <1>3, <2>1, RecordTypes DEF Dispatch, ReadRecord, recvVars
  <1>4. ASSUME NEW r \in Consumer, Get(r) PROVE RecvOK'
    <2>1. Head(inbox) \in Record /\ inbox' \in Seq(Record)
      BY <1>4, SeqSteps DEF Get
    <2> QED
      BY <1>4, <2>1 DEF Get, Deliver, readVars, Record
  <1>5. ASSUME NEW r \in Consumer, GetNowaitEmpty(r) \/ GetExpired(r) PROVE RecvOK'
    BY <1>5 DEF GetNowaitEmpty, GetExpired, Deliver, TerminalResult, readVars
  <1>6. ASSUME NEW r \in Consumer, RecvBegin(r) \/ RunBegin(r) PROVE RecvOK'
    BY <1>6 DEF RecvBegin, RunBegin, readVars
  <1>7. ASSUME NEW t, StartReader(t) \/ Recv(t) \/ RecvCheck(t) \/ GetExpire(t)
                       \/ CallBegin(t) \/ SendBegin(t) \/ Expire(t) \/ Close(t)
                       \/ CloseSocket(t) \/ Join(t) \/ Terminate(t) \/ Drain(t)
        PROVE RecvOK'
    BY <1>7 DEF StartReader, Recv, RecvCheck, GetExpire, CallBegin, SendBegin, Expire, Close,
                CloseSocket, Join, Terminate, Drain, recvVars, readVars
  <1>8. ASSUME NEW c, \/ RegisterCheck(c) \/ Register(c) \/ SendInvalid(c) \/ SendCheck(c)
                      \/ SendLock(c) \/ SendAll(c) \/ SendError(c) \/ SendFailed(c)
                      \/ TakeReply(c) \/ Expired(c) \/ Finish(c)
        PROVE RecvOK'
    BY <1>8 DEF RegisterCheck, Register, SendInvalid, SendCheck, SendLock, SendAll, SendError,
                SendFailed, TakeReply, Expired, Finish, recvVars, readVars
  <1>9. ASSUME ReaderRuns \/ ReaderLoop \/ ReadEof \/ ReadError \/ Peer PROVE RecvOK'
    BY <1>9 DEF ReaderRuns, ReaderLoop, ReadEof, ReadError, Peer, PeerRead, PeerClose,
                PeerSend, recvVars, readVars
  <1>10. CASE UNCHANGED vars
    BY <1>10 DEF vars, recvVars, readVars
  <1> QED
    BY <1>1, <1>2, <1>3, <1>4, <1>5, <1>6, <1>7, <1>8, <1>9, <1>10
    DEF Next, CallerStep, ReaderStep, CloserStep, ConsumerStep, Choice

LEMMA WireStep ==
  ASSUME TypeOK, [Next]_vars PROVE WireOK'
  <1> USE TypeOK DEF TypeOK, WireOK
  <1>1. ASSUME NEW c \in Caller, Register(c) PROVE WireOK'
    <2>1. nextId \in Nat \ {0} /\ nextId' = nextId + 1
      BY <1>1 DEF Register, CallOK
    <2>2. 0..(nextId - 1) \subseteq 0..(nextId' - 1) /\ 1..(nextId - 1) \subseteq 1..(nextId' - 1)
      BY <2>1
    <2>3. out \in Seq(0..(nextId' - 1)) /\ seen \subseteq 1..(nextId' - 1)
      BY <2>2, SeqSteps
    <2> QED
      BY <1>1, <2>3 DEF Register, peerVars
  <1>2. ASSUME NEW c \in Caller, SendAll(c) PROVE WireOK'
    <2>1. req[c] \in 0..(nextId - 1)
      BY DEF CallOK
    <2>2. out' \in Seq(0..(nextId - 1))
      BY <1>2, <2>1, SeqSteps DEF SendAll
    <2> QED
      BY <1>2, <2>2 DEF SendAll, peerVars
  <1>3. ASSUME ReadRecord PROVE WireOK'
    <2>1. in' \in Seq(Record)
      BY <1>3, SeqSteps DEF ReadRecord
    <2> QED
      BY <1>3, <2>1 DEF ReadRecord, peerVars, callVars
  <1>4. ASSUME PeerRead PROVE WireOK'
    <2>1. Head(out) \in 0..(nextId - 1) /\ out' \in Seq(0..(nextId - 1))
      BY <1>4, SeqSteps DEF PeerRead
    <2>2. {Head(out)} \ {0} \subseteq 1..(nextId - 1)
      BY <2>1 DEF CallOK
    <2> QED
      BY <1>4, <2>1, <2>2 DEF PeerRead, callVars
  <1>5. ASSUME NEW type \in PeerKind, NEW i \in seen \cup {0}, PeerSend(type, i) PROVE WireOK'
    <2>1. [type |-> type, id |-> i, n |-> nSent + 1] \in Record
      BY PeerAssumption DEF Record, CallOK
    <2>2. in' \in Seq(Record)
      BY <1>5, <2>1, SeqSteps DEF PeerSend
    <2> QED
      BY <1>5, <2>2 DEF PeerSend, callVars
  <1>6. ASSUME PeerClose PROVE WireOK'
    BY <1>6, EmptySeq DEF PeerClose, callVars
  <1>7. ASSUME NEW t, \/ StartReader(t) \/ Close(t) \/ CloseSocket(t) \/ Join(t)
                      \/ Terminate(t) \/ Drain(t) \/ Post(t)
        PROVE WireOK'
    BY <1>7 DEF StartReader, Close, CloseSocket, Join, Terminate, Drain, Post, callVars, peerVars
  <1>8. ASSUME NEW c, \/ RegisterCheck(c) \/ SendInvalid(c) \/ SendCheck(c) \/ SendLock(c)
                      \/ SendError(c) \/ SendFailed(c) \/ TakeReply(c) \/ Expired(c)
                      \/ Finish(c) \/ CallBegin(c) \/ SendBegin(c) \/ Expire(c)
        PROVE WireOK'
    BY <1>8 DEF RegisterCheck, SendInvalid, SendCheck, SendLock, SendError, SendFailed,
                TakeReply, Expired, Finish, CallBegin, SendBegin, Expire, callVars, peerVars
  <1>9. ASSUME NEW r, \/ Recv(r) \/ RecvCheck(r) \/ Get(r) \/ GetNowaitEmpty(r) \/ GetExpired(r)
                      \/ GetExpire(r) \/ RecvBegin(r) \/ RunBegin(r)
        PROVE WireOK'
    BY <1>9 DEF Recv, RecvCheck, Get, GetNowaitEmpty, GetExpired, GetExpire, RecvBegin,
                RunBegin, callVars, peerVars
  <1>10. ASSUME ReaderRuns \/ ReaderLoop \/ ReadEof \/ ReadError \/ Dispatch \/ Enqueue
         PROVE WireOK'
    BY <1>10 DEF ReaderRuns, ReaderLoop, ReadEof, ReadError, Dispatch, Enqueue, callVars, peerVars
  <1>11. CASE UNCHANGED vars
    BY <1>11 DEF vars, callVars, peerVars
  <1>12. ASSUME Peer PROVE WireOK'
    BY <1>12, <1>4, <1>5, <1>6 DEF Peer, PeerSend
  <1> QED
    BY <1>1, <1>2, <1>3, <1>7, <1>8, <1>9, <1>10, <1>11, <1>12
    DEF Next, CallerStep, ReaderStep, CloserStep, ConsumerStep, Choice

\* MsysClient keeps its types: every thread is at a place of its own code, ids
\* are those handed out, and only requests that were sent are answered.
THEOREM TypeCorrect == Spec => []TypeOK
  <1>1. TypeOK /\ [Next]_vars => TypeOK'
    BY PcStep, CallStep, RecvStep, WireStep DEF TypeOK
  <1> QED
    BY TypeInit, <1>1, PTL DEF Spec
-----------------------------------------------------------------------------
(* The inductive invariant *)

\* The conjuncts of IInv beyond the types.
Rest == /\ LockHeld /\ IdsInCalls /\ NoLeak /\ ClosingOrder
        /\ Served /\ SlotsTrue /\ RepliesTrue /\ TimeoutHonest

LEMMA InvInit == Init => IInv
  <1> SUFFICES ASSUME Init PROVE IInv
    OBVIOUS
  <1>1. TypeOK
    BY TypeInit
  <1>2. LockHeld /\ IdsInCalls /\ NoLeak /\ Served
    BY ThreadAssumption DEF Init, LockHeld, IdsInCalls, NoLeak, Served, Thread
  <1>3. ClosingOrder /\ TimeoutHonest
    BY ThreadAssumption DEF Init, ClosingOrder, Drained, closed, TimeoutHonest, Thread
  <1>4. SlotsTrue /\ RepliesTrue
    BY DEF Init, SlotsTrue, RepliesTrue, Eof
  <1> QED
    BY <1>1, <1>2, <1>3, <1>4 DEF IInv

\* A caller that takes its item empties one waiter at most.
LEMMA SlotEmptied ==
  ASSUME CallOK, NEW i, slot' = [slot EXCEPT ![i] = Nothing] \/ slot' = slot
  PROVE  \A j \in 1..(nextId - 1) : slot'[j] = slot[j] \/ slot'[j] = Nothing
  BY DEF CallOK

LEMMA CallerInv ==
  ASSUME IInv, TypeOK', NEW c \in Caller, CallerStep(c) \/ CallBegin(c) \/ SendBegin(c) \/ Expire(c),
         ~Terminate(c), ~Drain(c), ~Post(c)
  PROVE  Rest'
  <1> USE ThreadAssumption
      DEF IInv, Rest, TypeOK, PcOK, CallOK, Thread, Goto, closed, Drained, Cause,
          callVars, readVars, peerVars
  <1> USE DEF LockHeld, IdsInCalls, NoLeak, ClosingOrder, Served, SlotsTrue, RepliesTrue, TimeoutHonest
  <1>1. CASE StartReader(c)
    BY <1>1 DEF StartReader
  <1>2. CASE RegisterCheck(c)
    <2>1. LockHeld' /\ IdsInCalls' /\ NoLeak'
      BY <1>2 DEF RegisterCheck, HoldLock, Fail, TimedOut
    <2>2. ClosingOrder'
      BY <1>2 DEF RegisterCheck, HoldLock, Fail, TimedOut
    <2>3. Served' /\ RepliesTrue'
      BY <1>2 DEF RegisterCheck, HoldLock, Fail, TimedOut
    <2>4. SlotsTrue'
      BY <1>2 DEF RegisterCheck, HoldLock, Fail, TimedOut
    <2>5. TimeoutHonest'
      BY <1>2 DEF RegisterCheck, HoldLock, Fail, TimedOut
    <2> QED
      BY <2>1, <2>2, <2>3, <2>4, <2>5
  <1>3. CASE Register(c)
    BY <1>3 DEF Register, NewId, Nothing
  <1>4. CASE SendInvalid(c)
    BY <1>4 DEF SendInvalid, Leave, Invalid, TimedOut
  <1>5. CASE SendCheck(c)
    <2>1. LockHeld' /\ IdsInCalls' /\ NoLeak'
      BY <1>5 DEF SendCheck, Leave, Fail, TimedOut
    <2>2. ClosingOrder'
      BY <1>5 DEF SendCheck, Leave, Fail, TimedOut
    <2>3. Served' /\ RepliesTrue'
      BY <1>5 DEF SendCheck, Leave, Fail, TimedOut
    <2>4. SlotsTrue'
      BY <1>5 DEF SendCheck, Leave, Fail, TimedOut
    <2>5. TimeoutHonest'
      BY <1>5 DEF SendCheck, Leave, Fail, TimedOut
    <2> QED
      BY <2>1, <2>2, <2>3, <2>4, <2>5
  <1>6. CASE SendLock(c)
    <2>1. LockHeld' /\ IdsInCalls' /\ NoLeak'
      BY <1>6 DEF SendLock, Leave, Fail, TimedOut
    <2>2. ClosingOrder'
      BY <1>6 DEF SendLock, Leave, Fail, TimedOut
    <2>3. Served' /\ RepliesTrue'
      BY <1>6 DEF SendLock, Leave, Fail, TimedOut
    <2>4. SlotsTrue'
      BY <1>6 DEF SendLock, Leave, Fail, TimedOut
    <2>5. TimeoutHonest'
      BY <1>6 DEF SendLock, Leave, Fail, TimedOut
    <2> QED
      BY <2>1, <2>2, <2>3, <2>4, <2>5
  <1>7. CASE SendAll(c)
    BY <1>7 DEF SendAll
  <1>8. CASE SendError(c)
    BY <1>8 DEF SendError
  <1>9. CASE SendFailed(c)
    BY <1>9 DEF SendFailed, Leave, Fail, TimedOut
  <1>10. CASE TakeReply(c)
    <2>0. /\ pc' = [pc EXCEPT ![c] = "finish"] /\ result' = [result EXCEPT ![c] = slot[req[c]]]
          /\ slot' = [slot EXCEPT ![req[c]] = Nothing] /\ UNCHANGED <<req, pending>>
          /\ pc[c] = "wait"
      BY <1>10 DEF TakeReply, Leave
    <2>1. LockHeld' /\ IdsInCalls' /\ NoLeak'
      BY <1>10 DEF TakeReply, Leave, Nothing, TimedOut, Reply, Fail
    <2>2. ClosingOrder'
      BY <1>10 DEF TakeReply, Leave, Nothing, TimedOut, Reply, Fail
    <2>3. Served' /\ RepliesTrue'
      BY <1>10 DEF TakeReply, Leave, Nothing, TimedOut, Reply, Fail
    <2>7. UNCHANGED <<terminal, nextId, answered>>
      BY <1>10 DEF TakeReply
    <2>4. SlotsTrue'
      BY <2>0, <2>7, SlotEmptied
    <2>6. slot[req[c]] # TimedOut
      BY <1>10 DEF TakeReply, Nothing, TimedOut, Reply, Fail
    <2>5. TimeoutHonest'
      BY <2>0, <2>6
    <2> QED
      BY <2>1, <2>2, <2>3, <2>4, <2>5
  <1>11. CASE Expired(c)
    <2>0. /\ req[c] # 0 /\ pc[c] = "expired" /\ pc' = [pc EXCEPT ![c] = "finish"]
          /\ UNCHANGED <<req, pendingLock, terminal, cause>> /\ pending' \subseteq pending
      BY <1>11 DEF Expired, Unregistered, Leave
    <2>1. LockHeld' /\ IdsInCalls' /\ NoLeak'
      BY <2>0
    <2>7. ClosingOrder'
      BY <2>0
    <2>2. Served' /\ RepliesTrue'
      BY <1>11 DEF Expired, LateItem, Unregistered, Leave
    <2>3. UNCHANGED <<terminal, nextId, answered>>
      BY <1>11 DEF Expired
    <2>4. \A i \in 1..(nextId - 1) : slot'[i] = slot[i] \/ slot'[i] = Nothing
      <3>1. slot' = [slot EXCEPT ![req[c]] = Nothing] \/ slot' = slot
        BY <1>11 DEF Expired
      <3> QED
        BY <3>1, SlotEmptied
    <2>5. SlotsTrue'
      BY <2>3, <2>4
    <2>6. TimeoutHonest'
      BY <1>11 DEF Expired, LateItem, Unregistered, Leave, TimedOut, Reply, Fail
    <2> QED
      BY <2>1, <2>2, <2>5, <2>6, <2>7
  <1>12. CASE Finish(c)
    BY <1>12 DEF Finish, Unregistered
  <1>13. CASE CallBegin(c) \/ SendBegin(c) \/ Expire(c)
    <2>1. LockHeld' /\ IdsInCalls' /\ NoLeak'
      BY <1>13 DEF CallBegin, SendBegin, Expire
    <2>2. ClosingOrder'
      BY <1>13 DEF CallBegin, SendBegin, Expire
    <2>3. Served' /\ RepliesTrue'
      BY <1>13 DEF CallBegin, SendBegin, Expire
    <2>4. SlotsTrue'
      BY <1>13 DEF CallBegin, SendBegin, Expire
    <2>5. TimeoutHonest'
      BY <1>13 DEF CallBegin, SendBegin, Expire
    <2> QED
      BY <2>1, <2>2, <2>3, <2>4, <2>5
  <1> QED
    BY <1>1, <1>2, <1>3, <1>4, <1>5, <1>6, <1>7, <1>8, <1>9, <1>10, <1>11, <1>12, <1>13 DEF CallerStep

LEMMA TerminateInv ==
  ASSUME IInv, TypeOK', NEW t \in Caller \cup Closer \cup {Reader},
         Terminate(t) \/ Drain(t) \/ Post(t)
  PROVE  Rest'
  <1> USE ThreadAssumption
      DEF IInv, Rest, TypeOK, PcOK, CallOK, Thread, Goto, closed, Drained, Cause,
          callVars, readVars, peerVars
  <1> USE DEF LockHeld, IdsInCalls, NoLeak, ClosingOrder, Served, SlotsTrue, RepliesTrue, TimeoutHonest
  <1>1. CASE Terminate(t)
    <2>1. LockHeld' /\ IdsInCalls' /\ NoLeak'
      BY <1>1 DEF Terminate, FirstToTerminate, Terminated, Leave, Reason, Fail, TimedOut
    <2>2. ClosingOrder'
      BY <1>1 DEF Terminate, FirstToTerminate, Terminated, Leave, Reason, Fail, TimedOut
    <2>3. Served' /\ RepliesTrue'
      BY <1>1 DEF Terminate, FirstToTerminate, Terminated, Leave, Reason, Fail, TimedOut
    <2>4. SlotsTrue'
      BY <1>1 DEF Terminate, FirstToTerminate, Terminated, Leave, Reason, Fail, TimedOut
    <2>5. TimeoutHonest'
      BY <1>1 DEF Terminate, FirstToTerminate, Terminated, Leave, Reason, Fail, TimedOut
    <2> QED
      BY <2>1, <2>2, <2>3, <2>4, <2>5
  <1>2. CASE Drain(t)
    <2>1. LockHeld' /\ IdsInCalls' /\ NoLeak'
      BY <1>2 DEF Drain, FailedSlots, Nothing, Reason, Fail, TimedOut
    <2>2. ClosingOrder'
      BY <1>2 DEF Drain, FailedSlots, Nothing, Reason, Fail, TimedOut
    <2>3. Served' /\ RepliesTrue'
      BY <1>2 DEF Drain, FailedSlots, Nothing, Reason, Fail, TimedOut
    <2>4. SlotsTrue'
      BY <1>2 DEF Drain, FailedSlots, Nothing, Reason, Fail, TimedOut
    <2>5. TimeoutHonest'
      BY <1>2 DEF Drain, FailedSlots, Nothing, Reason, Fail, TimedOut
    <2> QED
      BY <2>1, <2>2, <2>3, <2>4, <2>5
  <1>3. CASE Post(t)
    <2>1. LockHeld' /\ IdsInCalls' /\ NoLeak'
      BY <1>3 DEF Post, Terminated, Leave, Eof, Fail, TimedOut
    <2>2. ClosingOrder'
      BY <1>3 DEF Post, Terminated, Leave, Eof, Fail, TimedOut
    <2>3. Served' /\ RepliesTrue'
      BY <1>3 DEF Post, Terminated, Leave, Eof, Fail, TimedOut
    <2>4. SlotsTrue'
      BY <1>3 DEF Post, Terminated, Leave, Eof, Fail, TimedOut
    <2>5. TimeoutHonest'
      BY <1>3 DEF Post, Terminated, Leave, Eof, Fail, TimedOut
    <2> QED
      BY <2>1, <2>2, <2>3, <2>4, <2>5
  <1> QED
    BY <1>1, <1>2, <1>3

LEMMA ReaderInv ==
  ASSUME IInv, TypeOK', ReaderStep,
         ~Terminate(Reader), ~Drain(Reader), ~Post(Reader)
  PROVE  Rest'
  <1> USE ThreadAssumption
      DEF IInv, Rest, TypeOK, PcOK, CallOK, Thread, Goto, closed, Drained, Cause,
          callVars, readVars, peerVars
  <1> USE DEF LockHeld, IdsInCalls, NoLeak, ClosingOrder, Served, SlotsTrue, RepliesTrue, TimeoutHonest
  <1>1. CASE ReaderRuns \/ ReaderLoop
    <2>1. LockHeld' /\ IdsInCalls' /\ NoLeak' /\ Served' /\ TimeoutHonest'
      BY <1>1 DEF ReaderRuns, ReaderLoop
    <2>2. ClosingOrder'
      BY <1>1 DEF ReaderRuns, ReaderLoop
    <2>3. SlotsTrue'
      BY <1>1 DEF ReaderRuns, ReaderLoop
    <2>4. RepliesTrue'
      BY <1>1 DEF ReaderRuns, ReaderLoop
    <2> QED
      BY <2>1, <2>2, <2>3, <2>4
  <1>2. CASE ReadRecord
    <2>1. LockHeld' /\ IdsInCalls' /\ NoLeak' /\ Served' /\ TimeoutHonest'
      BY <1>2 DEF ReadRecord, WireOK
    <2>2. ClosingOrder'
      BY <1>2 DEF ReadRecord, WireOK
    <2>3. SlotsTrue'
      BY <1>2 DEF ReadRecord, WireOK
    <2>4. RepliesTrue'
      BY <1>2 DEF ReadRecord, WireOK
    <2> QED
      BY <2>1, <2>2, <2>3, <2>4
  <1>3. CASE ReadEof \/ ReadError
    <2>1. LockHeld' /\ IdsInCalls' /\ NoLeak' /\ Served' /\ TimeoutHonest'
      BY <1>3 DEF ReadEof, ReadError
    <2>2. ClosingOrder'
      BY <1>3 DEF ReadEof, ReadError
    <2>3. SlotsTrue'
      BY <1>3 DEF ReadEof, ReadError
    <2>4. RepliesTrue'
      BY <1>3 DEF ReadEof, ReadError
    <2> QED
      BY <2>1, <2>2, <2>3, <2>4
  <1>4. CASE Dispatch
    <2>1. UNCHANGED <<terminal, pendingLock, pending, nextId, req, result, cause, in, answered>>
      BY <1>4 DEF Dispatch
    <2>2. LockHeld' /\ IdsInCalls' /\ NoLeak' /\ ClosingOrder'
      BY <1>4, <2>1 DEF Dispatch
    <2>3. RepliesTrue'
      BY <1>4, <2>1 DEF Dispatch, Eof
    <2>4. CASE UNCHANGED slot
      BY <1>4, <2>1, <2>2, <2>3, <2>4 DEF Dispatch
    <2>5. CASE slot' # slot
      <3>1. /\ hand.id \in pending /\ hand.id \in answered /\ hand.id \in 1..(nextId - 1)
            /\ slot' = [slot EXCEPT ![hand.id] = Reply(hand.id)]
        BY <1>4, <2>5 DEF Dispatch
      <3>2. Reply(hand.id) # Nothing
        BY DEF Reply, Nothing
      <3>3. Served'
        BY <1>4, <2>1, <3>1, <3>2 DEF Dispatch
      <3>4. SlotsTrue'
        BY <2>1, <3>1, <3>2
      <3>5. TimeoutHonest'
        BY <1>4, <2>1, <3>1 DEF Dispatch
      <3> QED
        BY <2>2, <2>3, <3>3, <3>4, <3>5
    <2> QED
      BY <2>4, <2>5
  <1>5. CASE Enqueue
    <2>1. LockHeld' /\ IdsInCalls' /\ NoLeak' /\ Served' /\ TimeoutHonest'
      BY <1>5 DEF Enqueue, Eof
    <2>2. ClosingOrder'
      BY <1>5 DEF Enqueue, Eof
    <2>3. SlotsTrue'
      BY <1>5 DEF Enqueue, Eof
    <2>4. RepliesTrue'
      BY <1>5 DEF Enqueue, Eof
    <2> QED
      BY <2>1, <2>2, <2>3, <2>4
  <1>6. CASE CloseSocket(Reader)
    <2>1. LockHeld' /\ IdsInCalls' /\ NoLeak' /\ Served' /\ TimeoutHonest'
      BY <1>6 DEF CloseSocket
    <2>2. ClosingOrder'
      BY <1>6 DEF CloseSocket
    <2>3. SlotsTrue'
      BY <1>6 DEF CloseSocket
    <2>4. RepliesTrue'
      BY <1>6 DEF CloseSocket
    <2> QED
      BY <2>1, <2>2, <2>3, <2>4
  <1> QED
    BY <1>1, <1>2, <1>3, <1>4, <1>5, <1>6 DEF ReaderStep

LEMMA OtherInv ==
  ASSUME IInv, TypeOK', NEW t \in Closer \cup Consumer,
         \/ Close(t) \/ CloseSocket(t) \/ Join(t) \/ ConsumerStep(t)
         \/ RecvBegin(t) \/ RunBegin(t) \/ GetExpire(t)
  PROVE  Rest'
  <1> USE ThreadAssumption
      DEF IInv, Rest, TypeOK, PcOK, CallOK, Thread, Goto, closed, Drained, Cause,
          callVars, readVars, peerVars
  <1> USE DEF LockHeld, IdsInCalls, NoLeak, ClosingOrder, Served, SlotsTrue, RepliesTrue, TimeoutHonest
  <1>1. CASE Close(t) \/ CloseSocket(t) \/ Join(t)
    <2>1. LockHeld' /\ IdsInCalls' /\ NoLeak' /\ Served' /\ TimeoutHonest'
      BY <1>1 DEF Close, CloseSocket, Join
    <2>2. ClosingOrder'
      BY <1>1 DEF Close, CloseSocket, Join
    <2>3. SlotsTrue'
      BY <1>1 DEF Close, CloseSocket, Join
    <2>4. RepliesTrue'
      BY <1>1 DEF Close, CloseSocket, Join
    <2> QED
      BY <2>1, <2>2, <2>3, <2>4
  <1>2. CASE StartReader(t)
    <2>5. /\ \A c \in Caller : pc'[c] = pc[c]
          /\ UNCHANGED <<pendingLock, pending, slot, req, result, nextId>>
      BY <1>2 DEF StartReader
    <2>1. LockHeld' /\ IdsInCalls' /\ NoLeak' /\ Served' /\ TimeoutHonest'
      BY <2>5
    <2>2. ClosingOrder'
      BY <1>2 DEF StartReader
    <2>3. SlotsTrue'
      BY <1>2 DEF StartReader
    <2>4. RepliesTrue'
      BY <1>2 DEF StartReader
    <2> QED
      BY <2>1, <2>2, <2>3, <2>4
  <1>3. CASE Recv(t) \/ RecvCheck(t) \/ RecvBegin(t) \/ RunBegin(t) \/ GetExpire(t)
    <2>1. LockHeld' /\ IdsInCalls' /\ NoLeak' /\ Served' /\ TimeoutHonest'
      BY <1>3 DEF Recv, RecvCheck, RecvBegin, RunBegin, GetExpire
    <2>2. ClosingOrder'
      BY <1>3 DEF Recv, RecvCheck, RecvBegin, RunBegin, GetExpire
    <2>3. SlotsTrue'
      BY <1>3 DEF Recv, RecvCheck, RecvBegin, RunBegin, GetExpire
    <2>4. RepliesTrue'
      BY <1>3 DEF Recv, RecvCheck, RecvBegin, RunBegin, GetExpire
    <2> QED
      BY <2>1, <2>2, <2>3, <2>4
  <1>4. CASE Get(t) \/ GetNowaitEmpty(t) \/ GetExpired(t)
    <2>1. LockHeld' /\ IdsInCalls' /\ NoLeak' /\ Served' /\ TimeoutHonest'
      BY <1>4 DEF Get, GetNowaitEmpty, GetExpired, Deliver
    <2>2. ClosingOrder'
      BY <1>4 DEF Get, GetNowaitEmpty, GetExpired, Deliver
    <2>3. SlotsTrue'
      BY <1>4 DEF Get, GetNowaitEmpty, GetExpired, Deliver
    <2>4. RepliesTrue'
      BY <1>4 DEF Get, GetNowaitEmpty, GetExpired, Deliver
    <2> QED
      BY <2>1, <2>2, <2>3, <2>4
  <1> QED
    BY <1>1, <1>2, <1>3, <1>4 DEF ConsumerStep

LEMMA PeerInv ==
  ASSUME IInv, TypeOK', Peer \/ UNCHANGED vars PROVE Rest'
  <1> USE DEF IInv, Rest, TypeOK, CallOK, closed, Drained, Cause, callVars, readVars, peerVars
  <1> USE DEF LockHeld, IdsInCalls, NoLeak, ClosingOrder, Served, SlotsTrue, RepliesTrue, TimeoutHonest
  <1>1. CASE PeerRead \/ PeerClose \/ UNCHANGED vars
    BY <1>1 DEF PeerRead, PeerClose, vars
  <1>2. ASSUME NEW type \in PeerKind, NEW i \in seen \cup {0}, PeerSend(type, i),
               type = "return" => i # 0
        PROVE  Rest'
    <2>1. UNCHANGED <<pc, terminal, callVars, readVars>> /\ answered \subseteq answered'
      BY <1>2 DEF PeerSend
    <2>2. RepliesTrue'
      <3> DEFINE rec == [type |-> type, id |-> i, n |-> nSent + 1]
      <3>1. in' = Append(in, rec) /\ (i # 0 => i \in answered')
        BY <1>2 DEF PeerSend
      <3>2. ASSUME NEW j \in 1..Len(in'), in'[j].type = "return"
            PROVE  in'[j].id \in answered'
        <4>1. CASE j = Len(in) + 1
          <5>1. in'[j] = rec
            BY <3>1, <4>1 DEF WireOK
          <5> QED
            BY <5>1, <3>1, <3>2, <1>2
        <4>2. CASE j # Len(in) + 1
          <5>1. j \in 1..Len(in) /\ in'[j] = in[j]
            BY <3>1, <3>2, <4>2 DEF WireOK
          <5> QED
            BY <5>1, <3>2, <2>1
        <4> QED
          BY <4>1, <4>2
      <3> QED
        BY <3>2, <2>1
    <2> QED
      BY <2>1, <2>2
  <1> QED
    <2>1. 0 \notin seen
      BY DEF WireOK
    <2>2. ASSUME NEW type \in {"event", "empty", "shutdown", "malformed"}, PeerSend(type, 0)
          PROVE  Rest'
      BY <2>2, <1>2 DEF PeerSend
    <2>3. ASSUME NEW i \in seen, PeerSend("return", i)
          PROVE  Rest'
      BY <2>1, <2>3, <1>2 DEF PeerSend
    <2> QED
      BY <1>1, <2>2, <2>3 DEF Peer

LEMMA InvStep == IInv /\ [Next]_vars => IInv'
  <1> SUFFICES ASSUME IInv, [Next]_vars PROVE IInv'
    OBVIOUS
  <1>1. TypeOK'
    BY PcStep, CallStep, RecvStep, WireStep DEF TypeOK, IInv
  <1>2. Rest'
    BY <1>1, CallerInv, TerminateInv, ReaderInv, OtherInv, PeerInv
    DEF Next, Choice, CallerStep, ReaderStep, CloserStep
  <1> QED
    BY <1>1, <1>2 DEF IInv, Rest

\* The inductive invariant of MsysClient.
THEOREM Inductive == Spec => []IInv
  BY InvInit, InvStep, PTL DEF Spec

\* No call is stranded by a termination, however it interleaves with
\* registrations, replies and timeouts.
THEOREM NeverStranded == Spec => []NoStrandedCall
  <1>1. IInv => NoStrandedCall
    BY DEF IInv, NoStrandedCall, ClosingOrder, Drained, Served, IdsInCalls
  <1> QED
    BY Inductive, <1>1, PTL

\* A call that reports a timeout left no reply behind and no waiter for one.
THEOREM HonestTimeouts == Spec => []TimeoutHonest
  <1>1. IInv => TimeoutHonest
    BY DEF IInv
  <1> QED
    BY Inductive, <1>1, PTL

\* The pending table holds the calls in progress and nothing else.
THEOREM PendingOwned == Spec => []NoLeak
  <1>1. IInv => NoLeak
    BY DEF IInv
  <1> QED
    BY Inductive, <1>1, PTL
-----------------------------------------------------------------------------
(* Every step of MsysClient is a step of Rpc, or none *)

LEMMA RpcInit == Init => R!Init
  BY ThreadAssumption DEF Init, R!Init, Fresh, Active, Thread, R!Nothing, Nothing

\* What callers see of each other depends on two places only.
SamePlaces ==
    \A c \in Caller : /\ pc'[c] = "register" <=> pc[c] = "register"
                      /\ pc'[c] = "finish" <=> pc[c] = "finish"

LEMMA SameView ==
  ASSUME UNCHANGED <<nextId, req>>, SamePlaces
  PROVE  Fresh' = Fresh /\ Active' = Active
  <1> USE DEF SamePlaces
  <1>1. Fresh' = Fresh
    BY DEF Fresh
  <1>2. ASSUME NEW c \in Caller
        PROVE  (IF pc'[c] = "register" THEN nextId' ELSE IF pc'[c] = "finish" THEN 0 ELSE req'[c])
               = (IF pc[c] = "register" THEN nextId ELSE IF pc[c] = "finish" THEN 0 ELSE req[c])
    OBVIOUS
  <1>3. Active' = Active
    BY <1>2 DEF Active
  <1> QED
    BY <1>1, <1>3

\* A thread that moves between places where no call begins or ends.
LEMMA RpcStutter ==
  ASSUME IInv, NEW t \in Thread, NEW l, Moves(t, {l}),
         pc[t] \notin {"register", "finish"}, l \notin {"register", "finish"},
         UNCHANGED <<terminal, nextId, req, result, answered>>
  PROVE  UNCHANGED <<terminal, Fresh, Active, answered, result>>
  <1>1. SamePlaces
    BY DEF SamePlaces, Moves, IInv, TypeOK, PcOK, Thread
  <1>2. UNCHANGED <<nextId, req>>
    OBVIOUS
  <1>3. Fresh' = Fresh /\ Active' = Active
    BY <1>1, <1>2, SameView
  <1> QED
    BY <1>3

\* A call that ends with an outcome it may have.
LEMMA RpcEnd ==
  ASSUME IInv, NEW c \in Caller, req[c] # 0, pc[c] \notin {"register", "finish"},
         Moves(c, {"finish"}), NEW o \in R!Possible(c), result' = [result EXCEPT ![c] = o],
         UNCHANGED <<terminal, nextId, req, answered>>
  PROVE  R!End(c)
  <1>1. /\ pc'[c] = "finish"
        /\ \A d \in Caller \ {c} : pc'[d] = pc[d]
    BY DEF Moves, IInv, TypeOK, PcOK, Thread
  <1>2. Active[c] = req[c] /\ Active' = [Active EXCEPT ![c] = 0]
    BY <1>1 DEF Active
  <1>3. UNCHANGED Fresh
    BY <1>1 DEF Fresh
  <1> QED
    BY <1>2, <1>3 DEF R!End

\* How a caller leaves send() or call().
LEMMA RpcLeave ==
  ASSUME IInv, NEW c \in Caller, pc[c] \notin {"register", "finish"}, NEW o, Leave(c, o),
         req[c] # 0 => o \in R!Possible(c),
         UNCHANGED <<terminal, nextId, req, answered>>
  PROVE  R!End(c) \/ UNCHANGED <<terminal, Fresh, Active, answered, result>>
  <1>1. CASE req[c] = 0
    <2>1. Moves(c, {"idle"})
      BY <1>1 DEF Leave, Goto, Moves
    <2> QED
      BY <1>1, <2>1, RpcStutter DEF Leave, Thread
  <1>2. CASE req[c] # 0
    <2>1. Moves(c, {"finish"})
      BY <1>2 DEF Leave, Goto, Moves
    <2> QED
      BY <1>2, <2>1, RpcEnd DEF Leave
  <1> QED
    BY <1>1, <1>2

LEMMA PossibleOutcomes ==
  ASSUME IInv, NEW c \in Caller, pc[c] \notin {"register", "finish"}
  PROVE  /\ TimedOut \in R!Possible(c) /\ Invalid \in R!Possible(c)
         /\ closed => Fail(terminal) \in R!Possible(c) /\ Fail("send") \in R!Possible(c)
         /\ req[c] # 0 /\ slot[req[c]] # Nothing => slot[req[c]] \in R!Possible(c)
  <1>1. Active[c] = req[c]
    BY DEF Active
  <1>2. req[c] # 0 => req[c] \in 1..(nextId - 1)
    BY DEF IInv, TypeOK, CallOK
  <1> QED
    BY <1>1, <1>2
    DEF R!Possible, R!TimedOut, R!Invalid, R!Fail, R!Reply, TimedOut, Invalid, Fail, Reply,
        closed, IInv, SlotsTrue

View == <<terminal, Fresh, Active, answered, result>>

LEMMA RpcCaller ==
  ASSUME IInv, NEW c \in Caller, CallerStep(c) \/ CallBegin(c) \/ SendBegin(c) \/ Expire(c)
  PROVE  R!Next \/ UNCHANGED View
  <1> USE DEF peerVars, View
  <1>0. c \in Thread
    BY DEF Thread
  <1>1. CASE StartReader(c)
    <2>1. SamePlaces
      BY <1>1, ThreadAssumption DEF SamePlaces, StartReader, IInv, TypeOK, PcOK, Thread
    <2> QED
      BY <1>1, <2>1, SameView DEF StartReader, callVars
  <1>2. CASE RegisterCheck(c) /\ ~closed
    <2>1. \A d \in Caller : pc[d] # "register"
      BY <1>2, ThreadAssumption DEF RegisterCheck, IInv, LockHeld, Thread
    <2>2. pc'[c] = "register" /\ \A d \in Caller \ {c} : pc'[d] = pc[d]
      BY <1>2 DEF RegisterCheck, Goto, IInv, TypeOK, PcOK, Thread
    <2>3. req[c] = 0 /\ pc[c] = "registerCheck"
      BY <1>2 DEF RegisterCheck, IInv, IdsInCalls
    <2>4. Fresh = nextId /\ Fresh' = nextId + 1
      BY <1>2, <2>1, <2>2 DEF Fresh, RegisterCheck
    <2>5. Active[c] = 0 /\ Active' = [Active EXCEPT ![c] = nextId]
      BY <1>2, <2>1, <2>2, <2>3 DEF Active, RegisterCheck
    <2>6. R!Begin(c)
      BY <1>2, <2>4, <2>5 DEF RegisterCheck, R!Begin, closed
    <2> QED
      BY <2>6 DEF R!Next
  <1>3. CASE RegisterCheck(c) /\ closed
    <2>1. req[c] = 0 /\ pc[c] = "registerCheck"
      BY <1>3 DEF RegisterCheck, IInv, IdsInCalls
    <2>2. /\ pc'[c] = "idle"
          /\ \A d \in Caller \ {c} : pc'[d] = pc[d]
      BY <1>3 DEF RegisterCheck, Goto, IInv, TypeOK, PcOK, Thread
    <2>3. UNCHANGED <<Fresh, Active>> /\ Active[c] = 0
      BY <1>3, <2>1, <2>2 DEF RegisterCheck, Fresh, Active
    <2>4. R!Reject(c)
      BY <1>3, <2>3 DEF RegisterCheck, R!Reject, closed, R!Fail, Fail
    <2> QED
      BY <2>4 DEF R!Next
  <1>4. CASE CallBegin(c)
    <2>1. req[c] = 0 /\ pc[c] = "idle"
      BY <1>4 DEF CallBegin, IInv, IdsInCalls
    <2>2. CASE closed
      <3>1. UNCHANGED <<Fresh, Active>> /\ Active[c] = 0
        BY <1>4, <2>1, <2>2 DEF CallBegin, Fresh, Active
      <3>2. R!Reject(c)
        BY <1>4, <2>2, <3>1 DEF CallBegin, R!Reject, closed, R!Fail, Fail
      <3> QED
        BY <3>2 DEF R!Next
    <2>3. CASE ~closed
      BY <1>0, <1>4, <2>1, <2>3, RpcStutter DEF CallBegin, Goto, Moves
    <2> QED
      BY <2>2, <2>3
  <1>5. CASE Register(c)
    <2>1. pc[c] = "register" /\ req[c] = 0 /\ \A d \in Caller \ {c} : pc[d] # "register"
      BY <1>5 DEF Register, IInv, LockHeld, IdsInCalls
    <2>2. /\ pc'[c] = "send"
          /\ \A d \in Caller \ {c} : pc'[d] = pc[d] /\ req'[d] = req[d]
      BY <1>5 DEF Register, Goto, IInv, TypeOK, PcOK, CallOK, Thread
    <2>3. req'[c] = nextId /\ nextId' = nextId + 1
      BY <1>5 DEF Register, NewId, IInv, TypeOK, CallOK
    <2>4. UNCHANGED Fresh
      BY <2>1, <2>2, <2>3 DEF Fresh
    <2>5. UNCHANGED Active
      BY <2>1, <2>2, <2>3 DEF Active
    <2> QED
      BY <1>5, <2>4, <2>5 DEF Register
  <1>6. CASE SendInvalid(c) \/ SendCheck(c) \/ SendLock(c) \/ SendFailed(c)
    <2>1. pc[c] \notin {"register", "finish"} /\ UNCHANGED <<terminal, nextId, req, answered>>
      BY <1>6 DEF SendInvalid, SendCheck, SendLock, SendFailed
    <2>2. CASE SendInvalid(c)
      <3>1. Leave(c, Invalid)
        BY <2>2 DEF SendInvalid
      <3> QED
        BY <2>1, <3>1, RpcLeave, PossibleOutcomes DEF R!Next
    <2>3. CASE closed /\ ~SendInvalid(c)
      <3>1. Leave(c, Fail(terminal))
        BY <1>6, <2>3 DEF SendCheck, SendLock, SendFailed
      <3> QED
        BY <2>1, <2>3, <3>1, RpcLeave, PossibleOutcomes DEF R!Next
    <2>4. CASE ~closed /\ ~SendInvalid(c)
      <3>1. \E l \in {"sendLock", "sendall", "terminate"} : Moves(c, {l}) /\ UNCHANGED result
        BY <1>6, <2>4 DEF SendCheck, SendLock, SendFailed, Goto, Moves
      <3> QED
        BY <1>0, <2>1, <3>1, RpcStutter
    <2> QED
      BY <2>2, <2>3, <2>4
  <1>7. CASE SendAll(c) \/ SendError(c) \/ SendBegin(c) \/ Expire(c)
    <2>1. \E l : /\ Moves(c, {l}) /\ l \notin {"register", "finish"}
                /\ pc[c] \notin {"register", "finish"}
                /\ UNCHANGED <<terminal, nextId, req, result, answered>>
      BY <1>7 DEF SendAll, SendError, SendBegin, Expire, Goto, Moves, callVars
    <2> QED
      BY <1>0, <2>1, RpcStutter
  <1>8. CASE TakeReply(c) \/ Expired(c)
    <2>1. pc[c] \notin {"register", "finish"} /\ UNCHANGED <<terminal, nextId, req, answered>>
      BY <1>8 DEF TakeReply, Expired
    <2>2. req[c] # 0
      BY <1>8 DEF TakeReply, Expired, IInv, IdsInCalls
    <2>3. (slot[req[c]] # Nothing /\ Leave(c, slot[req[c]])) \/ Leave(c, TimedOut)
      BY <1>8 DEF TakeReply, Expired, LateItem
    <2> QED
      BY <2>1, <2>2, <2>3, RpcLeave, PossibleOutcomes DEF R!Next
  <1>9. CASE Finish(c)
    <2>1. /\ pc[c] = "finish" /\ pc'[c] = "idle" /\ req'[c] = 0
          /\ \A d \in Caller \ {c} : pc'[d] = pc[d] /\ req'[d] = req[d]
      BY <1>9 DEF Finish, Goto, IInv, TypeOK, PcOK, CallOK, Thread
    <2> QED
      BY <1>9, <2>1 DEF Finish, Fresh, Active
  <1>10. CASE Terminate(c) \/ Drain(c) \/ Post(c)
    <2>1. pc[c] \notin {"register", "finish"} /\ UNCHANGED <<nextId, req, answered>>
      BY <1>10 DEF Terminate, Drain, Post
    <2>2. (Terminate(c) /\ ~closed) \/ Drain(c) => Moves(c, {"drain"}) \/ Moves(c, {"post"})
      BY DEF Terminate, FirstToTerminate, Drain, Goto, Moves
    <2>3. CASE Terminate(c) /\ ~closed
      <3>1. terminal = "none" /\ terminal' = "send"
        BY <2>3, ThreadAssumption DEF Terminate, FirstToTerminate, Cause, closed
      <3>2. SamePlaces
        BY <2>1, <2>3 DEF SamePlaces, Terminate, FirstToTerminate, Goto, IInv, TypeOK, PcOK, Thread
      <3>3. UNCHANGED <<Fresh, Active, result>>
        BY <2>1, <2>3, <3>2, SameView DEF Terminate, FirstToTerminate
      <3>4. R!Break("send")
        BY <2>1, <3>1, <3>3 DEF R!Break
      <3> QED
        BY <3>4 DEF R!Next, R!Reason
    <2>4. CASE Drain(c)
      BY <1>0, <2>1, <2>2, <2>4, RpcStutter DEF Drain
    <2>5. CASE (Terminate(c) /\ closed) \/ Post(c)
      <3>1. closed /\ UNCHANGED terminal /\ Leave(c, Fail("send"))
        BY <1>0, <2>5, ThreadAssumption
        DEF Terminate, FirstToTerminate, Terminated, Post, IInv, ClosingOrder, Cause, closed
      <3> QED
        BY <2>1, <3>1, RpcLeave, PossibleOutcomes DEF R!Next
    <2> QED
      BY <1>10, <2>3, <2>4, <2>5
  <1> QED
    BY <1>1, <1>2, <1>3, <1>4, <1>5, <1>6, <1>7, <1>8, <1>9, <1>10 DEF CallerStep

\* A thread that is no caller moves and changes nothing a caller sees.
LEMMA RpcOther ==
  ASSUME IInv, NEW t \in Thread \ Caller, NEW l, Moves(t, {l}),
         UNCHANGED <<terminal, nextId, req, result, answered>>
  PROVE  UNCHANGED View
  <1>1. SamePlaces
    BY DEF SamePlaces, Moves, IInv, TypeOK, PcOK
  <1> QED
    BY <1>1, SameView DEF View

LEMMA RpcTerminate ==
  ASSUME IInv, NEW t \in Closer \cup {Reader}, Terminate(t) \/ Drain(t) \/ Post(t)
  PROVE  R!Next \/ UNCHANGED View
  <1>1. t \in Thread \ Caller
    BY ThreadAssumption DEF Thread
  <1>2. (\E l : Moves(t, {l})) /\ UNCHANGED <<nextId, req, result, answered>>
    BY <1>1 DEF Terminate, Drain, Post, Terminated, Goto, Moves, peerVars
  <1>3. CASE UNCHANGED terminal
    BY <1>1, <1>2, <1>3, RpcOther
  <1>4. CASE terminal' # terminal
    <2>1. terminal = "none" /\ terminal' = Cause(t)
      BY <1>4 DEF Terminate, Drain, Post, FirstToTerminate, closed
    <2>2. Cause(t) \in R!Reason
      BY DEF Cause, IInv, TypeOK, CallOK, R!Reason, Reason
    <2>3. SamePlaces
      BY <1>1, <1>2 DEF SamePlaces, Moves, IInv, TypeOK, PcOK
    <2>4. R!Break(Cause(t))
      BY <1>2, <2>1, <2>3, SameView DEF R!Break
    <2> QED
      BY <2>2, <2>4 DEF R!Next
  <1> QED
    BY <1>3, <1>4

LEMMA RpcReader ==
  ASSUME IInv, ReaderStep PROVE R!Next \/ UNCHANGED View
  <1>1. CASE Terminate(Reader) \/ Drain(Reader) \/ Post(Reader)
    BY <1>1, RpcTerminate
  <1>2. CASE ~(Terminate(Reader) \/ Drain(Reader) \/ Post(Reader))
    <2>1. (\E l : Moves(Reader, {l})) /\ UNCHANGED <<terminal, nextId, req, result, answered>>
      BY <1>2 DEF ReaderStep, ReaderRuns, ReaderLoop, ReadRecord, ReadEof, ReadError, Dispatch,
                  Enqueue, CloseSocket, Goto, Moves, callVars, peerVars
    <2> QED
      BY <2>1, RpcOther, ThreadAssumption DEF Thread
  <1> QED
    BY <1>1, <1>2

LEMMA RpcCloserConsumer ==
  ASSUME IInv, NEW t \in Closer \cup Consumer,
         \/ t \in Closer /\ (Close(t) \/ CloserStep(t))
         \/ ConsumerStep(t) \/ RecvBegin(t) \/ RunBegin(t) \/ GetExpire(t)
  PROVE  R!Next \/ UNCHANGED View
  <1>0. t \in Thread \ Caller
    BY ThreadAssumption DEF Thread
  <1>1. CASE t \in Closer /\ (Terminate(t) \/ Drain(t) \/ Post(t))
    BY <1>1, RpcTerminate
  <1>2. CASE StartReader(t)
    <2>1. SamePlaces
      BY <1>0, <1>2, ThreadAssumption DEF SamePlaces, StartReader, IInv, TypeOK, PcOK, Thread
    <2> QED
      BY <1>2, <2>1, SameView DEF StartReader, callVars, peerVars, View
  <1>3. CASE \/ Close(t) \/ CloseSocket(t) \/ Join(t) \/ Recv(t) \/ RecvCheck(t) \/ Get(t)
             \/ GetNowaitEmpty(t) \/ GetExpired(t) \/ RecvBegin(t) \/ RunBegin(t) \/ GetExpire(t)
    <2>1. (\E l : Moves(t, {l})) /\ UNCHANGED <<terminal, nextId, req, result, answered>>
      BY <1>3 DEF Close, CloseSocket, Join, Recv, RecvCheck, Get, GetNowaitEmpty, GetExpired,
                  RecvBegin, RunBegin, GetExpire, Deliver, Goto, Moves, callVars, peerVars
    <2> QED
      BY <1>0, <2>1, RpcOther
  <1> QED
    BY <1>1, <1>2, <1>3 DEF CloserStep, ConsumerStep

LEMMA RpcPeer ==
  ASSUME IInv, Peer PROVE R!Next \/ UNCHANGED View
  <1>1. SamePlaces /\ UNCHANGED <<terminal, nextId, req, result>>
    BY DEF Peer, PeerRead, PeerClose, PeerSend, SamePlaces, callVars
  <1>2. UNCHANGED <<Fresh, Active>>
    BY <1>1, SameView
  <1>3. CASE UNCHANGED answered
    BY <1>1, <1>2, <1>3 DEF View
  <1>4. CASE answered' # answered
    <2>1. PICK i \in seen : PeerSend("return", i)
      BY <1>4 DEF Peer, PeerRead, PeerClose, PeerSend
    <2>2. i \in 1..(Fresh - 1) /\ i < Fresh /\ answered' = answered \cup {i}
      BY <2>1 DEF PeerSend, Fresh, IInv, TypeOK, WireOK, CallOK
    <2>3. R!Answer(i)
      BY <1>1, <1>2, <2>2 DEF R!Answer
    <2> QED
      BY <2>2, <2>3 DEF R!Next
  <1> QED
    BY <1>3, <1>4

LEMMA RpcStep == IInv /\ [Next]_vars => [R!Next]_(R!rpcVars)
  <1> SUFFICES ASSUME IInv, [Next]_vars PROVE R!Next \/ UNCHANGED View
    BY DEF View, R!rpcVars
  <1>1. CASE UNCHANGED vars
    <2>1. SamePlaces /\ UNCHANGED <<terminal, nextId, req, result, answered>>
      BY <1>1 DEF vars, callVars, peerVars, SamePlaces
    <2> QED
      BY <2>1, SameView DEF View
  <1>2. CASE Next
    BY <1>2, RpcCaller, RpcReader, RpcCloserConsumer, RpcPeer DEF Next, Choice
  <1> QED
    BY <1>1, <1>2

\* MsysClient implements Rpc: with threads, locks, queues and any interleaving
\* of replies, timeouts and terminations, every call has an id of its own and one
\* outcome that Rpc allows.
THEOREM Refinement == Spec => ImplementsRpc
  BY RpcInit, RpcStep, Inductive, PTL DEF Spec, ImplementsRpc, R!Spec
-----------------------------------------------------------------------------
(* The event queue: order and end *)

LEMMA SeqPlaces ==
  ASSUME NEW S, NEW s \in Seq(S)
  PROVE  /\ \A x \in S : /\ Len(Append(s, x)) = Len(s) + 1
                        /\ Append(s, x)[Len(s) + 1] = x
                        /\ \A j \in 1..Len(s) : Append(s, x)[j] = s[j]
         /\ s # <<>> => /\ Len(s) \in Nat \ {0} /\ Head(s) = s[1]
                        /\ Len(Tail(s)) = Len(s) - 1
                        /\ \A j \in 1..(Len(s) - 1) : Tail(s)[j] = s[j + 1]
         /\ DOMAIN s = 1..Len(s) /\ Len(s) \in Nat
         /\ \A j \in 1..Len(s) : s[j] \in S
  OBVIOUS

\* The variables that hold records, and the steps that move one.
wayVars == <<inbox, hand, in, lastSeq, nSent>>

LEMMA RecordSteps ==
  ASSUME [Next]_vars
  PROVE  \/ \E t \in Thread : Post(t)
         \/ Enqueue \/ ReadRecord \/ Dispatch
         \/ \E r \in Consumer : Get(r)
         \/ \E type \in PeerKind, i \in seen \cup {0} : PeerSend(type, i)
         \/ UNCHANGED wayVars
  <1> USE DEF wayVars
  <1>1. ASSUME NEW t, StartReader(t) \/ Recv(t) \/ RecvCheck(t) \/ GetExpire(t)
                       \/ CallBegin(t) \/ SendBegin(t) \/ Expire(t) \/ Close(t)
                       \/ CloseSocket(t) \/ Join(t) \/ Terminate(t) \/ Drain(t)
        PROVE UNCHANGED wayVars
    BY <1>1 DEF StartReader, Recv, RecvCheck, GetExpire, CallBegin, SendBegin, Expire, Close,
                CloseSocket, Join, Terminate, Drain, recvVars, readVars, peerVars
  <1>2. ASSUME NEW c, \/ RegisterCheck(c) \/ Register(c) \/ SendInvalid(c) \/ SendCheck(c)
                      \/ SendLock(c) \/ SendAll(c) \/ SendError(c) \/ SendFailed(c)
                      \/ TakeReply(c) \/ Expired(c) \/ Finish(c)
        PROVE UNCHANGED wayVars
    BY <1>2 DEF RegisterCheck, Register, SendInvalid, SendCheck, SendLock, SendAll, SendError,
                SendFailed, TakeReply, Expired, Finish, recvVars, readVars, peerVars
  <1>3. ASSUME ReaderRuns \/ ReaderLoop \/ ReadEof \/ ReadError \/ PeerRead \/ PeerClose
        PROVE UNCHANGED wayVars
    BY <1>3 DEF ReaderRuns, ReaderLoop, ReadEof, ReadError, PeerRead, PeerClose,
                recvVars, readVars, peerVars
  <1>4. ASSUME NEW r, GetNowaitEmpty(r) \/ GetExpired(r) \/ RecvBegin(r) \/ RunBegin(r)
        PROVE UNCHANGED wayVars
    BY <1>4 DEF GetNowaitEmpty, GetExpired, RecvBegin, RunBegin, Deliver, recvVars, readVars,
                peerVars
  <1>5. CASE UNCHANGED vars
    BY <1>5 DEF vars, recvVars, readVars, peerVars
  <1>6. CASE Peer
    BY <1>3, <1>6 DEF Peer, PeerSend
  <1>7. CASE \E c \in Caller : CallerStep(c)
    BY <1>1, <1>2, <1>7 DEF CallerStep, Thread
  <1>8. CASE ReaderStep
    BY <1>1, <1>3, <1>8 DEF ReaderStep, Thread
  <1>9. CASE (\E k \in Closer : CloserStep(k)) \/ Choice
    BY <1>1, <1>4, <1>9 DEF CloserStep, Choice, Thread
  <1>10. CASE \E r \in Consumer : ConsumerStep(r)
    BY <1>1, <1>4, <1>10 DEF ConsumerStep
  <1> QED
    BY <1>5, <1>6, <1>7, <1>8, <1>9, <1>10 DEF Next

LEMMA Counting ==
  ASSUME NEW a \in Int, NEW b \in Int, NEW c \in Int, NEW j \in Int
  PROVE  /\ a + b = c + (j + 1) => a + (b - 1) = c + j
         /\ a + b = c + j => a + (b + 1) = (c + 1) + j
  OBVIOUS

LEMMA RecordNumbers ==
    /\ Eof.n = 0 /\ Failure.n = 0
    /\ \A rec \in Record : rec.n \in Nat
  BY DEF Record, Eof, Failure

\* A record that joins the queue comes from the hand, or has no number.
LEMMA QueueOrdered ==
  ASSUME TypeOK, Numbered, Ordered, NEW rec \in Record, inbox' = Append(inbox, rec),
         \/ rec.n = 0 /\ hand' \in {hand, Eof}
         \/ rec = hand /\ hand' = Eof,
         UNCHANGED <<in, lastSeq, nSent>>
  PROVE  Numbered' /\ Ordered'
  <1> DEFINE last == Len(inbox) + 1
  <1>1. /\ inbox \in Seq(Record) /\ hand \in Record /\ in \in Seq(Record)
        /\ lastSeq \in Nat /\ nSent \in Nat
    BY DEF TypeOK, RecvOK, WireOK
  <1>2. /\ DOMAIN inbox = 1..Len(inbox) /\ DOMAIN inbox' = 1..last /\ Len(inbox) \in Nat
        /\ inbox'[last] = rec
        /\ \A j \in 1..Len(inbox) : inbox'[j] = inbox[j]
    BY <1>1, SeqPlaces, SeqSteps
  <1>3. Eof.n = 0 /\ hand.n \in Nat /\ rec.n \in Nat /\ Len(in) \in Nat
        /\ \A j \in 1..Len(inbox) : inbox[j].n \in Nat
    BY <1>1, SeqPlaces, RecordNumbers
  <1>4. Numbered'
    <2>1. \A j \in 1..last : j \in 1..Len(inbox) \/ j = last
      BY <1>2
    <2>2. rec.n + Len(in) <= nSent /\ hand'.n + Len(in) <= nSent
      BY <1>1, <1>3 DEF Numbered
    <2> QED
      BY <1>1, <1>2, <2>1, <2>2 DEF Numbered
  <1>5. Ordered'
    <2>1. ASSUME NEW j \in 1..last, inbox'[j].n > 0
          PROVE  lastSeq < inbox'[j].n /\ \A i \in 1..(j - 1) : inbox'[i].n < inbox'[j].n
      <3>1. CASE j \in 1..Len(inbox)
        BY <1>2, <2>1, <3>1 DEF Ordered
      <3>2. CASE j = last
        <4>1. rec = hand /\ hand.n > 0 /\ inbox'[j] = rec
          BY <1>2, <1>3, <2>1, <3>2
        <4> QED
          BY <1>2, <3>2, <4>1 DEF Ordered
      <3> QED
        BY <1>2, <3>1, <3>2
    <2>2. hand'.n > 0 => rec.n = 0 /\ hand' = hand
      BY <1>3
    <2>3. hand'.n > 0 => lastSeq < hand'.n /\ \A i \in 1..last : inbox'[i].n < hand'.n
      <3> SUFFICES ASSUME hand'.n > 0
                   PROVE  lastSeq < hand.n /\ \A i \in 1..last : inbox'[i].n < hand.n
        BY <2>2
      <3>1. hand.n > 0 /\ rec.n = 0
        BY <2>2
      <3>2. \A i \in 1..Len(inbox) : inbox[i].n < hand.n
        BY <1>2, <3>1 DEF Ordered
      <3> QED
        BY <1>2, <3>1, <3>2 DEF Ordered
    <2> QED
      BY <1>2, <2>1, <2>3 DEF Ordered
  <1> QED
    BY <1>4, <1>5

LEMMA OrderStep ==
  ASSUME TypeOK, Numbered, Ordered, [Next]_vars PROVE Numbered' /\ Ordered'
  <1>0. /\ inbox \in Seq(Record) /\ hand \in Record /\ in \in Seq(Record)
        /\ lastSeq \in Nat /\ nSent \in Nat
    BY DEF TypeOK, RecvOK, WireOK
  <1>a. /\ DOMAIN inbox = 1..Len(inbox) /\ DOMAIN in = 1..Len(in)
        /\ Len(inbox) \in Nat /\ Len(in) \in Nat
        /\ hand.n \in Nat /\ Eof.n = 0
        /\ \A j \in 1..Len(inbox) : inbox[j].n \in Nat
        /\ \A j \in 1..Len(in) : in[j].n \in Nat
    BY <1>0, SeqPlaces, RecordNumbers
  <1>b. lastSeq \in Nat /\ nSent \in Nat
    BY <1>0
  <1>1. ASSUME NEW t \in Thread, Post(t) PROVE Numbered' /\ Ordered'
    <2>1. LastRecord(t) \in Record /\ (LastRecord(t).n = 0 \/ (LastRecord(t) = hand /\ t = Reader))
      BY <1>0, RecordTypes DEF LastRecord, Cause, Eof, Failure
    <2>2. /\ inbox' = Append(inbox, LastRecord(t)) /\ UNCHANGED <<in, lastSeq, nSent>>
          /\ hand' = IF t = Reader THEN Eof ELSE hand
      BY <1>1 DEF Post, Queued, peerVars
    <2> QED
      BY <2>1, <2>2, QueueOrdered
  <1>2. ASSUME Enqueue PROVE Numbered' /\ Ordered'
    <2>1. inbox' = Append(inbox, hand) /\ hand' = Eof /\ UNCHANGED <<in, lastSeq, nSent>>
      BY <1>2 DEF Enqueue, Queued, peerVars
    <2> QED
      BY <1>0, <2>1, QueueOrdered
  <1>3. ASSUME ReadRecord PROVE Numbered' /\ Ordered'
    <2>1. /\ in # <<>> /\ in' = Tail(in) /\ hand' = in[1]
          /\ UNCHANGED <<inbox, lastSeq, nSent>>
      BY <1>0, <1>3, SeqPlaces DEF ReadRecord, recvVars, peerVars
    <2>2. /\ Len(in') = Len(in) - 1 /\ DOMAIN in' = 1..(Len(in) - 1) /\ Len(in) \in Nat \ {0}
          /\ \A j \in 1..(Len(in) - 1) : in'[j] = in[j + 1]
      BY <1>0, <2>1, SeqPlaces, SeqSteps
    <2>3. in[1].n \in Nat /\ in[1].n + Len(in) = nSent + 1
      <3>1. 1 \in 1..Len(in)
        BY <2>2
      <3> QED
        BY <1>a, <3>1 DEF Numbered
    <2>4. ASSUME NEW j \in 1..(Len(in) - 1) PROVE in'[j].n + Len(in') = nSent + j
      <3>1. j + 1 \in 1..Len(in) /\ in'[j] = in[j + 1]
        BY <2>2
      <3>2. in[j + 1].n \in Nat /\ in[j + 1].n + Len(in) = nSent + (j + 1)
        BY <1>a, <3>1 DEF Numbered
      <3>3. j \in Int /\ Len(in) \in Int /\ nSent \in Int /\ Len(in') = Len(in) - 1
        BY <1>b, <2>2
      <3> QED
        BY <3>1, <3>2, <3>3, Counting
    <2>5. ASSUME NEW j \in 1..Len(inbox) PROVE inbox[j].n + Len(in') <= nSent /\ inbox[j].n < in[1].n
      <3>1. inbox[j].n \in Nat /\ inbox[j].n + Len(in) <= nSent
        BY <1>a DEF Numbered
      <3> QED
        BY <1>0, <2>2, <2>3, <3>1
    <2>6. lastSeq + Len(in') <= nSent /\ lastSeq < in[1].n
      BY <1>0, <2>2, <2>3 DEF Numbered
    <2>7. Numbered'
      <3>1. in[1].n + Len(in') <= nSent
        BY <1>b, <2>2, <2>3
      <3> QED
        BY <1>a, <2>1, <2>2, <2>4, <2>5, <2>6, <3>1 DEF Numbered
    <2>8. Ordered'
      BY <1>a, <2>1, <2>5, <2>6 DEF Ordered
    <2> QED
      BY <2>7, <2>8
  <1>4. ASSUME Dispatch PROVE Numbered' /\ Ordered'
    <2>1. hand' \in {hand, Eof} /\ UNCHANGED <<inbox, in, lastSeq, nSent>>
      BY <1>4 DEF Dispatch, recvVars, peerVars
    <2>2. Numbered'
      BY <1>0, <1>a, <2>1 DEF Numbered
    <2>3. Ordered'
      BY <1>a, <2>1 DEF Ordered
    <2> QED
      BY <2>2, <2>3
  <1>5. ASSUME NEW r \in Consumer, Get(r) PROVE Numbered' /\ Ordered'
    <2>1. /\ inbox # <<>> /\ inbox' = Tail(inbox) /\ UNCHANGED <<hand, in, nSent>>
          /\ lastSeq' = IF inbox[1].n = 0 THEN lastSeq ELSE inbox[1].n
      BY <1>0, <1>5, SeqPlaces DEF Get, Deliver, readVars, peerVars
    <2>2. /\ DOMAIN inbox' = 1..(Len(inbox) - 1) /\ Len(inbox) \in Nat \ {0}
          /\ \A j \in 1..(Len(inbox) - 1) : inbox'[j] = inbox[j + 1]
      BY <1>0, <2>1, SeqPlaces, SeqSteps
    <2>3. Numbered'
      <3>1. \A j \in 1..(Len(inbox) - 1) : inbox'[j].n + Len(in) <= nSent
        <4>1. \A j \in 1..(Len(inbox) - 1) : j + 1 \in 1..Len(inbox)
          BY <2>2
        <4>2. \A j \in 1..Len(inbox) : inbox[j].n + Len(in) <= nSent
          BY <1>a DEF Numbered
        <4> QED
          BY <2>2, <4>1, <4>2
      <3>2. lastSeq' + Len(in) <= nSent
        <4>1. 1 \in 1..Len(inbox)
          BY <2>2
        <4> QED
          BY <1>a, <2>1, <4>1 DEF Numbered
      <3> QED
        BY <2>1, <2>2, <3>1, <3>2 DEF Numbered
    <2>4. Ordered'
      <3>1. ASSUME NEW j \in 1..(Len(inbox) - 1), inbox'[j].n > 0
            PROVE  lastSeq' < inbox'[j].n /\ \A i \in 1..(j - 1) : inbox'[i].n < inbox'[j].n
        <4>1. j + 1 \in 1..Len(inbox) /\ inbox'[j] = inbox[j + 1] /\ (j + 1) - 1 = j /\ 1 \in 1..j
          BY <2>2
        <4>2. lastSeq < inbox[j + 1].n /\ \A i \in 1..j : inbox[i].n < inbox[j + 1].n
          BY <1>a, <3>1, <4>1 DEF Ordered
        <4>3. \A i \in 1..(j - 1) : i + 1 \in 1..j /\ inbox'[i] = inbox[i + 1]
          BY <2>2, <4>1
        <4> QED
          BY <2>1, <4>1, <4>2, <4>3
      <3>2. hand.n > 0 => lastSeq' < hand.n /\ \A i \in 1..(Len(inbox) - 1) : inbox'[i].n < hand.n
        <4> SUFFICES ASSUME hand.n > 0
                     PROVE  lastSeq' < hand.n /\ \A i \in 1..(Len(inbox) - 1) : inbox'[i].n < hand.n
          OBVIOUS
        <4>1. lastSeq < hand.n /\ \A i \in 1..Len(inbox) : inbox[i].n < hand.n
          BY <1>a DEF Ordered
        <4>2. 1 \in 1..Len(inbox) /\ \A i \in 1..(Len(inbox) - 1) : i + 1 \in 1..Len(inbox)
          BY <2>2
        <4> QED
          BY <2>1, <2>2, <4>1, <4>2
      <3> QED
        BY <2>1, <2>2, <3>1, <3>2 DEF Ordered
    <2> QED
      BY <2>3, <2>4
  <1>6. ASSUME NEW type \in PeerKind, NEW i \in seen \cup {0}, PeerSend(type, i)
        PROVE  Numbered' /\ Ordered'
    <2> DEFINE rec == [type |-> type, id |-> i, n |-> nSent + 1]
    <2>1. rec \in Record
      BY <1>0, PeerAssumption DEF Record, TypeOK, WireOK, CallOK
    <2>2. in' = Append(in, rec) /\ nSent' = nSent + 1 /\ UNCHANGED <<inbox, hand, lastSeq>>
      BY <1>6 DEF PeerSend, recvVars, readVars
    <2>3. /\ Len(in') = Len(in) + 1 /\ DOMAIN in' = 1..(Len(in) + 1)
          /\ in'[Len(in) + 1].n = nSent + 1
          /\ \A j \in 1..Len(in) : in'[j] = in[j]
      BY <1>0, <2>1, <2>2, SeqPlaces, SeqSteps
    <2>4. \A j \in 1..(Len(in) + 1) : j \in 1..Len(in) \/ j = Len(in) + 1
      BY <1>a
    <2>5. \A j \in 1..(Len(in) + 1) : in'[j].n + Len(in') = nSent' + j
      <3>1. ASSUME NEW j \in 1..Len(in) PROVE in'[j].n + Len(in') = nSent' + j
        <4>1. in[j].n \in Nat /\ in[j].n + Len(in) = nSent + j
          BY <1>a DEF Numbered
        <4>2. /\ j \in Int /\ Len(in) \in Int /\ nSent \in Int
              /\ Len(in') = Len(in) + 1 /\ in'[j] = in[j]
          BY <1>a, <1>b, <2>3
        <4> QED
          BY <2>2, <4>1, <4>2, Counting
      <3>2. in'[Len(in) + 1].n + Len(in') = nSent' + (Len(in) + 1)
        BY <1>0, <1>a, <2>2, <2>3
      <3> QED
        BY <2>4, <3>1, <3>2
    <2>6. Numbered'
      <3>1. \A j \in 1..Len(inbox) : inbox[j].n + Len(in') <= nSent'
        <4>1. \A j \in 1..Len(inbox) : inbox[j].n \in Nat /\ inbox[j].n + Len(in) <= nSent
          BY <1>a DEF Numbered
        <4> QED
          BY <1>a, <1>b, <2>2, <2>3, <4>1
      <3>2. lastSeq' + Len(in') <= nSent' /\ hand'.n + Len(in') <= nSent'
        <4>1. lastSeq + Len(in) <= nSent /\ hand.n + Len(in) <= nSent
          BY DEF Numbered
        <4> QED
          BY <1>a, <1>b, <2>2, <2>3, <4>1
      <3> QED
        BY <1>a, <2>2, <2>3, <2>5, <3>1, <3>2 DEF Numbered
    <2>7. Ordered'
      BY <2>2 DEF Ordered
    <2> QED
      BY <2>6, <2>7
  <1>7. CASE UNCHANGED wayVars
    BY <1>7 DEF wayVars, Numbered, Ordered
  <1> QED
    BY <1>1, <1>2, <1>3, <1>4, <1>5, <1>6, <1>7, RecordSteps

\* The client is closed by the first to terminate.
LEMMA OpenSteps ==
  ASSUME [Next]_vars
  PROVE  (\E t \in Thread : Terminate(t) /\ ~closed) \/ UNCHANGED terminal
  <1>1. ASSUME NEW t, \/ StartReader(t) \/ Recv(t) \/ RecvCheck(t) \/ GetExpire(t)
                      \/ SendBegin(t) \/ Expire(t) \/ Close(t) \/ Join(t)
                      \/ CallBegin(t) \/ CloseSocket(t) \/ Drain(t) \/ Post(t)
        PROVE UNCHANGED terminal
    BY <1>1 DEF StartReader, Recv, RecvCheck, GetExpire, CallBegin, SendBegin, Expire, Close,
                CloseSocket, Join, Drain, Post
  <1>2. ASSUME NEW c, \/ RegisterCheck(c) \/ Register(c) \/ SendInvalid(c) \/ SendCheck(c)
                      \/ SendLock(c) \/ SendAll(c) \/ SendError(c) \/ SendFailed(c)
                      \/ TakeReply(c) \/ Expired(c) \/ Finish(c)
        PROVE UNCHANGED terminal
    BY <1>2 DEF RegisterCheck, Register, SendInvalid, SendCheck, SendLock, SendAll, SendError,
                SendFailed, TakeReply, Expired, Finish
  <1>3. ASSUME NEW r, \/ Get(r) \/ GetNowaitEmpty(r) \/ GetExpired(r)
                      \/ RecvBegin(r) \/ RunBegin(r)
        PROVE UNCHANGED terminal
    BY <1>3 DEF Get, GetNowaitEmpty, GetExpired, RecvBegin, RunBegin
  <1>4. ASSUME \/ ReaderRuns \/ ReaderLoop \/ ReadRecord \/ ReadEof \/ ReadError
               \/ Dispatch \/ Enqueue \/ Peer
        PROVE UNCHANGED terminal
    BY <1>4 DEF ReaderRuns, ReaderLoop, ReadRecord, ReadEof, ReadError, Dispatch, Enqueue,
                Peer, PeerRead, PeerClose, PeerSend
  <1>5. ASSUME NEW t, Terminate(t) PROVE (Terminate(t) /\ ~closed) \/ UNCHANGED terminal
    BY <1>5 DEF Terminate, FirstToTerminate
  <1>6. CASE UNCHANGED vars
    BY <1>6 DEF vars
  <1> QED
    BY <1>1, <1>2, <1>3, <1>4, <1>5, <1>6
    DEF Next, CallerStep, ReaderStep, CloserStep, ConsumerStep, Choice, Thread

\* The reason stays, so what was said of it stays true.
LEMMA ToldStays ==
  ASSUME TypeOK, [Next]_vars
  PROVE  /\ closed => UNCHANGED terminal
         /\ \A x : (Told(x) => Told(x)') /\ (TrueReport(x) => TrueReport(x)')
  <1>1. CASE UNCHANGED terminal
    BY <1>1 DEF Told, TrueReport
  <1>2. CASE ~closed
    BY <1>2 DEF Told, TrueReport, closed, Quiet, Reason
  <1> QED
    BY <1>1, <1>2, OpenSteps

LEMMA ToldRecords ==
  ASSUME IInv, EndKnown
  PROVE  /\ pc[Reader] = "enqueue" => Told(hand.type) /\ hand.type \in {"return", "event", "empty"}
         /\ \A t \in Thread : pc[t] = "post" =>
                Told(LastRecord(t).type) /\ closed
         /\ closed => TrueReport(TerminalResult)
  <1>1. pc[Reader] = "enqueue" => Told(hand.type) /\ hand.type \in {"return", "event", "empty"}
    BY DEF EndKnown, Told
  <1>2. ASSUME NEW t \in Thread, pc[t] = "post" PROVE Told(LastRecord(t).type) /\ closed
    <2>1. terminal = Cause(t) /\ Cause(t) \in Reason
      BY <1>2 DEF IInv, ClosingOrder, TypeOK, CallOK, Cause, Reason
    <2>2. closed
      BY <2>1 DEF closed, Reason
    <2>3. CASE Cause(t) = "shutdown"
      <3>1. t = Reader /\ cause = "shutdown"
        BY <2>3 DEF Cause
      <3>2. hand.type = "shutdown"
        BY <1>2, <3>1 DEF EndKnown, Terminating
      <3> QED
        BY <2>1, <2>2, <2>3, <3>2 DEF LastRecord, Told
    <2>4. CASE Cause(t) # "shutdown"
      BY <2>1, <2>2, <2>4 DEF LastRecord, Told, Eof, Failure
    <2> QED
      BY <2>3, <2>4
  <1>3. closed => TrueReport(TerminalResult)
    BY DEF TerminalResult, TrueReport, Told, Quiet, closed, IInv, TypeOK, CallOK
  <1> QED
    BY <1>1, <1>2, <1>3

\* What is queued and what is reported tell the end truly.
LEMMA ToldStep ==
  ASSUME IInv, EndKnown, [Next]_vars
  PROVE  ReportsTrue' /\ QueuedTrue'
  <1>0. TypeOK /\ inbox \in Seq(Record) /\ hand \in Record
        /\ reported \in [Consumer -> {"return", "event", "empty", "shutdown", "malformed",
                                      "eof", "failure", "none"}]
    BY DEF IInv, TypeOK, RecvOK
  <1>1. \A x : (Told(x) => Told(x)') /\ (TrueReport(x) => TrueReport(x)')
    BY <1>0, ToldStays
  <1>2. ASSUME NEW rec \in Record, Told(rec.type), inbox' = Append(inbox, rec) PROVE QueuedTrue'
    <2>1. \A j \in DOMAIN inbox' : j \in DOMAIN inbox \/ j = Len(inbox) + 1
      BY <1>0, <1>2, SeqPlaces, SeqSteps
    <2> QED
      BY <1>0, <1>1, <1>2, <2>1, SeqPlaces DEF EndKnown, QueuedTrue
  <1>3. ASSUME UNCHANGED reported PROVE ReportsTrue'
    BY <1>1, <1>3 DEF ReportsTrue, EndKnown
  <1>4. ASSUME UNCHANGED inbox PROVE QueuedTrue'
    BY <1>1, <1>4 DEF EndKnown, QueuedTrue
  <1>5. ASSUME NEW r \in Consumer, NEW x, TrueReport(x), reported' = [reported EXCEPT ![r] = x]
        PROVE ReportsTrue'
    BY <1>0, <1>1, <1>5 DEF ReportsTrue, EndKnown
  <1>6. ASSUME NEW t \in Thread, Post(t) PROVE ReportsTrue' /\ QueuedTrue'
    <2>1. LastRecord(t) \in Record
      BY <1>0, RecordTypes DEF LastRecord
    <2> QED
      BY <1>2, <1>3, <1>6, <2>1, ToldRecords DEF Post, Queued
  <1>7. ASSUME Enqueue PROVE ReportsTrue' /\ QueuedTrue'
    BY <1>0, <1>2, <1>3, <1>7, ToldRecords DEF Enqueue, Queued
  <1>8. ASSUME NEW r \in Consumer, Get(r) PROVE ReportsTrue' /\ QueuedTrue'
    <2>1. inbox # <<>> /\ inbox' = Tail(inbox)
          /\ reported' = [reported EXCEPT ![r] = inbox[1].type]
      BY <1>0, <1>8, SeqPlaces DEF Get, Deliver
    <2>2. /\ DOMAIN inbox' = 1..(Len(inbox) - 1) /\ 1 \in DOMAIN inbox
          /\ \A j \in 1..(Len(inbox) - 1) : inbox'[j] = inbox[j + 1] /\ j + 1 \in DOMAIN inbox
      BY <1>0, <2>1, SeqPlaces, SeqSteps
    <2> QED
      <3>1. Told(inbox[1].type)
        BY <2>2 DEF EndKnown, QueuedTrue
      <3>2. ReportsTrue'
        BY <1>5, <2>1, <3>1 DEF TrueReport
      <3>3. \A j \in 1..(Len(inbox) - 1) : Told(inbox[j + 1].type)
        BY <2>2 DEF EndKnown, QueuedTrue
      <3>4. QueuedTrue'
        BY <1>1, <2>2, <3>3 DEF QueuedTrue
      <3> QED
        BY <3>2, <3>4
  <1>9. ASSUME NEW r \in Consumer, GetNowaitEmpty(r) \/ GetExpired(r) PROVE ReportsTrue' /\ QueuedTrue'
    <2>1. UNCHANGED inbox /\ \E x : TrueReport(x) /\ reported' = [reported EXCEPT ![r] = x]
      <3>1. CASE GetNowaitEmpty(r)
        BY <3>1, ToldRecords DEF GetNowaitEmpty, Deliver, EndKnown
      <3>2. CASE GetExpired(r)
        BY <3>2, ToldRecords DEF GetExpired, Deliver, TrueReport, Told
      <3> QED
        BY <1>9, <3>1, <3>2
    <2> QED
      BY <1>4, <1>5, <2>1
  <1>10. ASSUME UNCHANGED <<inbox, reported>> PROVE ReportsTrue' /\ QueuedTrue'
    BY <1>3, <1>4, <1>10
  <1>11. CASE Peer \/ UNCHANGED vars
    BY <1>10, <1>11 DEF Peer, PeerRead, PeerClose, PeerSend, vars, recvVars
  <1>12. CASE \E c \in Caller : CallerStep(c)
    BY <1>6, <1>10, <1>12
    DEF CallerStep, StartReader, RegisterCheck, Register, SendInvalid, SendCheck, SendLock,
        SendAll, SendError, SendFailed, TakeReply, Expired, Finish, Terminate, Drain,
        recvVars, Thread
  <1>13. CASE ReaderStep
    BY <1>6, <1>7, <1>10, <1>13
    DEF ReaderStep, ReaderRuns, ReaderLoop, ReadRecord, ReadEof, ReadError, Dispatch,
        CloseSocket, Terminate, Drain, recvVars, Thread
  <1>14. CASE \E k \in Closer : CloserStep(k)
    BY <1>6, <1>10, <1>14
    DEF CloserStep, CloseSocket, Join, Terminate, Drain, recvVars, Thread
  <1>15. CASE \E r \in Consumer : ConsumerStep(r)
    BY <1>8, <1>9, <1>10, <1>15
    DEF ConsumerStep, Recv, StartReader, RecvCheck, recvVars
  <1>16. CASE Choice
    BY <1>10, <1>16
    DEF Choice, CallBegin, SendBegin, Expire, Close, RecvBegin, RunBegin, GetExpire, recvVars
  <1> QED
    BY <1>11, <1>12, <1>13, <1>14, <1>15, <1>16 DEF Next

\* What the reader holds where it stands, and who looks without waiting.
LEMMA KnownStep ==
  ASSUME IInv, EndKnown, [Next]_vars PROVE EndKnown'
  <1> DEFINE Kind == {"return", "event", "empty", "shutdown", "malformed"}
             InTypes == \A j \in DOMAIN in : in[j].type \in Kind
             Holds == /\ pc[Reader] \in {"dispatch", "enqueue"}
                           => hand.type \in {"return", "event", "empty"}
                      /\ pc[Reader] \in Terminating /\ cause = "shutdown" => hand.type = "shutdown"
             Looks == \A r \in Consumer : pc[r] = "getNowait" => closed
  <1>0. TypeOK /\ in \in Seq(Record) /\ PcOK /\ pc \in [Thread -> CallerPc \cup ReaderPc \cup CloserPc \cup ConsumerPc]
    BY DEF IInv, TypeOK, WireOK, PcOK
  <1>1. InTypes'
    <2>1. CASE \E type \in PeerKind, i \in seen \cup {0} : PeerSend(type, i)
      <3>1. PICK type \in PeerKind, i \in seen \cup {0} : PeerSend(type, i)
        BY <2>1
      <3> DEFINE rec == [type |-> type, id |-> i, n |-> nSent + 1]
      <3>2. rec \in Record /\ rec.type \in Kind
        BY <1>0, PeerAssumption DEF Record, TypeOK, WireOK, CallOK
      <3>3. in' = Append(in, rec)
        BY <3>1 DEF PeerSend
      <3>4. \A j \in DOMAIN in' : (j \in DOMAIN in /\ in'[j] = in[j]) \/ in'[j] = rec
        BY <1>0, <3>2, <3>3, SeqPlaces, SeqSteps
      <3> QED
        BY <3>2, <3>4 DEF EndKnown
    <2>2. CASE ReadRecord
      <3>1. in # <<>> /\ in' = Tail(in)
        BY <2>2 DEF ReadRecord
      <3>2. \A j \in DOMAIN in' : j + 1 \in DOMAIN in /\ in'[j] = in[j + 1]
        BY <1>0, <3>1, SeqPlaces, SeqSteps
      <3> QED
        BY <3>2 DEF EndKnown
    <2>3. CASE UNCHANGED in
      BY <2>3 DEF EndKnown
    <2>4. (Enqueue \/ Dispatch \/ (\E t \in Thread : Post(t)) \/ (\E r \in Consumer : Get(r))) => UNCHANGED in
      BY DEF Enqueue, Dispatch, Post, Get
    <2> QED
      BY <2>1, <2>2, <2>3, <2>4, RecordSteps DEF wayVars
  <1>2. Holds'
    <2>1. CASE ReadRecord
      <3>1. Head(in).type \in Kind /\ hand' = Head(in)
        BY <1>0, <2>1, SeqPlaces DEF ReadRecord, EndKnown
      <3> QED
        BY <1>0, <2>1, <3>1 DEF ReadRecord, Goto, PcOK, Thread, Terminating
    <2>2. CASE ReaderStep /\ ~ReadRecord
      <3> DEFINE At(L) == \E l \in L : pc'[Reader] = l
      <3>0. /\ Reader \in Thread /\ Reader \notin Caller /\ \A l : (pc' = [pc EXCEPT ![Reader] = l]) => pc'[Reader] = l
            /\ Holds
        BY <1>0, ThreadAssumption DEF Thread, EndKnown
      <3>1. CASE ReaderRuns \/ ReaderLoop \/ Enqueue \/ CloseSocket(Reader) \/ Post(Reader)
        <4>1. At({"loop", "closeSocket", "read", "dead"})
          BY <3>0, <3>1 DEF ReaderRuns, ReaderLoop, Enqueue, CloseSocket, Post, Terminated, Goto
        <4> QED
          BY <4>1 DEF Terminating
      <3>2. CASE ReadEof \/ ReadError
        <4>1. At({"closeSocket", "terminate"}) /\ cause' # "shutdown"
          BY <3>0, <3>2 DEF ReadEof, ReadError, Goto
        <4> QED
          BY <4>1 DEF Terminating
      <3>3. CASE Dispatch
        <4>1. At({"loop"}) \/ (At({"enqueue"}) /\ UNCHANGED hand /\ pc[Reader] = "dispatch")
          BY <3>0, <3>3 DEF Dispatch, Goto
        <4> QED
          BY <3>0, <4>1 DEF Terminating
      <3>4. CASE Terminate(Reader) \/ Drain(Reader)
        <4>1. /\ At({"drain", "post", "closeSocket"}) /\ UNCHANGED <<hand, cause>>
              /\ pc[Reader] \in {"terminate", "drain"}
          BY <3>0, <3>4 DEF Terminate, Drain, Terminated, Goto, readVars
        <4> QED
          BY <3>0, <4>1 DEF Terminating
      <3> QED
        BY <2>2, <3>1, <3>2, <3>3, <3>4 DEF ReaderStep
    <2>3. ASSUME NEW t \in Thread \ {Reader}, Terminate(t) \/ Drain(t) \/ Post(t)
          PROVE  UNCHANGED <<pc[Reader], hand, cause>>
      BY <1>0, <2>3 DEF Terminate, Drain, Post, Terminated, Leave, Goto, Thread, readVars
    <2>4. ASSUME NEW t \in Thread \ {Reader}, StartReader(t) PROVE Holds'
      BY <1>0, <2>4 DEF StartReader, Thread, readVars, EndKnown, Terminating
    <2>5. ASSUME NEW t \in Thread \ {Reader},
                 \/ Recv(t) \/ RecvCheck(t) \/ GetExpire(t) \/ Get(t) \/ GetNowaitEmpty(t)
                 \/ GetExpired(t) \/ RecvBegin(t) \/ RunBegin(t) \/ Close(t) \/ Join(t)
                 \/ CloseSocket(t) \/ CallBegin(t) \/ SendBegin(t) \/ Expire(t)
          PROVE  UNCHANGED <<pc[Reader], hand, cause>>
      BY <1>0, <2>5
      DEF Recv, RecvCheck, GetExpire, Get, GetNowaitEmpty, GetExpired, RecvBegin, RunBegin,
          Close, Join, CloseSocket, CallBegin, SendBegin, Expire, Deliver, Goto, Thread, readVars
    <2>6. ASSUME NEW t \in Thread \ {Reader},
                 \/ RegisterCheck(t) \/ Register(t) \/ SendInvalid(t) \/ SendCheck(t)
                 \/ SendLock(t) \/ SendAll(t) \/ SendError(t) \/ SendFailed(t)
                 \/ TakeReply(t) \/ Expired(t) \/ Finish(t)
          PROVE  UNCHANGED <<pc[Reader], hand, cause>>
      BY <1>0, <2>6
      DEF RegisterCheck, Register, SendInvalid, SendCheck, SendLock, SendAll, SendError,
          SendFailed, TakeReply, Expired, Finish, Leave, Goto, Thread, readVars
    <2>7. CASE Peer \/ UNCHANGED vars
      BY <2>7 DEF Peer, PeerRead, PeerClose, PeerSend, vars, readVars, EndKnown
    <2>8. UNCHANGED <<pc[Reader], hand, cause>> => Holds'
      BY DEF EndKnown
    <2>9. \A t \in Caller \cup Closer \cup Consumer : t \in Thread \ {Reader}
      BY ThreadAssumption DEF Thread
    <2> QED
      BY <2>1, <2>2, <2>3, <2>4, <2>5, <2>6, <2>7, <2>8, <2>9
      DEF Next, CallerStep, CloserStep, ConsumerStep, Choice
  <1>3. Looks'
    <2>1. closed => closed'
      BY <1>0, ToldStays DEF closed
    <2>2. ASSUME NEW r \in Consumer, pc'[r] = "getNowait" PROVE pc[r] = "getNowait" \/ closed
      <3>1. ASSUME NEW c \in Caller, CallerStep(c) PROVE pc[r] = "getNowait"
        <4>1. CASE StartReader(c)
          BY <1>0, <2>2, <4>1, ThreadAssumption DEF StartReader, Thread
        <4>2. CASE ~StartReader(c)
          BY <1>0, <2>2, <3>1, <4>2, CallerMoves, ThreadAssumption DEF Moves, Thread
        <4> QED
          BY <4>1, <4>2
      <3>2. CASE ReaderStep
        BY <1>0, <2>2, <3>2, ReaderMoves, ThreadAssumption DEF Moves, Thread
      <3>3. ASSUME NEW k \in Closer, CloserStep(k) \/ Close(k) PROVE pc[r] = "getNowait"
        BY <1>0, <2>2, <3>3, CloserMoves, ThreadAssumption DEF Moves, Thread
      <3>4. ASSUME NEW q \in Consumer,
                   ConsumerStep(q) \/ RecvBegin(q) \/ RunBegin(q) \/ GetExpire(q)
            PROVE  pc[r] = "getNowait" \/ closed
        <4>1. CASE StartReader(q)
          BY <1>0, <2>2, <4>1, ThreadAssumption DEF StartReader, Thread
        <4>2. CASE q # r /\ ~StartReader(q)
          BY <1>0, <2>2, <3>4, <4>2, ConsumerMoves, ThreadAssumption DEF Moves, Thread
        <4>3. CASE q = r /\ ~StartReader(q)
          BY <1>0, <2>2, <3>4, <4>3
          DEF ConsumerStep, Recv, RecvCheck, Get, GetNowaitEmpty, GetExpired, RecvBegin,
              RunBegin, GetExpire, Deliver, Goto, Thread
        <4> QED
          BY <4>1, <4>2, <4>3
      <3>5. ASSUME NEW c \in Caller, CallBegin(c) \/ SendBegin(c) \/ Expire(c)
            PROVE  pc[r] = "getNowait"
        BY <1>0, <2>2, <3>5, ThreadAssumption DEF CallBegin, SendBegin, Expire, Goto, Thread
      <3>6. CASE Peer \/ UNCHANGED vars
        BY <2>2, <3>6 DEF Peer, PeerRead, PeerClose, PeerSend, vars
      <3> QED
        BY <3>1, <3>2, <3>3, <3>4, <3>5, <3>6 DEF Next, Choice
    <2> QED
      BY <2>1, <2>2 DEF EndKnown
  <1> QED
    BY <1>1, <1>2, <1>3, ToldStep DEF EndKnown

\* Only the first to terminate sets out to queue a last record.
LEMMA ComingSteps ==
  ASSUME IInv, [Next]_vars
  PROVE  (\E t \in Thread : Terminate(t) /\ ~closed) \/ LastComing' \subseteq LastComing
  <1> DEFINE Few == LastComing' \subseteq LastComing
  <1>0. PcOK
    BY DEF IInv, TypeOK
  <1>1. ASSUME NEW t \in Thread, NEW L, L \cap {"drain", "post"} = {}, Moves(t, L) PROVE Few
    BY <1>0, <1>1 DEF Moves, LastComing, PcOK
  <1>2. ASSUME NEW t \in Thread, Drain(t) PROVE Few
    BY <1>0, <1>2 DEF Drain, Goto, LastComing, PcOK
  <1>3. ASSUME UNCHANGED pc PROVE Few
    BY <1>3 DEF LastComing
  <1>4. ASSUME NEW t \in Thread, StartReader(t) PROVE Few
    BY <1>0, <1>4, ThreadAssumption DEF StartReader, LastComing, PcOK, Thread
  <1>5. ASSUME NEW t \in Thread, (Terminate(t) /\ closed) \/ Post(t) PROVE Few
    <2>1. Moves(t, {"idle", "finish", "closeSocket"})
      BY <1>5 DEF Terminate, FirstToTerminate, Post, Terminated, Leave, Goto, Moves
    <2> QED
      BY <1>1, <2>1
  <1>6. ASSUME NEW c \in Caller, CallerStep(c), ~Terminate(c) PROVE Few
    <2>1. c \in Thread
      BY DEF Thread
    <2>2. CASE RegisterCheck(c) \/ Register(c)
      <3>1. Moves(c, {"idle", "register", "send"})
        BY <2>2 DEF RegisterCheck, Register, Goto, Moves
      <3> QED
        BY <1>1, <2>1, <3>1
    <2>3. CASE SendInvalid(c) \/ SendCheck(c) \/ SendLock(c)
      <3>1. Moves(c, {"idle", "finish", "sendLock", "sendall"})
        BY <2>3 DEF SendInvalid, SendCheck, SendLock, Leave, Goto, Moves
      <3> QED
        BY <1>1, <2>1, <3>1
    <2>4. CASE SendAll(c) \/ SendError(c) \/ SendFailed(c)
      <3>1. Moves(c, {"idle", "wait", "sendFailed", "finish", "terminate"})
        BY <2>4 DEF SendAll, SendError, SendFailed, Leave, Goto, Moves
      <3> QED
        BY <1>1, <2>1, <3>1
    <2>5. CASE TakeReply(c) \/ Expired(c) \/ Finish(c)
      <3>1. Moves(c, {"idle", "finish"})
        BY <2>5 DEF TakeReply, Expired, Finish, Leave, Goto, Moves
      <3> QED
        BY <1>1, <2>1, <3>1
    <2> QED
      BY <1>2, <1>4, <1>5, <1>6, <2>1, <2>2, <2>3, <2>4, <2>5 DEF CallerStep
  <1>7. ASSUME ReaderStep, ~Terminate(Reader) PROVE Few
    <2>1. Reader \in Thread
      BY DEF Thread
    <2>2. CASE ~Drain(Reader) /\ ~Post(Reader)
      <3>1. Moves(Reader, {"loop", "closeSocket", "read", "terminate", "dispatch", "enqueue", "dead"})
        BY <1>7, <2>2 DEF ReaderStep, ReaderRuns, ReaderLoop, ReadRecord, ReadEof, ReadError,
                          Dispatch, Enqueue, CloseSocket, Goto, Moves
      <3> QED
        BY <1>1, <2>1, <3>1
    <2> QED
      BY <1>2, <1>5, <2>1, <2>2
  <1>8. ASSUME NEW k \in Closer, CloserStep(k) \/ Close(k), ~Terminate(k) PROVE Few
    <2>1. k \in Thread /\ k # Reader
      BY ThreadAssumption DEF Thread
    <2>2. CASE ~Drain(k) /\ ~Post(k)
      <3>1. Moves(k, {"terminate", "join", "joinRaised", "done"})
        BY <1>8, <2>1, <2>2 DEF CloserStep, Close, CloseSocket, Join, Goto, Moves
      <3> QED
        BY <1>1, <2>1, <3>1
    <2> QED
      BY <1>2, <1>5, <2>1, <2>2
  <1>9. ASSUME NEW r \in Consumer, ConsumerStep(r) \/ RecvBegin(r) \/ RunBegin(r) \/ GetExpire(r)
        PROVE  Few
    <2>1. r \in Thread
      BY DEF Thread
    <2>2. ConsumerPc \cap {"drain", "post"} = {}
      BY DEF ConsumerPc
    <2> QED
      BY <1>1, <1>4, <1>9, <2>1, <2>2, ConsumerMoves
  <1>10. ASSUME NEW c \in Caller, CallBegin(c) \/ SendBegin(c) \/ Expire(c) PROVE Few
    <2>1. c \in Thread
      BY DEF Thread
    <2>2. Moves(c, {"startReader", "send", "expired"}) \/ UNCHANGED pc
      BY <1>10 DEF CallBegin, SendBegin, Expire, Goto, Moves
    <2> QED
      BY <1>1, <1>3, <2>1, <2>2
  <1>11. CASE Peer \/ UNCHANGED vars
    BY <1>3, <1>11 DEF Peer, PeerRead, PeerClose, PeerSend, vars
  <1>12. \A t \in Caller \cup Closer \cup {Reader} : t \in Thread
    BY DEF Thread
  <1> QED
    BY <1>5, <1>6, <1>7, <1>8, <1>9, <1>10, <1>11, <1>12 DEF Next, Choice

LEMMA OnceStep ==
  ASSUME IInv, EndOnce, EndKnown, [Next]_vars PROVE EndOnce'
  <1> DEFINE Last == {"eof", "shutdown", "failure"}
  <1>0. TypeOK /\ PcOK /\ inbox \in Seq(Record) /\ hand \in Record
    BY DEF IInv, TypeOK, RecvOK
  <1>a. closed => closed'
    BY <1>0, ToldStays DEF closed
  <1>b. LastComing # {} => closed
    BY DEF LastComing, IInv, ClosingOrder, TypeOK, CallOK, Cause, closed, Reason
  <1>1. CASE \E t \in Thread : Terminate(t) /\ ~closed
    <2>1. PICK t \in Thread : Terminate(t) /\ ~closed
      BY <1>1
    <2>2. UNCHANGED inbox /\ pc' = [pc EXCEPT ![t] = "drain"]
      BY <2>1 DEF Terminate, FirstToTerminate, Goto, recvVars
    <2>3. LastComing = {} /\ LastQueued = {}
      BY <1>b, <2>1 DEF EndOnce
    <2>4. LastComing' \subseteq {t}
      BY <1>0, <2>2, <2>3 DEF LastComing, PcOK
    <2>5. LastQueued' = {}
      BY <2>2, <2>3 DEF LastQueued
    <2> QED
      BY <2>4, <2>5 DEF EndOnce
  <1>2. CASE LastComing' \subseteq LastComing /\ UNCHANGED inbox
    <2>1. LastQueued' = LastQueued
      BY <1>2 DEF LastQueued
    <2> QED
      BY <1>2, <1>a, <2>1 DEF EndOnce
  <1>3. CASE \E t \in Thread : Post(t)
    <2>1. PICK t \in Thread : Post(t)
      BY <1>3
    <2>2. t \in LastComing /\ pc'[t] \notin {"drain", "post"}
      BY <1>0, <2>1 DEF Post, Terminated, Leave, Goto, LastComing, PcOK
    <2>3. LastComing' = {}
      <3>1. LastComing' \subseteq LastComing
        BY <1>0, <2>1 DEF Post, Terminated, Leave, Goto, LastComing, PcOK
      <3>2. t \notin LastComing' /\ \A u \in LastComing : u = t
        BY <2>2 DEF LastComing, EndOnce
      <3> QED
        BY <3>1, <3>2
    <2>4. LastQueued = {} /\ closed
      BY <1>b, <2>2 DEF EndOnce
    <2>5. LastRecord(t) \in Record /\ inbox' = Append(inbox, LastRecord(t))
      BY <1>0, <2>1, RecordTypes DEF LastRecord, Post, Queued
    <2>6. \A j \in DOMAIN inbox' : (j \in DOMAIN inbox /\ inbox'[j] = inbox[j]) \/ j = Len(inbox) + 1
      BY <1>0, <2>5, SeqPlaces, SeqSteps
    <2>7. LastQueued' \subseteq {Len(inbox) + 1}
      BY <2>4, <2>6 DEF LastQueued
    <2> QED
      BY <1>a, <2>3, <2>4, <2>7 DEF EndOnce
  <1>4. CASE Enqueue
    <2>1. hand.type \notin Last /\ inbox' = Append(inbox, hand)
      BY <1>4, ToldRecords DEF Enqueue, Queued
    <2>2. LastComing' \subseteq LastComing
      BY <1>0, <1>4 DEF Enqueue, Goto, LastComing, PcOK
    <2>3. \A j \in DOMAIN inbox' : (j \in DOMAIN inbox /\ inbox'[j] = inbox[j]) \/ inbox'[j] = hand
      BY <1>0, <2>1, SeqPlaces, SeqSteps
    <2>4. LastQueued' \subseteq LastQueued
      BY <2>1, <2>3 DEF LastQueued
    <2> QED
      BY <1>a, <2>2, <2>4 DEF EndOnce
  <1>5. CASE \E r \in Consumer : Get(r)
    <2>1. PICK r \in Consumer : Get(r)
      BY <1>5
    <2>2. inbox # <<>> /\ inbox' = Tail(inbox) /\ LastComing' \subseteq LastComing
      BY <1>0, <2>1 DEF Get, Deliver, Goto, LastComing, PcOK
    <2>3. \A j \in DOMAIN inbox' : j \in Int /\ j + 1 \in DOMAIN inbox /\ inbox'[j] = inbox[j + 1]
      BY <1>0, <2>2, SeqPlaces, SeqSteps
    <2>4. \A j \in LastQueued' : j \in Int /\ j + 1 \in LastQueued
      BY <2>3 DEF LastQueued
    <2>5. \A i, j \in LastQueued' : i = j
      <3> SUFFICES ASSUME NEW i \in LastQueued', NEW j \in LastQueued' PROVE i = j
        OBVIOUS
      <3>1. i + 1 = j + 1 /\ i \in Int /\ j \in Int
        BY <2>4 DEF EndOnce
      <3> QED
        BY <3>1
    <2> QED
      BY <1>a, <2>2, <2>4, <2>5 DEF EndOnce
  <1>6. (ReadRecord \/ Dispatch \/ \E type \in PeerKind, i \in seen \cup {0} : PeerSend(type, i))
        => UNCHANGED inbox
    BY DEF ReadRecord, Dispatch, PeerSend, recvVars
  <1> QED
    BY <1>1, <1>2, <1>3, <1>4, <1>5, <1>6, RecordSteps, ComingSteps DEF wayVars

\* A client the reader ended stays so, and the reader has nothing left to queue.
LEMMA ByReaderStep ==
  ASSUME IInv, NothingBehind, [Next]_vars, ByReader'
  PROVE  pc'[Reader] \in {"drain", "post", "closeSocket", "dead"}
  <1> DEFINE Over == {"drain", "post", "closeSocket", "dead"}
  <1>0. PcOK /\ TypeOK /\ Reader \in Thread
    BY DEF IInv, TypeOK, Thread
  <1>1. CASE \E t \in Thread : Terminate(t) /\ ~closed
    <2>1. PICK t \in Thread : Terminate(t) /\ ~closed
      BY <1>1
    <2>2. terminal' = Cause(t) /\ pc' = [pc EXCEPT ![t] = "drain"]
      BY <2>1 DEF Terminate, FirstToTerminate, Goto
    <2>3. t = Reader
      BY <2>2 DEF ByReader, Cause
    <2> QED
      BY <1>0, <2>2, <2>3 DEF PcOK
  <1>2. CASE ~\E t \in Thread : Terminate(t) /\ ~closed
    <2>1. UNCHANGED terminal
      BY <1>0, <1>2, ToldStays, OpenSteps
    <2>2. pc[Reader] \in Over
      BY <2>1 DEF NothingBehind, ByReader
    <2>3. ASSUME NEW t \in Thread \ {Reader}, NEW L, Moves(t, L) PROVE pc'[Reader] \in Over
      BY <1>0, <2>2, <2>3 DEF Moves, PcOK
    <2>4. ASSUME NEW t, StartReader(t) PROVE pc'[Reader] \in Over
      <3>1. pc'[Reader] = pc[Reader] \/ (t # Reader /\ pc'[Reader] = pc[Reader]) \/ t = Reader
        BY <1>0, <2>2, <2>4 DEF StartReader, PcOK
      <3>2. t # Reader
        BY <2>2, <2>4 DEF StartReader
      <3> QED
        BY <2>2, <3>1, <3>2
    <2>5. CASE ReaderStep
      <3>1. Drain(Reader) \/ Post(Reader) \/ CloseSocket(Reader)
        BY <2>2, <2>5
        DEF ReaderStep, ReaderRuns, ReaderLoop, ReadRecord, ReadEof, ReadError, Dispatch,
            Enqueue, Terminate
      <3>2. \E l \in {"post", "closeSocket", "dead"} : pc' = [pc EXCEPT ![Reader] = l]
        BY <3>1, ThreadAssumption DEF Drain, Post, CloseSocket, Terminated, Goto
      <3> QED
        BY <1>0, <3>2 DEF PcOK
    <2>6. CASE Peer \/ UNCHANGED vars
      BY <2>2, <2>6 DEF Peer, PeerRead, PeerClose, PeerSend, vars
    <2>7. ASSUME NEW c \in Caller, CallBegin(c) \/ SendBegin(c) \/ Expire(c)
          PROVE  pc'[Reader] \in Over
      <3>1. Moves(c, {"startReader", "send", "expired"}) \/ UNCHANGED pc
        BY <2>7 DEF CallBegin, SendBegin, Expire, Goto, Moves
      <3> QED
        BY <2>2, <2>3, <3>1, ThreadAssumption DEF Thread
    <2>8. \A t \in Caller \cup Closer \cup Consumer : t \in Thread \ {Reader}
      BY ThreadAssumption DEF Thread
    <2> QED
      BY <2>3, <2>4, <2>5, <2>6, <2>7, <2>8, CallerMoves, CloserMoves, ConsumerMoves
      DEF Next, Choice
  <1> QED
    BY <1>1, <1>2

\* Who has seen its timeout expire is in recv(): run() has none.
LEMMA ExpiredStep ==
  ASSUME IInv, NothingBehind, [Next]_vars, NEW r \in Consumer, pc'[r] = "getExpired"
  PROVE  mode'[r] = "recv"
  <1>0. PcOK /\ mode \in [Consumer -> {"none", "recv", "run"}] /\ r \in Thread
    BY DEF IInv, TypeOK, RecvOK, Thread
  <1>1. ASSUME pc[r] = "getExpired", UNCHANGED mode PROVE mode'[r] = "recv"
    BY <1>1 DEF NothingBehind
  <1>2. ASSUME NEW t \in Thread, t # r, NEW L, Moves(t, L), UNCHANGED mode PROVE mode'[r] = "recv"
    BY <1>0, <1>1, <1>2 DEF Moves, PcOK
  <1>3. ASSUME NEW t \in Thread, StartReader(t) PROVE mode'[r] = "recv"
    <2>1. pc'[r] = pc[r] \/ pc'[r] \in {"registerCheck", "recvCheck", "assigned"}
      BY <1>0, <1>3 DEF StartReader, PcOK
    <2> QED
      BY <1>1, <1>3, <2>1 DEF StartReader, recvVars
  <1>4. ASSUME NEW c \in Caller, CallerStep(c), ~StartReader(c) PROVE mode'[r] = "recv"
    <2>1. UNCHANGED mode
      BY <1>4 DEF CallerStep, RegisterCheck, Register, SendInvalid, SendCheck, SendLock,
                  SendAll, SendError, SendFailed, TakeReply, Expired, Finish, Terminate, Drain,
                  Post, recvVars
    <2> QED
      BY <1>2, <1>4, <2>1, CallerMoves, ThreadAssumption DEF Thread
  <1>5. CASE ReaderStep
    <2>1. UNCHANGED mode
      BY <1>5 DEF ReaderStep, ReaderRuns, ReaderLoop, ReadRecord, ReadEof, ReadError, Dispatch,
                  Enqueue, CloseSocket, Terminate, Drain, Post, recvVars
    <2> QED
      BY <1>2, <1>5, <2>1, ReaderMoves, ThreadAssumption DEF Thread
  <1>6. ASSUME NEW k \in Closer, CloserStep(k) \/ Close(k) PROVE mode'[r] = "recv"
    <2>1. UNCHANGED mode
      BY <1>6 DEF CloserStep, Close, CloseSocket, Join, Terminate, Drain, Post, recvVars
    <2> QED
      BY <1>2, <1>6, <2>1, CloserMoves, ThreadAssumption DEF Thread
  <1>7. ASSUME NEW q \in Consumer, ~StartReader(q),
               ConsumerStep(q) \/ RecvBegin(q) \/ RunBegin(q) \/ GetExpire(q)
        PROVE  mode'[r] = "recv"
    <2>1. CASE q # r
      <3>1. mode'[r] = mode[r]
        BY <1>0, <1>7, <2>1 DEF ConsumerStep, Recv, RecvCheck, Get, GetNowaitEmpty, GetExpired,
                                GetExpire, RecvBegin, RunBegin, Deliver, recvVars
      <3>2. pc'[r] = pc[r]
        BY <1>0, <1>7, <2>1, ConsumerMoves DEF Moves, PcOK, Thread
      <3> QED
        BY <3>1, <3>2 DEF NothingBehind
    <2>2. CASE q = r
      <3>1. GetExpire(r)
        BY <1>0, <1>7, <2>2
        DEF ConsumerStep, Recv, RecvCheck, Get, GetNowaitEmpty, GetExpired, RecvBegin, RunBegin,
            Deliver, Goto, PcOK
      <3> QED
        BY <3>1 DEF GetExpire, recvVars
    <2> QED
      BY <2>1, <2>2
  <1>8. ASSUME NEW c \in Caller, CallBegin(c) \/ SendBegin(c) \/ Expire(c) PROVE mode'[r] = "recv"
    <2>1. UNCHANGED mode /\ (Moves(c, {"startReader", "send", "expired"}) \/ UNCHANGED pc)
      BY <1>8 DEF CallBegin, SendBegin, Expire, Goto, Moves, recvVars
    <2> QED
      BY <1>1, <1>2, <2>1, ThreadAssumption DEF Thread
  <1>9. CASE Peer \/ UNCHANGED vars
    <2>1. UNCHANGED <<pc, mode>>
      BY <1>9 DEF Peer, PeerRead, PeerClose, PeerSend, vars, recvVars
    <2>2. pc[r] = "getExpired" /\ UNCHANGED mode
      BY <2>1
    <2> QED
      BY <1>1, <2>2
  <1>10. \A t \in Caller \cup Consumer : t \in Thread
    BY DEF Thread
  <1> QED
    BY <1>3, <1>4, <1>5, <1>6, <1>7, <1>8, <1>9, <1>10 DEF Next, Choice

\* The last record stays the last.
LEMMA LastStep ==
  ASSUME IInv, EndOnce, EndKnown, NothingBehind, [Next]_vars
  PROVE  /\ \A j \in DOMAIN inbox' : inbox'[j].type # "malformed"
         /\ ByReader' => \A j \in LastQueued' : j = Len(inbox')
  <1> DEFINE Known == \A j \in DOMAIN inbox' : inbox'[j].type # "malformed"
             AtEnd == ByReader' => \A j \in LastQueued' : j = Len(inbox')
  <1>0. TypeOK /\ PcOK /\ inbox \in Seq(Record) /\ hand \in Record
    BY DEF IInv, TypeOK, RecvOK
  <1>1. ASSUME NEW rec \in Record, rec.type # "malformed", inbox' = Append(inbox, rec)
        PROVE  Known
    <2>1. \A j \in DOMAIN inbox' : (j \in DOMAIN inbox /\ inbox'[j] = inbox[j]) \/ inbox'[j] = rec
      BY <1>0, <1>1, SeqPlaces, SeqSteps
    <2> QED
      BY <1>1, <2>1 DEF NothingBehind
  <1>2. CASE \E t \in Thread : Post(t)
    <2>1. PICK t \in Thread : Post(t)
      BY <1>2
    <2>2. t \in LastComing /\ pc[t] = "post"
      BY <2>1 DEF Post, LastComing
    <2>3. LastQueued = {}
      BY <2>2 DEF EndOnce
    <2>4. LastRecord(t) \in Record /\ inbox' = Append(inbox, LastRecord(t))
      BY <1>0, <2>1, RecordTypes DEF LastRecord, Post, Queued
    <2>5. LastRecord(t).type # "malformed"
      <3>1. Cause(t) = "shutdown" => t = Reader /\ cause = "shutdown" /\ hand.type = "shutdown"
        BY <2>2 DEF Cause, EndKnown, Terminating
      <3> QED
        BY <3>1 DEF LastRecord, Eof, Failure
    <2>6. /\ Len(inbox') = Len(inbox) + 1
          /\ \A j \in DOMAIN inbox' : (j \in DOMAIN inbox /\ inbox'[j] = inbox[j]) \/ j = Len(inbox) + 1
      BY <1>0, <2>4, SeqPlaces, SeqSteps
    <2>7. LastQueued' \subseteq {Len(inbox')}
      BY <2>3, <2>6 DEF LastQueued
    <2> QED
      BY <1>1, <2>4, <2>5, <2>7
  <1>3. CASE Enqueue
    <2>1. inbox' = Append(inbox, hand) /\ hand.type # "malformed"
      BY <1>3, ToldRecords DEF Enqueue, Queued
    <2>2. ~ByReader'
      BY <1>3 DEF Enqueue, NothingBehind, ByReader
    <2> QED
      BY <1>0, <1>1, <2>1, <2>2
  <1>4. CASE \E r \in Consumer : Get(r)
    <2>1. inbox # <<>> /\ inbox' = Tail(inbox) /\ UNCHANGED terminal
      BY <1>4 DEF Get
    <2>2. /\ Len(inbox') = Len(inbox) - 1 /\ Len(inbox) \in Nat
          /\ \A j \in DOMAIN inbox' : j \in Int /\ j + 1 \in DOMAIN inbox /\ inbox'[j] = inbox[j + 1]
      BY <1>0, <2>1, SeqPlaces, SeqSteps
    <2>3. \A j \in LastQueued' : j \in Int /\ j + 1 \in LastQueued
      BY <2>2 DEF LastQueued
    <2>4. Known
      BY <2>2 DEF NothingBehind
    <2>5. ASSUME ByReader', NEW j \in LastQueued' PROVE j = Len(inbox')
      <3>1. j \in Int /\ j + 1 = Len(inbox)
        BY <2>1, <2>3, <2>5 DEF NothingBehind, ByReader
      <3> QED
        BY <2>2, <3>1
    <2> QED
      BY <2>4, <2>5
  <1>5. CASE UNCHANGED inbox
    <2>1. Known /\ LastQueued' = LastQueued
      BY <1>5 DEF NothingBehind, LastQueued
    <2>2. CASE \E t \in Thread : Terminate(t) /\ ~closed
      BY <2>1, <2>2 DEF EndOnce
    <2>3. CASE UNCHANGED terminal
      BY <1>5, <2>1, <2>3 DEF NothingBehind, ByReader
    <2> QED
      BY <2>1, <2>2, <2>3, OpenSteps
  <1>6. (ReadRecord \/ Dispatch \/ \E type \in PeerKind, i \in seen \cup {0} : PeerSend(type, i))
        => UNCHANGED inbox
    BY DEF ReadRecord, Dispatch, PeerSend, recvVars
  <1> QED
    BY <1>2, <1>3, <1>4, <1>5, <1>6, RecordSteps DEF wayVars

\* The queue of records is kept in order and ended once in every reachable state.
THEOREM RecvInductive == Spec => []RecvInv
  <1>1. Init => RecvInv
    <2> SUFFICES ASSUME Init PROVE RecvInv
      OBVIOUS
    <2>1. LastQueued = {} /\ LastComing = {}
      BY ThreadAssumption DEF Init, LastQueued, LastComing, Thread
    <2>2. EndKnown
      BY ThreadAssumption DEF Init, EndKnown, ReportsTrue, QueuedTrue, TrueReport, Told, Thread,
          Terminating
    <2>3. Numbered /\ Ordered
      BY DEF Init, Numbered, Ordered, Eof
    <2>4. NothingBehind
      BY ThreadAssumption DEF Init, NothingBehind, ByReader, Thread
    <2> QED
      BY <2>1, <2>2, <2>3, <2>4 DEF RecvInv, EndOnce
  <1>2. IInv /\ RecvInv /\ [Next]_vars => RecvInv'
    <2> SUFFICES ASSUME IInv, RecvInv, [Next]_vars PROVE RecvInv'
      OBVIOUS
    <2>1. NothingBehind'
      BY ByReaderStep, ExpiredStep, LastStep DEF RecvInv, NothingBehind
    <2> QED
      BY <2>1, OnceStep, KnownStep, OrderStep DEF RecvInv, IInv
  <1> QED
    BY <1>1, <1>2, Inductive, PTL DEF Spec

\* Whichever threads terminate the client, at whatever moments, one last record is
\* queued, it is the one of the reason that stays, and recv() and run() report no error
\* of a client that ended in order and no orderly end of one that failed.
THEOREM EndToldTruly == Spec => []EndTrue
  <1>1. RecvInv => EndTrue
    <2> SUFFICES ASSUME RecvInv PROVE OneLastRecord
      BY DEF EndTrue, RecvInv, EndKnown
    <2>1. ASSUME NEW S, \A x, y \in S : x = y PROVE Cardinality(S) \in 0..1
      <3>1. CASE S = {}
        BY <3>1, FS_EmptySet
      <3>2. CASE S # {}
        <4>1. PICK x : S = {x}
          BY <2>1, <3>2
        <4>2. Cardinality(S) = 1
          BY <4>1, FS_Singleton
        <4> QED
          BY <4>2
      <3> QED
        BY <3>1, <3>2
    <2>2. Cardinality(LastQueued) \in 0..1 /\ Cardinality(LastComing) \in 0..1
      BY <2>1 DEF RecvInv, EndOnce
    <2>3. LastComing = {} \/ LastQueued = {}
      BY DEF RecvInv, EndOnce
    <2>4. Cardinality({}) = 0
      BY FS_EmptySet
    <2> QED
      BY <2>2, <2>3, <2>4 DEF OneLastRecord
  <1> QED
    BY <1>1, RecvInductive, PTL

\* Every record waits behind all those msysd sent before it, wherever they wait.
THEOREM InWireOrder == Spec => []WireOrder
  <1>1. IInv /\ RecvInv => WireOrder
    <2> SUFFICES ASSUME IInv, RecvInv PROVE WireOrder
      OBVIOUS
    <2> DEFINE line == inbox \o <<hand>> \o in
               k == Len(inbox)
    <2>0. /\ inbox \in Seq(Record) /\ hand \in Record /\ in \in Seq(Record)
          /\ lastSeq \in Nat /\ nSent \in Nat
      BY DEF IInv, TypeOK, RecvOK, WireOK
    <2>1. /\ DOMAIN inbox = 1..k /\ DOMAIN in = 1..Len(in) /\ k \in Nat /\ Len(in) \in Nat
          /\ hand.n \in Nat
          /\ \A j \in 1..k : inbox[j].n \in Nat
          /\ \A j \in 1..Len(in) : in[j].n \in Nat
      BY <2>0, SeqPlaces, RecordNumbers
    <2>2. /\ DOMAIN line = 1..(k + 1 + Len(in))
          /\ \A j \in 1..k : line[j] = inbox[j]
          /\ line[k + 1] = hand
          /\ \A j \in 1..Len(in) : line[k + 1 + j] = in[j]
      BY <2>0
    <2> HIDE DEF line, k
    <2>3. \A j \in 1..(k + 1 + Len(in)) : \/ j \in 1..k \/ j = k + 1
                                         \/ \E m \in 1..Len(in) : j = k + 1 + m
      <3> SUFFICES ASSUME NEW j \in 1..(k + 1 + Len(in))
                   PROVE  j \in 1..k \/ j = k + 1 \/ \E m \in 1..Len(in) : j = k + 1 + m
        OBVIOUS
      <3>1. k \in Int /\ Len(in) \in Int /\ j \in Int
        BY <2>1
      <3>2. CASE j > k + 1
        <4>1. j - (k + 1) \in 1..Len(in) /\ j = k + 1 + (j - (k + 1))
          BY <3>1, <3>2
        <4> QED
          BY <4>1
      <3>3. CASE j <= k + 1
        BY <3>1, <3>3
      <3> QED
        BY <3>1, <3>2, <3>3
    <2>4. ASSUME NEW m \in 1..Len(in)
          PROVE  /\ lastSeq < in[m].n /\ hand.n < in[m].n
                 /\ \A i \in 1..k : inbox[i].n < in[m].n
                 /\ \A i \in 1..(m - 1) : in[i].n < in[m].n
      <3>1. /\ in[m].n + Len(in) = nSent + m
            /\ \A i \in 1..(m - 1) : in[i].n + Len(in) = nSent + i /\ in[i].n \in Nat
        <4>1. \A i \in 1..Len(in) : in[i].n + Len(in) = nSent + i
          BY <2>1 DEF RecvInv, Numbered
        <4>2. m \in 1..Len(in) /\ \A i \in 1..(m - 1) : i \in 1..Len(in)
          BY <2>1
        <4> QED
          BY <2>1, <4>1, <4>2
      <3>2. /\ lastSeq + Len(in) <= nSent /\ hand.n + Len(in) <= nSent
            /\ \A i \in 1..k : inbox[i].n + Len(in) <= nSent
        BY <2>1 DEF RecvInv, Numbered
      <3>3. lastSeq \in Nat /\ nSent \in Nat /\ m \in Nat \ {0} /\ in[m].n \in Nat
        BY <2>0, <2>1
      <3>4. lastSeq < in[m].n /\ hand.n < in[m].n
        BY <2>1, <3>1, <3>2, <3>3
      <3>5. \A i \in 1..k : inbox[i].n < in[m].n
        BY <2>1, <3>1, <3>2, <3>3
      <3>6. \A i \in 1..(m - 1) : in[i].n < in[m].n
        BY <2>1, <3>1, <3>3
      <3> QED
        BY <3>4, <3>5, <3>6
    <2>5. ASSUME NEW j \in DOMAIN line, line[j].n > 0
          PROVE  lastSeq < line[j].n /\ \A i \in 1..(j - 1) : line[i].n < line[j].n
      <3>1. CASE j \in 1..k
        BY <2>1, <2>2, <2>5, <3>1 DEF RecvInv, Ordered
      <3>2. CASE j = k + 1
        <4>1. line[j] = hand /\ \A i \in 1..(j - 1) : line[i] = inbox[i] /\ i \in 1..k
          BY <2>1, <2>2, <3>2
        <4> QED
          BY <2>1, <2>5, <4>1 DEF RecvInv, Ordered
      <3>3. CASE \E m \in 1..Len(in) : j = k + 1 + m
        <4>1. PICK m \in 1..Len(in) : j = k + 1 + m
          BY <3>3
        <4>2. line[j] = in[m]
          BY <2>2, <4>1
        <4>3. ASSUME NEW i \in 1..(j - 1) PROVE line[i].n < in[m].n
          <5>1. CASE i \in 1..k
            BY <2>2, <2>4, <5>1
          <5>2. CASE i = k + 1
            BY <2>2, <2>4, <5>2
          <5>3. CASE \E h \in 1..Len(in) : i = k + 1 + h
            <6>1. PICK h \in 1..Len(in) : i = k + 1 + h
              BY <5>3
            <6>2. h \in 1..(m - 1) /\ line[i] = in[h]
              BY <2>1, <2>2, <4>1, <6>1
            <6> QED
              BY <2>4, <6>2
          <5> QED
            BY <2>1, <2>3, <4>1, <5>1, <5>2, <5>3
        <4> QED
          BY <2>4, <4>2, <4>3
      <3> QED
        BY <2>2, <2>3, <3>1, <3>2, <3>3
    <2> QED
      BY <2>5 DEF WireOrder, line
  <1> QED
    BY <1>1, Inductive, RecvInductive, PTL

\* A run() that returns from a client the reader ended leaves no event and no reply
\* in the queue.
THEOREM RunTakesAll == Spec => RunDeliversAll
  <1> DEFINE Taken == \A r \in Consumer :
                        /\ mode[r] = "run" /\ mode'[r] = "none"
                        /\ terminal \notin {"close", "send"} /\ reported'[r] # "empty"
                        => \A j \in DOMAIN inbox' : inbox'[j].type \notin {"event", "return"}
  <1>1. IInv /\ RecvInv /\ [Next]_vars => Taken
    <2> SUFFICES ASSUME IInv, RecvInv, [Next]_vars, NEW r \in Consumer, mode[r] = "run",
                        mode'[r] = "none", terminal \notin {"close", "send"},
                        reported'[r] # "empty"
                 PROVE  \A j \in DOMAIN inbox' : inbox'[j].type \notin {"event", "return"}
      OBVIOUS
    <2>0. inbox \in Seq(Record) /\ mode \in [Consumer -> {"none", "recv", "run"}] /\ PcOK
      BY DEF IInv, TypeOK, RecvOK
    <2>1. mode' # mode
      OBVIOUS
    <2>2. Get(r) \/ GetNowaitEmpty(r) \/ GetExpired(r)
      <3>1. ~UNCHANGED vars /\ ~UNCHANGED mode
        BY <2>1 DEF vars, recvVars, others
      <3>2. ~Peer /\ ~ReaderStep
        BY <3>1 DEF Peer, PeerRead, PeerClose, PeerSend, ReaderStep, ReaderRuns, ReaderLoop,
                    ReadRecord, ReadEof, ReadError, Dispatch, Enqueue, CloseSocket, Terminate,
                    Drain, Post, recvVars
      <3>3. ~\E c \in Caller : CallerStep(c) \/ CallBegin(c) \/ SendBegin(c) \/ Expire(c)
        BY <3>1 DEF CallerStep, StartReader, RegisterCheck, Register, SendInvalid, SendCheck,
                    SendLock, SendAll, SendError, SendFailed, TakeReply, Expired, Finish,
                    Terminate, Drain, Post, CallBegin, SendBegin, Expire, recvVars
      <3>4. ~\E k \in Closer : CloserStep(k) \/ Close(k)
        BY <3>1 DEF CloserStep, Close, CloseSocket, Join, Terminate, Drain, Post, recvVars
      <3>5. ASSUME NEW q \in Consumer,
                   \/ Recv(q) \/ StartReader(q) \/ RecvCheck(q) \/ GetExpire(q)
                   \/ RecvBegin(q) \/ RunBegin(q)
            PROVE  FALSE
        BY <2>0, <3>1, <3>5
        DEF Recv, StartReader, RecvCheck, GetExpire, RecvBegin, RunBegin, recvVars
      <3>6. PICK q \in Consumer : Get(q) \/ GetNowaitEmpty(q) \/ GetExpired(q)
        BY <3>1, <3>2, <3>3, <3>4, <3>5 DEF Next, ConsumerStep, Choice
      <3>7. q = r
        BY <2>0, <3>6 DEF Get, GetNowaitEmpty, GetExpired, Deliver
      <3> QED
        BY <3>6, <3>7
    <2>3. CASE GetNowaitEmpty(r)
      BY <2>3 DEF GetNowaitEmpty, NothingQueued
    <2>4. CASE GetExpired(r)
      BY <2>4 DEF GetExpired, RecvInv, NothingBehind
    <2>5. CASE Get(r)
      <3>0. reported \in [Consumer -> {"return", "event", "empty", "shutdown", "malformed",
                                       "eof", "failure", "none"}]
        BY DEF IInv, TypeOK, RecvOK
      <3>1. inbox # <<>> /\ inbox' = Tail(inbox)
            /\ inbox[1].type \notin {"event", "return", "empty"}
        BY <2>0, <2>5, <3>0, SeqPlaces DEF Get, Deliver
      <3>2. /\ 1 \in DOMAIN inbox /\ inbox[1] \in Record /\ Len(inbox) \in Nat
            /\ DOMAIN inbox' = 1..(Len(inbox) - 1)
        BY <2>0, <3>1, SeqPlaces, SeqSteps
      <3>3. inbox[1].type # "malformed"
        BY <3>2 DEF RecvInv, NothingBehind
      <3>4. 1 \in LastQueued
        BY <3>1, <3>2, <3>3 DEF LastQueued, Record
      <3>5. ByReader
        BY <3>4 DEF ByReader, RecvInv, EndOnce, closed
      <3>6. Len(inbox) = 1
        BY <3>4, <3>5 DEF RecvInv, NothingBehind
      <3> QED
        BY <3>2, <3>6
    <2> QED
      BY <2>2, <2>3, <2>4, <2>5
  <1>2. IInv /\ RecvInv /\ [Next]_vars => [Taken]_vars
    BY <1>1
  <1> QED
    BY <1>2, Inductive, RecvInductive, PTL DEF Spec, RunDeliversAll
=============================================================================
