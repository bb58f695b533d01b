------------------------- MODULE StdioBridgeProofs --------------------------
(* Proofs about StdioBridge, for any bounds. *)
EXTENDS StdioBridge, TLAPS

USE DEF childVars, wireVars, others, At, Moves

LEMMA EmptySeq == \A S : <<>> \in Seq(S)
  OBVIOUS

LEMMA SeqSteps ==
  ASSUME NEW S, NEW s \in Seq(S)
  PROVE  /\ Len(s) \in Nat
         /\ \A x \in S : /\ Append(s, x) \in Seq(S) /\ Len(Append(s, x)) = Len(s) + 1
                         /\ Append(s, x)[Len(s) + 1] = x
                         /\ \A j \in 1..Len(s) : Append(s, x)[j] = s[j]
         /\ s # <<>> => /\ Head(s) = s[1] /\ Head(s) \in S /\ Tail(s) \in Seq(S) /\ Len(s) > 0
                        /\ Len(Tail(s)) = Len(s) - 1
                        /\ \A j \in 1..(Len(s) - 1) : Tail(s)[j] = s[j + 1]
  OBVIOUS

\* The lines and pumps a step of run() or of the peer leaves alone.
lineVars == <<outPump, fromChild, nLine, sent>>

-----------------------------------------------------------------------------
(* The types *)

LEMMA TypeInit == Init => TypeOK
  <1> SUFFICES ASSUME Init PROVE TypeOK
    OBVIOUS
  <1>1. PlacesOK
    <2>1. nLine \in 0..MaxLine /\ nSent \in 0..MaxWire
      BY BoundAssumption DEF Init
    <2> QED
      BY <2>1 DEF Init, PlacesOK
  <1>2. inPump \in Idle /\ outPump \in Idle
    BY DEF Init, Idle
  <1> QED
    BY <1>1, <1>2, EmptySeq DEF Init, TypeOK, RecordsOK

LEMMA PlacesStep ==
  ASSUME TypeOK, [Next]_vars PROVE PlacesOK'
  <1> USE BoundAssumption DEF TypeOK, PlacesOK
  <1>1. CASE InStep
    BY <1>1 DEF InStep, InLoop, InRead, InEof, InWrite, InBroken
  <1>2. CASE OutStep
    BY <1>2 DEF OutStep, OutLoop, OutRead, OutEof, OutSend, OutBroken
  <1>3. CASE Get
    <2>1. results # <<>> => Head(results) \in Source
      BY SeqSteps DEF RecordsOK
    <2>2. /\ main' \in {"poll", "grace", "terminate"} /\ failure' \in Source \cup {"none"}
          /\ UNCHANGED <<ret, stop, childVars, wireVars>>
      BY <1>3, <2>1 DEF Get, AtChildEof, AfterFailure
    <2> QED
      BY <2>2
  <1>4. CASE Poll \/ Grace \/ Terminate \/ Wait \/ CloseInput \/ CloseOutput
    <2>1. /\ main' \in {"wait", "get", "terminate", "terminated", "stop", "closeOutput", "join"}
          /\ failure' \in Source \cup {"none"}
          /\ UNCHANGED <<ret, stop, childVars, wireVars>>
      BY <1>4 DEF Poll, Grace, AfterFailure, Source, Terminate, Wait, CloseInput, CloseOutput
    <2> QED
      BY <2>1
  <1>5. CASE Terminated \/ Stop \/ Shut \/ Join
    BY <1>5 DEF Terminated, Kill, Stop, Shut, Join
  <1>6. CASE Start \/ EndOutput \/ EndInput \/ Exit \/ Exited
    <2>1. CASE Start
      BY <2>1 DEF Start
    <2>2. CASE EndOutput \/ EndInput
      BY <2>2 DEF EndOutput, EndInput
    <2>3. CASE Exit
      BY <2>3 DEF Exit
    <2>4. CASE Exited
      BY <2>4 DEF Exited
    <2> QED
      BY <1>6, <2>1, <2>2, <2>3, <2>4
  <1>7. ASSUME NEW rec, Emit(rec) PROVE PlacesOK'
    <2>1. nLine' \in 0..MaxLine
      BY <1>7 DEF Emit
    <2> QED
      BY <1>7, <2>1 DEF Emit
  <1>8. ASSUME NEW rec, PeerSend(rec) PROVE PlacesOK'
    <2>1. nSent' \in 0..MaxWire
      BY <1>8 DEF PeerSend
    <2> QED
      BY <1>8, <2>1 DEF PeerSend
  <1>9. CASE ReadInput \/ PeerRead \/ PeerClose
    <2>1. CASE ReadInput
      BY <2>1 DEF ReadInput
    <2>2. CASE PeerRead
      <3>1. nRead' \in Nat
        BY <2>2 DEF PeerRead
      <3> QED
        BY <2>2, <3>1 DEF PeerRead
    <2>3. CASE PeerClose
      BY <2>3 DEF PeerClose
    <2> QED
      BY <1>9, <2>1, <2>2, <2>3
  <1>10. CASE UNCHANGED vars
    BY <1>10 DEF vars
  <1> QED
    BY <1>1, <1>2, <1>3, <1>4, <1>5, <1>6, <1>7, <1>8, <1>9, <1>10
    DEF Next, MainStep, Environment

recordVars == <<inPump, outPump, results, toChild, in, fromChild, sent>>

\* Only these steps move a record or a report.
LEMMA RecordSteps ==
  ASSUME [Next]_vars, ~InStep, ~OutStep, ~Get, ~Start, ~ReadInput,
         \A rec \in {0, nLine + 1} : ~Emit(rec), \A rec \in {0, nSent + 1} : ~PeerSend(rec)
  PROVE  UNCHANGED recordVars
  <1> USE DEF recordVars
  <1>1. CASE MainStep
    BY <1>1 DEF MainStep, Poll, Grace, Terminate, Terminated, Wait, Stop, Shut, CloseInput,
                CloseOutput, Join
  <1>2. CASE Exited \/ Environment
    BY <1>2 DEF Exited, Environment, EndOutput, EndInput, Exit, PeerRead, PeerClose
  <1>3. CASE UNCHANGED vars
    BY <1>3 DEF vars
  <1> QED
    BY <1>1, <1>2, <1>3 DEF Next

LEMMA RecordsStep ==
  ASSUME TypeOK, [Next]_vars PROVE RecordsOK'
  <1> USE BoundAssumption DEF TypeOK, RecordsOK
  <1>1. ASSUME NEW s \in Source PROVE Append(results, s) \in Seq(Source)
    BY SeqSteps
  <1>2. At("loop") \in Idle /\ At("read") \in Idle /\ At("dead") \in Idle
    BY DEF Idle
  <1>3. CASE InLoop \/ OutLoop
    BY <1>2, <1>3 DEF InLoop, OutLoop, Loop
  <1>4. CASE InRead
    <2>1. Head(in) \in 0..MaxWire /\ Tail(in) \in Seq(0..MaxWire)
      BY <1>4, SeqSteps DEF InRead
    <2>2. inPump' \in Idle \cup [at : {"write"}, rec : 1..MaxWire]
      BY <1>2, <1>4, <2>1 DEF InRead, Valid
    <2>3. results' \in Seq(Source)
      BY <1>1, <1>4 DEF InRead, Report, Source
    <2> QED
      BY <1>4, <2>1, <2>2, <2>3 DEF InRead
  <1>5. CASE InEof \/ InBroken
    <2>1. results' \in Seq(Source) /\ inPump' \in Idle
      BY <1>1, <1>2, <1>5 DEF InEof, InBroken, Report, ReportUnlessStopped, Source
    <2> QED
      BY <1>5, <2>1 DEF InEof, InBroken
  <1>6. CASE InWrite
    <2>1. inPump.rec \in 1..MaxWire
      BY <1>6 DEF InWrite, Idle
    <2>2. toChild' \in Seq(1..MaxWire) /\ inPump' \in Idle
      BY <1>2, <1>6, <2>1, SeqSteps DEF InWrite
    <2> QED
      BY <1>6, <2>2 DEF InWrite
  <1>7. CASE OutRead
    <2>1. Head(fromChild) \in 0..MaxLine /\ Tail(fromChild) \in Seq(0..MaxLine)
      BY <1>7, SeqSteps DEF OutRead
    <2>2. outPump' \in Idle \cup [at : {"send"}, rec : 1..MaxLine]
      BY <1>2, <1>7, <2>1 DEF OutRead, Valid, AfterMalformed
    <2>3. results' \in Seq(Source)
      BY <1>1, <1>7 DEF OutRead, Report, Source
    <2> QED
      BY <1>7, <2>1, <2>2, <2>3 DEF OutRead
  <1>8. CASE OutEof
    <2>1. results' \in Seq(Source) /\ outPump' \in Idle
      BY <1>1, <1>2, <1>8 DEF OutEof, Report, Source
    <2> QED
      BY <1>8, <2>1 DEF OutEof
  <1>9. CASE OutSend \/ OutBroken
    <2>1. CASE OutSend
      <3>1. outPump.rec \in 1..MaxLine
        BY <2>1 DEF OutSend, Idle
      <3>2. Append(sent, outPump.rec) \in Seq(1..MaxLine)
        BY <3>1, SeqSteps
      <3>3. sent' \in Seq(1..MaxLine) /\ outPump' \in Idle
        BY <1>2, <2>1, <3>2 DEF OutSend
      <3> QED
        BY <2>1, <3>3 DEF OutSend
    <2>2. CASE OutBroken
      <3>1. results' \in Seq(Source) /\ outPump' \in Idle
        BY <1>1, <1>2, <2>2 DEF OutBroken, ReportUnlessStopped, Report, Source
      <3> QED
        BY <2>2, <3>1 DEF OutBroken
    <2> QED
      BY <1>9, <2>1, <2>2
  <1>10. CASE Get
    <2>1. results # <<>> => Tail(results) \in Seq(Source)
      BY SeqSteps
    <2>2. results' \in Seq(Source)
      BY <1>10, <2>1 DEF Get
    <2> QED
      BY <1>10, <2>2 DEF Get
  <1>11. CASE Start
    <2>1. inPump' \in Idle \cup {inPump} /\ outPump' \in Idle \cup {outPump}
      BY <1>2, <1>11 DEF Start
    <2> QED
      BY <1>11, <2>1 DEF Start
  <1>12. CASE ReadInput
    <2>1. toChild' \in Seq(1..MaxWire)
      BY <1>12, SeqSteps DEF ReadInput
    <2> QED
      BY <1>12, <2>1 DEF ReadInput
  <1>13. ASSUME NEW rec \in {0, nLine + 1}, Emit(rec) PROVE RecordsOK'
    <2>1. rec \in 0..MaxLine
      BY <1>13 DEF Emit, PlacesOK
    <2>2. fromChild' \in Seq(0..MaxLine)
      BY <1>13, <2>1, SeqSteps DEF Emit
    <2> QED
      BY <1>13, <2>2 DEF Emit
  <1>14. ASSUME NEW rec \in {0, nSent + 1}, PeerSend(rec) PROVE RecordsOK'
    <2>1. rec \in 0..MaxWire
      BY <1>14 DEF PeerSend, PlacesOK
    <2>2. in' \in Seq(0..MaxWire)
      BY <1>14, <2>1, SeqSteps DEF PeerSend
    <2> QED
      BY <1>14, <2>2 DEF PeerSend
  <1>15. CASE UNCHANGED recordVars
    BY <1>15 DEF recordVars
  <1> QED
    BY <1>3, <1>4, <1>5, <1>6, <1>7, <1>8, <1>9, <1>10, <1>11, <1>12, <1>13, <1>14, <1>15,
       RecordSteps
    DEF InStep, OutStep

-----------------------------------------------------------------------------
(* The lines of the child *)

\* Only these steps take, send or add a line.
LEMMA LineSteps ==
  ASSUME [Next]_vars, ~OutStep, ~Start, \A rec \in {0, nLine + 1} : ~Emit(rec)
  PROVE  UNCHANGED lineVars
  <1> USE DEF lineVars
  <1>1. CASE InStep
    BY <1>1 DEF InStep, InLoop, InRead, InEof, InWrite, InBroken
  <1>2. CASE MainStep
    BY <1>2 DEF MainStep, Poll, Get, Grace, Terminate, Terminated, Wait, Stop, Shut,
                CloseInput, CloseOutput, Join
  <1>3. CASE Exited \/ Environment
    BY <1>3 DEF Exited, Environment, EndOutput, EndInput, ReadInput, Exit, PeerSend,
                PeerRead, PeerClose
  <1>4. CASE UNCHANGED vars
    BY <1>4 DEF vars
  <1> QED
    BY <1>1, <1>2, <1>3, <1>4 DEF Next

LEMMA LinesStep ==
  ASSUME IInv, [Next]_vars PROVE Lines' /\ ForwardedInOrder'
  <1>0. /\ nLine \in Nat /\ Len(fromChild) \in Nat /\ Len(sent) \in Nat
        /\ fromChild \in Seq(0..MaxLine) /\ sent \in Seq(1..MaxLine)
        /\ DOMAIN sent = 1..Len(sent)
    BY BoundAssumption, SeqSteps DEF IInv, TypeOK, PlacesOK, RecordsOK
  <1>1. CASE UNCHANGED lineVars
    BY <1>1 DEF IInv, lineVars, Lines, Taken, ForwardedInOrder
  <1>2. CASE OutLoop \/ OutEof
    BY <1>2 DEF IInv, OutLoop, OutEof, Loop, Lines, Taken, ForwardedInOrder
  <1>3. CASE OutRead
    <2>1. /\ Len(fromChild') = Len(fromChild) - 1 /\ Len(fromChild) > 0
          /\ \A j \in 1..(Len(fromChild) - 1) : fromChild'[j] = fromChild[j + 1]
          /\ UNCHANGED <<nLine, sent>> /\ Head(fromChild) = fromChild[1]
      BY <1>0, <1>3, SeqSteps DEF OutRead
    <2>2. Taken' = Taken + 1 /\ Taken \in Nat /\ Len(fromChild') <= nLine'
      BY <1>0, <2>1 DEF Taken, IInv, Lines
    <2>3. ASSUME NEW j \in 1..Len(fromChild') PROVE fromChild'[j] \in {0, Taken' + j}
      <3>1. j + 1 \in 1..Len(fromChild) /\ j \in 1..(Len(fromChild) - 1)
        BY <1>0, <2>1
      <3>2. fromChild'[j] = fromChild[j + 1] /\ fromChild[j + 1] \in {0, Taken + (j + 1)}
        BY <2>1, <3>1 DEF IInv, Lines
      <3> QED
        BY <2>2, <3>2
    <2>4. fromChild[1] \in {0, Taken + 1} /\ Len(sent) = Taken
      BY <1>0, <1>3, <2>1 DEF IInv, Lines, OutRead
    <2>5. \/ outPump' = [at |-> "send", rec |-> Taken + 1]
          \/ outPump'.at = "dead"
      BY <1>3, <2>1, <2>4 DEF OutRead, Valid, AfterMalformed
    <2>6. Lines'
      BY <2>1, <2>2, <2>3, <2>4, <2>5 DEF Lines
    <2> QED
      BY <2>1, <2>6 DEF ForwardedInOrder, IInv
  <1>4. CASE OutSend
    <2>1. UNCHANGED <<nLine, fromChild>> /\ outPump.rec = Len(sent) + 1 /\ Len(sent) + 1 = Taken
      BY <1>4 DEF IInv, Lines, OutSend
    <2>2. sent' = Append(sent, outPump.rec) /\ outPump'.at = "loop"
      BY <1>4 DEF OutSend
    <2>3. outPump.rec \in 1..MaxLine
      BY <1>4 DEF IInv, TypeOK, RecordsOK, OutSend, Idle
    <2>4. /\ Len(sent') = Len(sent) + 1 /\ sent'[Len(sent) + 1] = Len(sent) + 1
          /\ \A j \in 1..Len(sent) : sent'[j] = sent[j]
          /\ DOMAIN sent' = 1..(Len(sent) + 1)
      BY <1>0, <2>1, <2>2, <2>3, SeqSteps
    <2>5. ForwardedInOrder'
      BY <1>0, <2>4 DEF IInv, ForwardedInOrder
    <2> QED
      BY <2>1, <2>2, <2>4, <2>5 DEF IInv, Lines, Taken
  <1>7. CASE OutBroken
    BY <1>7 DEF OutBroken, IInv, Lines, Taken, ForwardedInOrder
  <1>5. CASE Start
    BY <1>5 DEF Start, IInv, Exits, Lines, Taken, ForwardedInOrder
  <1>6. ASSUME NEW rec \in {0, nLine + 1}, Emit(rec) PROVE Lines' /\ ForwardedInOrder'
    <2>1. rec \in 0..MaxLine
      BY <1>6, BoundAssumption DEF IInv, TypeOK, PlacesOK, Emit
    <2>2. /\ Len(fromChild') = Len(fromChild) + 1 /\ fromChild'[Len(fromChild) + 1] = rec
          /\ \A j \in 1..Len(fromChild) : fromChild'[j] = fromChild[j]
          /\ nLine' = nLine + 1 /\ UNCHANGED <<outPump, sent>>
      BY <1>0, <1>6, <2>1, SeqSteps DEF Emit
    <2>3. Taken' = Taken /\ Taken + (Len(fromChild) + 1) = nLine + 1
      BY <1>0, <2>2 DEF Taken
    <2>4. \A j \in 1..Len(fromChild') : fromChild'[j] \in {0, Taken' + j}
      BY <1>0, <2>2, <2>3 DEF IInv, Lines
    <2> QED
      BY <1>0, <2>2, <2>3, <2>4 DEF IInv, Lines, ForwardedInOrder
  <1> QED
    BY <1>1, <1>2, <1>3, <1>4, <1>5, <1>6, <1>7, LineSteps DEF OutStep

-----------------------------------------------------------------------------
(* run() *)

LEMMA ExitsStep ==
  ASSUME IInv, [Next]_vars PROVE Exits' /\ ChildGone'
  <1> USE DEF IInv, Exits, ChildGone
  <1>1. CASE InStep
    BY <1>1 DEF InStep, InLoop, InRead, InEof, InWrite, InBroken
  <1>2. CASE OutStep
    BY <1>2 DEF OutStep, OutLoop, OutRead, OutEof, OutSend, OutBroken
  <1>3. CASE Poll \/ Get \/ Grace \/ Terminate \/ Terminated \/ Wait
    BY <1>3 DEF Poll, Get, AtChildEof, AfterFailure, Grace, Terminate, Terminated, Kill, Wait
  <1>4. CASE Stop \/ Shut \/ CloseInput \/ CloseOutput \/ Join
    BY <1>4 DEF Stop, Shut, CloseInput, CloseOutput, Join
  <1>5. CASE Exited \/ Environment
    BY <1>5 DEF Exited, Environment, Start, Emit, EndOutput, EndInput, ReadInput, Exit, PeerSend,
                PeerRead, PeerClose
  <1>6. CASE UNCHANGED vars
    BY <1>6 DEF vars
  <1> QED
    BY <1>1, <1>2, <1>3, <1>4, <1>5, <1>6 DEF Next, MainStep

-----------------------------------------------------------------------------
(* Theorems *)

LEMMA IInvInit == Init => IInv
  <1> SUFFICES ASSUME Init PROVE IInv
    OBVIOUS
  <1>1. Lines /\ Exits /\ ForwardedInOrder /\ ChildGone
    <2>1. Len(fromChild) = 0 /\ Len(sent) = 0 /\ DOMAIN sent = {} /\ outPump.at = "unborn"
      BY DEF Init
    <2>2. nLine = 0
      BY DEF Init
    <2>3. Taken = 0
      BY <2>1, <2>2 DEF Taken
    <2>4. Lines /\ ForwardedInOrder
      BY <2>1, <2>2, <2>3 DEF Lines, ForwardedInOrder
    <2> QED
      BY <2>1, <2>4 DEF Init, Exits, ChildGone
  <1> QED
    BY <1>1, TypeInit DEF IInv

\* The inductive invariant of the bridge: the lines in the pipe, in the pump's hand and
\* sent are those the child wrote, in order, and the loop is left after the child.
THEOREM Inductive == Spec => []IInv
  <1>1. ASSUME IInv, [Next]_vars PROVE IInv'
    BY <1>1, PlacesStep, RecordsStep, LinesStep, ExitsStep DEF IInv, TypeOK
  <1> QED
    BY IInvInit, <1>1, PTL DEF Spec

\* msysd gets what the child wrote, in order and without a gap, up to the first
\* malformed line.
THEOREM InOrder == Spec => []ForwardedInOrder
  <1>1. IInv => ForwardedInOrder
    BY DEF IInv
  <1> QED
    BY <1>1, Inductive, PTL

\* run() returns only after the child it started has exited.
THEOREM NoChildLeft == Spec => []ChildGone
  <1>1. IInv => ChildGone
    BY DEF IInv
  <1> QED
    BY <1>1, Inductive, PTL
=============================================================================
