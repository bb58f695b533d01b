---------------------------- MODULE StdioBridge -----------------------------
(***************************************************************************)
(* The bridge of msys_sdk/stdio_bridge.py between the component channel    *)
(* and a child that speaks JSON lines.  run() starts the child and two     *)
(* pump threads, then polls the child and the results the pumps report; at *)
(* the end it stops the pumps by taking their descriptors away.            *)
(*                                                                         *)
(* A record is the number the sender gave it, or 0 if it is not one JSON   *)
(* object within the limit.  A child that exits closes its descriptors a   *)
(* moment before it can be waited for.                                     *)
(***************************************************************************)
EXTENDS Naturals, Sequences

CONSTANTS MaxLine,    \* bound: lines the child writes
          MaxWire,    \* bound: records msysd sends
          PipeCap,    \* bound: records a pipe of the child holds
          ControlCap  \* bound: records the kernel buffers towards msysd

ASSUME BoundAssumption ==
    /\ MaxLine \in Nat /\ MaxWire \in Nat
    /\ PipeCap \in Nat \ {0} /\ ControlCap \in Nat \ {0}

VARIABLES
    main,      \* where run() is
    failure,   \* a pump's result that ended the loop, or "none"
    ret,       \* what run() returned: "child" for the child's code, 65, 126, or "none"
    results,   \* the sources in _results, that of a malformed line by a name of its own
    stop,      \* _stop
    child,     \* "unborn", "running", "exiting" (descriptors closed) or "exited"
    input,     \* the child has its standard input open
    output,    \* and its standard output
    inPump,    \* where _socket_to_child() is, and the record it holds
    outPump,   \* where _child_to_socket() is, and the line it holds
    toChild,   \* records in the child's standard input
    fromChild, \* lines in its standard output
    nLine,     \* lines it wrote
    shut,      \* the bridge shut the control descriptor down
    peerOpen,  \* msysd has its end open
    in,        \* records msysd sent that were not read
    nSent,     \* how many it sent
    sent,      \* records the bridge sent to msysd
    nRead      \* how many of those it read

childVars == <<child, input, output, nLine>>
wireVars == <<shut, peerOpen, in, nSent, sent, nRead>>
vars == <<main, failure, ret, results, stop, childVars, inPump, outPump, toChild,
          fromChild, wireVars>>

At(l) == [at |-> l, rec |-> 0]

Init ==
    /\ main = "start" /\ failure = "none" /\ ret = "none" /\ results = <<>> /\ stop = FALSE
    /\ child = "unborn" /\ input = FALSE /\ output = FALSE /\ nLine = 0
    /\ inPump = At("unborn") /\ outPump = At("unborn")
    /\ toChild = <<>> /\ fromChild = <<>>
    /\ shut = FALSE /\ peerOpen = TRUE /\ in = <<>> /\ nSent = 0
    /\ sent = <<>> /\ nRead = 0

-----------------------------------------------------------------------------
(* Mistakes the properties must tell from the code. *)

PassesOn == "loop"
TermIgnored == UNCHANGED <<child, input, output>>
LeavesChild == "stop"
IgnoresEof == "poll"

-----------------------------------------------------------------------------
(* The pumps *)

Report(source) == results' = Append(results, source)

\* An OSError is reported unless the bridge is being stopped.
ReportUnlessStopped(source) ==
    IF stop THEN UNCHANGED results ELSE Report(source)

\* One JSON object, within the limit.
Valid(rec) == rec # 0

Loop == IF stop THEN At("dead") ELSE At("read")

InLoop ==
    /\ inPump.at = "loop"
    /\ inPump' = Loop
    /\ UNCHANGED <<main, failure, ret, results, stop, childVars, outPump, toChild,
                   fromChild, wireVars>>

InRead ==
    /\ inPump.at = "read" /\ in # <<>>
    /\ in' = Tail(in)
    /\ IF Valid(Head(in))
       THEN UNCHANGED results /\ inPump' = [at |-> "write", rec |-> Head(in)]
       ELSE Report("control-input") /\ inPump' = At("dead")
    /\ UNCHANGED <<main, failure, ret, stop, childVars, outPump, toChild, fromChild,
                   shut, peerOpen, nSent, sent, nRead>>

InEof ==
    /\ inPump.at = "read" /\ in = <<>> /\ (shut \/ ~peerOpen)
    /\ Report("control-eof")
    /\ inPump' = At("dead")
    /\ UNCHANGED <<main, failure, ret, stop, childVars, outPump, toChild, fromChild,
                   wireVars>>

InWrite ==
    /\ inPump.at = "write" /\ input /\ Len(toChild) < PipeCap
    /\ toChild' = Append(toChild, inPump.rec)
    /\ inPump' = At("loop")
    /\ UNCHANGED <<main, failure, ret, results, stop, childVars, outPump, fromChild,
                   wireVars>>

\* An OSError; or, of a stream run() has closed, a ValueError, which is reported.
InBroken ==
    /\ inPump.at = "write" /\ ~input
    /\ IF main \in {"closeOutput", "join", "done"}
       THEN Report("control-input") ELSE ReportUnlessStopped("control-input")
    /\ inPump' = At("dead")
    /\ UNCHANGED <<main, failure, ret, stop, childVars, outPump, toChild, fromChild,
                   wireVars>>

OutLoop ==
    /\ outPump.at = "loop"
    /\ outPump' = Loop
    /\ UNCHANGED <<main, failure, ret, results, stop, childVars, inPump, toChild,
                   fromChild, wireVars>>

AfterMalformed == "dead"

OutRead ==
    /\ outPump.at = "read" /\ fromChild # <<>>
    /\ fromChild' = Tail(fromChild)
    /\ IF Valid(Head(fromChild))
       THEN UNCHANGED results /\ outPump' = [at |-> "send", rec |-> Head(fromChild)]
       ELSE Report("child-malformed") /\ outPump' = At(AfterMalformed)
    /\ UNCHANGED <<main, failure, ret, stop, childVars, inPump, toChild, wireVars>>

OutEof ==
    /\ outPump.at = "read" /\ fromChild = <<>> /\ ~output
    /\ Report("child-eof")
    /\ outPump' = At("dead")
    /\ UNCHANGED <<main, failure, ret, stop, childVars, inPump, toChild, fromChild,
                   wireVars>>

\* The channel has room for a record; sendall() blocks while it has not.
HasRoom == Len(sent) - nRead < ControlCap

OutSend ==
    /\ outPump.at = "send" /\ peerOpen /\ ~shut /\ HasRoom
    /\ sent' = Append(sent, outPump.rec)
    /\ outPump' = At("loop")
    /\ UNCHANGED <<main, failure, ret, results, stop, childVars, inPump, toChild, fromChild,
                   shut, peerOpen, in, nSent, nRead>>

\* An OSError: the channel is shut down or closed, or the system refuses the record.
OutBroken ==
    /\ outPump.at = "send"
    /\ ReportUnlessStopped("child-output")
    /\ outPump' = At("dead")
    /\ UNCHANGED <<main, failure, ret, stop, childVars, inPump, toChild, fromChild,
                   wireVars>>

-----------------------------------------------------------------------------
(* run() *)

Start ==
    /\ main = "start"
    /\ \/ /\ main' = "poll" /\ child' = "running" /\ input' = TRUE /\ output' = TRUE
          /\ inPump' = At("loop") /\ outPump' = At("loop")
          /\ UNCHANGED ret
       \/ main' = "done" /\ ret' = "126" /\ UNCHANGED <<child, input, output, inPump, outPump>>
    /\ UNCHANGED <<failure, results, stop, nLine, toChild, fromChild, wireVars>>

Moves(l) ==
    /\ main' = l
    /\ UNCHANGED <<ret, stop, childVars, inPump, outPump, toChild, fromChild, wireVars>>

Poll ==
    /\ main = "poll"
    /\ Moves(IF child = "exited" THEN "wait" ELSE "get")
    /\ UNCHANGED <<failure, results>>

\* results.get(timeout=0.05)
AtChildEof == "grace"
AfterFailure == "terminate"
Get ==
    /\ main = "get"
    /\ IF results = <<>>
       THEN Moves("poll") /\ UNCHANGED <<failure, results>>
       ELSE /\ results' = Tail(results)
            /\ IF Head(results) = "child-eof"
               THEN Moves(AtChildEof) /\ UNCHANGED failure
               ELSE Moves(AfterFailure) /\ failure' = Head(results)

\* A child that ends its output may be about to exit: wait(timeout=0.15).
Grace ==
    /\ main = "grace"
    /\ \/ child = "exited" /\ Moves("wait") /\ UNCHANGED failure
       \/ child # "exited" /\ Moves(AfterFailure) /\ failure' = "child-output"
    /\ UNCHANGED results

\* _terminate_child(): SIGTERM, and after 1.5 s SIGKILL.
Terminate ==
    /\ main = "terminate"
    /\ Moves(IF child = "exited" THEN "wait" ELSE "terminated")
    /\ UNCHANGED <<failure, results>>

Kill == child' = "exited" /\ input' = FALSE /\ output' = FALSE
Terminated ==
    /\ main = "terminated"
    /\ main' = "wait"
    /\ Kill
    /\ UNCHANGED <<failure, ret, results, stop, nLine, inPump, outPump, toChild,
                   fromChild, wireVars>>

Wait == main = "wait" /\ child = "exited" /\ Moves("stop") /\ UNCHANGED <<failure, results>>

\* finally: stop, shutdown(), close both pipes, join.  A pump has the lock of its
\* stream while it is in it.
Stop ==
    /\ main = "stop"
    /\ main' = "shut" /\ stop' = TRUE
    /\ UNCHANGED <<failure, ret, results, childVars, inPump, outPump, toChild, fromChild,
                   wireVars>>

Shut ==
    /\ main = "shut"
    /\ main' = "closeInput" /\ shut' = TRUE
    /\ UNCHANGED <<failure, ret, results, stop, childVars, inPump, outPump, toChild,
                   fromChild, peerOpen, in, nSent, sent, nRead>>

CloseInput ==
    /\ main = "closeInput" /\ inPump.at # "write"
    /\ Moves("closeOutput") /\ UNCHANGED <<failure, results>>

CloseOutput ==
    /\ main = "closeOutput" /\ outPump.at # "read"
    /\ Moves("join") /\ UNCHANGED <<failure, results>>

\* join(timeout=0.5) of each pump.
Join ==
    /\ main = "join"
    /\ main' = "done" /\ ret' = IF failure = "none" THEN "child" ELSE "65"
    /\ UNCHANGED <<failure, results, stop, childVars, inPump, outPump, toChild, fromChild,
                   wireVars>>

-----------------------------------------------------------------------------
(* The child and msysd *)

others == <<main, failure, ret, results, stop, inPump, outPump>>

Emit(rec) ==
    /\ child = "running" /\ output /\ nLine < MaxLine /\ Len(fromChild) < PipeCap
    /\ fromChild' = Append(fromChild, rec)
    /\ nLine' = nLine + 1
    /\ UNCHANGED <<others, child, input, output, toChild, wireVars>>

EndOutput ==
    /\ child = "running" /\ output
    /\ output' = FALSE
    /\ UNCHANGED <<others, child, input, nLine, toChild, fromChild, wireVars>>

EndInput ==
    /\ child = "running" /\ input
    /\ input' = FALSE
    /\ UNCHANGED <<others, child, output, nLine, toChild, fromChild, wireVars>>

ReadInput ==
    /\ input /\ toChild # <<>>
    /\ toChild' = Tail(toChild)
    /\ UNCHANGED <<others, childVars, fromChild, wireVars>>

Exit ==
    /\ child = "running"
    /\ child' = "exiting" /\ input' = FALSE /\ output' = FALSE
    /\ UNCHANGED <<others, nLine, toChild, fromChild, wireVars>>

Exited ==
    /\ child = "exiting"
    /\ child' = "exited"
    /\ UNCHANGED <<others, input, output, nLine, toChild, fromChild, wireVars>>

PeerSend(rec) ==
    /\ peerOpen /\ ~shut /\ nSent < MaxWire
    /\ in' = Append(in, rec)
    /\ nSent' = nSent + 1
    /\ UNCHANGED <<others, childVars, toChild, fromChild, shut, peerOpen, sent,
                   nRead>>

PeerRead ==
    /\ peerOpen /\ nRead < Len(sent)
    /\ nRead' = nRead + 1
    /\ UNCHANGED <<others, childVars, toChild, fromChild, shut, peerOpen, in, nSent, sent>>

PeerClose ==
    /\ peerOpen
    /\ peerOpen' = FALSE
    /\ UNCHANGED <<others, childVars, toChild, fromChild, shut, in, nSent, sent, nRead>>

-----------------------------------------------------------------------------
InStep == InLoop \/ InRead \/ InEof \/ InWrite \/ InBroken
OutStep == OutLoop \/ OutRead \/ OutEof \/ OutSend \/ OutBroken
MainStep ==
    \/ Poll \/ Get \/ Grace \/ Terminate \/ Terminated \/ Wait
    \/ Stop \/ Shut \/ CloseInput \/ CloseOutput \/ Join
Environment ==
    \/ Start
    \/ \E rec \in {0, nLine + 1} : Emit(rec)
    \/ EndOutput \/ EndInput \/ ReadInput \/ Exit
    \/ \E rec \in {0, nSent + 1} : PeerSend(rec)
    \/ PeerRead \/ PeerClose

Next == InStep \/ OutStep \/ MainStep \/ Exited \/ Environment

Spec == Init /\ [][Next]_vars

\* sendall() waits for msysd to read, on a channel that is open at both ends.  The kernel
\* may fail it even so, but owes nothing.
Blocked == outPump.at = "send" /\ peerOpen /\ ~shut /\ ~HasRoom

\* Threads that can go on are scheduled and an exit completes; the child, msysd and a
\* full channel promise nothing.
Fairness ==
    WF_vars(InStep) /\ WF_vars(~Blocked /\ OutStep) /\ WF_vars(MainStep) /\ WF_vars(Exited)

FairSpec == Spec /\ Fairness

-----------------------------------------------------------------------------
(* Properties *)

Idle == {At(l) : l \in {"unborn", "loop", "read", "dead"}}
Source == {"control-eof", "control-input", "child-eof", "child-output", "child-malformed"}

\* Where the threads and the child are.
PlacesOK ==
    /\ main \in {"start", "poll", "get", "grace", "terminate", "terminated", "wait", "stop",
                 "shut", "closeInput", "closeOutput", "join", "done"}
    /\ failure \in Source \cup {"none"} /\ ret \in {"none", "child", "65", "126"}
    /\ stop \in BOOLEAN /\ child \in {"unborn", "running", "exiting", "exited"}
    /\ input \in BOOLEAN /\ output \in BOOLEAN /\ shut \in BOOLEAN /\ peerOpen \in BOOLEAN
    /\ nLine \in 0..MaxLine /\ nSent \in 0..MaxWire /\ nRead \in Nat

\* What they hold, report and pass on.
RecordsOK ==
    /\ inPump \in Idle \cup [at : {"write"}, rec : 1..MaxWire]
    /\ outPump \in Idle \cup [at : {"send"}, rec : 1..MaxLine]
    /\ results \in Seq(Source) /\ toChild \in Seq(1..MaxWire) /\ in \in Seq(0..MaxWire)
    /\ fromChild \in Seq(0..MaxLine) /\ sent \in Seq(1..MaxLine)

\* The type invariant.  No pump holds, and no pipe or channel was given, a record
\* that is not valid.
TypeOK == PlacesOK /\ RecordsOK

\* What msysd gets is what the child wrote, in order and without a gap, up to the
\* first malformed line: nothing that comes after it passes.
ForwardedInOrder == \A j \in DOMAIN sent : sent[j] = j

\* run() leaves no child behind, whichever way its loop ended.
ChildGone == main = "done" /\ ret # "126" => child = "exited"

\* The README: a child that closes its protocol output while continuing to run
\* fails the component, instead of leaving it falsely ready.  The pump sees the end of
\* the output behind the lines before it, so msysd must read those: while it does not,
\* the pump stays in sendall() and the child runs on.
ClosedOutputFails ==
    []<>~Blocked => (child = "running" /\ ~output ~> child # "running")

\* run() returns once a pump has reported or the child has exited, though the pumps may
\* be in a read or a write then, msysd read nothing and the child ignore SIGTERM.
RunReturns == results # <<>> \/ child = "exited" ~> main = "done"

\* The README: a malformed line fails the component, so run() does not return the
\* child's code when the pump has met one.
MalformedFails == ret = "child" => \A j \in DOMAIN results : results[j] # "child-malformed"

-----------------------------------------------------------------------------
(* The inductive invariant: what ForwardedInOrder and ChildGone rest on. *)

\* The lines the pump took from the child.
Taken == nLine - Len(fromChild)

\* The lines in the pipe are the last ones the child wrote; until the pump ends, all
\* before them were valid and are sent, but for the one it holds.
Lines ==
    /\ Len(fromChild) <= nLine
    /\ \A j \in 1..Len(fromChild) : fromChild[j] \in {0, Taken + j}
    /\ outPump.at = "send" => outPump.rec = Taken /\ Len(sent) + 1 = Taken
    /\ outPump.at \in {"unborn", "loop", "read"} => Len(sent) = Taken

\* The loop is left with the child waited for, unless it could not be started, and the
\* pumps are started with it.
Exits ==
    /\ main \in {"stop", "shut", "closeInput", "closeOutput", "join", "done"} =>
           child = "exited" \/ ret = "126"
    /\ ret = "126" => main = "done"
    /\ main = "start" => outPump.at = "unborn"

IInv == TypeOK /\ ForwardedInOrder /\ ChildGone /\ Lines /\ Exits
=============================================================================
