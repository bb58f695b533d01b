----------------------------- MODULE MsysClient -----------------------------
(***************************************************************************)
(* The threaded mIPC client of msys_sdk/client.py.                         *)
(*                                                                         *)
(* Application threads call call() and send(), one event consumer calls    *)
(* recv() or run(), other threads call close().  The first of them that    *)
(* needs it starts one reader thread, the only one that reads the          *)
(* descriptor: it hands a reply to the waiter registered under its request *)
(* id, queues every other record for the consumer, and on EOF, shutdown or *)
(* a bad record terminates the client.  A failed send and close() may      *)
(* terminate it as well.                                                   *)
(*                                                                         *)
(* A critical section of _pending_lock in which nothing else that is       *)
(* shared is read or written is one step.  The registration of a call is   *)
(* not: it also reads _closed, which _terminate() sets under another lock, *)
(* so the lock is a variable and the registration takes two steps.  The    *)
(* three parts of _terminate() (set the terminal state, fail the pending   *)
(* calls, queue the last record) are three steps.                          *)
(***************************************************************************)
EXTENDS Naturals, Sequences, FiniteSets, MipcOutcome

CONSTANTS Caller,    \* threads that call call()
          Sender,    \* those of them that also call ready(), subscribe(), event()
          Consumer,  \* threads that call recv() or run()
          Closer,    \* threads that call close(), once each
          Reader,    \* the reader thread
          Free,      \* the value of a lock nobody holds
          MaxId,     \* bound: no call begins once this many ids are handed out
          MaxWire,   \* bound: records msysd sends
          MaxWork,   \* bound: ids handed out or about to be, and records msysd sends
          OutCap,    \* bound: records the kernel buffers towards msysd
          PeerKind   \* the kinds of record msysd sends

Thread == Caller \cup Consumer \cup Closer \cup {Reader}

ASSUME ThreadAssumption ==
    /\ Sender \subseteq Caller
    /\ Caller \cap Consumer = {} /\ Caller \cap Closer = {} /\ Consumer \cap Closer = {}
    /\ Reader \notin Caller \cup Consumer \cup Closer
    /\ Free \notin Thread
ASSUME BoundAssumption ==
    MaxId \in Nat /\ MaxWire \in Nat /\ MaxWork \in Nat /\ OutCap \in Nat \ {0}
ASSUME PeerAssumption == PeerKind \subseteq {"return", "event", "empty", "shutdown", "malformed"}

\* A record msysd sends (n counts them), or one the client queues itself.  "empty" is
\* the JSON object without members.
Record == [type : {"return", "event", "empty", "shutdown", "malformed", "eof", "failure"},
           id : Nat, n : Nat]
Eof == [type |-> "eof", id |-> 0, n |-> 0]
Failure == [type |-> "failure", id |-> 0, n |-> 0]

VARIABLES
    pc,          \* where each thread is
    terminal,    \* "none", or why the client is closed (_closed, _terminal_*_error)
    pendingLock, \* holder of _pending_lock between two steps
    pending,     \* request ids that are registered (_pending)
    nextId,      \* _next_id
    slot,        \* the waiter queue (maxsize 1) of each id handed out
    sendLock,    \* holder of _send_lock
    req,         \* the id of the call a caller is in, 0 when it has none
    result,      \* the outcome of a caller's last call
    inbox,       \* _event_queue
    hand,        \* the record the reader holds (Eof when it holds none)
    cause,       \* the reason with which the reader calls _terminate()
    mode,        \* "run" for the holder of _run_lock, "recv", or "none"
    reported,    \* type of the record a consumer got last
    lastSeq,     \* number of the last record of msysd that a consumer got
    sockOpen,    \* ~_socket_closed
    out, in,     \* records in the kernel, to and from msysd
    peerOpen,    \* msysd has its end open
    reset,       \* it closed it with records unread (ECONNRESET)
    seen,        \* requests msysd has read
    answered,    \* requests it has answered
    nSent        \* records it has sent

callVars == <<pendingLock, pending, nextId, slot, sendLock, req, result>>
recvVars == <<inbox, mode, reported, lastSeq>>
readVars == <<hand, cause>>
peerVars == <<peerOpen, reset, seen, answered, nSent>>
wireVars == <<sockOpen, out, in, peerVars>>
others == <<recvVars, readVars, wireVars>>
threadVars == <<pc, terminal, callVars, recvVars, readVars>>
vars == <<pc, terminal, callVars, others>>

closed == terminal # "none"

Work == nSent + (nextId - 1)
        + Cardinality({c \in Caller : pc[c] \in {"startReader", "registerCheck", "register"}})

Init ==
    /\ pc = [t \in Thread |-> IF t = Reader THEN "unstarted" ELSE "idle"]
    /\ terminal = "none"
    /\ pendingLock = Free /\ pending = {} /\ nextId = 1
    /\ slot = <<>>
    /\ sendLock = Free
    /\ req = [c \in Caller |-> 0] /\ result = [c \in Caller |-> Nothing]
    /\ inbox = <<>> /\ hand = Eof /\ cause = "eof"
    /\ mode = [r \in Consumer |-> "none"] /\ reported = [r \in Consumer |-> "none"]
    /\ lastSeq = 0
    /\ sockOpen = TRUE /\ out = <<>> /\ in = <<>>
    /\ peerOpen = TRUE /\ reset = FALSE /\ seen = {} /\ answered = {} /\ nSent = 0

Goto(t, l) == pc' = [pc EXCEPT ![t] = l]
Jump(t, l) == Goto(t, l) /\ UNCHANGED <<terminal, callVars, others>>

-----------------------------------------------------------------------------
(* Mistakes the properties must tell from the code: each of these, put in the *)
(* place of the definition of the code it varies, breaks a property.          *)

NoLock(c) == pendingLock' = pendingLock
NoSecondLook(c) == FALSE
QueuedInFront(rec) == <<rec>> \o inbox
EachTerminates == TRUE
SlotsKept(t) == slot
QueueIgnored == TRUE
EndIsQuiet == "eof"
ShutByReaderOnly(t) ==
    /\ pc[t] = "closeSocket"
    /\ sockOpen' = (t # Reader)
    /\ pc' = [pc EXCEPT ![t] = IF t = Reader THEN "dead" ELSE "join"]
    /\ UNCHANGED <<terminal, out, in, callVars, recvVars, readVars, peerVars>>

-----------------------------------------------------------------------------
(* _ensure_reader(): the second test of _closed and the start of the thread *)
(* are under _reader_start_lock.  The thread attribute is set before the    *)
(* thread runs; the starter, and whoever waits for the lock, goes on when   *)
(* it runs.                                                                 *)

StartReader(t) ==
    /\ pc[t] = "startReader"
    /\ pc' = [pc EXCEPT ![t] = IF t \in Caller THEN "registerCheck" ELSE "recvCheck",
                        ![Reader] = IF @ = "unstarted" /\ ~closed THEN "assigned" ELSE @]
    /\ UNCHANGED <<terminal, others, callVars>>

ReaderRuns ==
    /\ pc[Reader] = "assigned"
    /\ Jump(Reader, "loop")

ReaderUp == pc[Reader] # "assigned"

-----------------------------------------------------------------------------
(* call() and send() *)

\* Registration takes the lock; the id it takes from the counter.
HoldLock(c) == pendingLock' = c
NewId == nextId

\* What the caller finds when it looks at its waiter again after Empty.
LateItem(c) == slot[req[c]] # Nothing

\* The table without the caller's registration.
Unregistered(c) == pending \ {req[c]}

\* The caller leaves send() or call() with this outcome.  A call still has to
\* run its finally clause.
Leave(c, outcome) ==
    IF req[c] = 0
    THEN Goto(c, "idle") /\ UNCHANGED result
    ELSE Goto(c, "finish") /\ result' = [result EXCEPT ![c] = outcome]

CallBegin(c) ==
    /\ pc[c] = "idle"
    /\ IF closed
       THEN result' = [result EXCEPT ![c] = Fail(terminal)] /\ UNCHANGED pc
       ELSE nextId <= MaxId /\ Work < MaxWork /\ Goto(c, "startReader") /\ UNCHANGED result
    /\ UNCHANGED <<terminal, pendingLock, pending, nextId, slot, sendLock, req, others>>

\* with self._pending_lock: if self._closed.is_set() ...
RegisterCheck(c) ==
    /\ pc[c] = "registerCheck" /\ ReaderUp /\ pendingLock = Free
    /\ IF closed
       THEN /\ Goto(c, "idle")
            /\ result' = [result EXCEPT ![c] = Fail(terminal)]
            /\ UNCHANGED pendingLock
       ELSE /\ Goto(c, "register")
            /\ HoldLock(c)
            /\ UNCHANGED result
    /\ UNCHANGED <<terminal, pending, nextId, slot, sendLock, req, others>>

Register(c) ==
    /\ pc[c] = "register"
    /\ req' = [req EXCEPT ![c] = NewId]
    /\ pending' = pending \cup {NewId}
    /\ slot' = [i \in 1..nextId |-> IF i = nextId THEN Nothing ELSE slot[i]]
    /\ nextId' = nextId + 1
    /\ pendingLock' = Free
    /\ Goto(c, "send")
    /\ UNCHANGED <<terminal, sendLock, result, others>>

\* ready(), subscribe(), event(): a record without an id, and no waiter.
SendBegin(c) ==
    /\ c \in Sender /\ pc[c] = "idle"
    /\ Jump(c, "send")

\* The record cannot be encoded, or is larger than MAX_PACKET.
SendInvalid(c) ==
    /\ pc[c] = "send"
    /\ Leave(c, Invalid)
    /\ UNCHANGED <<terminal, pendingLock, pending, nextId, slot, sendLock, req, others>>

SendCheck(c) ==
    /\ pc[c] = "send"
    /\ IF closed THEN Leave(c, Fail(terminal))
                 ELSE Goto(c, "sendLock") /\ UNCHANGED result
    /\ UNCHANGED <<terminal, pendingLock, pending, nextId, slot, sendLock, req, others>>

SendLock(c) ==
    /\ pc[c] = "sendLock" /\ sendLock = Free
    /\ IF closed
       THEN Leave(c, Fail(terminal)) /\ UNCHANGED sendLock
       ELSE Goto(c, "sendall") /\ sendLock' = c /\ UNCHANGED result
    /\ UNCHANGED <<terminal, pendingLock, pending, nextId, slot, req, others>>

\* sendall() blocks while the buffer towards msysd is full.
SendAll(c) ==
    /\ pc[c] = "sendall" /\ sockOpen /\ peerOpen /\ Len(out) < OutCap
    /\ out' = Append(out, req[c])
    /\ sendLock' = Free
    /\ Goto(c, IF req[c] = 0 THEN "idle" ELSE "wait")
    /\ UNCHANGED <<terminal, pendingLock, pending, nextId, slot, req, result, sockOpen,
                   in, recvVars, readVars, peerVars>>

\* An OSError: one end of the socket is closed, or the system refuses the record with
\* both of them open.  _terminate() leaves the socket open in the second case.
SendError(c) ==
    /\ pc[c] = "sendall"
    /\ sendLock' = Free
    /\ Goto(c, "sendFailed")
    /\ UNCHANGED <<terminal, pendingLock, pending, nextId, slot, req, result, others>>

SendFailed(c) ==
    /\ pc[c] = "sendFailed"
    /\ IF closed THEN Leave(c, Fail(terminal))
                 ELSE Goto(c, "terminate") /\ UNCHANGED result
    /\ UNCHANGED <<terminal, pendingLock, pending, nextId, slot, sendLock, req, others>>

\* waiter.get(timeout) finds the item ...
TakeReply(c) ==
    /\ pc[c] = "wait" /\ slot[req[c]] # Nothing
    /\ slot' = [slot EXCEPT ![req[c]] = Nothing]
    /\ Leave(c, slot[req[c]])
    /\ UNCHANGED <<terminal, pendingLock, pending, nextId, sendLock, req, others>>

\* ... or raises Empty, after which the caller looks again under the lock.
Expire(c) ==
    /\ pc[c] = "wait" /\ slot[req[c]] = Nothing
    /\ Jump(c, "expired")

Expired(c) ==
    /\ pc[c] = "expired" /\ pendingLock = Free
    /\ IF LateItem(c)
       THEN /\ slot' = [slot EXCEPT ![req[c]] = Nothing]
            /\ Leave(c, slot[req[c]])
            /\ UNCHANGED pending
       ELSE /\ pending' = Unregistered(c)
            /\ Leave(c, TimedOut)
            /\ UNCHANGED slot
    /\ UNCHANGED <<terminal, pendingLock, nextId, sendLock, req, others>>

\* The finally clause of call().
Finish(c) ==
    /\ pc[c] = "finish" /\ pendingLock = Free
    /\ pending' = Unregistered(c)
    /\ req' = [req EXCEPT ![c] = 0]
    /\ Goto(c, "idle")
    /\ UNCHANGED <<terminal, pendingLock, nextId, slot, sendLock, result, others>>

-----------------------------------------------------------------------------
(* The reader *)

\* _event_queue.put()
Queued(rec) == Append(inbox, rec)

ReaderLoop ==
    /\ pc[Reader] = "loop"
    /\ Jump(Reader, IF closed THEN "closeSocket" ELSE "read")

\* A record waits: shutdown and malformed records terminate, others are dispatched.
ReadRecord ==
    /\ pc[Reader] = "read" /\ in # <<>>
    /\ in' = Tail(in)
    /\ hand' = Head(in)
    /\ IF Head(in).type \in {"shutdown", "malformed"}
       THEN /\ Goto(Reader, "terminate")
            /\ cause' = IF Head(in).type = "shutdown" THEN "shutdown" ELSE "protocol"
       ELSE Goto(Reader, "dispatch") /\ UNCHANGED cause
    /\ UNCHANGED <<terminal, sockOpen, out, callVars, recvVars, peerVars>>

ReadEof ==
    /\ pc[Reader] = "read" /\ in = <<>> /\ (~peerOpen \/ ~sockOpen)
    /\ cause' = "eof"
    /\ Goto(Reader, "terminate")
    /\ UNCHANGED <<terminal, hand, wireVars, callVars, recvVars>>

ReadError ==
    /\ pc[Reader] = "read" /\ (reset \/ ~sockOpen)
    /\ cause' = "reset"
    /\ Goto(Reader, IF closed THEN "closeSocket" ELSE "terminate")
    /\ UNCHANGED <<terminal, hand, wireVars, callVars, recvVars>>

\* A reply goes to its waiter, unless that is gone or has its item already.
Dispatch ==
    /\ pc[Reader] = "dispatch"
    /\ hand.type = "return" => pendingLock = Free
    /\ IF hand.type = "return" /\ hand.id \in pending /\ slot[hand.id] = Nothing
       THEN /\ slot' = [slot EXCEPT ![hand.id] = Reply(hand.id)]
            /\ hand' = Eof
            /\ Goto(Reader, "loop")
       ELSE Goto(Reader, "enqueue") /\ UNCHANGED <<slot, hand>>
    /\ UNCHANGED <<terminal, pendingLock, pending, nextId, sendLock, req, result,
                   cause, wireVars, recvVars>>

Enqueue ==
    /\ pc[Reader] = "enqueue"
    /\ inbox' = Queued(hand)
    /\ hand' = Eof
    /\ Goto(Reader, "loop")
    /\ UNCHANGED <<terminal, mode, reported, lastSeq, cause, wireVars, callVars>>

-----------------------------------------------------------------------------
(* _terminate(), close() and _close_socket() *)

FirstToTerminate == ~closed

\* The reason a thread terminates with, and where it goes on.
Cause(t) == IF t = Reader THEN cause ELSE IF t \in Closer THEN "close" ELSE "send"

Terminated(t) ==
    IF t \in Caller THEN Leave(t, Fail("send"))
                    ELSE Goto(t, "closeSocket") /\ UNCHANGED result

\* Under _terminal_lock: the first reason stays.
Terminate(t) ==
    /\ pc[t] = "terminate"
    /\ IF FirstToTerminate
       THEN /\ terminal' = Cause(t)
            /\ Goto(t, "drain")
            /\ UNCHANGED result
       ELSE Terminated(t) /\ UNCHANGED terminal
    /\ UNCHANGED <<pendingLock, pending, nextId, slot, sendLock, req, others>>

\* Every registered waiter that is empty gets the failure.
FailedSlots(t) ==
    [i \in 1..(nextId - 1) |-> IF i \in pending /\ slot[i] = Nothing
                              THEN Fail(Cause(t)) ELSE slot[i]]

\* Under _pending_lock.
Drain(t) ==
    /\ pc[t] = "drain" /\ pendingLock = Free
    /\ slot' = FailedSlots(t)
    /\ pending' = {}
    /\ Goto(t, "post")
    /\ UNCHANGED <<terminal, pendingLock, nextId, sendLock, req, result, others>>

LastRecord(t) == IF Cause(t) = "shutdown" THEN hand
                 ELSE IF Cause(t) \in Quiet THEN Eof ELSE Failure

Post(t) ==
    /\ pc[t] = "post"
    /\ inbox' = Queued(LastRecord(t))
    /\ hand' = IF t = Reader THEN Eof ELSE hand
    /\ Terminated(t)
    /\ UNCHANGED <<terminal, pendingLock, pending, nextId, slot, sendLock, req, mode,
                   reported, lastSeq, cause, wireVars>>

Close(k) ==
    /\ pc[k] = "idle"
    /\ Jump(k, "terminate")

CloseSocket(t) ==
    /\ pc[t] = "closeSocket"
    /\ sockOpen' = FALSE
    /\ Goto(t, IF t = Reader THEN "dead" ELSE "join")
    /\ UNCHANGED <<terminal, out, in, callVars, recvVars, readVars, peerVars>>

\* reader.join(timeout=1.0) returns whether the reader ended or not; on a thread
\* that was assigned but does not run yet it raises RuntimeError.
Join(k) ==
    /\ pc[k] = "join"
    /\ Jump(k, IF pc[Reader] = "assigned" THEN "joinRaised" ELSE "done")

-----------------------------------------------------------------------------
(* recv() and run() *)

\* recv(timeout)
RecvBegin(r) ==
    /\ pc[r] = "idle"
    /\ Goto(r, "recv")
    /\ mode' = [mode EXCEPT ![r] = "recv"]
    /\ UNCHANGED <<terminal, inbox, reported, lastSeq, wireVars, callVars, readVars>>

\* run(): acquire(blocking=False), else RuntimeError and nothing changes.
RunBegin(r) ==
    /\ pc[r] = "idle" /\ \A q \in Consumer : mode[q] # "run"
    /\ Goto(r, "recv")
    /\ mode' = [mode EXCEPT ![r] = "run"]
    /\ UNCHANGED <<terminal, inbox, reported, lastSeq, wireVars, callVars, readVars>>

Recv(r) ==
    /\ pc[r] = "recv"
    /\ Jump(r, IF closed THEN "getNowait" ELSE "startReader")

RecvCheck(r) ==
    /\ pc[r] = "recvCheck" /\ ReaderUp
    /\ Jump(r, IF closed THEN "getNowait" ELSE "get")

\* recv() returns or raises; run() goes on unless the record is a last one, or is empty.
Deliver(r, type, n) ==
    /\ reported' = [reported EXCEPT ![r] = type]
    /\ lastSeq' = IF n = 0 THEN lastSeq ELSE n
    /\ IF mode[r] = "run" /\ type \in {"event", "return"}
       THEN Goto(r, "recv") /\ UNCHANGED mode
       ELSE Goto(r, "idle") /\ mode' = [mode EXCEPT ![r] = "none"]

\* _terminal_recv_result()
TerminalResult == IF terminal \in Quiet THEN "eof" ELSE "failure"

NothingQueued == inbox = <<>>

Get(r) ==
    /\ pc[r] \in {"get", "getNowait"} /\ inbox # <<>>
    /\ inbox' = Tail(inbox)
    /\ Deliver(r, Head(inbox).type, Head(inbox).n)
    /\ UNCHANGED <<terminal, wireVars, callVars, readVars>>

GetNowaitEmpty(r) ==
    /\ pc[r] = "getNowait" /\ NothingQueued
    /\ Deliver(r, TerminalResult, 0)
    /\ UNCHANGED <<terminal, inbox, wireVars, callVars, readVars>>

GetExpire(r) ==
    /\ pc[r] = "get" /\ mode[r] = "recv" /\ NothingQueued
    /\ Jump(r, "getExpired")

GetExpired(r) ==
    /\ pc[r] = "getExpired"
    /\ Deliver(r, IF closed THEN TerminalResult ELSE "none", 0)
    /\ UNCHANGED <<terminal, inbox, wireVars, callVars, readVars>>

-----------------------------------------------------------------------------
(* msysd, the other end of the descriptor *)

PeerRead ==
    /\ peerOpen /\ out # <<>>
    /\ out' = Tail(out)
    /\ seen' = seen \cup ({Head(out)} \ {0})
    /\ UNCHANGED <<sockOpen, in, peerOpen, reset, answered, nSent, threadVars>>

\* A reply (late ones and duplicates included), an event, an empty object, shutdown, or
\* a record that is not a JSON object.
PeerSend(type, i) ==
    /\ type \in PeerKind /\ peerOpen /\ sockOpen /\ nSent < MaxWire /\ Work < MaxWork
    /\ in' = Append(in, [type |-> type, id |-> i, n |-> nSent + 1])
    /\ nSent' = nSent + 1
    /\ answered' = answered \cup ({i} \ {0})
    /\ UNCHANGED <<sockOpen, out, peerOpen, reset, seen, threadVars>>

PeerClose ==
    /\ peerOpen
    /\ peerOpen' = FALSE
    /\ reset' = (out # <<>>)
    /\ out' = <<>>
    /\ UNCHANGED <<sockOpen, in, seen, answered, nSent, threadVars>>

-----------------------------------------------------------------------------
CallerStep(c) ==
    \/ StartReader(c) \/ RegisterCheck(c) \/ Register(c)
    \/ SendInvalid(c) \/ SendCheck(c) \/ SendLock(c)
    \/ SendAll(c) \/ SendError(c) \/ SendFailed(c)
    \/ TakeReply(c) \/ Expired(c) \/ Finish(c)
    \/ Terminate(c) \/ Drain(c) \/ Post(c)

ReaderStep ==
    \/ ReaderRuns \/ ReaderLoop \/ ReadRecord \/ ReadEof \/ ReadError
    \/ Dispatch \/ Enqueue
    \/ Terminate(Reader) \/ Drain(Reader) \/ Post(Reader) \/ CloseSocket(Reader)

CloserStep(k) == Terminate(k) \/ Drain(k) \/ Post(k) \/ CloseSocket(k) \/ Join(k)

ConsumerStep(r) ==
    \/ Recv(r) \/ StartReader(r) \/ RecvCheck(r)
    \/ Get(r) \/ GetNowaitEmpty(r) \/ GetExpired(r)

\* What an application or a timer may do and need not.
Choice ==
    \/ \E c \in Caller : CallBegin(c) \/ SendBegin(c) \/ Expire(c)
    \/ \E k \in Closer : Close(k)
    \/ \E r \in Consumer : RecvBegin(r) \/ RunBegin(r) \/ GetExpire(r)

Peer ==
    \/ PeerRead \/ PeerClose
    \/ \E type \in {"event", "empty", "shutdown", "malformed"} : PeerSend(type, 0)
    \/ \E i \in seen : PeerSend("return", i)

Next ==
    \/ \E c \in Caller : CallerStep(c)
    \/ ReaderStep
    \/ \E k \in Closer : CloserStep(k)
    \/ \E r \in Consumer : ConsumerStep(r)
    \/ Choice
    \/ Peer

Spec == Init /\ [][Next]_vars

\* sendall() has no room for the record while both ends are open.  The kernel may fail
\* it even so, but owes nothing.
Blocked(c) == pc[c] = "sendall" /\ sockOpen /\ peerOpen /\ Len(out) >= OutCap

\* Threads that can go on are scheduled; timers, the application, msysd and a full
\* socket promise nothing.
Fairness ==
    /\ \A c \in Caller : WF_vars(~Blocked(c) /\ CallerStep(c))
    /\ WF_vars(ReaderStep)
    /\ \A k \in Closer : WF_vars(CloserStep(k))
    /\ \A r \in Consumer : WF_vars(ConsumerStep(r))

FairSpec == Spec /\ Fairness

-----------------------------------------------------------------------------
(* Properties *)

Terminating == {"terminate", "drain", "post"}
CallerPc == Terminating \cup
    {"idle", "startReader", "registerCheck", "register", "send", "sendLock", "sendall",
     "sendFailed", "wait", "expired", "finish"}
ReaderPc == Terminating \cup
    {"unstarted", "assigned", "loop", "read", "dispatch", "enqueue", "closeSocket", "dead"}
CloserPc == Terminating \cup {"idle", "closeSocket", "join", "joinRaised", "done"}
ConsumerPc == {"idle", "recv", "startReader", "recvCheck", "get", "getNowait", "getExpired"}

PcOK ==
    /\ pc \in [Thread -> CallerPc \cup ReaderPc \cup CloserPc \cup ConsumerPc]
    /\ \A c \in Caller : pc[c] \in CallerPc
    /\ \A r \in Consumer : pc[r] \in ConsumerPc
    /\ \A k \in Closer : pc[k] \in CloserPc
    /\ pc[Reader] \in ReaderPc
CallOK ==
    /\ terminal \in Reason \cup {"none"} /\ cause \in Reason
    /\ pendingLock \in Caller \cup {Free} /\ sendLock \in Caller \cup {Free}
    /\ nextId \in Nat \ {0} /\ pending \subseteq 1..(nextId - 1)
    /\ slot \in [1..(nextId - 1) -> Outcome]
    /\ req \in [Caller -> 0..(nextId - 1)] /\ result \in [Caller -> Outcome]
RecvOK ==
    /\ inbox \in Seq(Record) /\ hand \in Record
    /\ mode \in [Consumer -> {"none", "recv", "run"}]
    /\ reported \in [Consumer -> {"return", "event", "empty", "shutdown", "malformed",
                                 "eof", "failure", "none"}]
    /\ lastSeq \in Nat
WireOK ==
    /\ sockOpen \in BOOLEAN /\ peerOpen \in BOOLEAN /\ reset \in BOOLEAN
    /\ out \in Seq(0..(nextId - 1)) /\ in \in Seq(Record)
    /\ seen \subseteq 1..(nextId - 1) /\ answered \subseteq seen /\ nSent \in Nat

\* The type invariant: where each thread may be, and what each variable holds.
\* Only requests that were sent are read, and only requests read are answered.
TypeOK == PcOK /\ CallOK /\ RecvOK /\ WireOK

\* The pending calls have been failed.
Drained == closed /\ \A t \in Thread : pc[t] # "drain"

\* No call is stranded by termination: once the pending table has been drained
\* nothing is registered any more, and whoever waits, or has just timed out,
\* finds an item in its waiter.  At risk is the call that registers between the
\* closing of the client and the draining of the table (call(), _terminate()).
NoStrandedCall ==
    Drained => /\ pending = {}
               /\ \A c \in Caller : pc[c] \in {"wait", "expired"} => slot[req[c]] # Nothing

\* A timeout is honest: the call that reports one was unregistered with nothing
\* in its waiter, so no reply committed before the deadline is dropped and no
\* later one finds the waiter (the re-check in call()).
TimeoutHonest ==
    \A c \in Caller : pc[c] = "finish" /\ result[c] = TimedOut
                        => req[c] \notin pending /\ slot[req[c]] = Nothing

\* The pending table holds no more than the calls in progress, each under an id
\* of its own: whichever way a call ends, it takes its registration with it.
NoLeak ==
    /\ \A i \in pending : \E c \in Caller : req[c] = i
    /\ \A c, d \in Caller : req[c] = req[d] /\ req[c] # 0 => c = d

\* The rest of the inductive invariant.  The lock is held by the caller that
\* registers; a caller has an id from registration to the end of its finally
\* clause; a registered caller that has no outcome is in the table or has an
\* item; who drains or posts does so for the reason that stays; an item is the
\* answer to the request or that reason.
LockHeld == \A c \in Caller : pc[c] = "register" <=> pendingLock = c
IdsInCalls == \A c \in Caller :
    /\ pc[c] \in {"idle", "startReader", "registerCheck", "register"} => req[c] = 0
    /\ pc[c] \in {"wait", "expired", "finish"} => req[c] # 0
ClosingOrder ==
    /\ \A t \in Thread : pc[t] \in {"drain", "post"} => terminal = Cause(t)
    /\ Drained => pending = {} /\ \A c \in Caller : pc[c] # "register"
Served == \A c \in Caller :
    req[c] # 0 /\ pc[c] # "finish" => req[c] \in pending \/ slot[req[c]] # Nothing
SlotsTrue == \A i \in 1..(nextId - 1) :
    slot[i] # Nothing => \/ slot[i] = Reply(i) /\ i \in answered
                         \/ slot[i] = Fail(terminal) /\ closed
RepliesTrue ==
    /\ hand.type = "return" => hand.id \in answered
    /\ \A j \in 1..Len(in) : in[j].type = "return" => in[j].id \in answered
IInv == /\ TypeOK /\ LockHeld /\ IdsInCalls /\ NoLeak /\ ClosingOrder
        /\ Served /\ SlotsTrue /\ RepliesTrue /\ TimeoutHonest

\* However many threads terminate the client at once, one last record is queued
\* for the consumer.
LastQueued == {j \in DOMAIN inbox : inbox[j].type \in {"eof", "shutdown", "failure"}}
LastComing == {t \in Thread : pc[t] \in {"drain", "post"}}
OneLastRecord == Cardinality(LastQueued) + Cardinality(LastComing) <= 1

\* A record of the end in the queue is the one of the reason the client terminated for,
\* whichever thread did.
Told(type) == /\ type = "shutdown" => terminal = "shutdown"
              /\ type = "eof" => terminal \in Quiet \ {"shutdown"}
              /\ type = "failure" => terminal \in Reason \ Quiet
QueuedTrue == \A j \in DOMAIN inbox : Told(inbox[j].type)

\* What recv() and run() report comes from such a record, or is made up when the queue
\* of a closed client is empty (_terminal_recv_result()): then a shutdown too is called
\* an end of file, but no error is, and nothing else passes for an error.
TrueReport(type) == Told(type) \/ (type = "eof" /\ terminal = "shutdown")
ReportsTrue == \A r \in Consumer : TrueReport(reported[r])

\* The end is queued once and under its reason, by whichever thread, and no report
\* mistakes an error for an orderly end or an orderly end for an error.
EndTrue == OneLastRecord /\ QueuedTrue /\ ReportsTrue

\* A client that msysd shut down reports the shutdown before any end of file: a call
\* that raised MsysShutdown is followed by a recv() that returns the shutdown record
\* (tests/test_client.py:202-209).
ShutdownTold == \A r \in Consumer :
    terminal = "shutdown" /\ reported[r] = "eof" => LastQueued \cup LastComing = {}

\* Records reach the consumer in the order msysd sent them, through the kernel,
\* the reader's hand and the event queue.
WireOrder ==
    LET line == inbox \o <<hand>> \o in
    IN \A j \in DOMAIN line : line[j].n > 0 =>
           lastSeq < line[j].n /\ \A i \in 1..(j - 1) : line[i].n < line[j].n

\* What makes these two inductive, with IInv.  An open client has no last record and
\* whoever brings one is alone; the reader dispatches no last record and ends with
\* the one it was sent; the numbers of msysd, counted back from the last record
\* sent, run through the kernel, the hand and the queue.
EndOnce ==
    /\ ~closed => LastQueued = {}
    /\ LastComing # {} => LastQueued = {}
    /\ \A t, u \in LastComing : t = u
    /\ \A i, j \in LastQueued : i = j
EndKnown ==
    /\ QueuedTrue /\ ReportsTrue
    /\ \A j \in DOMAIN in :
           in[j].type \in {"return", "event", "empty", "shutdown", "malformed"}
    /\ pc[Reader] \in {"dispatch", "enqueue"} => hand.type \in {"return", "event", "empty"}
    /\ pc[Reader] \in Terminating /\ cause = "shutdown" => hand.type = "shutdown"
    /\ \A r \in Consumer : pc[r] = "getNowait" => closed
Numbered ==
    /\ \A j \in DOMAIN in : in[j].n + Len(in) = nSent + j
    /\ lastSeq + Len(in) <= nSent /\ hand.n + Len(in) <= nSent
    /\ \A j \in DOMAIN inbox : inbox[j].n + Len(in) <= nSent
Ordered ==
    /\ hand.n > 0 => lastSeq < hand.n /\ \A i \in DOMAIN inbox : inbox[i].n < hand.n
    /\ \A j \in DOMAIN inbox : inbox[j].n > 0 =>
           lastSeq < inbox[j].n /\ \A i \in 1..(j - 1) : inbox[i].n < inbox[j].n
\* A client the reader ended keeps nothing back behind its last record.
ByReader == terminal \notin {"none", "close", "send"}
NothingBehind ==
    /\ \A j \in DOMAIN inbox : inbox[j].type # "malformed"
    /\ ByReader => /\ pc[Reader] \in {"drain", "post", "closeSocket", "dead"}
                   /\ \A j \in LastQueued : j = Len(inbox)
    /\ \A r \in Consumer : pc[r] = "getExpired" => mode[r] = "recv"
RecvInv == EndOnce /\ EndKnown /\ Numbered /\ Ordered /\ NothingBehind

\* When the reader ended the client, run() has handed on every record queued before it
\* returns; a client ended by close() or a failed send does not promise that, as the
\* reader may still hold a record, and neither does a run() that an empty record ends.
RunDeliversAll ==
    [][\A r \in Consumer :
         /\ mode[r] = "run" /\ mode'[r] = "none"
         /\ terminal \notin {"close", "send"} /\ reported'[r] # "empty"
         => \A j \in DOMAIN inbox' : inbox'[j].type \notin {"event", "return"}]_vars

\* Each call gets an id of its own and one outcome, and a failure is the reason
\* the client terminated with.  A call counts from the moment it holds the lock
\* under which it registers.
Fresh == IF \E c \in Caller : pc[c] = "register" THEN nextId + 1 ELSE nextId
Active == [c \in Caller |-> IF pc[c] = "register" THEN nextId
                            ELSE IF pc[c] = "finish" THEN 0 ELSE req[c]]
R == INSTANCE Rpc WITH state <- terminal, fresh <- Fresh, active <- Active,
                       outcome <- result
ImplementsRpc == R!Spec

\* The socket goes with the client: the reader or close() terminated it, which close the
\* socket, or it ended by a failed send and then somebody calls close() or msysd
\* closes its end.
SocketGoes == closed /\ (\/ terminal # "send" \/ ~peerOpen
                         \/ \E k \in Closer : pc[k] # "idle")

\* Termination alone, with no timer, ends every call that waits for its answer, and run().
\* Once the socket goes it also ends the thread blocked in sendall(), those behind it that
\* wait for _send_lock, and the reader thread, which closes the socket.
TerminationEnds ==
    /\ closed ~> /\ \A c \in Caller : pc[c] \notin {"wait", "expired", "finish"}
                 /\ \A r \in Consumer : mode[r] # "run"
    /\ SocketGoes ~> /\ \A c \in Caller : req[c] = 0 /\ pc[c] \notin {"sendLock", "sendall"}
                     /\ pc[Reader] = "unstarted" \/ (pc[Reader] = "dead" /\ ~sockOpen)

=============================================================================
