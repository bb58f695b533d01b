-------------------------- MODULE ComponentChannel --------------------------
(***************************************************************************)
(* The component channel of msys_sdk/component_ipc.py.                     *)
(*                                                                         *)
(* The main thread performs the handshake and starts the pump, the one     *)
(* thread that reads the descriptor from then on.  The pump hands a reply  *)
(* to the waiter of its call, answers inbound calls with the application's *)
(* handler, and gives every other record to the application's callback.    *)
(* Unlike MsysClient it leaves closed alone when it ends: only close()     *)
(* sets that, without a lock.                                              *)
(*                                                                         *)
(* send() is one step: its lock guards the one system call, which fails    *)
(* when the buffer stays full for as long as the timeout receive() has set *)
(* on the descriptor.  _fail_pending() is two: it empties the table under  *)
(* the lock and fills the waiters after it.  The handler may call() on the *)
(* same channel: then the pump is a caller, and nobody reads meanwhile.    *)
(***************************************************************************)
EXTENDS Naturals, Sequences, FiniteSets, MipcOutcome

CONSTANTS Caller,    \* threads that call call()
          Closer,    \* threads that call close(), once each
          Main,      \* the thread that calls handshake() and start()
          Pump,      \* the pump thread
          Free,      \* the value of a lock nobody holds
          MaxId,     \* bound: an open channel begins no call once this many ids are handed out
          MaxWire,   \* bound: records msysd sends
          MaxWork,   \* bound: ids handed out or about to be, and records msysd sends
          OutCap,    \* bound: records the kernel buffers towards msysd
          PeerKind,  \* the kinds of record msysd sends
          Handler,   \* whether start() was given a call handler
          Nested     \* whether that may itself call()

\* The threads that may be in call().
Calling == Caller \cup {Pump}
Thread == Caller \cup Closer \cup {Main, Pump}

ASSUME ThreadAssumption ==
    /\ Caller \cap Closer = {} /\ Main # Pump
    /\ {Main, Pump} \cap (Caller \cup Closer) = {}
    /\ Free \notin Thread
ASSUME BoundAssumption ==
    MaxId \in Nat /\ MaxWire \in Nat /\ MaxWork \in Nat /\ OutCap \in Nat \ {0}
ASSUME PeerAssumption ==
    /\ PeerKind \subseteq {"welcome", "return", "event", "call", "shutdown", "malformed"}
    /\ {Handler, Nested} \subseteq BOOLEAN

\* A record msysd sends (n counts them), or the one receive() makes at end of file.
Record == [type : {"welcome", "return", "event", "call", "shutdown", "malformed", "eof"},
           id : Nat, n : Nat]
Eof == [type |-> "eof", id |-> 0, n |-> 0]

VARIABLES
    pc,          \* where each thread is
    closed,      \* closed
    pumpThread,  \* whether _pump_thread is set
    pendingLock, \* holder of _pending_lock between two steps
    pending,     \* request ids that are registered (_pending)
    nextId,      \* _next_id
    slot,        \* the waiter queue (maxsize 1) of each id handed out
    req,         \* the id of the call a caller is in, 0 when it has none
    result,      \* the outcome of a caller's last call
    taken,       \* ids of the waiters a thread in _fail_pending() has yet to fill
    hand,        \* the record the pump holds (Eof when it holds none)
    cause,       \* why the pump ends
    lastSeq,     \* number of the last record of msysd that the callback got
    ended,       \* how often the callback was told eof or shutdown
    replied,     \* how many answers record n of msysd, an inbound call, was sent
    sock,        \* "open", "shut" by shutdown(), or "closed"
    out, in,     \* records in the kernel, to and from msysd
    peerOpen,    \* msysd has its end open
    reset,       \* it closed it with records unread (ECONNRESET)
    seen,        \* requests msysd has read
    answered,    \* requests it has answered
    nSent        \* records it has sent

callVars == <<pendingLock, pending, nextId, slot, req, result>>
readVars == <<hand, cause, lastSeq, ended, replied>>
peerVars == <<peerOpen, reset, seen, answered, nSent>>
vars == <<pc, closed, pumpThread, callVars, taken, readVars, sock, out, in, peerVars>>

Init ==
    /\ pc = [t \in Thread |-> IF t = Main THEN "new" ELSE IF t = Pump THEN "unstarted"
                              ELSE "idle"]
    /\ closed = FALSE /\ pumpThread = FALSE
    /\ pendingLock = Free /\ pending = {} /\ nextId = 1
    /\ slot = <<>>
    /\ req = [c \in Calling |-> 0] /\ result = [c \in Calling |-> Nothing]
    /\ taken = [t \in Closer \cup {Pump} |-> {}]
    /\ hand = Eof /\ cause = "eof"
    /\ lastSeq = 0 /\ ended = 0 /\ replied = [n \in 1..MaxWire |-> 0]
    /\ sock = "open" /\ out = <<>> /\ in = <<>>
    /\ peerOpen = TRUE /\ reset = FALSE /\ seen = {} /\ answered = {} /\ nSent = 0

Work == nSent + (nextId - 1)
        + Cardinality({c \in Calling : pc[c] \in {"registerCheck", "register"}})

Goto(t, l) == pc' = [pc EXCEPT ![t] = l]
Jump(t, l) ==
    /\ Goto(t, l)
    /\ UNCHANGED <<closed, pumpThread, callVars, taken, readVars, sock, out, in, peerVars>>

-----------------------------------------------------------------------------
(* Mistakes the properties must tell from the code. *)

NoLock(c) == pendingLock' = pendingLock
NobodyTaken == {}
NewestWaiter == nextId - 1
QuietOnError == "dead"
SilentHandler == "loop"
AnsweredTwice == "replyError"
LastCause(t) == cause
RejectedHolding(c) == pendingLock' = c

-----------------------------------------------------------------------------
(* send() *)

\* Thread t sends a record (a call under its id, or another as 0).
Sends(t, id, sentTo, failedTo) ==
    \/ /\ sock = "open" /\ peerOpen /\ Len(out) < OutCap
       /\ out' = Append(out, id)
       /\ Goto(t, sentTo)
    \/ /\ sock # "open" \/ ~peerOpen \/ Len(out) = OutCap
       /\ Goto(t, failedTo)
       /\ UNCHANGED out

-----------------------------------------------------------------------------
(* handshake() and start().  An error leaves the pump unstarted. *)

Hello ==
    /\ pc[Main] = "new"
    /\ Sends(Main, 0, "welcome", "failed")
    /\ UNCHANGED <<closed, pumpThread, callVars, taken, readVars, sock, in, peerVars>>

\* An application may start the pump without the handshake.
NoHandshake == pc[Main] = "new" /\ Jump(Main, "start")

Welcome ==
    /\ pc[Main] = "welcome"
    /\ \/ /\ in # <<>> /\ sock # "closed"
          /\ Goto(Main, IF Head(in).type = "welcome" THEN "ready" ELSE "failed")
          /\ in' = Tail(in)
       \/ /\ in = <<>> \/ sock = "closed" \/ reset
          /\ Goto(Main, "failed")
          /\ UNCHANGED in
    /\ UNCHANGED <<closed, pumpThread, callVars, taken, readVars, sock, out, peerVars>>

Ready ==
    /\ pc[Main] = "ready"
    /\ Sends(Main, 0, "start", "failed")
    /\ UNCHANGED <<closed, pumpThread, callVars, taken, readVars, sock, in, peerVars>>

Start ==
    /\ pc[Main] = "start"
    /\ pumpThread' = TRUE
    /\ pc' = [pc EXCEPT ![Main] = "up", ![Pump] = "loop"]
    /\ UNCHANGED <<closed, callVars, taken, readVars, sock, out, in, peerVars>>

-----------------------------------------------------------------------------
(* call() *)

HoldLock(c) == pendingLock' = c
Rejected(c) == pendingLock' = pendingLock
NewId == nextId
Unregistered(c) == pending \ {req[c]}

\* Where a thread that calls comes from, and where it goes on.
Before(c) == IF c = Pump THEN "handle" ELSE "idle"
After(c) == IF c = Pump THEN "handled" ELSE "idle"

CallBegin(c) ==
    /\ pc[c] = Before(c) /\ (c = Pump => Nested)
    /\ IF pumpThread
       THEN (closed \/ (nextId <= MaxId /\ Work < MaxWork)) /\ Goto(c, "registerCheck") /\ UNCHANGED result
       ELSE result' = [result EXCEPT ![c] = Invalid] /\ UNCHANGED pc
    /\ UNCHANGED <<closed, pumpThread, pendingLock, pending, nextId, slot, req, taken,
                   readVars, sock, out, in, peerVars>>

RegisterCheck(c) ==
    /\ pc[c] = "registerCheck" /\ pendingLock = Free
    /\ IF closed
       THEN /\ Goto(c, After(c))
            /\ result' = [result EXCEPT ![c] = Fail("close")]
            /\ Rejected(c)
       ELSE Goto(c, "register") /\ HoldLock(c) /\ UNCHANGED result
    /\ UNCHANGED <<closed, pumpThread, pending, nextId, slot, req, taken, readVars, sock,
                   out, in, peerVars>>

Register(c) ==
    /\ pc[c] = "register"
    /\ req' = [req EXCEPT ![c] = NewId]
    /\ pending' = pending \cup {NewId}
    /\ slot' = [i \in 1..nextId |-> IF i = nextId THEN Nothing ELSE slot[i]]
    /\ nextId' = nextId + 1
    /\ pendingLock' = Free
    /\ Goto(c, "send")
    /\ UNCHANGED <<closed, pumpThread, result, taken, readVars, sock, out, in, peerVars>>

\* A failed send, or a record that cannot be encoded, leaves through finally.
Send(c) ==
    /\ pc[c] = "send"
    /\ \/ Sends(c, req[c], "wait", "finish")
       \/ Goto(c, "finish") /\ UNCHANGED out
    /\ result' = IF out' = out THEN [result EXCEPT ![c] = Fail("send")] ELSE result
    /\ UNCHANGED <<closed, pumpThread, pendingLock, pending, nextId, slot, req, taken,
                   readVars, sock, in, peerVars>>

TakeReply(c) ==
    /\ pc[c] = "wait" /\ slot[req[c]] # Nothing
    /\ result' = [result EXCEPT ![c] = slot[req[c]]]
    /\ slot' = [slot EXCEPT ![req[c]] = Nothing]
    /\ Goto(c, "finish")
    /\ UNCHANGED <<closed, pumpThread, pendingLock, pending, nextId, req, taken, readVars,
                   sock, out, in, peerVars>>

\* The waiter is empty at the deadline; it is not looked at again.
Expire(c) ==
    /\ pc[c] = "wait" /\ slot[req[c]] = Nothing
    /\ result' = [result EXCEPT ![c] = TimedOut]
    /\ Goto(c, "finish")
    /\ UNCHANGED <<closed, pumpThread, pendingLock, pending, nextId, slot, req, taken,
                   readVars, sock, out, in, peerVars>>

Finish(c) ==
    /\ pc[c] = "finish" /\ pendingLock = Free
    /\ pending' = Unregistered(c)
    /\ req' = [req EXCEPT ![c] = 0]
    /\ Goto(c, After(c))
    /\ UNCHANGED <<closed, pumpThread, pendingLock, nextId, slot, result, taken, readVars,
                   sock, out, in, peerVars>>

-----------------------------------------------------------------------------
(* pump() *)

PumpLoop == pc[Pump] = "loop" /\ Jump(Pump, IF closed THEN "dead" ELSE "receive")

\* After it, a pump that received nothing for a second is back at its loop.
ReceiveTimeout ==
    /\ pc[Pump] = "receive" /\ in = <<>> /\ peerOpen /\ sock = "open"
    /\ Jump(Pump, "loop")

Receive ==
    /\ pc[Pump] = "receive" /\ in # <<>> /\ sock # "closed"
    /\ in' = Tail(in)
    /\ hand' = Head(in)
    /\ IF Head(in).type = "malformed"
       THEN Goto(Pump, "clear") /\ cause' = "protocol"
       ELSE Goto(Pump, "route") /\ UNCHANGED cause
    /\ UNCHANGED <<closed, pumpThread, callVars, taken, lastSeq, ended, replied, sock, out,
                   peerVars>>

\* End of file, or an error once close() has begun.
ReceiveEof ==
    /\ pc[Pump] = "receive"
    /\ \/ in = <<>> /\ (~peerOpen \/ sock = "shut")
       \/ sock = "closed" \/ (reset /\ closed)
    /\ hand' = Eof
    /\ Goto(Pump, "route")
    /\ UNCHANGED <<closed, pumpThread, callVars, taken, cause, lastSeq, ended, replied,
                   sock, out, in, peerVars>>

ReceiveError ==
    /\ pc[Pump] = "receive" /\ reset /\ ~closed
    /\ cause' = "reset"
    /\ Goto(Pump, "clear")
    /\ UNCHANGED <<closed, pumpThread, callVars, taken, hand, lastSeq, ended, replied, sock,
                   out, in, peerVars>>

\* settimeout() raises on a closed descriptor, and nothing catches that.
ReceiveRaises ==
    /\ pc[Pump] = "receive" /\ sock = "closed"
    /\ Jump(Pump, "crashed")

\* A reply whose waiter is registered, an inbound call, or a record for the callback.
Route ==
    /\ pc[Pump] = "route"
    /\ hand.type = "return" => pendingLock = Free
    /\ Jump(Pump, IF hand.type = "return" /\ hand.id \in pending THEN "put"
                  ELSE IF hand.type = "call" /\ Handler THEN "handle" ELSE "callback")

\* The waiter that the lock was held to look up.
Waiter == hand.id

\* It may be full, and its caller may be gone.
Put ==
    /\ pc[Pump] = "put"
    /\ slot' = IF slot[Waiter] = Nothing THEN [slot EXCEPT ![Waiter] = Reply(hand.id)]
                                         ELSE slot
    /\ Goto(Pump, "loop")
    /\ UNCHANGED <<closed, pumpThread, pendingLock, pending, nextId, req, result, taken,
                   readVars, sock, out, in, peerVars>>

\* The handler, after the call it may make, returns an object or raises, which the caller is told as well.
HandlerFailed == "replyError"
Handle ==
    /\ pc[Pump] \in {"handle", "handled"}
    /\ \/ Jump(Pump, "reply")
       \/ Jump(Pump, HandlerFailed)

Replied == "loop"
ReplyCount == IF out' = out THEN replied ELSE [replied EXCEPT ![hand.n] = @ + 1]

SendReply ==
    /\ pc[Pump] = "reply"
    /\ \/ Sends(Pump, 0, Replied, "replyError")
       \/ Goto(Pump, "replyError") /\ UNCHANGED out
    /\ replied' = ReplyCount
    /\ UNCHANGED <<closed, pumpThread, callVars, taken, hand, cause, lastSeq, ended, sock,
                   in, peerVars>>

\* If this cannot be sent either the exception ends the pump.
SendErrorReply ==
    /\ pc[Pump] = "replyError"
    /\ Sends(Pump, 0, "loop", "crashed")
    /\ replied' = ReplyCount
    /\ UNCHANGED <<closed, pumpThread, callVars, taken, hand, cause, lastSeq, ended, sock,
                   in, peerVars>>

\* The records after which the pump fails the pending calls and ends.
Last == {"eof", "shutdown"}

Callback ==
    /\ pc[Pump] = "callback"
    /\ lastSeq' = IF hand.n = 0 THEN lastSeq ELSE hand.n
    /\ ended' = IF hand.type \in {"eof", "shutdown"} THEN ended + 1 ELSE ended
    /\ IF hand.type \in Last
       THEN Goto(Pump, "clear") /\ cause' = hand.type
       ELSE Goto(Pump, "loop") /\ UNCHANGED cause
    /\ UNCHANGED <<closed, pumpThread, callVars, taken, hand, replied, sock, out, in,
                   peerVars>>

CallbackEof ==
    /\ pc[Pump] = "callbackEof"
    /\ ended' = ended + 1
    /\ Goto(Pump, "dead")
    /\ UNCHANGED <<closed, pumpThread, callVars, taken, hand, cause, lastSeq, replied, sock,
                   out, in, peerVars>>

-----------------------------------------------------------------------------
(* _fail_pending() and close() *)

AllPending == pending

Clear(t) ==
    /\ pc[t] = "clear" /\ pendingLock = Free
    /\ taken' = [taken EXCEPT ![t] = AllPending]
    /\ pending' = {}
    /\ Goto(t, "fail")
    /\ UNCHANGED <<closed, pumpThread, pendingLock, nextId, slot, req, result, readVars,
                   sock, out, in, peerVars>>

Why(t) == IF t = Pump THEN cause ELSE "close"

\* A receive error is told to the callback after the calls were failed, an end before.
AfterError == "callbackEof"
AfterFail(t) == IF t # Pump THEN "shutdown"
                ELSE IF cause \in {"protocol", "reset"} THEN AfterError ELSE "dead"

FailTaken(t) ==
    /\ pc[t] = "fail"
    /\ slot' = [i \in 1..(nextId - 1) |-> IF i \in taken[t] /\ slot[i] = Nothing
                                         THEN Fail(Why(t)) ELSE slot[i]]
    /\ taken' = [taken EXCEPT ![t] = {}]
    /\ Goto(t, AfterFail(t))
    /\ UNCHANGED <<closed, pumpThread, pendingLock, pending, nextId, req, result, readVars,
                   sock, out, in, peerVars>>

\* closed is tested and set without a lock: two threads may both go on.
Close(k) == pc[k] = "idle" /\ Jump(k, IF closed THEN "done" ELSE "setClosed")

SetClosed(k) ==
    /\ pc[k] = "setClosed"
    /\ closed' = TRUE
    /\ Goto(k, "clear")
    /\ UNCHANGED <<pumpThread, callVars, taken, readVars, sock, out, in, peerVars>>

Shutdown(k) ==
    /\ pc[k] = "shutdown"
    /\ sock' = IF sock = "open" THEN "shut" ELSE sock
    /\ Goto(k, "closeSock")
    /\ UNCHANGED <<closed, pumpThread, callVars, taken, readVars, out, in, peerVars>>

CloseSock(k) ==
    /\ pc[k] = "closeSock"
    /\ sock' = "closed"
    /\ Goto(k, "done")
    /\ UNCHANGED <<closed, pumpThread, callVars, taken, readVars, out, in, peerVars>>

-----------------------------------------------------------------------------
(* msysd, the other end of the descriptor *)

PeerRead ==
    /\ peerOpen /\ out # <<>>
    /\ out' = Tail(out)
    /\ seen' = seen \cup ({Head(out)} \ {0})
    /\ UNCHANGED <<pc, closed, pumpThread, callVars, taken, readVars, sock, in, peerOpen,
                   reset, answered, nSent>>

\* A welcome is the first record, if there is one.
PeerSend(type, i) ==
    /\ type \in PeerKind /\ peerOpen /\ sock = "open" /\ nSent < MaxWire /\ Work < MaxWork
    /\ type = "welcome" => nSent = 0
    /\ in' = Append(in, [type |-> type, id |-> i, n |-> nSent + 1])
    /\ nSent' = nSent + 1
    /\ answered' = answered \cup ({i} \ {0})
    /\ UNCHANGED <<pc, closed, pumpThread, callVars, taken, readVars, sock, out, peerOpen,
                   reset, seen>>

PeerClose ==
    /\ peerOpen
    /\ peerOpen' = FALSE
    /\ reset' = (out # <<>>)
    /\ out' = <<>>
    /\ UNCHANGED <<pc, closed, pumpThread, callVars, taken, readVars, sock, in, seen,
                   answered, nSent>>

-----------------------------------------------------------------------------
MainStep == Welcome \/ Ready \/ Start

CallerStep(c) ==
    RegisterCheck(c) \/ Register(c) \/ Send(c) \/ TakeReply(c) \/ Finish(c)

PumpStep ==
    \/ PumpLoop \/ ReceiveTimeout \/ Receive \/ ReceiveEof \/ ReceiveError \/ ReceiveRaises
    \/ Route \/ Put \/ Handle \/ SendReply \/ SendErrorReply
    \/ Callback \/ CallbackEof \/ Clear(Pump) \/ FailTaken(Pump)

CloserStep(k) ==
    SetClosed(k) \/ Clear(k) \/ FailTaken(k) \/ Shutdown(k) \/ CloseSock(k)

\* What an application or a timer may do and need not.
Choice ==
    \/ Hello \/ NoHandshake
    \/ \E c \in Calling : CallBegin(c) \/ Expire(c)
    \/ \E k \in Closer : Close(k)

Peer ==
    \/ PeerRead \/ PeerClose
    \/ \E type \in PeerKind \ {"return"} : PeerSend(type, 0)
    \/ \E i \in seen : PeerSend("return", i)

Next ==
    \/ MainStep
    \/ \E c \in Calling : CallerStep(c)
    \/ PumpStep
    \/ \E k \in Closer : CloserStep(k)
    \/ Choice
    \/ Peer

Spec == Init /\ [][Next]_vars

\* Threads are scheduled, receive() and send() time out, and so does the call of a
\* handler; the callback and the handler return.  The timer of any other call, the
\* application and msysd promise nothing.
Fairness ==
    /\ \A c \in Caller : WF_vars(CallerStep(c))
    /\ WF_vars(PumpStep \/ CallerStep(Pump) \/ Expire(Pump))
    /\ \A k \in Closer : WF_vars(CloserStep(k))

FairSpec == Spec /\ Fairness

-----------------------------------------------------------------------------
(* Properties *)

CallerPc == {"idle", "registerCheck", "register", "send", "wait", "finish"}
CloserPc == {"idle", "setClosed", "clear", "fail", "shutdown", "closeSock", "done"}
MainPc == {"new", "welcome", "ready", "start", "up", "failed"}
PumpPc == {"unstarted", "loop", "receive", "route", "put", "handle", "reply", "replyError",
           "callback", "clear", "fail", "callbackEof", "dead", "crashed", "handled"}
          \cup (CallerPc \ {"idle"})

PcOK ==
    /\ pc \in [Thread -> CallerPc \cup CloserPc \cup MainPc \cup PumpPc]
    /\ \A c \in Caller : pc[c] \in CallerPc
    /\ \A k \in Closer : pc[k] \in CloserPc
    /\ pc[Main] \in MainPc /\ pc[Pump] \in PumpPc
CallOK ==
    /\ closed \in BOOLEAN /\ pumpThread \in BOOLEAN
    /\ pendingLock \in Calling \cup {Free}
    /\ nextId \in Nat \ {0} /\ pending \subseteq 1..(nextId - 1)
    /\ slot \in [1..(nextId - 1) -> Outcome]
    /\ req \in [Calling -> 0..(nextId - 1)] /\ result \in [Calling -> Outcome]
    /\ taken \in [Closer \cup {Pump} -> SUBSET (1..(nextId - 1))]
PumpOK ==
    /\ hand \in Record /\ cause \in {"eof", "shutdown", "protocol", "reset"}
    /\ lastSeq \in Nat /\ ended \in Nat /\ replied \in [1..MaxWire -> Nat]
WireOK ==
    /\ sock \in {"open", "shut", "closed"} /\ peerOpen \in BOOLEAN /\ reset \in BOOLEAN
    /\ out \in Seq(0..(nextId - 1)) /\ in \in Seq(Record)
    /\ seen \subseteq 1..(nextId - 1) /\ answered \subseteq seen /\ nSent \in 0..MaxWire

\* The type invariant: where each thread may be, and what each variable holds.
TypeOK == PcOK /\ CallOK /\ PumpOK /\ WireOK

\* No call is stranded by close(): once every thread in _fail_pending() is
\* through, nothing is registered and whoever waits has an item.  At risk is the
\* call that registers while close() sets closed, and the one the pump took out
\* of the table just before.
NoStrandedCall ==
    closed /\ (\A t \in Closer \cup {Pump} : pc[t] \notin {"clear", "fail"})
    => pending = {} /\ \A c \in Calling : pc[c] = "wait" => slot[req[c]] # Nothing

\* Why the pump ended, if it did and not because of close().
EndedBy == IF pc[Pump] \in {"fail", "callbackEof"} \/ (pc[Pump] = "dead" /\ ended > 0)
           THEN cause ELSE "none"

\* A waiter holds the answer to its own request, or a failure that is true: close()
\* was called, or the pump met the end or an error.  The pump fills the waiter after
\* it released the lock, when the call may be over and another one registered.
ItemsTrue == \A i \in DOMAIN slot :
    slot[i] # Nothing =>
        \/ slot[i] = Reply(i) /\ i \in answered
        \/ slot[i] = Fail("close") /\ closed
        \/ slot[i] = Fail(cause) /\ EndedBy = cause

\* The application hears of the end: a pump that has returned, other than because
\* of close(), has told its callback eof or shutdown.  And nothing follows that: the
\* callback is not called again, neither with a record msysd sent behind it nor with
\* a second end.
EndTold ==
    [][/\ pc'[Pump] = "dead" /\ ~closed' => ended' = 1
       /\ ended > 0 => UNCHANGED <<ended, lastSeq>>]_vars

\* An inbound call is answered once, even if the answer cannot be encoded or the
\* send of it fails and the error is sent in its place.
OneAnswer == \A n \in DOMAIN replied : replied[n] <= 1

\* An inbound call the handler was given is answered, unless the pump dies of it; also
\* when the handler makes a call, whose reply the pump it runs on cannot receive.
CallsAnswered ==
    pc[Pump] = "handle" ~> pc[Pump] = "crashed" \/ (hand.n # 0 /\ replied[hand.n] = 1)

\* close() alone, with no timer, ends every call; so does the end of the pump, for the
\* calls that were registered then.
CallsEnd == \A c \in Caller :
    req[c] # 0 /\ (closed \/ (pc[Pump] = "clear" /\ req[c] \in pending)) ~> req[c] = 0

\* close() ends the pump, be it blocked on the descriptor, in a call or at its loop.
PumpEnds == closed ~> pc[Pump] \in {"unstarted", "dead", "crashed"}
-----------------------------------------------------------------------------
(* The inductive invariant: what the properties above rest on. *)

\* The lock is held between two steps by the one thread that registers a call.
LockHeld == \A c \in Calling : pc[c] = "register" <=> pendingLock = c

\* A thread has a request id while it is between registering and finally, and no
\* other thread has that id.
IdsOwned == \A c \in Calling :
    /\ pc[c] \in {"send", "wait", "finish"} <=> req[c] # 0
    /\ req[c] # 0 => \A d \in Calling \ {c} : req[d] # req[c]

\* The waiter of a call is registered, filled, or about to be failed.
Served == \A c \in Calling :
    pc[c] \in {"send", "wait"} =>
        \/ req[c] \in pending \/ slot[req[c]] # Nothing
        \/ \E t \in DOMAIN taken : req[c] \in taken[t]

\* close() sets closed before it empties the table, and nothing is registered after.
ClosingOrder ==
    /\ \A k \in Closer : pc[k] \in {"clear", "fail", "shutdown", "closeSock"} => closed
    /\ closed /\ (\A k \in Closer : pc[k] # "clear") =>
           pending = {} /\ \A c \in Calling : pc[c] # "register"
    /\ \A t \in Closer \cup {Pump} : taken[t] # {} => pc[t] = "fail"

\* Whom a thread in _fail_pending() has taken nobody else fills with a failure.
TakenApart == \A t \in DOMAIN taken :
    taken[t] \cap pending = {} /\ \A u \in DOMAIN taken \ {t} : taken[t] \cap taken[u] = {}

\* The pump is the one start() made, calls need it, and what it has or will read as a
\* reply is one.
PumpStarted ==
    /\ pc[Main] = "up" <=> pc[Pump] # "unstarted"
    /\ pumpThread <=> pc[Main] = "up"
    /\ \A c \in Caller : pc[c] # "idle" => pumpThread
RepliesTrue ==
    /\ hand.type = "return" => hand.id \in answered
    /\ \A j \in 1..Len(in) : in[j].type = "return" => in[j].id \in answered
    /\ pc[Pump] = "put" => hand.type = "return"

\* The records that are buffered are the last ones sent, in order; those and the one
\* the pump has yet to answer have no answer.
Numbered ==
    /\ Len(in) <= nSent /\ hand.n + Len(in) <= nSent
    /\ \A j \in 1..Len(in) : in[j].n + Len(in) = nSent + j
Answering == {"route", "handle", "handled", "reply", "replyError"} \cup (CallerPc \ {"idle"})
Unanswered == \A n \in 1..MaxWire :
    /\ n + Len(in) > nSent => replied[n] = 0
    /\ pc[Pump] \in Answering /\ n = hand.n => replied[n] = 0

\* How far the pump is with telling the end.
Ending ==
    /\ pc[Pump] \notin {"clear", "fail", "dead"} => ended = 0
    /\ pc[Pump] \in {"clear", "fail"} =>
           ended = (IF cause \in {"protocol", "reset"} THEN 0 ELSE 1)
    /\ pc[Pump] = "dead" => ended = 1 \/ (closed /\ ended = 0)

IInv ==
    /\ TypeOK /\ LockHeld /\ IdsOwned /\ Served /\ ClosingOrder /\ TakenApart /\ ItemsTrue
    /\ PumpStarted /\ RepliesTrue /\ Numbered /\ Unanswered /\ OneAnswer /\ Ending

-----------------------------------------------------------------------------
(* What callers are promised *)

\* A call counts from the moment it holds the lock under which it registers.
Fresh == IF \E c \in Calling : pc[c] = "register" THEN nextId + 1 ELSE nextId
Active == [c \in Calling |-> IF pc[c] = "register" THEN nextId
                             ELSE IF pc[c] = "finish" THEN 0 ELSE req[c]]
Lost == {c \in Calling : /\ pc[c] \in {"send", "wait"}
                         /\ \/ slot[req[c]] = Nothing /\ req[c] \in taken[Pump]
                            \/ slot[req[c]] = Fail(cause)}
C == INSTANCE Channel WITH Caller <- Calling, started <- pumpThread, end <- EndedBy,
                           fresh <- Fresh, active <- Active, lost <- Lost, outcome <- result

\* Each call gets an id of its own and one outcome, which is the answer to that request, or
\* a failure that is its own; whom the pump leaves without an answer is told why, also when
\* close() fails waiters at the same time, and nobody else is.
ImplementsChannel == C!Spec
=============================================================================
