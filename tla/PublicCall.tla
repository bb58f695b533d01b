----------------------------- MODULE PublicCall -----------------------------
(***************************************************************************)
(* One request over the public socket of msysd: MsysClient.public_call()   *)
(* of msys_sdk/client.py, and call() of PublicMipcClient with the exchange *)
(* of msys_sdk/component_ipc.py.                                           *)
(*                                                                         *)
(* Each call has a stream of its own, on which msysd writes lines: a       *)
(* welcome, and the answer to the request.  A stream splits and joins what *)
(* is written, so each client finds the lines by itself, and each in its   *)
(* own way.  A line is its symbols and a newline; a symbol tells which     *)
(* line it is a part of, and a whole line decodes to that one.             *)
(***************************************************************************)
EXTENDS Naturals, Sequences, FiniteSets, SequencesExt

CONSTANTS Static,    \* threads that call public_call()
          User,      \* threads that call call() of one PublicMipcClient
          Free,      \* the value of a lock nobody holds
          MaxPacket, \* MAX_PACKET, in symbols
          MaxLines,  \* bound: lines msysd begins, all on one stream: streams share nothing
          MaxOpen    \* bound: streams at a time

Caller == Static \cup User

ASSUME CallerAssumption == Static \cap User = {} /\ Free \notin Caller
ASSUME SizeAssumption == MaxPacket \in Nat \ {0} /\ {MaxLines, MaxOpen} \subseteq Nat

Type == {"welcome", "return", "error", "empty"}
Line == [type : Type, id : Nat, size : 0..(MaxPacket + 1)]
NoLine == [type |-> "none", id |-> 0, size |-> 0]

\* A symbol of a line, and the newline.
Part(line, k) == [of |-> line, at |-> k]
Newline == Part(NoLine, 0)
Body(line) == [k \in 1..line.size |-> Part(line, k)]

VARIABLES
    pc,     \* where each caller is
    lock,   \* holder of _lock
    nextId, \* _next_id
    id,     \* the id of a caller's request
    data,   \* what its _recv_line() has read
    result, \* how its call ended
    stream, \* what is in the socket of a call and not read
    todo,   \* the rest of the line msysd is writing
    lines,  \* the lines it has begun
    asked,  \* it has the request
    open,   \* it has its end open
    reset   \* it closed it with the request unread

clientVars == <<pc, lock, nextId, id, data, result>>
serverVars == <<stream, todo, lines, asked, open, reset>>
publicVars == <<clientVars, serverVars>>

Outcome(kind, line) == [kind |-> kind, line |-> line]

PublicInit ==
    /\ pc = [c \in Caller |-> "idle"]
    /\ lock = Free /\ nextId = 1 /\ id = [c \in Caller |-> 0]
    /\ data = [c \in Caller |-> <<>>]
    /\ result = [c \in Caller |-> Outcome("none", NoLine)]
    /\ stream = [c \in Caller |-> <<>>] /\ todo = [c \in Caller |-> <<>>]
    /\ lines = [c \in Caller |-> <<>>] /\ asked = [c \in Caller |-> FALSE]
    /\ open = [c \in Caller |-> TRUE] /\ reset = [c \in Caller |-> FALSE]

Ends(c, kind, line) ==
    /\ pc' = [pc EXCEPT ![c] = "done"]
    /\ result' = [result EXCEPT ![c] = Outcome(kind, line)]
    /\ data' = [data EXCEPT ![c] = <<>>]

Fails(c, ofStatic, ofUser) == Ends(c, IF c \in Static THEN ofStatic ELSE ofUser, NoLine)

\* What a timeout or an error of the socket becomes.
SocketFails(c) == Fails(c, "OSError", "MipcUnavailable")

-----------------------------------------------------------------------------
(* Mistakes the properties must tell from the code. *)

NoLock(c) == lock' = lock
ReadsAgain(c) == UNCHANGED clientVars
AtLimit(n) == n >= MaxPacket

-----------------------------------------------------------------------------
(* The id of a request: public_call() has its own, 1. *)

HoldLock(c) == lock' = c

Begin(c) ==
    /\ pc[c] = "idle"
    /\ IF c \in Static
       THEN /\ id' = [id EXCEPT ![c] = 1]
            /\ pc' = [pc EXCEPT ![c] = "connect"]
            /\ UNCHANGED lock
       ELSE /\ lock = Free
            /\ HoldLock(c)
            /\ id' = [id EXCEPT ![c] = nextId]
            /\ pc' = [pc EXCEPT ![c] = "count"]
    /\ UNCHANGED <<nextId, data, result, serverVars>>

Count(c) ==
    /\ pc[c] = "count"
    /\ nextId' = id[c] + 1
    /\ lock' = Free
    /\ pc' = [pc EXCEPT ![c] = "connect"]
    /\ UNCHANGED <<id, data, result, serverVars>>

OnStream == {"welcome", "send", "answer"}

Connect(c) ==
    /\ pc[c] = "connect"
    /\ \/ /\ Cardinality({d \in Caller : pc[d] \in OnStream}) < MaxOpen
          /\ \A d \in Caller \ {c} : lines[d] = <<>>
          /\ pc' = [pc EXCEPT ![c] = "welcome"] /\ UNCHANGED <<result, data>>
       \/ SocketFails(c)
    /\ UNCHANGED <<lock, nextId, id, serverVars>>

-----------------------------------------------------------------------------
(* What was read is a line, or nothing, or does not decode. *)

Whole(text) == text # <<>> /\ text = Body(text[1].of)

\* The last steps of PublicMipcClient.call().
Answered(c, line) ==
    CASE line.id # id[c] -> Ends(c, "MipcError", NoLine)
      [] line.id = id[c] /\ line.type = "error" -> Ends(c, "MipcRemoteError", line)
      [] line.id = id[c] /\ line.type = "return" -> Ends(c, "value", line)
      [] OTHER -> Ends(c, "MipcError", NoLine)

\* What each client does with the line it was given.
Take(c, line) ==
    CASE pc[c] = "welcome" /\ (c \in Static \/ line.type = "welcome") ->
             /\ pc' = [pc EXCEPT ![c] = "send"]
             /\ data' = [data EXCEPT ![c] = <<>>]
             /\ UNCHANGED result
      [] pc[c] = "welcome" /\ ~(c \in Static \/ line.type = "welcome") ->
             Ends(c, "MipcError", NoLine)
      [] pc[c] = "answer" /\ c \in Static -> Ends(c, "value", line)
      [] pc[c] = "answer" /\ c \in User -> Answered(c, line)

\* public_call() takes the newline with it; json.loads() does not mind.
Bare(text) == IF text # <<>> /\ Last(text) = Newline THEN Front(text) ELSE text

Decode(c, text) ==
    CASE text = <<>> -> Fails(c, "EOFError", "MipcError")
      [] text # <<>> /\ Whole(Bare(text)) -> Take(c, text[1].of)
      [] OTHER -> Fails(c, "ValueError", "MipcError")

-----------------------------------------------------------------------------
(* The two _recv_line() *)

Reading(c) == pc[c] \in {"welcome", "answer"}

Goes(c, text) == data' = [data EXCEPT ![c] = text] /\ UNCHANGED <<pc, result>>

\* As much as recv() is asked for.
Room(c) == IF c \in Static THEN MaxPacket + 1 ELSE MaxPacket + 1 - Len(data[c])

\* public_call() reads until what it has ends with a newline, and refuses more than
\* MAX_PACKET with it.
GotStatic(c, text) ==
    CASE Len(text) > MaxPacket -> Ends(c, "ValueError", NoLine)
      [] Len(text) <= MaxPacket /\ Last(text) = Newline -> Decode(c, text)
      [] OTHER -> Goes(c, text)

TooMuch(n) == n > MaxPacket

\* The other reads until there is one, drops what follows it, and refuses more than
\* MAX_PACKET without it.
GotUser(c, text) ==
    LET newlines == {i \in DOMAIN text : text[i] = Newline}
    IN  CASE newlines # {} ->
                 Decode(c, SubSeq(text, 1, (CHOOSE i \in newlines : \A j \in newlines : i <= j) - 1))
          [] newlines = {} /\ TooMuch(Len(text)) -> Ends(c, "MipcError", NoLine)
          [] OTHER -> Goes(c, text)

\* recv() has more than nothing.
Receive(c) ==
    /\ Reading(c) /\ stream[c] # <<>>
    /\ LET n == IF Room(c) < Len(stream[c]) THEN Room(c) ELSE Len(stream[c])
           text == data[c] \o SubSeq(stream[c], 1, n)
       IN  /\ IF c \in Static THEN GotStatic(c, text) ELSE GotUser(c, text)
           /\ stream' = [stream EXCEPT ![c] = SubSeq(@, n + 1, Len(@))]
    /\ UNCHANGED <<lock, nextId, id, todo, lines, asked, open, reset>>

\* At the end of the stream what was read is decoded, without a newline.
AtEof(c) == Decode(c, data[c])

ReceiveEof(c) ==
    /\ Reading(c) /\ stream[c] = <<>> /\ ~open[c]
    /\ IF reset[c] THEN SocketFails(c) ELSE AtEof(c)
    /\ UNCHANGED <<lock, nextId, id, serverVars>>

\* Each recv() has the whole timeout.
ReceiveTimeout(c) ==
    /\ Reading(c) /\ stream[c] = <<>> /\ open[c]
    /\ SocketFails(c)
    /\ UNCHANGED <<lock, nextId, id, serverVars>>

\* A request that cannot be encoded, or is too large, is found here by both (with
\* a ValueError and a MipcError).
Send(c) ==
    /\ pc[c] = "send"
    /\ \/ /\ open[c]
          /\ pc' = [pc EXCEPT ![c] = "answer"] /\ UNCHANGED <<data, result>>
       \/ ~open[c] /\ SocketFails(c)
       \/ Ends(c, "unsent", NoLine)
    /\ UNCHANGED <<lock, nextId, id, serverVars>>

-----------------------------------------------------------------------------
(* msysd *)

\* What it may write next: it knows the id of a request it has read.
Offered(c) ==
    [type : {"empty"}, id : {0}, size : {0}]
    \cup [type : {"error"}, id : {0}, size : {1}]
    \cup [type : {"welcome"}, id : {0}, size : 1..(MaxPacket + 1)]
    \cup (IF asked[c] THEN [type : {"return"}, id : {id[c]}, size : 1..(MaxPacket + 1)]
                           \cup [type : {"error"}, id : {id[c]}, size : {1}]
                           \cup [type : {"return"}, id : {id[c] + 1}, size : {1}]
          ELSE {})

Connected(c) == pc[c] \in OnStream /\ open[c]

ServerBegin(c, line) ==
    /\ Connected(c) /\ todo[c] = <<>>
    /\ Len(lines[c]) < MaxLines /\ \A d \in Caller \ {c} : lines[d] = <<>>
    /\ lines' = [lines EXCEPT ![c] = Append(@, line)]
    /\ todo' = [todo EXCEPT ![c] = Append(Body(line), Newline)]
    /\ UNCHANGED <<clientVars, stream, asked, open, reset>>

ServerWrite(c, n) ==
    /\ Connected(c) /\ n \in 1..Len(todo[c])
    /\ stream' = [stream EXCEPT ![c] = @ \o SubSeq(todo[c], 1, n)]
    /\ todo' = [todo EXCEPT ![c] = SubSeq(@, n + 1, Len(@))]
    /\ UNCHANGED <<clientVars, lines, asked, open, reset>>

ServerRead(c) ==
    /\ Connected(c) /\ pc[c] = "answer" /\ ~asked[c]
    /\ asked' = [asked EXCEPT ![c] = TRUE]
    /\ UNCHANGED <<clientVars, stream, todo, lines, open, reset>>

ServerClose(c) ==
    /\ Connected(c)
    /\ open' = [open EXCEPT ![c] = FALSE]
    /\ reset' = [reset EXCEPT ![c] = pc[c] = "answer" /\ ~asked[c]]
    /\ UNCHANGED <<clientVars, stream, todo, lines, asked>>

-----------------------------------------------------------------------------
CallerStep(c) ==
    \/ Count(c) \/ Connect(c) \/ Receive(c) \/ ReceiveEof(c) \/ ReceiveTimeout(c) \/ Send(c)

Server(c) ==
    \/ \E line \in Offered(c) : ServerBegin(c, line)
    \/ \E n \in 1..(MaxPacket + 2) : ServerWrite(c, n)
    \/ ServerRead(c) \/ ServerClose(c)

PublicNext == \E c \in Caller : Begin(c) \/ CallerStep(c) \/ Server(c)

PublicSpec == PublicInit /\ [][PublicNext]_publicVars

\* Threads are scheduled, and a recv() that gets nothing times out.  msysd promises
\* nothing.
PublicFairness == \A c \in Caller : WF_publicVars(CallerStep(c))

FairPublicSpec == PublicSpec /\ PublicFairness

-----------------------------------------------------------------------------
(* Properties *)

\* The type invariant.
Symbol == [of : Line \cup {NoLine}, at : Nat]
Kind == {"none", "value", "MipcRemoteError", "MipcError", "MipcUnavailable", "OSError", "EOFError",
         "ValueError", "unsent"}
PublicTypeOK ==
    /\ pc \in [Caller -> {"idle", "count", "connect", "welcome", "send", "answer", "done"}]
    /\ lock \in User \cup {Free} /\ nextId \in Nat \ {0} /\ id \in [Caller -> Nat]
    /\ {data, stream, todo} \subseteq [Caller -> Seq(Symbol)]
    /\ \A c \in Caller : Len(data[c]) <= MaxPacket
    /\ result \in [Caller -> [kind : Kind, line : Line \cup {NoLine}]]
    /\ lines \in [Caller -> Seq(Line)]
    /\ {asked, open, reset} \subseteq [Caller -> BOOLEAN]

\* Requests of one PublicMipcClient have different ids, whoever makes them.
IdsDistinct == \A c, d \in User : c # d /\ id[c] # 0 => id[c] # id[d]

\* What PublicMipcClient returns, or raises as an error of the other side, msysd wrote
\* in answer to this request; what public_call() returns is a line that msysd wrote.
Own == \A c \in Caller :
    LET r == result[c]
    IN  r.kind \in {"value", "MipcRemoteError"} =>
            r.line \in ToSet(lines[c]) /\ (c \in User => asked[c] /\ r.line.id = id[c])

\* The lines a client takes: public_call() counts the newline.
WithinLimit(c, line) == IF c \in Static THEN line.size < MaxPacket ELSE line.size <= MaxPacket

\* msysd does what it should: a welcome, then the answer, and no end before that.
Conforms(c) ==
    /\ \A i \in DOMAIN lines[c] :
          /\ WithinLimit(c, lines[c][i])
          /\ lines[c][i].type \in IF i = 1 THEN {"welcome"} ELSE {"return", "error"}
          /\ i > 1 => i = 2 /\ lines[c][i].id = id[c]
    /\ open[c] \/ (Len(lines[c]) = 2 /\ todo[c] = <<>>)

\* Then a call that is sent, and whose socket does not fail, ends with that answer,
\* however the stream splits the lines.
AnswerRead == \A c \in Caller :
    /\ pc[c] = "done" /\ Conforms(c)
    /\ result[c].kind \notin {"OSError", "MipcUnavailable", "unsent"}
    => Len(lines[c]) = 2 /\ result[c].line = lines[c][2]

\* What these rest on.  The caller that counts has the lock, and an id nobody had.
LockOK ==
    /\ \A c \in Caller : /\ pc[c] = "count" <=> lock = c
                         /\ pc[c] = "count" => id[c] = nextId
                         /\ pc[c] = "idle" <=> id[c] = 0
    /\ \A u \in User : pc[u] # "count" => id[u] < nextId

\* On a stream there are parts of the lines that msysd began, and before the request is
\* read none with an id.
StreamOK == \A c \in Caller :
    /\ pc[c] \in {"idle", "count", "connect"} => lines[c] = <<>> /\ open[c]
    /\ asked[c] => pc[c] \in {"answer", "done"}
    /\ \A i \in DOMAIN lines[c] : /\ lines[c][i].id # 0 => asked[c]
                                  /\ lines[c][i].type # "empty" => lines[c][i].size # 0
    /\ \A text \in {data[c], stream[c], todo[c]} : \A k \in DOMAIN text :
          text[k] = Newline \/ text[k].of \in ToSet(lines[c])

\* Between a client and an msysd that does what it should there is the rest of one line,
\* of which the client has no newline.
Text(line) == Append(Body(line), Newline)
OneLine == \A c \in Caller : Conforms(c) =>
    /\ \A k \in DOMAIN data[c] : data[c][k] # Newline
    /\ pc[c] \in {"send", "answer"} => lines[c] # <<>>
    /\ pc[c] # "done" =>
          data[c] \o (stream[c] \o todo[c]) =
              IF pc[c] = "welcome" /\ lines[c] # <<>> THEN Text(lines[c][1])
              ELSE IF pc[c] = "answer" /\ Len(lines[c]) = 2 THEN Text(lines[c][2]) ELSE <<>>

\* The inductive invariant, of named parts.
PublicInv == PublicTypeOK /\ IdsDistinct /\ Own /\ AnswerRead /\ LockOK /\ StreamOK /\ OneLine

\* A call ends, also when msysd is silent, writes a line in pieces, goes on writing or
\* closes in the middle of one; and the lock is not kept.
CallEnds == \A c \in Caller : pc[c] # "idle" ~> pc[c] = "done"
=============================================================================
