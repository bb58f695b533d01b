-------------------------------- MODULE MipcC -------------------------------
(***************************************************************************)
(* The client of src/mipc.c: one descriptor, one thread, one buffer.  The  *)
(* program receives records of msysd with a buffer of the size it likes    *)
(* and reads their fields with the operators of MipcJson.                  *)
(*                                                                         *)
(* msysd writes a record one token at a time, with an automaton beside it  *)
(* that knows what JSON allows next and which members the object has.  It  *)
(* is the reference the scanner is compared with, for every text.          *)
(***************************************************************************)
EXTENDS MipcJson, SequencesExt

CONSTANTS MaxPacket, \* MSYS_MIPC_MAX_PACKET, in tokens
          Capacity,  \* sizes of the buffer
          TextCap,   \* bound: tokens of a text
          TokenCap,  \* bound: tokens of texts that are sent, until the next is received
          WordCap    \* bound: characters of a string, digits of a number

ASSUME SizeAssumption == MaxPacket \in Nat /\ Capacity \subseteq Nat

VARIABLES
    fd,     \* the client has a descriptor
    wire,   \* records in the socket that the client has not taken
    open,   \* msysd has its end open
    buffer, \* what is in the buffer
    result, \* what the last call returned
    need,   \* *json_len
    room,   \* the capacity given to the last call
    draft,  \* the text msysd is writing
    syntax, \* the automaton that reads it
    chars,  \* the characters of a string
    digits  \* the digits of a number

clientVars == <<fd, buffer, result, need, room>>
peerVars == <<wire, open, draft, syntax>>
wordVars == <<chars, digits>>
vars == <<clientVars, peerVars, wordVars>>

-----------------------------------------------------------------------------
(* The automaton: what may come next, the containers that are open, where the  *)
(* value of the current member of the outer object began, and the members that *)
(* are complete.                                                               *)

Blank == [want |-> "start", open |-> <<>>, key |-> "", begin |-> 0, members |-> <<>>]

Top(s) == s.open[Len(s.open)]
Outer(s) == Len(s.open) = 1

Member(s, n) == [key |-> s.key, begin |-> s.begin, end |-> n]

\* The token at n ends a value.
Completed(s, n) ==
    IF Outer(s) /\ s.want = "next" THEN [s EXCEPT !.members = Append(@, Member(s, n))] ELSE s

Close(s) ==
    LET rest == SubSeq(s.open, 1, Len(s.open) - 1)
    IN  [s EXCEPT !.open = rest, !.want = IF rest = <<>> THEN "done" ELSE "next"]

Begins(s, n) == IF Outer(s) THEN [s EXCEPT !.begin = n] ELSE s

Value(s, n, t) ==
    CASE Len(s.open) > MaxDepth -> [s EXCEPT !.want = "bad"]
      [] t \in Scalar /\ Len(s.open) <= MaxDepth ->
             [Begins(s, n) EXCEPT !.want = "next"]
      [] t = "begin-object" /\ Len(s.open) <= MaxDepth ->
             [Begins(s, n) EXCEPT !.open = Append(@, t), !.want = "first-key"]
      [] t = "begin-array" /\ Len(s.open) <= MaxDepth ->
             [Begins(s, n) EXCEPT !.open = Append(@, t), !.want = "first-value"]
      [] OTHER -> [s EXCEPT !.want = "bad"]

Read(s, n, t) ==
    CASE s.want = "start" /\ t = "begin-object" -> [s EXCEPT !.open = <<t>>, !.want = "first-key"]
      [] s.want = "first-key" /\ t = "end-object" -> Close(s)
      [] s.want \in {"key", "first-key"} /\ t \in Key ->
             [s EXCEPT !.want = "colon", !.key = IF Outer(s) THEN t ELSE @]
      [] s.want = "colon" /\ t = "name-separator" -> [s EXCEPT !.want = "value"]
      [] s.want = "first-value" /\ t = "end-array" -> Close(s)
      [] s.want = "value" \/ (s.want = "first-value" /\ t # "end-array") -> Value(s, n, t)
      [] s.want = "next" /\ t = "value-separator" ->
             [Completed(s, n) EXCEPT !.want = IF Top(s) = "begin-object" THEN "key" ELSE "value"]
      [] s.want = "next" /\ t = "end-object" /\ Top(s) = "begin-object" -> Close(Completed(s, n))
      [] s.want = "next" /\ t = "end-array" /\ Top(s) = "begin-array" -> Close(s)
      [] s.want \in {"done", "more"} -> [s EXCEPT !.want = "more"]
      [] OTHER -> [s EXCEPT !.want = "bad"]

-----------------------------------------------------------------------------
Init ==
    /\ fd = FALSE /\ buffer = <<>> /\ result = "OK" /\ need = 0 /\ room = 0
    /\ wire = <<>> /\ open = TRUE /\ draft = <<>> /\ syntax = Blank
    /\ chars = <<>> /\ digits = <<>>

-----------------------------------------------------------------------------
(* Mistakes the properties must tell from the code. *)

Consumed == Tail(wire)
NulTwice(c) == Len(Head(wire)) + 1 >= c

-----------------------------------------------------------------------------
(* msys_mipc_client_init() with a descriptor that is one, and _close() *)

Attach ==
    /\ ~fd /\ fd' = TRUE
    /\ UNCHANGED <<buffer, result, need, room, peerVars, wordVars>>

Detach ==
    /\ fd /\ fd' = FALSE
    /\ UNCHANGED <<buffer, result, need, room, peerVars, wordVars>>

-----------------------------------------------------------------------------
(* msys_mipc_recv_json() with a buffer of c bytes.  A call interrupted by a    *)
(* signal is made again.                                                       *)

Returns(c, res, length, text) ==
    result' = res /\ need' = length /\ buffer' = text /\ room' = c

RecvInvalid(c) ==
    /\ ~fd \/ c = 0
    /\ Returns(c, "INVALID_ARGUMENT", 0, buffer)
    /\ UNCHANGED <<fd, peerVars, wordVars>>

Ready(c) == fd /\ c > 0

RecvTimeout(c) ==
    /\ Ready(c) /\ wire = <<>> /\ open
    /\ Returns(c, "TIMEOUT", 0, <<>>)
    /\ UNCHANGED <<fd, peerVars, wordVars>>

RecvEof(c) ==
    /\ Ready(c) /\ wire = <<>> /\ ~open
    /\ Returns(c, "EOF", 0, <<>>)
    /\ UNCHANGED <<fd, peerVars, wordVars>>

\* poll() or recv() fails: the end of msysd was closed with something unread.
RecvError(c) ==
    /\ Ready(c) /\ ~open
    /\ Returns(c, "IO_ERROR", 0, <<>>)
    /\ UNCHANGED <<fd, peerVars, wordVars>>

Take == wire' = Tail(wire)

\* A record nobody may send is taken and dropped.
RecvTooLarge(c) ==
    /\ Ready(c) /\ wire # <<>> /\ Len(Head(wire)) > MaxPacket
    /\ Returns(c, "TOO_LARGE", Len(Head(wire)), <<>>)
    /\ Take
    /\ UNCHANGED <<fd, open, draft, syntax, wordVars>>

TooSmall(c) == Len(Head(wire)) >= c
Queued == wire

\* One that does not fit, with a NUL after it, stays.
RecvTooSmall(c) ==
    /\ Ready(c) /\ wire # <<>> /\ Len(Head(wire)) <= MaxPacket
    /\ TooSmall(c)
    /\ Returns(c, "BUFFER_TOO_SMALL", Len(Head(wire)), <<>>)
    /\ wire' = Queued
    /\ UNCHANGED <<fd, open, draft, syntax, wordVars>>

\* json_object_shape()
Shape(text) == Len(text) >= 2 /\ text[1] = "begin-object" /\ text[Len(text)] = "end-object"

RecvRecord(c) ==
    /\ Ready(c) /\ wire # <<>> /\ Len(Head(wire)) <= MaxPacket
    /\ ~TooSmall(c)
    /\ LET text == Head(wire)
       IN  Returns(c, IF Shape(text) THEN "OK" ELSE "INVALID_JSON", Len(text), text)
    /\ Take
    /\ UNCHANGED <<fd, open, draft, syntax, wordVars>>

-----------------------------------------------------------------------------
(* msysd, and what strings and numbers there are *)

Tokens(records) == FoldLeft(LAMBDA n, text : n + Len(text), 0, records)

\* Nothing is compared after an error.  Longer texts are compared, and not sent.
Write(t) ==
    /\ open /\ wordVars = <<<<>>, <<>>>>
    /\ syntax.want \notin {"bad", "more"}
    /\ Len(draft) < IF clientVars = <<FALSE, <<>>, "OK", 0, 0>> /\ wire = <<>>
                    THEN TextCap ELSE TokenCap - Tokens(wire) - Len(buffer)
    /\ draft' = Append(draft, t)
    /\ syntax' = Read(syntax, Len(draft) + 1, t)
    /\ UNCHANGED <<clientVars, wire, open, wordVars>>

SendDraft ==
    /\ open /\ draft # <<>>
    /\ Len(draft) + Tokens(wire) + Len(buffer) <= TokenCap
    /\ wire' = Append(wire, draft)
    /\ draft' = <<>> /\ syntax' = Blank
    /\ UNCHANGED <<clientVars, open, wordVars>>

PeerClose ==
    /\ open /\ open' = FALSE
    /\ UNCHANGED <<clientVars, wire, draft, syntax, wordVars>>

Alone == clientVars = <<FALSE, <<>>, "OK", 0, 0>> /\ peerVars = <<<<>>, TRUE, <<>>, Blank>>

AddChar(c) ==
    /\ Alone /\ digits = <<>> /\ Len(chars) < WordCap
    /\ chars' = Append(chars, c)
    /\ UNCHANGED <<clientVars, peerVars, digits>>

AddDigit(d) ==
    /\ Alone /\ chars = <<>> /\ Len(digits) < WordCap
    /\ digits' = Append(digits, d)
    /\ UNCHANGED <<clientVars, peerVars, chars>>

-----------------------------------------------------------------------------
Recv(c) ==
    \/ RecvInvalid(c) \/ RecvTimeout(c) \/ RecvEof(c) \/ RecvError(c)
    \/ RecvTooLarge(c) \/ RecvTooSmall(c) \/ RecvRecord(c)

Next ==
    \/ Attach \/ Detach \/ (\E c \in Capacity : Recv(c))
    \/ (\E t \in Token : Write(t)) \/ SendDraft \/ PeerClose
    \/ (\E c \in Char : AddChar(c)) \/ (\E d \in 0..9 : AddDigit(d))

Spec == Init /\ [][Next]_vars

-----------------------------------------------------------------------------
(* Properties *)

\* The type invariant.
TypeOK ==
    /\ {fd, open} \subseteq BOOLEAN
    /\ buffer \in Seq(Token) /\ Len(buffer) <= MaxPacket /\ (result = "INVALID_JSON" => need < room)
    /\ result \in {"OK", "TIMEOUT", "EOF", "INVALID_ARGUMENT", "IO_ERROR", "TOO_LARGE",
                   "BUFFER_TOO_SMALL", "INVALID_JSON"}
    /\ need \in Nat /\ room \in Capacity \cup {0}
    /\ wire \in Seq(Seq(Token)) /\ draft \in Seq(Token)
    /\ chars \in Seq(Char) /\ digits \in Seq(0..9)

\* A record that did not fit is still the first, and its length is what was reported.
Waits ==
    result = "BUFFER_TOO_SMALL" =>
        wire # <<>> /\ need = Len(Head(wire)) /\ room <= need /\ need <= MaxPacket

\* The inductive invariant of the receiving.
IInv == TypeOK /\ Waits

\* A record leaves the socket only with a report that says so, and the text of one
\* that is reported OK or not JSON is what msysd sent.
TakenWithReport ==
    [][wire # <<>> /\ wire' = Tail(wire) =>
          \/ result' = "TOO_LARGE" /\ Len(Head(wire)) > MaxPacket
          \/ result' \in {"OK", "INVALID_JSON"} /\ buffer' = Head(wire)]_vars

\* What mipc.h says of a buffer that is too small: json_len + 1 bytes are enough
\* when the call is made again.
RetrySucceeds ==
    [][result = "BUFFER_TOO_SMALL" /\ fd' /\ open /\ room' # room /\ room' = need + 1 =>
          result' \in {"OK", "INVALID_JSON"} /\ need' = need]_vars

\* The members that are complete, and followed by more or by the end.
First(key) ==
    LET of == {i \in DOMAIN syntax.members : syntax.members[i].key = key}
    IN  syntax.members[CHOOSE i \in of : \A j \in of : i <= j]

Has(key) == \E i \in DOMAIN syntax.members : syntax.members[i].key = key

\* For every text the scanner finds the first complete member with a key, and only
\* that; it says that there is none exactly when the object is complete and the
\* nesting within the limit.
FieldsTrue ==
    draft # <<>> => \A key \in Key :
        Find(draft, key) =
            IF Has(key) THEN Found(First(key).begin, First(key).end)
            ELSE Fails(IF syntax.want \in {"done", "more"} THEN "NOT_FOUND" ELSE "INVALID_JSON")

Number ==
    LET number[n \in 0..Len(digits)] == IF n = 0 THEN 0 ELSE 10 * number[n - 1] + digits[n]
    IN  number[Len(digits)]

\* A number is read exactly, or refused because it is larger than UINT64_MAX.
NumbersTrue ==
    digits # <<>> /\ (digits[1] = 0 => Len(digits) = 1) =>
        GetU64(digits) = IF Number <= UMax THEN [result |-> "OK", value |-> Number]
                                           ELSE [result |-> "INVALID_JSON", value |-> 0]

\* The halves come in pairs.
Paired ==
    \A i \in DOMAIN chars : /\ chars[i] = "high" => At(chars, i + 1) = "low"
                            /\ chars[i] = "low" => i > 1 /\ chars[i - 1] = "high"

Decoded == FlattenSeq([i \in DOMAIN chars |-> IF chars[i] = "low" THEN <<>> ELSE Bytes(chars[i])])

\* A string is decoded, or as much of it as the buffer takes with a NUL, and its
\* whole length reported.
StringsTrue ==
    \A c \in 1..(Len(Decoded) + 2) :
        LET got == GetString(chars, c)
        IN  IF ~Paired THEN got.result = "INVALID_JSON"
            ELSE /\ got.length = Len(Decoded)
                 /\ got.result = IF Len(Decoded) < c THEN "OK" ELSE "BUFFER_TOO_SMALL"
                 /\ got.buffer = SubSeq(Decoded, 1, IF Len(Decoded) < c THEN Len(Decoded) ELSE c - 1)

\* What the string takes in a record.
EscapedWidth ==
    LET width[n \in 0..Len(chars)] == IF n = 0 THEN 0 ELSE width[n - 1] + Width(chars[n])
    IN  width[Len(chars)]

\* A string is sent exactly when the record with it, escaped, is within the limit.
SendsWithinLimit ==
    (\A i \in DOMAIN chars : chars[i] \in {"byte", "escape", "u1"}) =>
        \A limit \in 6..9, frame \in 0..3 :
            SendResult(chars, frame, limit) = "OK" <=> frame + EscapedWidth <= limit

\* The invariant of the state and of the values in it, of named parts.
Inv == IInv /\ NumbersTrue /\ StringsTrue /\ SendsWithinLimit
=============================================================================
