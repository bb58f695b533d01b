-------------------------- MODULE PublicCallProofs --------------------------
(* Proofs about PublicCall, for any callers, limit of a packet and bounds. *)
EXTENDS PublicCall, SequenceTheorems, WellFoundedInduction, TLAPS

USE DEF clientVars, serverVars

-----------------------------------------------------------------------------
(* Sequences of symbols *)

LEMMA Symbols ==
  /\ Newline \in Symbol /\ NoLine \notin Line
  /\ \A line \in Line, k \in Nat \ {0} : Part(line, k) \in Symbol /\ Part(line, k) # Newline
                                         /\ Part(line, k).of = line
  BY DEF Newline, Symbol, NoLine, Line, Type, Part

\* The text of a line ends with its only newline.
LEMMA Texts ==
  ASSUME NEW line \in Line
  PROVE  /\ line.size \in Nat
         /\ Body(line) \in Seq(Symbol) /\ Len(Body(line)) = line.size
         /\ \A k \in 1..line.size : Body(line)[k] = Part(line, k)
         /\ Text(line) \in Seq(Symbol) /\ Len(Text(line)) = line.size + 1
         /\ Text(line)[line.size + 1] = Newline
         /\ \A k \in 1..line.size : /\ Text(line)[k] = Part(line, k) /\ Text(line)[k] # Newline
                                    /\ Text(line)[k].of = line
  <1>1. line.size \in Nat
    BY SizeAssumption DEF Line
  <1>2. \A k \in 1..line.size : Part(line, k) \in Symbol /\ Part(line, k) # Newline
                                /\ Part(line, k).of = line
    BY <1>1, Symbols
  <1>3. Body(line) \in [1..line.size -> Symbol]
    BY <1>2 DEF Body
  <1>4. Body(line) \in Seq(Symbol)
    BY <1>1, <1>3, SeqDef
  <1>5. Len(Body(line)) = line.size
    BY <1>1, <1>3, <1>4, LenProperties
  <1>6. \A k \in 1..line.size : Body(line)[k] = Part(line, k)
    BY DEF Body
  <1>7. /\ Text(line) \in Seq(Symbol) /\ Len(Text(line)) = line.size + 1
        /\ Text(line)[line.size + 1] = Newline
        /\ \A k \in 1..line.size : Text(line)[k] = Part(line, k)
    BY <1>4, <1>5, <1>6, Symbols, AppendProperties DEF Text
  <1> QED
    BY <1>1, <1>2, <1>4, <1>5, <1>6, <1>7

\* What is taken from the front of a sequence, and what is left.
LEMMA Splits ==
  ASSUME NEW s \in Seq(Symbol), NEW n \in 0..Len(s)
  PROVE  /\ SubSeq(s, 1, n) \in Seq(Symbol) /\ SubSeq(s, n + 1, Len(s)) \in Seq(Symbol)
         /\ Len(SubSeq(s, 1, n)) = n /\ Len(SubSeq(s, n + 1, Len(s))) = Len(s) - n
         /\ \A k \in 1..n : SubSeq(s, 1, n)[k] = s[k]
         /\ \A k \in 1..(Len(s) - n) : SubSeq(s, n + 1, Len(s))[k] = s[n + k]
         /\ SubSeq(s, 1, n) \o SubSeq(s, n + 1, Len(s)) = s
  <1>1. Len(s) \in Nat /\ \A k \in 1..Len(s) : s[k] \in Symbol
    BY LenProperties
  <1>2. /\ SubSeq(s, 1, n) \in Seq(Symbol) /\ Len(SubSeq(s, 1, n)) = n
        /\ \A k \in 1..n : SubSeq(s, 1, n)[k] = s[k]
    BY <1>1, SubSeqProperties
  <1>3. /\ SubSeq(s, n + 1, Len(s)) \in Seq(Symbol) /\ Len(SubSeq(s, n + 1, Len(s))) = Len(s) - n
        /\ \A k \in 1..(Len(s) - n) : SubSeq(s, n + 1, Len(s))[k] = s[(n + 1) + k - 1]
    BY <1>1, SubSeqProperties
  <1>4. SubSeq(s, 1, n) \o SubSeq(s, n + 1, Len(s)) = SubSeq(s, 1, Len(s))
    <2>1. 1 \in 1..(Len(s) + 1) /\ n \in (1 - 1)..Len(s) /\ Len(s) \in n..Len(s)
      BY <1>1
    <2> QED
      BY <2>1, ConcatAdjacentSubSeq
  <1>5. SubSeq(s, 1, Len(s)) = s
    BY SubSeqFull
  <1>6. \A k \in 1..(Len(s) - n) : (n + 1) + k - 1 = n + k
    BY <1>1
  <1> QED
    BY <1>2, <1>3, <1>4, <1>5, <1>6

LEMMA Associative ==
  \A r, s, t \in Seq(Symbol) : (r \o s) \o t = r \o (s \o t)
  BY ConcatAssociative

\* Moving a part from the front of one sequence to the end of the one before.
LEMMA Moves ==
  ASSUME NEW r \in Seq(Symbol), NEW s \in Seq(Symbol), NEW n \in 0..Len(s)
  PROVE  (r \o SubSeq(s, 1, n)) \o SubSeq(s, n + 1, Len(s)) = r \o s
  <1> DEFINE a == SubSeq(s, 1, n)
             b == SubSeq(s, n + 1, Len(s))
  <1>1. a \in Seq(Symbol) /\ b \in Seq(Symbol) /\ a \o b = s
    BY Splits
  <1> HIDE DEF a, b
  <1>2. (r \o a) \o b = r \o (a \o b)
    BY <1>1, Associative
  <1> QED
    BY <1>1, <1>2 DEF a, b

\* Symbols are parts of lines that were begun.
Begun(text, c) == \A k \in DOMAIN text : text[k] = Newline \/ text[k].of \in ToSet(lines[c])

LEMMA BegunConcat ==
  ASSUME NEW c, NEW r \in Seq(Symbol), NEW s \in Seq(Symbol)
  PROVE  Begun(r \o s, c) <=> Begun(r, c) /\ Begun(s, c)
  <1>1. /\ Len(r) \in Nat /\ Len(s) \in Nat /\ DOMAIN r = 1..Len(r) /\ DOMAIN s = 1..Len(s)
        /\ DOMAIN (r \o s) = 1..(Len(r) + Len(s))
    BY ConcatProperties, LenProperties
  <1>2. \A k \in 1..(Len(r) + Len(s)) : (r \o s)[k] = IF k <= Len(r) THEN r[k] ELSE s[k - Len(r)]
    BY ConcatProperties
  <1>3. ASSUME Begun(r \o s, c) PROVE Begun(r, c) /\ Begun(s, c)
    <2>1. Begun(r, c)
      BY <1>1, <1>2, <1>3 DEF Begun
    <2>2. ASSUME NEW k \in DOMAIN s PROVE s[k] = Newline \/ s[k].of \in ToSet(lines[c])
      <3>1. Len(r) + k \in 1..(Len(r) + Len(s)) /\ (r \o s)[Len(r) + k] = s[k]
        BY <1>1, <1>2, <2>2
      <3> QED
        BY <1>1, <1>3, <3>1 DEF Begun
    <2> QED
      BY <2>1, <2>2 DEF Begun
  <1>4. ASSUME Begun(r, c), Begun(s, c) PROVE Begun(r \o s, c)
    BY <1>1, <1>2, <1>4 DEF Begun
  <1> QED
    BY <1>3, <1>4

-----------------------------------------------------------------------------
(* What a client makes of a line *)

\* It goes on to its request, or ends: with a line only if msysd has begun that one, and
\* a PublicMipcClient only if it has the id.
Advances(c) ==
    /\ pc[c] = "welcome" /\ pc' = [pc EXCEPT ![c] = "send"]
    /\ data' = [data EXCEPT ![c] = <<>>] /\ UNCHANGED result

Finishes(c) == \E kind \in Kind, line \in Line \cup {NoLine} :
    /\ Ends(c, kind, line)
    /\ kind \in {"value", "MipcRemoteError"} =>
           /\ pc[c] = "answer" /\ line \in ToSet(lines[c])
           /\ c \in User => line.id = id[c]

LEMMA FailFinishes ==
  ASSUME NEW c \in Caller, NEW k \in Kind \ {"value", "MipcRemoteError"},
         NEW l \in Kind \ {"value", "MipcRemoteError"}, Fails(c, k, l) \/ Ends(c, k, NoLine)
  PROVE  Finishes(c)
  <1>1. NoLine \in Line \cup {NoLine}
    OBVIOUS
  <1>2. CASE Ends(c, k, NoLine)
    BY <1>1, <1>2 DEF Finishes
  <1>3. CASE Ends(c, l, NoLine)
    BY <1>1, <1>3 DEF Finishes
  <1> QED
    BY <1>2, <1>3 DEF Fails

LEMMA TakeOutcome ==
  ASSUME PublicTypeOK, NEW c \in Caller, Reading(c), NEW line \in Line, line \in ToSet(lines[c]),
         Take(c, line)
  PROVE  Advances(c) \/ Finishes(c)
  <1>1. CASE pc[c] = "welcome" /\ (c \in Static \/ line.type = "welcome")
    BY <1>1 DEF Take, Advances
  <1>2. CASE pc[c] = "welcome" /\ ~(c \in Static \/ line.type = "welcome")
    <2>1. Ends(c, "MipcError", NoLine)
      BY <1>2 DEF Take
    <2> QED
      BY <2>1, FailFinishes DEF Kind
  <1>3. CASE pc[c] = "answer" /\ c \in Static
    <2>1. Ends(c, "value", line) /\ c \notin User
      BY <1>3, CallerAssumption DEF Take
    <2> QED
      BY <1>3, <2>1 DEF Finishes, Kind
  <1>4. CASE pc[c] = "answer" /\ c \in User
    <2>1. Answered(c, line)
      BY <1>4, CallerAssumption DEF Take
    <2>2. CASE Ends(c, "MipcError", NoLine)
      BY <2>2, FailFinishes DEF Kind
    <2>3. CASE line.id = id[c] /\ (Ends(c, "MipcRemoteError", line) \/ Ends(c, "value", line))
      BY <1>4, <2>3 DEF Finishes, Kind
    <2> QED
      BY <2>1, <2>2, <2>3 DEF Answered
  <1> QED
    BY <1>1, <1>2, <1>3, <1>4 DEF Reading, Caller

\* The text of a whole line is of a line that was begun.
LEMMA WholeBegun ==
  ASSUME NEW c, NEW text \in Seq(Symbol), Begun(text, c), text # <<>>, Whole(Bare(text))
  PROVE  text[1].of \in ToSet(lines[c]) \cap Line
  <1>1. Len(text) \in Nat \ {0} /\ DOMAIN text = 1..Len(text) /\ text[1] \in Symbol
    BY EmptySeq, LenProperties, ElementOfSeq
  <1>2. Bare(text) # <<>> /\ Bare(text)[1].of = text[1].of
    <2>1. CASE Bare(text) = text
      BY <1>1, <2>1 DEF Whole
    <2>2. CASE Bare(text) = SubSeq(text, 1, Len(text) - 1)
      <3> DEFINE n == Len(text) - 1
      <3>1. n \in 0..Len(text) /\ Bare(text) = SubSeq(text, 1, n)
        BY <1>1, <2>2
      <3> HIDE DEF n
      <3>2. /\ Len(Bare(text)) = n /\ Bare(text) \in Seq(Symbol)
            /\ \A k \in 1..n : Bare(text)[k] = text[k]
        BY <3>1, Splits
      <3>3. Bare(text) # <<>> /\ Len(Bare(text)) \in Nat \ {0}
        BY <3>2, EmptySeq DEF Whole
      <3> QED
        BY <1>1, <3>2, <3>3
    <2> QED
      BY <2>1, <2>2 DEF Bare, Front
  <1>3. Bare(text) = Body(text[1].of)
    BY <1>2 DEF Whole
  <1>4. text[1].of \in Line
    <2>1. CASE text[1].of = NoLine
      <3>1. Body(text[1].of) = [k \in 1..0 |-> Part(NoLine, k)]
        BY <2>1 DEF Body, NoLine
      <3>2. [k \in 1..0 |-> Part(NoLine, k)] = <<>>
        OBVIOUS
      <3> QED
        BY <1>2, <1>3, <3>1, <3>2
    <2> QED
      BY <1>1, <2>1 DEF Symbol
  <1>5. text[1] # Newline
    BY <1>4, Symbols DEF Newline, Part
  <1> QED
    BY <1>1, <1>4, <1>5 DEF Begun

LEMMA DecodeOutcome ==
  ASSUME PublicTypeOK, NEW c \in Caller, Reading(c), NEW text \in Seq(Symbol), Begun(text, c),
         Decode(c, text)
  PROVE  Advances(c) \/ Finishes(c)
  <1>1. CASE text # <<>> /\ Whole(Bare(text))
    <2>1. Take(c, text[1].of)
      BY <1>1 DEF Decode
    <2> QED
      BY <1>1, <2>1, WholeBegun, TakeOutcome
  <1>2. CASE text = <<>> \/ ~Whole(Bare(text))
    <2>1. Fails(c, "EOFError", "MipcError") \/ Fails(c, "ValueError", "MipcError")
      BY <1>2 DEF Decode
    <2> QED
      BY <2>1, FailFinishes DEF Kind
  <1> QED
    BY <1>1, <1>2

-----------------------------------------------------------------------------
(* What a recv() brings *)

LEMMA Least ==
  ASSUME NEW T \in SUBSET Nat, T # {}
  PROVE  \E x \in T : \A y \in T : x <= y
  <1> DEFINE less == {p \in Nat \X Nat : p[1] < p[2]}
  <1>1. OpToRel(<, Nat) = less
    BY DEF OpToRel
  <1>2. IsWellFoundedOn(less, Nat)
    BY <1>1, NatLessThanWellFounded
  <1>3. PICK x \in T : \A y \in T : <<y, x>> \notin less
    <2> HIDE DEF less
    <2> QED
      BY <1>2, WFMin
  <1>4. ASSUME NEW y \in T PROVE x <= y
    <2>1. <<y, x>> \in Nat \X Nat /\ ~(y < x)
      BY <1>3
    <2> QED
      BY <2>1
  <1> QED
    BY <1>4

\* The first newline of a text is where PublicMipcClient cuts it.
LEMMA FirstNewline ==
  ASSUME NEW text \in Seq(Symbol)
  PROVE  LET newlines == {i \in DOMAIN text : text[i] = Newline}
             first == CHOOSE i \in newlines : \A j \in newlines : i <= j
         IN  newlines # {} => first \in newlines /\ \A j \in newlines : first <= j
  <1> DEFINE newlines == {i \in DOMAIN text : text[i] = Newline}
  <1> SUFFICES ASSUME newlines # {}
               PROVE  \E i \in newlines : \A j \in newlines : i <= j
    OBVIOUS
  <1>1. newlines \in SUBSET Nat
    BY LenProperties
  <1> HIDE DEF newlines
  <1> QED
    BY <1>1, Least

\* What a client has after a recv() of n symbols.
Chunk(c, n) == data[c] \o SubSeq(stream[c], 1, n)
Gets(c, n) ==
    /\ n \in 1..Len(stream[c])
    /\ IF c \in Static THEN GotStatic(c, Chunk(c, n)) ELSE GotUser(c, Chunk(c, n))
    /\ stream' = [stream EXCEPT ![c] = SubSeq(stream[c], n + 1, Len(stream[c]))]
    /\ UNCHANGED <<lock, nextId, id, todo, lines, asked, open, reset>>

LEMMA ReceiveGets ==
  ASSUME PublicTypeOK, NEW c \in Caller, Receive(c)
  PROVE  \E n \in Nat : Gets(c, n)
  <1> DEFINE n == IF Room(c) < Len(stream[c]) THEN Room(c) ELSE Len(stream[c])
  <1>1. Len(stream[c]) \in Nat \ {0} /\ Len(data[c]) \in Nat /\ Len(data[c]) <= MaxPacket
    BY EmptySeq, LenProperties DEF PublicTypeOK, Receive
  <1>2. Room(c) \in Nat \ {0}
    BY <1>1, SizeAssumption DEF Room
  <1>3. n \in 1..Len(stream[c])
    BY <1>1, <1>2
  <1> HIDE DEF n
  <1>4. /\ IF c \in Static THEN GotStatic(c, Chunk(c, n)) ELSE GotUser(c, Chunk(c, n))
        /\ stream' = [stream EXCEPT ![c] = SubSeq(stream[c], n + 1, Len(stream[c]))]
        /\ UNCHANGED <<lock, nextId, id, todo, lines, asked, open, reset>>
    BY DEF Receive, Chunk, n
  <1>5. n \in Nat
    BY <1>1, <1>3
  <1> QED
    BY <1>3, <1>4, <1>5 DEF Gets

LEMMA ChunkText ==
  ASSUME PublicTypeOK, StreamOK, NEW c \in Caller, NEW n \in Nat, Gets(c, n)
  PROVE  /\ Chunk(c, n) \in Seq(Symbol) /\ Len(Chunk(c, n)) \in Nat \ {0}
         /\ DOMAIN Chunk(c, n) = 1..Len(Chunk(c, n))
         /\ Begun(Chunk(c, n), c) /\ Begun(SubSeq(stream[c], n + 1, Len(stream[c])), c)
         /\ SubSeq(stream[c], n + 1, Len(stream[c])) \in Seq(Symbol)
  <1> DEFINE a == SubSeq(stream[c], 1, n)
             b == SubSeq(stream[c], n + 1, Len(stream[c]))
  <1>1. data[c] \in Seq(Symbol) /\ stream[c] \in Seq(Symbol)
    BY DEF PublicTypeOK
  <1>2. n \in 0..Len(stream[c]) /\ n # 0
    BY <1>1, LenProperties DEF Gets
  <1>3. a \in Seq(Symbol) /\ b \in Seq(Symbol) /\ a \o b = stream[c] /\ Len(a) = n
    BY <1>1, <1>2, Splits
  <1> HIDE DEF a, b
  <1>4. Begun(data[c], c) /\ Begun(a \o b, c)
    BY <1>3 DEF StreamOK, Begun
  <1>5. Begun(a, c) /\ Begun(b, c)
    BY <1>3, <1>4, BegunConcat
  <1>6. data[c] \o a \in Seq(Symbol) /\ Len(data[c] \o a) = Len(data[c]) + Len(a)
    BY <1>1, <1>3, ConcatProperties
  <1>7. Begun(data[c] \o a, c)
    BY <1>1, <1>3, <1>4, <1>5, BegunConcat
  <1>8. Len(data[c]) \in Nat
    BY <1>1, LenProperties
  <1>9. Len(data[c] \o a) \in Nat \ {0} /\ DOMAIN (data[c] \o a) = 1..Len(data[c] \o a)
    BY <1>2, <1>3, <1>6, <1>8, LenProperties
  <1> QED
    BY <1>3, <1>5, <1>6, <1>7, <1>9 DEF Chunk, a, b

\* It goes on reading, or the text was enough.
LEMMA GetsOutcome ==
  ASSUME PublicTypeOK, StreamOK, NEW c \in Caller, NEW n \in Nat, Gets(c, n), Reading(c)
  PROVE  \/ Goes(c, Chunk(c, n)) /\ Len(Chunk(c, n)) <= MaxPacket
         \/ Advances(c) \/ Finishes(c)
  <1> DEFINE text == Chunk(c, n)
  <1>1. text \in Seq(Symbol) /\ Len(text) \in Nat \ {0} /\ DOMAIN text = 1..Len(text)
        /\ Begun(text, c)
    BY ChunkText
  <1>2. MaxPacket \in Nat
    BY SizeAssumption
  <1>3. CASE c \in Static
    <2>1. GotStatic(c, text)
      BY <1>3 DEF Gets
    <2> HIDE DEF text
    <2>2. CASE Ends(c, "ValueError", NoLine)
      BY <2>2, FailFinishes DEF Kind
    <2>3. CASE Decode(c, text)
      BY <1>1, <2>3, DecodeOutcome
    <2>4. CASE Goes(c, text) /\ ~(Len(text) > MaxPacket)
      BY <1>1, <1>2, <2>4 DEF text
    <2> QED
      BY <1>1, <1>2, <2>1, <2>2, <2>3, <2>4 DEF GotStatic
  <1>4. CASE c \notin Static
    <2>1. GotUser(c, text)
      BY <1>4 DEF Gets
    <2> HIDE DEF text
    <2> DEFINE newlines == {i \in DOMAIN text : text[i] = Newline}
               first == CHOOSE i \in newlines : \A j \in newlines : i <= j
    <2>2. CASE newlines # {} /\ Decode(c, SubSeq(text, 1, first - 1))
      <3>1. first \in 1..Len(text)
        BY <1>1, <2>2, FirstNewline
      <3> HIDE DEF first
      <3>2. PICK m \in 0..Len(text) : m = first - 1
        BY <1>1, <3>1
      <3>3. /\ SubSeq(text, 1, m) \in Seq(Symbol) /\ SubSeq(text, m + 1, Len(text)) \in Seq(Symbol)
            /\ SubSeq(text, 1, m) \o SubSeq(text, m + 1, Len(text)) = text
        BY <1>1, Splits
      <3>4. Begun(SubSeq(text, 1, m), c)
        <4> DEFINE a == SubSeq(text, 1, m)
                   b == SubSeq(text, m + 1, Len(text))
        <4>1. a \in Seq(Symbol) /\ b \in Seq(Symbol) /\ Begun(a \o b, c)
          BY <1>1, <3>3
        <4> HIDE DEF a, b
        <4>2. Begun(a, c)
          BY <4>1, BegunConcat
        <4> QED
          BY <4>2 DEF a
      <3> QED
        BY <2>2, <3>2, <3>3, <3>4, DecodeOutcome
    <2>3. CASE Ends(c, "MipcError", NoLine)
      BY <2>3, FailFinishes DEF Kind
    <2>4. CASE Goes(c, text) /\ ~TooMuch(Len(text))
      BY <1>1, <1>2, <2>4 DEF text, TooMuch
    <2> QED
      BY <2>1, <2>2, <2>3, <2>4 DEF GotUser
  <1> QED
    BY <1>3, <1>4

-----------------------------------------------------------------------------
(* Types, ids and what is on a stream *)

\* A step of a caller that has its id: where it goes, what it has read and its result.
OkResult(c, r) ==
    /\ r \in [kind : Kind, line : Line \cup {NoLine}]
    /\ r.kind \in {"value", "MipcRemoteError"} =>
           \/ r = result[c]
           \/ pc[c] = "answer" /\ r.line \in ToSet(lines[c]) /\ (c \in User => r.line.id = id[c])

Moved(c, p, text, r) ==
    /\ pc[c] \in {"connect", "welcome", "send", "answer"}
    /\ p \in {"welcome", "send", "answer", "done"} /\ (pc[c] = "answer" => p \in {"answer", "done"})
    /\ text \in Seq(Symbol) /\ Len(text) <= MaxPacket /\ Begun(text, c) /\ OkResult(c, r)
    /\ pc' = [pc EXCEPT ![c] = p] /\ data' = [data EXCEPT ![c] = text]
    /\ result' = [result EXCEPT ![c] = r]
    /\ UNCHANGED <<lock, nextId, id, todo, lines, asked, open, reset>>
    /\ stream' \in [Caller -> Seq(Symbol)] /\ Begun(stream'[c], c)
    /\ \A d \in Caller \ {c} : stream'[d] = stream[d]

LEMMA OutcomeKeeps ==
  ASSUME PublicInv, NEW c \in Caller, NEW p, NEW text, NEW r, Moved(c, p, text, r)
  PROVE  PublicTypeOK' /\ IdsDistinct' /\ Own' /\ LockOK' /\ StreamOK'
  <1> USE DEF PublicInv
  <1>1. PublicTypeOK'
    BY DEF Moved, OkResult, PublicTypeOK
  <1>2. IdsDistinct'
    BY DEF Moved, IdsDistinct
  <1>3. LockOK'
    BY DEF Moved, LockOK, PublicTypeOK
  <1>4. Own'
    <2>1. ASSUME NEW d \in Caller \ {c} PROVE result'[d] = result[d]
      BY <2>1 DEF Moved, PublicTypeOK
    <2>2. result'[c] = r
      BY DEF Moved, PublicTypeOK
    <2>3. id[c] \in Nat /\ id[c] # 0
      BY DEF Moved, LockOK, PublicTypeOK
    <2>4. ASSUME NEW line \in ToSet(lines[c]), line.id = id[c] PROVE asked[c]
      BY <2>3, <2>4 DEF StreamOK, ToSet
    <2>5. UNCHANGED <<lines, asked, id>>
      BY DEF Moved
    <2>6. r.kind \in {"value", "MipcRemoteError"} =>
             r.line \in ToSet(lines[c]) /\ (c \in User => asked[c] /\ r.line.id = id[c])
      BY <2>4 DEF Moved, OkResult, Own
    <2> QED
      BY <2>1, <2>2, <2>5, <2>6 DEF Own
  <1>5. StreamOK'
    <2>1. ASSUME NEW d \in Caller \ {c}
          PROVE  pc'[d] = pc[d] /\ data'[d] = data[d] /\ stream'[d] = stream[d]
      BY <2>1 DEF Moved, PublicTypeOK
    <2>2. pc'[c] = p /\ data'[c] = text /\ UNCHANGED <<todo, lines, asked, open>>
      BY DEF Moved, PublicTypeOK
    <2>3. /\ Begun(text, c) /\ Begun(stream'[c], c) /\ p \in {"welcome", "send", "answer", "done"}
          /\ pc[c] = "answer" => p \in {"answer", "done"}
          /\ pc[c] \in {"connect", "welcome", "send", "answer"}
      BY DEF Moved
    <2>4. ASSUME NEW d \in Caller
          PROVE  \A t \in {data'[d], stream'[d], todo'[d]} : \A k \in DOMAIN t :
                    t[k] = Newline \/ t[k].of \in ToSet(lines'[d])
      <3>1. CASE d = c
        BY <2>2, <2>3, <3>1 DEF Begun, StreamOK
      <3>2. CASE d # c
        BY <2>1, <2>2, <3>2 DEF StreamOK
      <3> QED
        BY <3>1, <3>2
    <2>5. ASSUME NEW d \in Caller
          PROVE  /\ pc'[d] \in {"idle", "count", "connect"} => lines'[d] = <<>> /\ open'[d]
                 /\ asked'[d] => pc'[d] \in {"answer", "done"}
                 /\ \A i \in DOMAIN lines'[d] :
                        /\ lines'[d][i].id # 0 => asked'[d]
                        /\ lines'[d][i].type # "empty" => lines'[d][i].size # 0
      <3>1. CASE d = c
        BY <2>2, <2>3, <3>1 DEF StreamOK
      <3>2. CASE d # c
        BY <2>1, <2>2, <3>2 DEF StreamOK
      <3> QED
        BY <3>1, <3>2
    <2> QED
      BY <2>4, <2>5 DEF StreamOK
  <1> QED
    BY <1>1, <1>2, <1>3, <1>4, <1>5

\* The frame of such a step.
Around(c) ==
    /\ UNCHANGED <<lock, nextId, id, todo, lines, asked, open, reset>>
    /\ stream' \in [Caller -> Seq(Symbol)] /\ Begun(stream'[c], c)
    /\ \A d \in Caller \ {c} : stream'[d] = stream[d]

LEMMA EmptyText == <<>> \in Seq(Symbol) /\ Len(<<>>) = 0 /\ \A c : Begun(<<>>, c)
  BY EmptySeq DEF Begun

LEMMA OutcomeMoves ==
  ASSUME PublicInv, NEW c \in Caller, Around(c), Advances(c) \/ Finishes(c),
         pc[c] \in {"connect", "welcome", "send", "answer"}
  PROVE  \E p, text, r : Moved(c, p, text, r)
  <1>1. MaxPacket \in Nat
    BY SizeAssumption
  <1>2. CASE Advances(c)
    <2>1. result' = [result EXCEPT ![c] = result[c]] /\ OkResult(c, result[c])
      BY <1>2 DEF Advances, PublicInv, PublicTypeOK, OkResult
    <2>2. Moved(c, "send", <<>>, result[c])
      <3>1. /\ pc[c] = "welcome" /\ pc' = [pc EXCEPT ![c] = "send"]
            /\ data' = [data EXCEPT ![c] = <<>>]
        BY <1>2 DEF Advances
      <3>2. Len(<<>>) <= MaxPacket
        BY <1>1, EmptyText
      <3> QED
        BY <2>1, <3>1, <3>2, EmptyText DEF Moved, Around
    <2> QED
      BY <2>2
  <1>3. CASE Finishes(c)
    <2>1. PICK kind \in Kind, line \in Line \cup {NoLine} :
             /\ Ends(c, kind, line)
             /\ kind \in {"value", "MipcRemoteError"} =>
                    /\ pc[c] = "answer" /\ line \in ToSet(lines[c])
                    /\ c \in User => line.id = id[c]
      BY <1>3 DEF Finishes
    <2>2. OkResult(c, Outcome(kind, line))
      BY <2>1 DEF OkResult, Outcome
    <2>3. Moved(c, "done", <<>>, Outcome(kind, line))
      BY <1>1, <2>1, <2>2, EmptyText DEF Moved, Around, Ends
    <2> QED
      BY <2>3
  <1> QED
    BY <1>2, <1>3

LEMMA ClientMoves ==
  ASSUME PublicInv, NEW c \in Caller,
         Connect(c) \/ Receive(c) \/ ReceiveEof(c) \/ ReceiveTimeout(c) \/ Send(c)
  PROVE  \E p, text, r : Moved(c, p, text, r)
  <1> USE DEF PublicInv
  <1>1. Begun(stream[c], c) /\ Begun(data[c], c) /\ data[c] \in Seq(Symbol)
        /\ Len(data[c]) <= MaxPacket /\ OkResult(c, result[c])
    BY DEF StreamOK, Begun, PublicTypeOK, OkResult
  <1>2. CASE Connect(c) \/ Send(c)
    <2>1. Around(c) /\ pc[c] \in {"connect", "send"}
      BY <1>1, <1>2 DEF Connect, Send, Around, PublicTypeOK
    <2>2. CASE SocketFails(c) \/ Ends(c, "unsent", NoLine)
      <3>1. Finishes(c)
        BY <2>2, FailFinishes DEF SocketFails, Kind
      <3> QED
        BY <2>1, <3>1, OutcomeMoves
    <2>3. ASSUME NEW p \in {"welcome", "answer"}, pc' = [pc EXCEPT ![c] = p],
                 UNCHANGED <<data, result>>
          PROVE  \E q, text, r : Moved(c, q, text, r)
      <3>1. data' = [data EXCEPT ![c] = data[c]] /\ result' = [result EXCEPT ![c] = result[c]]
        BY <2>3 DEF PublicTypeOK
      <3>2. Moved(c, p, data[c], result[c])
        BY <1>1, <2>1, <2>3, <3>1 DEF Moved, Around
      <3> QED
        BY <3>2
    <2> QED
      BY <1>2, <2>2, <2>3 DEF Connect, Send
  <1>3. CASE Receive(c)
    <2>1. PICK n \in Nat : Gets(c, n)
      BY <1>3, ReceiveGets
    <2>2. Around(c) /\ Reading(c)
      <3>1. stream' \in [Caller -> Seq(Symbol)]
        BY <2>1, ChunkText DEF Gets, PublicTypeOK
      <3>2. stream'[c] = SubSeq(stream[c], n + 1, Len(stream[c]))
        BY <2>1 DEF Gets, PublicTypeOK
      <3>3. Begun(stream'[c], c)
        BY <2>1, <3>2, ChunkText
      <3> QED
        BY <1>3, <2>1, <3>1, <3>3 DEF Around, Gets, Receive, PublicTypeOK
    <2>3. CASE Goes(c, Chunk(c, n)) /\ Len(Chunk(c, n)) <= MaxPacket
      <3>1. pc' = [pc EXCEPT ![c] = pc[c]] /\ result' = [result EXCEPT ![c] = result[c]]
        BY <2>3 DEF Goes, PublicTypeOK
      <3>2. Chunk(c, n) \in Seq(Symbol) /\ Begun(Chunk(c, n), c)
        BY <2>1, ChunkText
      <3>3. Moved(c, pc[c], Chunk(c, n), result[c])
        BY <1>1, <2>2, <2>3, <3>1, <3>2 DEF Moved, Around, Goes, Reading
      <3> QED
        BY <3>3
    <2> QED
      BY <2>1, <2>2, <2>3, GetsOutcome, OutcomeMoves DEF Reading
  <1>4. CASE ReceiveEof(c) \/ ReceiveTimeout(c)
    <2>1. Around(c) /\ Reading(c)
      BY <1>1, <1>4 DEF ReceiveEof, ReceiveTimeout, Around, PublicTypeOK
    <2>2. SocketFails(c) \/ Decode(c, data[c])
      BY <1>4 DEF ReceiveEof, ReceiveTimeout, AtEof
    <2>3. Finishes(c) \/ Advances(c)
      BY <1>1, <2>1, <2>2, FailFinishes, DecodeOutcome DEF SocketFails, Kind
    <2> QED
      BY <2>1, <2>3, OutcomeMoves DEF Reading
  <1> QED
    BY <1>2, <1>3, <1>4

\* A caller begins with an id that nobody has.
LEMMA BeginKeeps ==
  ASSUME PublicInv, NEW c \in Caller, Begin(c) \/ Count(c)
  PROVE  PublicTypeOK' /\ IdsDistinct' /\ Own' /\ LockOK' /\ StreamOK'
  <1> USE DEF PublicInv
  <1>1. UNCHANGED <<data, result, stream, todo, lines, asked, open, reset>>
    BY DEF Begin, Count
  <1>2. \/ /\ c \in Static /\ c \notin User /\ pc[c] = "idle" /\ UNCHANGED <<lock, nextId>>
           /\ id' = [id EXCEPT ![c] = 1] /\ pc' = [pc EXCEPT ![c] = "connect"]
        \/ /\ c \in User /\ lock = Free /\ pc[c] = "idle" /\ lock' = c /\ UNCHANGED nextId
           /\ id' = [id EXCEPT ![c] = nextId] /\ pc' = [pc EXCEPT ![c] = "count"]
        \/ /\ pc[c] = "count" /\ nextId' = id[c] + 1 /\ lock' = Free /\ UNCHANGED id
           /\ pc' = [pc EXCEPT ![c] = "connect"]
    BY CallerAssumption DEF Begin, Count, HoldLock, Caller
  <1>3. lock = Free => \A d \in Caller : pc[d] # "count"
    BY CallerAssumption DEF LockOK
  <1>4. pc[c] = "count" => /\ lock = c /\ id[c] = nextId
                           /\ \A d \in Caller \ {c} : pc[d] # "count"
    BY DEF LockOK
  <1>5. PublicTypeOK'
    <2>1. pc' \in [Caller -> {"idle", "count", "connect", "welcome", "send", "answer", "done"}]
      BY <1>2 DEF PublicTypeOK
    <2>2. id' \in [Caller -> Nat] /\ nextId' \in Nat \ {0} /\ lock' \in User \cup {Free}
      BY <1>2 DEF PublicTypeOK
    <2> QED
      BY <1>1, <2>1, <2>2 DEF PublicTypeOK
  <1>6. IdsDistinct'
    <2>1. ASSUME c \in User, pc[c] = "idle", lock = Free, id' = [id EXCEPT ![c] = nextId]
          PROVE  IdsDistinct'
      <3>1. \A u \in User : id[u] < nextId /\ id[u] \in Nat /\ nextId \in Nat
        BY <1>3, <2>1 DEF LockOK, PublicTypeOK, Caller
      <3> QED
        BY <2>1, <3>1 DEF IdsDistinct, PublicTypeOK
    <2>2. ASSUME c \notin User, id' = [id EXCEPT ![c] = 1] PROVE IdsDistinct'
      <3>1. \A u \in User : id'[u] = id[u]
        BY <2>2 DEF PublicTypeOK, Caller
      <3> QED
        BY <3>1 DEF IdsDistinct
    <2>3. ASSUME UNCHANGED id PROVE IdsDistinct'
      BY <2>3 DEF IdsDistinct
    <2> QED
      BY <1>2, <2>1, <2>2, <2>3
  <1>7. LockOK'
    <2>1. CASE pc[c] = "count"
      <3>1. \A u \in User : id[u] < nextId' \/ u = c
        BY <1>2, <1>4, <2>1 DEF LockOK, PublicTypeOK, Caller
      <3>2. id[c] < nextId'
        BY <1>2, <1>4, <2>1 DEF PublicTypeOK
      <3>3. \A d \in Caller : d # Free
        BY CallerAssumption
      <3> QED
        BY <1>2, <1>4, <2>1, <3>1, <3>2, <3>3 DEF LockOK, PublicTypeOK
    <2>2. CASE pc[c] = "idle" /\ c \in User
      <3>1. id[c] = 0 /\ nextId # 0 /\ lock' = c /\ pc' = [pc EXCEPT ![c] = "count"]
            /\ id' = [id EXCEPT ![c] = nextId] /\ nextId' = nextId /\ lock = Free
        BY <1>2, <2>2 DEF LockOK, PublicTypeOK
      <3> QED
        BY <1>3, <2>2, <3>1 DEF LockOK, PublicTypeOK
    <2>3. CASE pc[c] = "idle" /\ c \notin User
      <3>1. id' = [id EXCEPT ![c] = 1] /\ pc' = [pc EXCEPT ![c] = "connect"]
            /\ UNCHANGED <<lock, nextId>>
        BY <1>2, <2>3
      <3> QED
        BY <2>3, <3>1 DEF LockOK, PublicTypeOK
    <2> QED
      BY <1>2, <2>1, <2>2, <2>3
  <1>8. Own'
    <2>1. pc[c] \in {"idle", "count"} => lines[c] = <<>>
      BY DEF StreamOK
    <2>2. result[c].kind \notin {"value", "MipcRemoteError"}
      BY <1>2, <2>1 DEF Own, ToSet
    <2>3. ASSUME NEW d \in Caller \ {c} PROVE id'[d] = id[d]
      BY <1>2, <2>3 DEF PublicTypeOK
    <2> QED
      BY <1>1, <2>2, <2>3 DEF Own
  <1>9. StreamOK'
    <2>1. \A d \in Caller : pc'[d] = pc[d] \/ (d = c /\ pc[c] \in {"idle", "count"}
                                                 /\ pc'[c] \in {"count", "connect"})
      BY <1>2 DEF PublicTypeOK
    <2> QED
      BY <1>1, <2>1 DEF StreamOK
  <1> QED
    BY <1>5, <1>6, <1>7, <1>8, <1>9

\* msysd begins lines, and answers only what it has read.
LEMMA ServerBeginKeeps ==
  ASSUME PublicInv, NEW c \in Caller, NEW line \in Offered(c), ServerBegin(c, line)
  PROVE  PublicTypeOK' /\ IdsDistinct' /\ Own' /\ LockOK' /\ StreamOK'
  <1> USE DEF PublicInv
  <1>1. /\ UNCHANGED clientVars /\ UNCHANGED <<stream, asked, open, reset>>
        /\ lines' = [lines EXCEPT ![c] = Append(lines[c], line)]
        /\ todo' = [todo EXCEPT ![c] = Text(line)]
        /\ pc[c] \in OnStream
    BY DEF ServerBegin, Text, Connected, PublicTypeOK
  <1>2. line \in Line /\ (line.id # 0 => asked[c]) /\ (line.type # "empty" => line.size # 0)
    <2>1. MaxPacket + 1 \in Nat \ {0} /\ id[c] \in Nat /\ 0 \in Nat /\ id[c] + 1 \in Nat
      BY SizeAssumption DEF PublicTypeOK
    <2>2. {0, 1} \subseteq 0..(MaxPacket + 1) /\ 1..(MaxPacket + 1) \subseteq 0..(MaxPacket + 1)
      BY <2>1
    <2>3. 0 \notin 1..(MaxPacket + 1)
      BY <2>1
    <2> QED
      BY <2>1, <2>2, <2>3 DEF Offered, Line, Type
  <1>3. /\ lines[c] \in Seq(Line) /\ Len(lines[c]) \in Nat /\ DOMAIN lines[c] = 1..Len(lines[c])
        /\ Append(lines[c], line) \in Seq(Line)
        /\ DOMAIN Append(lines[c], line) = 1..(Len(lines[c]) + 1)
        /\ \A i \in 1..Len(lines[c]) : Append(lines[c], line)[i] = lines[c][i]
        /\ Append(lines[c], line)[Len(lines[c]) + 1] = line
    BY <1>2, AppendProperties, LenProperties DEF PublicTypeOK
  <1>4. ToSet(lines'[c]) = ToSet(lines[c]) \cup {line}
    <2>1. lines'[c] = Append(lines[c], line)
      BY <1>1 DEF PublicTypeOK
    <2>2. Len(lines[c]) + 1 \in 1..(Len(lines[c]) + 1)
      BY <1>3
    <2>3. \A i \in 1..(Len(lines[c]) + 1) : i \in 1..Len(lines[c]) \/ i = Len(lines[c]) + 1
      BY <1>3
    <2>4. 1..Len(lines[c]) \subseteq 1..(Len(lines[c]) + 1)
      BY <1>3
    <2> QED
      BY <1>3, <2>1, <2>2, <2>3, <2>4 DEF ToSet
  <1>5. \A d \in Caller \ {c} : lines'[d] = lines[d] /\ todo'[d] = todo[d]
    BY <1>1 DEF PublicTypeOK
  <1>6. Text(line) \in Seq(Symbol) /\ \A k \in DOMAIN Text(line) :
           Text(line)[k] = Newline \/ Text(line)[k].of = line
    <2>1. DOMAIN Text(line) = 1..(line.size + 1) /\ line.size \in Nat
      BY <1>2, Texts, LenProperties
    <2>2. \A k \in 1..(line.size + 1) : k \in 1..line.size \/ k = line.size + 1
      BY <2>1
    <2> QED
      BY <1>2, <2>1, <2>2, Texts
  <1>7. PublicTypeOK'
    <2>1. todo' \in [Caller -> Seq(Symbol)] /\ lines' \in [Caller -> Seq(Line)]
      BY <1>1, <1>3, <1>6 DEF PublicTypeOK
    <2> QED
      BY <1>1, <2>1 DEF PublicTypeOK
  <1>8. IdsDistinct' /\ LockOK'
    BY <1>1 DEF IdsDistinct, LockOK
  <1>9. Own'
    BY <1>1, <1>4, <1>5 DEF Own
  <1>10. StreamOK'
    <2>1. todo'[c] = Text(line) /\ lines'[c] = Append(lines[c], line)
      BY <1>1 DEF PublicTypeOK
    <2>2. \A i \in DOMAIN lines'[c] : /\ lines'[c][i].id # 0 => asked[c]
                                      /\ lines'[c][i].type # "empty" => lines'[c][i].size # 0
      <3>1. \A i \in 1..(Len(lines[c]) + 1) : i \in 1..Len(lines[c]) \/ i = Len(lines[c]) + 1
        BY <1>3
      <3> QED
        BY <1>2, <1>3, <2>1, <3>1 DEF StreamOK
    <2>3. \A t \in {data[c], stream[c], todo'[c]} : \A k \in DOMAIN t :
             t[k] = Newline \/ t[k].of \in ToSet(lines'[c])
      BY <1>4, <1>6, <2>1 DEF StreamOK
    <2>4. pc[c] \notin {"idle", "count", "connect"}
      BY <1>1 DEF OnStream
    <2> QED
      BY <1>1, <1>5, <2>2, <2>3, <2>4 DEF StreamOK
  <1> QED
    BY <1>7, <1>8, <1>9, <1>10

\* It writes as much as it likes of a line.
LEMMA ServerWriteKeeps ==
  ASSUME PublicInv, NEW c \in Caller, NEW n \in 1..(MaxPacket + 2), ServerWrite(c, n)
  PROVE  /\ PublicTypeOK' /\ IdsDistinct' /\ Own' /\ LockOK' /\ StreamOK'
         /\ stream'[c] \o todo'[c] = stream[c] \o todo[c]
  <1> USE DEF PublicInv
  <1> DEFINE a == SubSeq(todo[c], 1, n)
             b == SubSeq(todo[c], n + 1, Len(todo[c]))
  <1>1. /\ UNCHANGED clientVars /\ UNCHANGED <<lines, asked, open, reset>>
        /\ stream' = [stream EXCEPT ![c] = stream[c] \o a]
        /\ todo' = [todo EXCEPT ![c] = b]
    BY DEF ServerWrite, PublicTypeOK
  <1>2. todo[c] \in Seq(Symbol) /\ stream[c] \in Seq(Symbol) /\ n \in 0..Len(todo[c])
    BY LenProperties DEF ServerWrite, PublicTypeOK
  <1>3. a \in Seq(Symbol) /\ b \in Seq(Symbol) /\ a \o b = todo[c]
    BY <1>2, Splits
  <1>4. (stream[c] \o a) \o b = stream[c] \o todo[c]
    BY <1>2, Moves
  <1> HIDE DEF a, b
  <1>5. stream[c] \o a \in Seq(Symbol)
    BY <1>2, <1>3, ConcatProperties
  <1>6. Begun(a \o b, c) /\ Begun(stream[c], c)
    BY <1>3 DEF StreamOK, Begun
  <1>7. Begun(stream[c] \o a, c) /\ Begun(b, c)
    BY <1>2, <1>3, <1>6, BegunConcat
  <1>8. stream'[c] = stream[c] \o a /\ todo'[c] = b
        /\ \A d \in Caller \ {c} : stream'[d] = stream[d] /\ todo'[d] = todo[d]
    BY <1>1 DEF PublicTypeOK
  <1>9. PublicTypeOK'
    <2>1. stream' \in [Caller -> Seq(Symbol)] /\ todo' \in [Caller -> Seq(Symbol)]
      BY <1>1, <1>3, <1>5 DEF PublicTypeOK
    <2> QED
      BY <1>1, <2>1 DEF PublicTypeOK
  <1>10. IdsDistinct' /\ LockOK' /\ Own'
    BY <1>1 DEF IdsDistinct, LockOK, Own
  <1>11. StreamOK'
    <2>1. \A t \in {data[c], stream'[c], todo'[c]} : \A k \in DOMAIN t :
             t[k] = Newline \/ t[k].of \in ToSet(lines[c])
      BY <1>7, <1>8 DEF StreamOK, Begun
    <2> QED
      BY <1>1, <1>8, <2>1 DEF StreamOK
  <1> QED
    BY <1>4, <1>8, <1>9, <1>10, <1>11

LEMMA ServerKeeps ==
  ASSUME PublicInv, NEW c \in Caller, ServerRead(c) \/ ServerClose(c)
  PROVE  PublicTypeOK' /\ IdsDistinct' /\ Own' /\ LockOK' /\ StreamOK'
  <1> USE DEF PublicInv
  <1>1. UNCHANGED clientVars /\ UNCHANGED <<stream, todo, lines>>
    BY DEF ServerRead, ServerClose
  <1>2. pc[c] \in OnStream /\ \A d \in Caller : /\ asked[d] => asked'[d]
                                                /\ asked'[d] => asked[d] \/ pc[d] = "answer"
                                                /\ d # c => open'[d] = open[d]
    BY DEF ServerRead, ServerClose, Connected, PublicTypeOK
  <1>3. PublicTypeOK'
    <2>1. asked' \in [Caller -> BOOLEAN] /\ open' \in [Caller -> BOOLEAN]
          /\ reset' \in [Caller -> BOOLEAN]
      BY DEF ServerRead, ServerClose, PublicTypeOK
    <2> QED
      BY <1>1, <2>1 DEF PublicTypeOK
  <1>4. IdsDistinct' /\ LockOK'
    BY <1>1 DEF IdsDistinct, LockOK
  <1>5. Own'
    BY <1>1, <1>2 DEF Own
  <1>6. StreamOK'
    BY <1>1, <1>2 DEF StreamOK, OnStream
  <1> QED
    BY <1>3, <1>4, <1>5, <1>6

-----------------------------------------------------------------------------
(* An msysd that does what it should *)

\* OneLine and AnswerRead of one caller.
Rest(c) == data[c] \o (stream[c] \o todo[c])
Failure == {"OSError", "MipcUnavailable", "unsent"}
Fine(c) ==
    /\ Conforms(c) =>
         /\ \A k \in DOMAIN data[c] : data[c][k] # Newline
         /\ pc[c] \in {"send", "answer"} => lines[c] # <<>>
         /\ pc[c] # "done" =>
               Rest(c) = IF pc[c] = "welcome" /\ lines[c] # <<>> THEN Text(lines[c][1])
                         ELSE IF pc[c] = "answer" /\ Len(lines[c]) = 2 THEN Text(lines[c][2])
                              ELSE <<>>
    /\ pc[c] = "done" /\ Conforms(c) /\ result[c].kind \notin Failure
       => Len(lines[c]) = 2 /\ result[c].line = lines[c][2]

LEMMA FineParts == (OneLine /\ AnswerRead) <=> \A c \in Caller : Fine(c)
  BY DEF OneLine, AnswerRead, Fine, Rest, Failure

\* Nothing happens to a caller.
LEMMA StaysFine ==
  ASSUME NEW d \in Caller, Fine(d), pc'[d] = pc[d], data'[d] = data[d], stream'[d] = stream[d],
         todo'[d] = todo[d], lines'[d] = lines[d], id'[d] = id[d], open'[d] = open[d],
         result'[d] = result[d]
  PROVE  Fine(d)'
  BY DEF Fine, Conforms, WithinLimit, Rest

\* A call that fails before there is an answer says nothing of one.
LEMMA FailFine ==
  ASSUME NEW c \in Caller, pc'[c] = "done", data'[c] = <<>>, result'[c].kind \in Failure
  PROVE  Fine(c)'
  <1>1. DOMAIN <<>> = {}
    OBVIOUS
  <1> QED
    BY <1>1 DEF Fine

\* What msysd writes if it conforms: at most one line before it has the request.
LEMMA ConformingLines ==
  ASSUME PublicInv, NEW c \in Caller, Conforms(c)
  PROVE  /\ Len(lines[c]) \in 0..2 /\ (lines[c] = <<>> <=> Len(lines[c]) = 0)
         /\ ~asked[c] => Len(lines[c]) <= 1
         /\ \A i \in 1..Len(lines[c]) :
               /\ lines[c][i] \in Line /\ lines[c][i].size \in Nat \ {0}
               /\ lines[c][i].type \in IF i = 1 THEN {"welcome"} ELSE {"return", "error"}
               /\ i = 2 => lines[c][i].id = id[c]
               /\ IF c \in Static THEN lines[c][i].size + 1 <= MaxPacket
                                  ELSE lines[c][i].size <= MaxPacket
         /\ ~open[c] => Len(lines[c]) = 2 /\ todo[c] = <<>>
  <1> USE DEF PublicInv
  <1>1. /\ lines[c] \in Seq(Line) /\ Len(lines[c]) \in Nat /\ DOMAIN lines[c] = 1..Len(lines[c])
        /\ \A i \in 1..Len(lines[c]) : lines[c][i] \in Line
        /\ lines[c] = <<>> <=> Len(lines[c]) = 0
    BY EmptySeq, LenProperties, ElementOfSeq DEF PublicTypeOK
  <1>2. \A i \in 1..Len(lines[c]) : i > 1 => i = 2 /\ lines[c][i].id = id[c]
    BY <1>1 DEF Conforms
  <1>3. Len(lines[c]) \in 0..2
    <2>1. PICK n \in Nat : n = Len(lines[c])
      BY <1>1
    <2>2. ~(n > 2)
      <3>1. SUFFICES ASSUME n > 2 PROVE FALSE
        OBVIOUS
      <3>2. 3 \in 1..Len(lines[c])
        BY <2>1, <3>1
      <3> QED
        BY <1>2, <3>2
    <2>3. n \in 0..2
      BY <2>2
    <2> QED
      BY <2>1, <2>3
  <1>4. ~asked[c] => Len(lines[c]) <= 1
    <2>1. CASE Len(lines[c]) = 2
      <3>1. 2 \in 1..Len(lines[c])
        BY <2>1
      <3>2. lines[c][2].id = id[c]
        BY <1>2, <3>1
      <3>3. id[c] # 0
        BY <1>1, <2>1 DEF LockOK, StreamOK
      <3> QED
        BY <1>1, <3>1, <3>2, <3>3 DEF StreamOK
    <2>2. Len(lines[c]) = 2 \/ Len(lines[c]) <= 1
      <3>1. \A n \in 0..2 : n = 2 \/ n <= 1
        OBVIOUS
      <3> QED
        BY <1>3, <3>1, Zenon
    <2> QED
      BY <2>1, <2>2
  <1>5. ASSUME NEW i \in 1..Len(lines[c])
        PROVE  /\ lines[c][i] \in Line /\ lines[c][i].size \in Nat \ {0}
               /\ lines[c][i].type \in IF i = 1 THEN {"welcome"} ELSE {"return", "error"}
               /\ i = 2 => lines[c][i].id = id[c]
               /\ IF c \in Static THEN lines[c][i].size + 1 <= MaxPacket
                                  ELSE lines[c][i].size <= MaxPacket
    <2>1. lines[c][i].type \in IF i = 1 THEN {"welcome"} ELSE {"return", "error"}
      BY <1>1 DEF Conforms
    <2>2. lines[c][i].size \in Nat \ {0}
      <3>1. lines[c][i].type # "empty"
        BY <2>1
      <3>2. lines[c][i].size # 0
        BY <1>1, <3>1 DEF StreamOK
      <3> QED
        BY <1>1, <3>2, Texts
    <2>3. MaxPacket \in Nat
      BY SizeAssumption
    <2>4. WithinLimit(c, lines[c][i])
      BY <1>1 DEF Conforms
    <2> QED
      BY <1>1, <1>2, <2>1, <2>2, <2>3, <2>4 DEF WithinLimit
  <1>6. ~open[c] => Len(lines[c]) = 2 /\ todo[c] = <<>>
    BY DEF Conforms
  <1> QED
    BY <1>1, <1>3, <1>4, <1>5, <1>6

\* A whole line decodes to that line, with the newline and without it.
LEMMA DecodeText ==
  ASSUME NEW c \in Caller, NEW line \in Line, line.size # 0, NEW text,
         text = Text(line) \/ text = SubSeq(Text(line), 1, line.size), Decode(c, text)
  PROVE  Take(c, line)
  <1> DEFINE n == line.size
             cut == SubSeq(Text(line), 1, n)
  <1>1. n \in Nat \ {0} /\ n \in 0..Len(Text(line)) /\ 1 \in 1..n /\ n \in 1..n
        /\ Text(line) \in Seq(Symbol)
    BY Texts
  <1>2. /\ cut \in Seq(Symbol) /\ Len(cut) = n /\ \A k \in 1..n : cut[k] = Text(line)[k]
    BY <1>1, Splits
  <1>3. cut = Body(line)
    BY <1>1, <1>2, Texts, SeqEqual
  <1>4. cut[1].of = line /\ cut[n] # Newline /\ cut # <<>>
    BY <1>1, <1>2, Texts, EmptySeq
  <1>5. Text(line)[1].of = line /\ Text(line) # <<>> /\ Last(Text(line)) = Newline
    BY <1>1, Texts, EmptySeq DEF Last
  <1>6. Front(Text(line)) = cut
    BY <1>1, Texts DEF Front
  <1>7. Bare(text) = Body(line) /\ text # <<>> /\ text[1].of = line
    BY <1>2, <1>3, <1>4, <1>5, <1>6 DEF Bare, Last
  <1>8. Whole(Bare(text))
    BY <1>3, <1>4, <1>7 DEF Whole
  <1> QED
    BY <1>7, <1>8 DEF Decode

\* The line that a client is reading, and what it does with it.
Reads(c, line) ==
    /\ Conforms(c)
    /\ \/ pc[c] = "welcome" /\ lines[c] # <<>> /\ line = lines[c][1]
       \/ pc[c] = "answer" /\ Len(lines[c]) = 2 /\ line = lines[c][2]

LEMMA TakeFine ==
  ASSUME PublicInv, NEW c \in Caller, NEW line, Reads(c, line), Take(c, line), Around(c),
         stream'[c] = <<>>, todo[c] = <<>>
  PROVE  Fine(c)'
  <1> USE DEF PublicInv
  <1>1. UNCHANGED <<lines, todo, id, open>> /\ todo'[c] = <<>>
    BY DEF Around
  <1>2. DOMAIN <<>> = {} /\ <<>> \o (<<>> \o <<>>) = <<>>
    OBVIOUS
  <1>3. Len(lines[c]) \in 0..2 /\ (lines[c] = <<>> <=> Len(lines[c]) = 0)
        /\ \A i \in 1..Len(lines[c]) :
               /\ lines[c][i].type \in IF i = 1 THEN {"welcome"} ELSE {"return", "error"}
               /\ i = 2 => lines[c][i].id = id[c]
    BY ConformingLines DEF Reads
  <1>4. CASE pc[c] = "welcome"
    <2>1. lines[c] # <<>> /\ line = lines[c][1]
      BY <1>4 DEF Reads
    <2>2. 1 \in 1..Len(lines[c])
      <3>1. PICK m \in 0..2 : m = Len(lines[c])
        BY <1>3
      <3>2. m # 0
        BY <1>3, <2>1, <3>1
      <3> QED
        BY <3>1, <3>2
    <2>3. line.type = "welcome"
      BY <1>3, <2>1, <2>2
    <2>4. pc' = [pc EXCEPT ![c] = "send"] /\ data' = [data EXCEPT ![c] = <<>>]
      BY <1>4, <2>3 DEF Take
    <2>5. pc'[c] = "send" /\ data'[c] = <<>> /\ lines'[c] # <<>>
      BY <1>1, <2>1, <2>4 DEF PublicTypeOK
    <2> QED
      BY <1>1, <1>2, <2>5 DEF Fine, Rest
  <1>5. CASE pc[c] = "answer"
    <2>1. Len(lines[c]) = 2 /\ line = lines[c][2]
      BY <1>5 DEF Reads
    <2>2. 2 \in 1..Len(lines[c])
      BY <2>1
    <2>3. line.id = id[c] /\ line.type \in {"return", "error"}
      BY <1>3, <2>1, <2>2
    <2>4. \E kind : Ends(c, kind, line)
      <3>1. CASE c \in Static
        <4>1. Ends(c, "value", line)
          BY <1>5, <3>1, CallerAssumption DEF Take
        <4> QED
          BY <4>1
      <3>2. CASE c \in User
        <4>1. Answered(c, line)
          BY <1>5, <3>2, CallerAssumption DEF Take
        <4> QED
          BY <2>3, <4>1 DEF Answered
      <3> QED
        BY <3>1, <3>2 DEF Caller
    <2>5. pc'[c] = "done" /\ data'[c] = <<>> /\ result'[c].line = line
      BY <2>4 DEF Ends, Outcome, PublicTypeOK
    <2> QED
      BY <1>1, <1>2, <2>1, <2>5 DEF Fine
  <1> QED
    BY <1>4, <1>5 DEF Reads

\* What a conforming msysd and the stream have between them is a part of that line.
LEMMA ReadsRest ==
  ASSUME PublicInv, NEW c \in Caller, Conforms(c), Reading(c), NEW n \in Nat, Gets(c, n)
  PROVE  LET u == SubSeq(stream[c], n + 1, Len(stream[c])) \o todo[c]
         IN  \E line \in Line : /\ Reads(c, line) /\ Chunk(c, n) \o u = Text(line)
                                /\ Rest(c) = Text(line)
                                /\ u \in Seq(Symbol) /\ (u = <<>> => todo[c] = <<>>
                                      /\ SubSeq(stream[c], n + 1, Len(stream[c])) = <<>>)
  <1> USE DEF PublicInv
  <1> DEFINE a == SubSeq(stream[c], 1, n)
             b == SubSeq(stream[c], n + 1, Len(stream[c]))
             s == Chunk(c, n)
             u == b \o todo[c]
  <1>1. data[c] \in Seq(Symbol) /\ stream[c] \in Seq(Symbol) /\ todo[c] \in Seq(Symbol)
    BY DEF PublicTypeOK
  <1>2. n \in 0..Len(stream[c])
    BY <1>1, LenProperties DEF Gets
  <1>3. a \in Seq(Symbol) /\ b \in Seq(Symbol) /\ a \o b = stream[c]
    BY <1>1, <1>2, Splits
  <1>4. s \in Seq(Symbol) /\ Len(s) \in Nat \ {0} /\ s = data[c] \o a
    BY ChunkText DEF Chunk
  <1> HIDE DEF a, b, s, u
  <1>5. u \in Seq(Symbol) /\ (u = <<>> => b = <<>> /\ todo[c] = <<>>) /\ u = b \o todo[c]
    <2>1. u = b \o todo[c]
      BY DEF u
    <2>2. b \o todo[c] \in Seq(Symbol)
      BY <1>1, <1>3, ConcatProperties
    <2>3. b \o todo[c] = <<>> => b = <<>> /\ todo[c] = <<>>
      BY <1>1, <1>3, ConcatEqualIffEmpty, ConcatProperties, EmptySeq, LenProperties
    <2> QED
      BY <2>1, <2>2, <2>3
  <1>6. s \o u = Rest(c)
    <2>1. stream[c] \o todo[c] = a \o u
      <3>1. (a \o b) \o todo[c] = a \o (b \o todo[c])
        BY <1>1, <1>3, Associative
      <3> QED
        BY <1>3, <1>5, <3>1
    <2>2. (data[c] \o a) \o u = data[c] \o (a \o u)
      BY <1>1, <1>3, <1>5, Associative
    <2> QED
      BY <1>4, <2>1, <2>2 DEF Rest
  <1>7. s \o u # <<>>
    <2>1. Len(s \o u) = Len(s) + Len(u) /\ Len(u) \in Nat
      BY <1>4, <1>5, ConcatProperties, LenProperties
    <2>2. Len(s \o u) # 0
      BY <1>4, <2>1
    <2> QED
      BY <2>2, EmptySeq
  <1>8. Fine(c)
    BY FineParts
  <1>9. PICK line : Reads(c, line) /\ Rest(c) = Text(line)
    BY <1>6, <1>7, <1>8 DEF Fine, Reads, Reading
  <1>10. line \in Line
    <2>1. Len(lines[c]) \in 0..2 /\ (lines[c] = <<>> <=> Len(lines[c]) = 0)
          /\ \A i \in 1..Len(lines[c]) : lines[c][i] \in Line
      BY ConformingLines
    <2>2. CASE lines[c] # <<>> /\ line = lines[c][1]
      <3>1. PICK m \in 0..2 : m = Len(lines[c]) /\ m # 0
        BY <2>1, <2>2
      <3>2. 1 \in 1..Len(lines[c])
        BY <3>1
      <3> QED
        BY <2>1, <2>2, <3>2
    <2>3. CASE Len(lines[c]) = 2 /\ line = lines[c][2]
      <3>1. 2 \in 1..Len(lines[c])
        BY <2>3
      <3> QED
        BY <2>1, <2>3, <3>1
    <2> QED
      BY <1>9, <2>2, <2>3 DEF Reads
  <1> QED
    BY <1>5, <1>6, <1>9, <1>10 DEF s, u, b

\* However the stream splits the line, the client reads on until it has all of it.
LEMMA ReceiveFine ==
  ASSUME PublicInv, NEW c \in Caller, Receive(c)
  PROVE  Fine(c)'
  <1> USE DEF PublicInv
  <1>1. PICK n \in Nat : Gets(c, n)
    BY ReceiveGets
  <1> DEFINE s == Chunk(c, n)
             b == SubSeq(stream[c], n + 1, Len(stream[c]))
             u == b \o todo[c]
  <1>2. Reading(c) /\ UNCHANGED <<id, todo, lines, open, asked, lock, nextId, reset>> /\ stream'[c] = b
    BY <1>1 DEF Receive, Gets, PublicTypeOK
  <1>3. Conforms(c)' <=> Conforms(c)
    BY <1>2 DEF Conforms, WithinLimit
  <1>4. CASE ~Conforms(c)
    BY <1>3, <1>4 DEF Fine
  <1>5. CASE Conforms(c)
    <2>1. PICK line \in Line : /\ Reads(c, line) /\ s \o u = Text(line) /\ Rest(c) = Text(line)
                               /\ u \in Seq(Symbol) /\ (u = <<>> => todo[c] = <<>> /\ b = <<>>)
      BY <1>1, <1>2, <1>5, ReadsRest
    <2>2. s \in Seq(Symbol) /\ Len(s) \in Nat \ {0} /\ DOMAIN s = 1..Len(s)
      BY <1>1, ChunkText
    <2>3. Around(c)
      <3>1. stream' \in [Caller -> Seq(Symbol)] /\ Begun(stream'[c], c)
        BY <1>1, <1>2, ChunkText DEF Gets, PublicTypeOK
      <3> QED
        BY <1>1, <3>1 DEF Around, Gets, PublicTypeOK
    <2>4. IF c \in Static THEN GotStatic(c, s) ELSE GotUser(c, s)
      BY <1>1 DEF Gets
    <2>5. Rest(c)' = data'[c] \o u
      BY <1>2 DEF Rest
    <2> HIDE DEF s, b, u
    <2>6. /\ line.size \in Nat \ {0} /\ MaxPacket \in Nat
          /\ IF c \in Static THEN line.size + 1 <= MaxPacket ELSE line.size <= MaxPacket
      <3>1. Len(lines[c]) \in 0..2 /\ (lines[c] = <<>> <=> Len(lines[c]) = 0)
            /\ \A i \in 1..Len(lines[c]) :
                  /\ lines[c][i].size \in Nat \ {0}
                  /\ IF c \in Static THEN lines[c][i].size + 1 <= MaxPacket
                                     ELSE lines[c][i].size <= MaxPacket
        BY <1>5, ConformingLines
      <3>2. CASE lines[c] # <<>> /\ line = lines[c][1]
        <4>1. PICK m \in 0..2 : m = Len(lines[c]) /\ m # 0
          BY <3>1, <3>2
        <4>2. 1 \in 1..Len(lines[c])
          BY <4>1
        <4> QED
          BY <3>1, <3>2, <4>2, SizeAssumption
      <3>3. CASE Len(lines[c]) = 2 /\ line = lines[c][2]
        <4>1. 2 \in 1..Len(lines[c])
          BY <3>3
        <4> QED
          BY <3>1, <3>3, <4>1, SizeAssumption
      <3> QED
        BY <2>1, <3>2, <3>3 DEF Reads
    <2>7. /\ Len(u) \in Nat /\ (u = <<>> <=> Len(u) = 0) /\ Len(s) + Len(u) = line.size + 1
          /\ \A k \in 1..Len(s) : s[k] = Text(line)[k]
      <3>1. Len(u) \in Nat /\ (u = <<>> <=> Len(u) = 0)
        BY <2>1, EmptySeq, LenProperties
      <3>2. Len(Text(line)) = Len(s) + Len(u)
        BY <2>1, <2>2, ConcatProperties
      <3>3. \A k \in 1..(Len(s) + Len(u)) :
               Text(line)[k] = IF k <= Len(s) THEN s[k] ELSE u[k - Len(s)]
        BY <2>1, <2>2, ConcatProperties
      <3>4. \A k \in 1..Len(s) : k \in 1..(Len(s) + Len(u)) /\ k <= Len(s)
        BY <2>2, <3>1
      <3> QED
        BY <3>1, <3>2, <3>3, <3>4, Texts
    <2>8. CASE Len(u) # 0
      <3>1. Len(s) <= line.size /\ 1..Len(s) \subseteq 1..line.size
        BY <2>2, <2>6, <2>7, <2>8
      <3>2. \A k \in 1..Len(s) : s[k] # Newline
        BY <2>7, <3>1, Texts
      <3>3. Goes(c, s)
        <4>1. CASE c \in Static
          <5>1. ~(Len(s) > MaxPacket)
            BY <2>2, <2>6, <3>1, <4>1
          <5>2. Last(s) # Newline
            BY <2>2, <3>2 DEF Last
          <5> QED
            BY <2>4, <4>1, <5>1, <5>2 DEF GotStatic
        <4>2. CASE c \notin Static
          <5>1. ~TooMuch(Len(s))
            BY <2>2, <2>6, <3>1, <4>2 DEF TooMuch
          <5>2. {i \in DOMAIN s : s[i] = Newline} = {}
            BY <2>2, <3>2
          <5> QED
            BY <2>4, <4>2, <5>1, <5>2 DEF GotUser
        <4> QED
          BY <4>1, <4>2
      <3>4. data'[c] = s /\ pc'[c] = pc[c] /\ pc[c] # "done" /\ lines'[c] = lines[c]
            /\ Rest(c)' = Text(line)
        BY <1>2, <2>1, <2>5, <3>3 DEF Goes, PublicTypeOK, Reading
      <3>5. Fine(c)
        BY FineParts
      <3>6. DOMAIN s = 1..Len(s) /\ (pc[c] \in {"send", "answer"} => lines[c] # <<>>)
        BY <1>5, <2>2, <3>5 DEF Fine
      <3> QED
        BY <2>1, <3>2, <3>4, <3>5, <3>6, <1>5 DEF Fine
    <2>9. CASE Len(u) = 0
      <3>1. u = <<>> /\ todo[c] = <<>> /\ b = <<>> /\ s = Text(line)
        BY <2>1, <2>2, <2>7, <2>9, ConcatEmptySeq
      <3>2. Decode(c, Text(line)) \/ Decode(c, SubSeq(Text(line), 1, line.size))
        <4>1. Len(s) = line.size + 1 /\ s[Len(s)] = Newline
          BY <3>1, Texts
        <4>2. CASE c \in Static
          <5>1. ~(Len(s) > MaxPacket) /\ Last(s) = Newline
            BY <2>6, <4>1, <4>2 DEF Last
          <5>2. Len(s) <= MaxPacket
            BY <2>2, <2>6, <5>1
          <5> QED
            BY <2>4, <3>1, <4>2, <5>1, <5>2 DEF GotStatic
        <4>3. CASE c \notin Static
          <5> DEFINE newlines == {i \in DOMAIN s : s[i] = Newline}
                     first == CHOOSE i \in newlines : \A j \in newlines : i <= j
          <5>1. newlines = {line.size + 1}
            <6>1. line.size + 1 \in DOMAIN s
              BY <2>2, <2>6, <4>1
            <6>2. \A k \in DOMAIN s : k = line.size + 1 \/ k \in 1..line.size
              BY <2>2, <2>6, <4>1
            <6> QED
              BY <3>1, <4>1, <6>1, <6>2, Texts
          <5>2. newlines # {} => first \in newlines
            BY <2>2, FirstNewline
          <5>3. first = line.size + 1
            BY <5>1, <5>2
          <5> HIDE DEF first
          <5>4. Decode(c, SubSeq(s, 1, first - 1))
            BY <2>4, <4>3, <5>1 DEF GotUser, first
          <5>5. first - 1 = line.size
            BY <2>6, <5>3
          <5> QED
            BY <3>1, <5>4, <5>5
        <4> QED
          BY <4>2, <4>3
      <3>3. Take(c, line)
        BY <2>6, <3>2, DecodeText
      <3> QED
        BY <1>2, <2>1, <2>3, <3>1, <3>3, TakeFine
    <2> QED
      BY <2>7, <2>8, <2>9
  <1> QED
    BY <1>4, <1>5

LEMMA SocketFine ==
  ASSUME PublicTypeOK, NEW c \in Caller, SocketFails(c) \/ Ends(c, "unsent", NoLine)
  PROVE  Fine(c)'
  <1>1. pc'[c] = "done" /\ data'[c] = <<>> /\ result'[c].kind \in Failure
    <2>1. CASE Ends(c, "OSError", NoLine)
      BY <2>1 DEF Ends, Outcome, Failure, PublicTypeOK
    <2>2. CASE Ends(c, "MipcUnavailable", NoLine)
      BY <2>2 DEF Ends, Outcome, Failure, PublicTypeOK
    <2>3. CASE Ends(c, "unsent", NoLine)
      BY <2>3 DEF Ends, Outcome, Failure, PublicTypeOK
    <2> QED
      BY <2>1, <2>2, <2>3 DEF SocketFails, Fails
  <1> QED
    BY <1>1, FailFine

\* The end of the stream comes after the answer, which the client has taken by then.
LEMMA EofFine ==
  ASSUME PublicInv, NEW c \in Caller, ReceiveEof(c)
  PROVE  Fine(c)'
  <1> USE DEF PublicInv
  <1>1. Reading(c) /\ stream[c] = <<>> /\ ~open[c] /\ UNCHANGED <<id, serverVars>>
    BY DEF ReceiveEof
  <1>2. CASE SocketFails(c)
    BY <1>2, SocketFine
  <1>3. CASE ~Conforms(c)
    <2>1. ~Conforms(c)'
      BY <1>1, <1>3 DEF Conforms, WithinLimit
    <2> QED
      BY <2>1 DEF Fine
  <1>4. CASE Conforms(c)
    <2>1. Fine(c)
      BY FineParts
    <2>2. /\ Len(lines[c]) = 2 /\ todo[c] = <<>> /\ lines[c] # <<>>
          /\ \A i \in 1..Len(lines[c]) : lines[c][i] \in Line /\ lines[c][i].size \in Nat \ {0}
      BY <1>1, <1>4, ConformingLines
    <2>3. data[c] \in Seq(Symbol) /\ <<>> \o <<>> = <<>>
      BY DEF PublicTypeOK
    <2>4. data[c] \o <<>> = data[c]
      BY <2>3, ConcatEmptySeq
    <2>5. Rest(c) = data[c]
      BY <1>1, <2>2, <2>3, <2>4 DEF Rest
    <2>6. PICK line \in Line : data[c] = Text(line)
      <3>1. 1 \in 1..Len(lines[c]) /\ 2 \in 1..Len(lines[c])
        BY <2>2
      <3> QED
        BY <1>1, <1>4, <2>1, <2>2, <2>5, <3>1 DEF Fine, Reading
    <2>7. line.size + 1 \in DOMAIN data[c] /\ data[c][line.size + 1] = Newline
      <3>1. Len(data[c]) = line.size + 1 /\ line.size \in Nat /\ data[c][line.size + 1] = Newline
        BY <2>6, Texts
      <3>2. DOMAIN data[c] = 1..Len(data[c])
        BY <2>3, LenProperties
      <3> QED
        BY <3>1, <3>2
    <2>8. \A k \in DOMAIN data[c] : data[c][k] # Newline
      BY <1>4, <2>1 DEF Fine
    <2> QED
      BY <2>7, <2>8
  <1> QED
    BY <1>2, <1>3, <1>4

\* The steps between two lines.
LEMMA BetweenFine ==
  ASSUME PublicInv, NEW c \in Caller, Begin(c) \/ Count(c) \/ Connect(c) \/ Send(c)
  PROVE  Fine(c)'
  <1> USE DEF PublicInv
  <1>1. CASE SocketFails(c) \/ Ends(c, "unsent", NoLine)
    BY <1>1, SocketFine
  <1>2. CASE /\ UNCHANGED <<data, serverVars>> /\ pc[c] \in {"idle", "count", "connect"}
             /\ pc'[c] \in {"count", "connect", "welcome"}
    <2>1. Fine(c) /\ lines[c] = <<>> /\ open[c] /\ lines'[c] = <<>> /\ open'[c]
      BY <1>2, FineParts DEF StreamOK
    <2>2. DOMAIN <<>> = {} /\ Len(<<>>) = 0
      OBVIOUS
    <2>3. Conforms(c)
      BY <2>1, <2>2 DEF Conforms
    <2>4. data'[c] = data[c] /\ Rest(c)' = Rest(c) /\ Rest(c) = <<>>
          /\ \A k \in DOMAIN data[c] : data[c][k] # Newline
      BY <1>2, <2>1, <2>2, <2>3 DEF Fine, Rest
    <2> QED
      BY <1>2, <2>1, <2>2, <2>4 DEF Fine
  <1>3. CASE /\ UNCHANGED <<id, data, serverVars>> /\ pc[c] = "send" /\ pc'[c] = "answer"
    <2>1. CASE ~Conforms(c)
      <3>1. ~Conforms(c)'
        BY <1>3, <2>1 DEF Conforms, WithinLimit
      <3> QED
        BY <3>1 DEF Fine
    <2>2. CASE Conforms(c)
      <3>1. Fine(c) /\ ~asked[c]
        BY <1>3, FineParts DEF StreamOK
      <3>2. Len(lines[c]) # 2
        <4>1. Len(lines[c]) <= 1 /\ Len(lines[c]) \in 0..2
          BY <2>2, <3>1, ConformingLines
        <4> QED
          BY <4>1
      <3>3. data'[c] = data[c] /\ lines'[c] = lines[c] /\ Rest(c)' = Rest(c)
            /\ Rest(c) = <<>> /\ lines[c] # <<>>
            /\ \A k \in DOMAIN data[c] : data[c][k] # Newline
        BY <1>3, <2>2, <3>1, <3>2 DEF Fine, Rest
      <3> QED
        BY <1>3, <3>2, <3>3 DEF Fine
    <2> QED
      BY <2>1, <2>2
  <1>4. CASE Begin(c) \/ Count(c)
    <2>1. UNCHANGED <<data, serverVars>> /\ pc[c] \in {"idle", "count"}
          /\ pc'[c] \in {"count", "connect"}
      BY <1>4 DEF Begin, Count, PublicTypeOK
    <2> QED
      BY <1>2, <2>1
  <1>5. CASE Connect(c) \/ Send(c)
    BY <1>1, <1>2, <1>3, <1>5 DEF Connect, Send, PublicTypeOK
  <1> QED
    BY <1>4, <1>5

\* A line is begun only when the one before has been read, and the answer after the request.
LEMMA ServerBeginFine ==
  ASSUME PublicInv, NEW c \in Caller, NEW line \in Offered(c), ServerBegin(c, line)
  PROVE  Fine(c)'
  <1> USE DEF PublicInv
  <1> DEFINE now == Append(lines[c], line)
  <1>1. /\ UNCHANGED <<clientVars, stream, open>>
        /\ lines' = [lines EXCEPT ![c] = now] /\ todo' = [todo EXCEPT ![c] = Text(line)]
        /\ pc[c] \in OnStream /\ open[c] /\ todo[c] = <<>>
    BY DEF ServerBegin, Text, Connected
  <1>2. lines'[c] = now /\ todo'[c] = Text(line) /\ pc[c] # "done"
    BY <1>1 DEF PublicTypeOK, OnStream
  <1>3. line \in Line /\ (line.id # 0 => asked[c])
    <2>1. MaxPacket + 1 \in Nat \ {0} /\ id[c] \in Nat /\ 0 \in Nat /\ id[c] + 1 \in Nat
      BY SizeAssumption DEF PublicTypeOK
    <2>2. {0, 1} \subseteq 0..(MaxPacket + 1) /\ 1..(MaxPacket + 1) \subseteq 0..(MaxPacket + 1)
      BY <2>1
    <2> QED
      BY <2>1, <2>2 DEF Offered, Line, Type
  <1>4. PICK n \in Nat : n = Len(lines[c])
    BY LenProperties DEF PublicTypeOK
  <1>5. /\ DOMAIN lines[c] = 1..n /\ DOMAIN now = 1..(n + 1) /\ Len(now) = n + 1
        /\ \A i \in 1..n : now[i] = lines[c][i]
        /\ now[n + 1] = line /\ now # <<>>
    <2>1. lines[c] \in Seq(Line)
      BY DEF PublicTypeOK
    <2>2. now \in Seq(Line) /\ Len(now) = n + 1 /\ now[n + 1] = line
          /\ \A i \in 1..n : now[i] = lines[c][i]
      BY <1>3, <1>4, <2>1, AppendProperties
    <2> HIDE DEF now
    <2>3. Len(now) # 0
      BY <2>2
    <2> QED
      BY <1>4, <2>1, <2>2, <2>3, LenProperties, EmptySeq
  <1> HIDE DEF now
  <1>6. SUFFICES ASSUME Conforms(c)' PROVE Fine(c)'
    BY DEF Fine
  <1>7. Conforms(c)
    <2>1. 1..n \subseteq 1..(n + 1)
      OBVIOUS
    <2>2. ASSUME NEW i \in 1..n
          PROVE  /\ WithinLimit(c, lines[c][i])
                 /\ lines[c][i].type \in IF i = 1 THEN {"welcome"} ELSE {"return", "error"}
                 /\ i > 1 => i = 2 /\ lines[c][i].id = id[c]
      BY <1>1, <1>2, <1>5, <1>6, <2>1, <2>2 DEF Conforms, WithinLimit
    <2> QED
      BY <1>1, <1>5, <2>2 DEF Conforms
  <1>8. n + 1 > 1 => n + 1 = 2 /\ line.id = id[c]
    <2>1. n + 1 \in DOMAIN now
      BY <1>5
    <2> QED
      BY <1>1, <1>2, <1>5, <1>6, <2>1 DEF Conforms
  <1>9. Fine(c)
    BY FineParts
  <1>10. /\ data[c] \in Seq(Symbol) /\ stream[c] \in Seq(Symbol) /\ Text(line) \in Seq(Symbol)
         /\ todo[c] \in Seq(Symbol)
    BY <1>3, Texts DEF PublicTypeOK
  <1>11. CASE n = 0
    <2>1. pc[c] = "welcome" /\ lines[c] = <<>>
      <3>1. lines[c] = <<>>
        BY <1>4, <1>11, EmptySeq DEF PublicTypeOK
      <3> QED
        BY <1>1, <1>7, <1>9, <3>1 DEF Fine, OnStream
    <2>2. Rest(c) = <<>>
      BY <1>2, <1>7, <1>9, <2>1 DEF Fine
    <2>3. data[c] = <<>> /\ stream[c] = <<>>
      <3>1. stream[c] \o todo[c] \in Seq(Symbol)
        BY <1>10, ConcatProperties
      <3>2. data[c] = <<>> /\ stream[c] \o todo[c] = <<>>
        BY <1>10, <2>2, <3>1, ConcatEqualIffEmpty DEF Rest
      <3> QED
        BY <1>10, <3>2, ConcatEqualIffEmpty
    <2>4. Rest(c)' = Text(line)
      <3>1. <<>> \o (<<>> \o Text(line)) = Text(line)
        BY <1>10, ConcatEmptySeq
      <3> QED
        BY <1>1, <1>2, <2>3, <3>1 DEF Rest
    <2>5. now[1] = line /\ DOMAIN <<>> = {}
      BY <1>5, <1>11
    <2> QED
      BY <1>1, <1>2, <1>5, <2>1, <2>3, <2>4, <2>5 DEF Fine
  <1>12. CASE n = 1
    <2>1. line.id # 0
      <3>1. id[c] # 0
        BY <1>1 DEF LockOK, OnStream
      <3> QED
        BY <1>8, <1>12, <3>1
    <2>2. pc[c] = "answer"
      BY <1>1, <1>3, <2>1 DEF StreamOK, OnStream
    <2>3. Rest(c) = <<>>
      <3>1. Len(lines[c]) # 2
        BY <1>4, <1>12
      <3> QED
        BY <1>7, <1>9, <2>2, <3>1 DEF Fine
    <2>4. data[c] = <<>> /\ stream[c] = <<>>
      <3>1. stream[c] \o todo[c] \in Seq(Symbol)
        BY <1>10, ConcatProperties
      <3>2. data[c] = <<>> /\ stream[c] \o todo[c] = <<>>
        BY <1>10, <2>3, <3>1, ConcatEqualIffEmpty DEF Rest
      <3> QED
        BY <1>10, <3>2, ConcatEqualIffEmpty
    <2>5. Rest(c)' = Text(line)
      <3>1. <<>> \o (<<>> \o Text(line)) = Text(line)
        BY <1>10, ConcatEmptySeq
      <3> QED
        BY <1>1, <1>2, <2>4, <3>1 DEF Rest
    <2>6. now[2] = line /\ Len(now) = 2 /\ DOMAIN <<>> = {}
      BY <1>5, <1>12
    <2> QED
      BY <1>1, <1>2, <1>5, <2>2, <2>4, <2>5, <2>6 DEF Fine
  <1>13. n = 0 \/ n = 1
    <2>1. n \in Nat /\ (n + 1 > 1 => n + 1 = 2)
      BY <1>4, <1>8
    <2> QED
      BY <2>1
  <1> QED
    BY <1>11, <1>12, <1>13

\* Writing moves a part of the line into the stream; reading and closing move nothing.
LEMMA ServerFine ==
  ASSUME PublicInv, NEW c \in Caller, Server(c)
  PROVE  Fine(c)'
  <1> USE DEF PublicInv
  <1>1. CASE \E line \in Offered(c) : ServerBegin(c, line)
    BY <1>1, ServerBeginFine
  <1>2. ASSUME NEW n \in 1..(MaxPacket + 2), ServerWrite(c, n)
        PROVE  Fine(c)'
    <2>1. /\ UNCHANGED <<clientVars, lines, open>> /\ todo[c] # <<>>
          /\ stream'[c] \o todo'[c] = stream[c] \o todo[c]
      <3>1. Len(todo[c]) \in Nat \ {0}
        BY <1>2, LenProperties DEF ServerWrite, PublicTypeOK
      <3> QED
        BY <1>2, <3>1, EmptySeq, ServerWriteKeeps DEF ServerWrite, PublicTypeOK
    <2>2. Fine(c) /\ Rest(c)' = Rest(c) /\ pc[c] # "done" /\ open[c]
      BY <1>2, <2>1, FineParts DEF Rest, ServerWrite, Connected, OnStream
    <2>3. Conforms(c)' => Conforms(c)
      BY <2>1, <2>2 DEF Conforms, WithinLimit
    <2> QED
      BY <2>1, <2>2, <2>3 DEF Fine
  <1>3. CASE ServerRead(c)
    <2>1. Fine(c)
      BY FineParts
    <2> QED
      BY <1>3, <2>1, StaysFine DEF ServerRead
  <1>4. CASE ServerClose(c)
    <2>1. Fine(c) /\ Rest(c)' = Rest(c) /\ open[c] /\ UNCHANGED <<clientVars, lines, todo>>
      BY <1>4, FineParts DEF Rest, ServerClose, Connected
    <2>2. Conforms(c)' => Conforms(c)
      BY <2>1 DEF Conforms, WithinLimit
    <2> QED
      BY <2>1, <2>2 DEF Fine
  <1> QED
    BY <1>1, <1>2, <1>3, <1>4 DEF Server

-----------------------------------------------------------------------------
(* The invariant *)

LEMMA IInvInit == PublicInit => PublicInv
  <1> SUFFICES ASSUME PublicInit PROVE PublicInv
    OBVIOUS
  <1> USE DEF PublicInit
  <1>1. <<>> \in Seq(Symbol) /\ <<>> \in Seq(Line) /\ Len(<<>>) = 0 /\ DOMAIN <<>> = {}
    BY EmptySeq
  <1>2. PublicTypeOK
    <2>1. Outcome("none", NoLine) \in [kind : Kind, line : Line \cup {NoLine}]
      BY DEF Outcome, Kind
    <2> QED
      BY <1>1, <2>1, SizeAssumption DEF PublicTypeOK
  <1>3. IdsDistinct /\ Own
    BY DEF IdsDistinct, Own, Outcome, Caller
  <1>4. LockOK
    BY CallerAssumption DEF LockOK, Caller
  <1>5. StreamOK
    BY <1>1 DEF StreamOK
  <1>6. OneLine /\ AnswerRead
    <2>1. <<>> \o (<<>> \o <<>>) = <<>>
      OBVIOUS
    <2> QED
      BY <1>1, <2>1 DEF OneLine, AnswerRead
  <1> QED
    BY <1>2, <1>3, <1>4, <1>5, <1>6 DEF PublicInv

\* A step of one caller leaves the others as they are.
LEMMA OthersStay ==
  ASSUME PublicInv, NEW c \in Caller, Begin(c) \/ CallerStep(c) \/ Server(c), NEW d \in Caller \ {c}
  PROVE  Fine(d)'
  <1> USE DEF PublicInv
  <1>1. Fine(d)
    BY FineParts
  <1>2. /\ pc'[d] = pc[d] /\ data'[d] = data[d] /\ stream'[d] = stream[d] /\ todo'[d] = todo[d]
        /\ lines'[d] = lines[d] /\ id'[d] = id[d] /\ open'[d] = open[d] /\ result'[d] = result[d]
    <2>1. CASE Begin(c) \/ Count(c)
      BY <2>1 DEF Begin, Count, PublicTypeOK
    <2>2. CASE Connect(c) \/ Receive(c) \/ ReceiveEof(c) \/ ReceiveTimeout(c) \/ Send(c)
      <3>1. PICK p, text, r : Moved(c, p, text, r)
        BY <2>2, ClientMoves
      <3> QED
        BY <3>1 DEF Moved, PublicTypeOK
    <2>3. CASE Server(c)
      BY <2>3 DEF Server, ServerBegin, ServerWrite, ServerRead, ServerClose, PublicTypeOK
    <2> QED
      BY <2>1, <2>2, <2>3 DEF CallerStep
  <1> QED
    BY <1>1, <1>2, StaysFine

LEMMA IInvNext == PublicInv /\ [PublicNext]_publicVars => PublicInv'
  <1> SUFFICES ASSUME PublicInv, [PublicNext]_publicVars PROVE PublicInv'
    OBVIOUS
  <1>1. CASE UNCHANGED publicVars
    BY <1>1 DEF publicVars, PublicInv, PublicTypeOK, IdsDistinct, Own, AnswerRead, LockOK, StreamOK, OneLine, Conforms,
                WithinLimit
  <1>2. ASSUME NEW c \in Caller, Begin(c) \/ CallerStep(c) \/ Server(c)
        PROVE  PublicInv'
    <2>1. PublicTypeOK' /\ IdsDistinct' /\ Own' /\ LockOK' /\ StreamOK'
      <3>1. CASE Begin(c) \/ Count(c)
        BY <3>1, BeginKeeps
      <3>2. CASE Connect(c) \/ Receive(c) \/ ReceiveEof(c) \/ ReceiveTimeout(c) \/ Send(c)
        <4>1. PICK p, text, r : Moved(c, p, text, r)
          BY <3>2, ClientMoves
        <4> QED
          BY <4>1, OutcomeKeeps
      <3>3. CASE Server(c)
        BY <3>3, ServerBeginKeeps, ServerWriteKeeps, ServerKeeps DEF Server
      <3> QED
        BY <1>2, <3>1, <3>2, <3>3 DEF CallerStep
    <2>2. Fine(c)'
      <3>1. CASE Begin(c) \/ Count(c) \/ Connect(c) \/ Send(c)
        BY <3>1, BetweenFine
      <3>2. CASE ReceiveTimeout(c)
        BY <3>2, SocketFine DEF ReceiveTimeout, PublicInv
      <3> QED
        BY <1>2, <3>1, <3>2, ReceiveFine, EofFine, ServerFine DEF CallerStep
    <2>3. \A d \in Caller : Fine(d)'
      BY <1>2, <2>2, OthersStay
    <2>4. OneLine' /\ AnswerRead'
      BY <2>3 DEF Fine, OneLine, AnswerRead, Rest, Failure
    <2> QED
      BY <2>1, <2>4 DEF PublicInv
  <1> QED
    BY <1>1, <1>2 DEF PublicNext

\* The inductive invariant: ids are distinct, what a call returns is its own, and the stream
\* between a client and an msysd that does what it should holds the rest of one line.
THEOREM Inductive == PublicSpec => []PublicInv
  BY IInvInit, IInvNext, PTL DEF PublicSpec

\* However the stream splits the lines, public_call() and PublicMipcClient.call() end with
\* the answer, if msysd does what it should and the socket does not fail.
THEOREM AnswerTaken == PublicSpec => []AnswerRead
  <1>1. PublicInv => AnswerRead
    BY DEF PublicInv
  <1> QED
    BY <1>1, Inductive, PTL

\* What a PublicMipcClient returns or raises is of its own request, and public_call() returns
\* a line of its own stream.
THEOREM OwnAnswers == PublicSpec => []Own
  <1>1. PublicInv => Own
    BY DEF PublicInv
  <1> QED
    BY <1>1, Inductive, PTL

=============================================================================
