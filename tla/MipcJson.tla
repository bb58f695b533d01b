------------------------------ MODULE MipcJson ------------------------------
(***************************************************************************)
(* How src/mipc.c reads a field of a record: the scanner of JSON text, the *)
(* search for a member of the outer object, and the decoding of its value. *)
(*                                                                         *)
(* Text is a sequence of tokens.  A string whose spelling the scanner      *)
(* accepts is one token, its content; "lit" is a number or one of true,    *)
(* false and null, "bad" a byte that begins none of these, a malformed     *)
(* string included.  White space is left out, and so are keys spelled with *)
(* \u, which never equal the key that is asked for.  The content of a      *)
(* string and of a number is looked at one character at a time, in         *)
(* operators of their own.                                                 *)
(***************************************************************************)
EXTENDS Integers, Sequences

CONSTANTS Key,      \* strings
          MaxDepth, \* MSYS_JSON_MAX_DEPTH
          UMax      \* UINT64_MAX

ASSUME LimitAssumption == {MaxDepth, UMax} \subseteq Nat

\* The structural characters, by their names in the grammar of JSON.
Opening == {"begin-object", "begin-array"}
Punctuation == Opening \cup {"end-object", "end-array", "name-separator", "value-separator"}

ASSUME KeyAssumption == Key \cap (Punctuation \cup {"lit", "bad", "end"}) = {}

Token == Punctuation \cup Key \cup {"lit", "bad"}

\* The token at the cursor; "end" is the terminating NUL.
At(text, i) == IF i \in DOMAIN text THEN text[i] ELSE "end"

\* What a character of a string to be sent takes in a record.
Width(c) == CASE c = "byte" -> 1 [] c = "escape" -> 2 [] c = "u1" -> 6

-----------------------------------------------------------------------------
(* Mistakes the properties must tell from the code. *)

DepthReached(k) == k >= MaxDepth
NoPlaceForNul(n, k, capacity) == n + k <= capacity

-----------------------------------------------------------------------------
(* skip_json_value() and the loops in it: the position after what begins at i, *)
(* or 0 for NULL.                                                              *)

TooDeep(k) == k > MaxDepth

Scalar == Key \cup {"lit"}

Closes(what) == IF what = "begin-object" THEN "end-object" ELSE "end-array"

Skip(text) ==
    LET skip[i \in 1..(Len(text) + 1)] ==
            [what \in Opening \cup {"value"} |-> [k \in Nat |->
            LET t == At(text, i)
                loop(begin) == skip[i + 1][begin][k]
                \* A loop: one member or element, then what follows it.
                follows(next) ==
                    CASE next # 0 /\ At(text, next) = Closes(what) -> next + 1
                      [] next # 0 /\ At(text, next) = "value-separator" -> skip[next + 1][what][k]
                      [] OTHER -> 0
            IN  CASE what = "value" /\ ~TooDeep(k) /\ t \in Scalar -> i + 1
                  [] what = "value" /\ ~TooDeep(k) /\ t \in Opening ->
                         IF At(text, i + 1) = Closes(t) THEN i + 2 ELSE loop(t)
                  [] what = "begin-array" -> follows(skip[i]["value"][k + 1])
                  [] what = "begin-object" /\ t \in Key /\ At(text, i + 1) = "name-separator" ->
                         follows(skip[i + 2]["value"][k + 1])
                  [] OTHER -> 0]]
    IN  skip

-----------------------------------------------------------------------------
(* find_top_level_value() *)

Found(begin, end) == [result |-> "OK", begin |-> begin, end |-> end]
Fails(result) == [result |-> result, begin |-> 0, end |-> 0]

\* A value must be followed by more, or by the end of the object.
Delimits(t) == t \in {"value-separator", "end-object"}

KeyEquals(t, key) == t = key

\* The member after one that is not followed by the end of the object is the next.
Find(text, key) ==
    LET find[i \in 1..(Len(text) + 1)] ==
            LET end == Skip(text)[i + 2]["value"][1]
            IN  IF \/ At(text, i) \notin Key \/ At(text, i + 1) # "name-separator"
                   \/ end = 0 \/ ~Delimits(At(text, end))
                THEN Fails("INVALID_JSON")
                ELSE IF KeyEquals(text[i], key) THEN Found(i + 2, end)
                ELSE IF At(text, end) = "end-object" THEN Fails("NOT_FOUND")
                ELSE find[end + 1]
    IN  IF At(text, 1) # "begin-object" THEN Fails("INVALID_JSON")
        ELSE IF At(text, 2) = "end-object" THEN Fails("NOT_FOUND")
        ELSE find[2]

-----------------------------------------------------------------------------
(* msys_mipc_json_get_u64() on the digits of a number.  A sign or a fraction   *)
(* is refused, by the scanner or here, and so is a zero before other digits.   *)

Overflows(p, digit) == p > (UMax - digit) \div 10

GetU64(digits) ==
    LET parse[i \in 1..(Len(digits) + 1)] == [parsed \in 0..UMax |->
            IF i > Len(digits) THEN [result |-> "OK", value |-> parsed]
            ELSE IF Overflows(parsed, digits[i]) THEN [result |-> "INVALID_JSON", value |-> 0]
            ELSE parse[i + 1][(parsed * 10 + digits[i]) % (UMax + 1)]]
    IN  IF digits = <<>> \/ (digits[1] = 0 /\ Len(digits) > 1)
        THEN [result |-> "INVALID_JSON", value |-> 0]
        ELSE parse[1][0]

-----------------------------------------------------------------------------
(* msys_mipc_json_get_string() on the characters of a string: a byte as it is, *)
(* an escape of one byte, \u of one, two or three bytes of UTF-8, and the two  *)
(* halves of a pair, which make four.                                          *)

Char == {"byte", "escape", "u1", "u2", "u3", "high", "low"}

Size(c) == CASE c \in {"byte", "escape", "u1"} -> 1
             [] c = "u2" -> 2 [] c = "u3" -> 3 [] c = "high" -> 4

Bytes(c) == [k \in 1..Size(c) |-> <<c, k>>]

\* Byte number k after n written ones is stored; the last place is for NUL.
Fits(n, k, capacity) == n + k < capacity

\* What is decoded: its length, and as much of it as is stored.
Decoding == [length : Nat, buffer : Seq(Char \X (1..4))]

Store(out, c, capacity) ==
    [length |-> out.length + Size(c),
     buffer |-> out.buffer \o [k \in {k \in 1..Size(c) : Fits(out.length, k, capacity)} |-> <<c, k>>]]

GetString(chars, capacity) ==
    LET decode[i \in 1..(Len(chars) + 1)] == [out \in Decoding |->
            LET then(c, next) == decode[next][Store(out, c, capacity)]
            IN  IF i > Len(chars)
                THEN [result |-> IF out.length >= capacity THEN "BUFFER_TOO_SMALL" ELSE "OK",
                      length |-> out.length, buffer |-> out.buffer]
                ELSE IF chars[i] = "high" /\ At(chars, i + 1) = "low" THEN then("high", i + 2)
                ELSE IF chars[i] \in {"high", "low"}
                THEN [result |-> "INVALID_JSON", length |-> 0, buffer |-> out.buffer]
                ELSE then(chars[i], i + 1)]
    IN  decode[1][[length |-> 0, buffer |-> <<>>]]

-----------------------------------------------------------------------------
(* escaped_json_string() and send_format(): a string in a record to be sent.   *)
(* Its characters are a byte that stays as it is, one with an escape of its    *)
(* own, and a control character, which becomes \u00XX.                         *)

TooLarge(n, c, limit) == n > limit - Width(c)

\* The length of the escaped string, or -1 for TOO_LARGE.
EscapedLength(string, limit) ==
    LET count[i \in 1..(Len(string) + 1)] == [n \in Nat |->
            IF i > Len(string) THEN n
            ELSE IF TooLarge(n, string[i], limit) THEN -1
            ELSE count[i + 1][n + Width(string[i])]]
    IN  IF Len(string) > limit THEN -1 ELSE count[1][0]

\* frame is what the record has besides the string.
SendResult(string, frame, limit) ==
    LET length == EscapedLength(string, limit)
    IN  IF length = -1 \/ length + frame > limit THEN "TOO_LARGE" ELSE "OK"
=============================================================================
