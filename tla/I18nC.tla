-------------------------------- MODULE I18nC -------------------------------
(***************************************************************************)
(* src/i18n.c: the same contract as in I18nPython, without a translator    *)
(* object.  Locales are normalized part by part, every lookup walks up     *)
(* from the locale it is given, and a template is rendered while it is     *)
(* read.                                                                   *)
(***************************************************************************)
EXTENDS I18nTypes, SequencesExt

CONSTANT IntMax \* INT64_MAX

\* Unary minus: the smallest number has no negative of its type.
Negated(i) == IF i = -IntMax - 1 THEN i ELSE -i

-----------------------------------------------------------------------------
(* Mistakes the properties must tell from the code. *)

NegatedFirst(count) == IF count < 0 THEN Negated(count) ELSE count
SamePrefix(name, param) == name = SubSeq(param, 1, Len(name))

-----------------------------------------------------------------------------
(* msys_i18n_normalize_locale(): the role of part p, given what came before *)

SawScript(raw) == IF Len(raw) > 1 /\ raw[2] \in Four THEN 1 ELSE 0

PartRole(raw, p) ==
    CASE p = 1 -> IF raw[p] \in Letters THEN "language" ELSE "invalid"
      [] p = 2 /\ raw[p] \in Four -> "script"
      [] p = 2 + SawScript(raw) /\ raw[p] \in Two \cup Code -> "region"
      [] p # 1 /\ raw[p] \in Long \cup Mixed \cup Dated -> "variant"
      [] OTHER -> "invalid"

\* It reads up to the first white space.
Read(raw) ==
    LET i == SelectInSeq(raw, LAMBDA subtag : subtag \in Spaced)
    IN  IF i = 0 THEN raw ELSE Append(SubSeq(raw, 1, i - 1), Beginning[raw[i]])

Normalized(raw) ==
    IF raw = <<>> \/ raw \in Posix \/ \E p \in DOMAIN raw : PartRole(raw, p) = "invalid"
    THEN Missing
    ELSE [p \in DOMAIN raw |-> <<PartRole(raw, p), raw[p]>>]

NormalizeLocale(raw) == Normalized(Read(raw))

-----------------------------------------------------------------------------
(* msys_i18n_plural_category() *)

\* magnitude()
Magnitude(count) == IF count < 0 THEN Negated(count + 1) + 1 ELSE count

Rules(language, portugal) ==
    CASE language \in {"zh", "ja", "ko", "th", "vi", "id", "ms"} -> <<>>
      [] language = "ar" -> <<<<"zero", {0}>>, <<"one", {1}>>, <<"two", {2}>>,
                              <<"few", LastTwo(3..10)>>, <<"many", LastTwo(11..99)>>>>
      [] language \in {"ru", "uk", "be"} ->
             <<<<"one", LastDigit({1}) \ LastTwo({11})>>, <<"few", LastDigit(2..4) \ LastTwo(12..14)>>,
               <<"many", Nat>>>>
      [] language = "pl" ->
             <<<<"one", {1}>>, <<"few", LastDigit(2..4) \ LastTwo(12..14)>>, <<"many", Nat>>>>
      [] language \in {"cs", "sk"} -> <<<<"one", {1}>>, <<"few", 2..4>>>>
      [] language = "sl" -> <<<<"one", LastTwo({1})>>, <<"two", LastTwo({2})>>,
                              <<"few", LastTwo({3, 4})>>>>
      [] language = "lt" -> <<<<"one", LastDigit({1}) \ LastTwo({11})>>,
                              <<"few", LastDigit(2..9) \ LastTwo(11..19)>>>>
      [] language = "lv" -> <<<<"zero", LastDigit({0}) \cup LastTwo(11..19)>>,
                              <<"one", LastDigit({1}) \ LastTwo({11})>>>>
      [] language = "ro" -> <<<<"one", {1}>>, <<"few", {0} \cup LastTwo(1..19)>>>>
      [] language = "he" -> <<<<"one", {1}>>, <<"two", {2}>>, <<"many", LastDigit({0}) \ {0}>>>>
      [] language = "cy" -> <<<<"zero", {0}>>, <<"one", {1}>>, <<"two", {2}>>, <<"few", {3}>>,
                              <<"many", {6}>>>>
      [] language = "ga" -> <<<<"one", {1}>>, <<"two", {2}>>, <<"few", 3..6>>, <<"many", 7..10>>>>
      [] language \in {"fr", "hi"} \/ (language = "pt" /\ ~portugal) -> <<<<"one", {0, 1}>>>>
      [] language \in {"is", "mk"} -> <<<<"one", LastDigit({1}) \ LastTwo({11})>>>>
      [] OTHER -> <<<<"one", {1}>>>>

\* It is the whole locale that is compared with pt-PT.
Portugal(locale) == locale = <<<<"language", "pt">>, <<"region", "pt">>>>

PluralCategory(locale, count) ==
    LET rules == IF locale = Missing THEN Rules("en", FALSE)
                                     ELSE Rules(locale[1][2], Portugal(locale))
        form == SelectInSeq(rules, LAMBDA r : Magnitude(count) \in r[2])
    IN  IF form = 0 THEN "other" ELSE rules[form][1]

-----------------------------------------------------------------------------
(* lookup_exact(), lookup_keys() and msys_i18n_lookup_plural() *)

LookupExact(catalog, locale, key) ==
    IF locale \in DOMAIN catalog.messages /\ key \in catalog.messages[locale]
    THEN Message(locale, key) ELSE Missing

RequestedLocale(catalog, raw) ==
    IF NormalizeLocale(raw) = Missing THEN catalog.default ELSE NormalizeLocale(raw)

\* No separator is left in a locale of n parts.
NoSeparator(n) == n = 0

\* From the requested locale up, then the default.
Walk(catalog, raw, exact(_)) ==
    LET locale == RequestedLocale(catalog, raw)
        walk[n \in 0..Len(locale)] ==
            IF NoSeparator(n) THEN exact(catalog.default)
            ELSE IF exact(SubSeq(locale, 1, n)) # Missing THEN exact(SubSeq(locale, 1, n))
            ELSE walk[n - 1]
    IN  walk[Len(locale)]

Lookup(catalog, raw, key) == Walk(catalog, raw, LAMBDA l : LookupExact(catalog, l, key))

LookupPluralExact(catalog, locale, count) ==
    LET found == LookupExact(catalog, locale, PluralCategory(locale, count))
    IN  IF found = Missing THEN LookupExact(catalog, locale, "other") ELSE found

LookupPlural(catalog, raw, count) ==
    LET found == Walk(catalog, raw, LAMBDA l : LookupPluralExact(catalog, l, count))
    IN  IF found = Missing THEN Lookup(catalog, raw, "base") ELSE found

-----------------------------------------------------------------------------
(* msys_i18n_render() *)

\* The place of the NUL is kept.
AppendBytes(out, capacity, bytes) ==
    LET room == IF out.length + 1 < capacity THEN capacity - 1 - out.length ELSE 0
    IN  [length |-> out.length + Len(bytes),
         bytes |-> out.bytes \o SubSeq(bytes, 1, IF Len(bytes) < room THEN Len(bytes) ELSE room)]

Escaped(template, i) ==
    TokenAt(template, i) \in {"{", "}"} /\ TokenAt(template, i + 1) = TokenAt(template, i)

\* Where the name ends that begins after i: at a closing brace or at the end of the template.
Stop(template, i) ==
    CHOOSE j \in (i + 1)..(Len(template) + 1) :
        /\ TokenAt(template, j) \in {"}", "end"}
        /\ \A k \in (i + 1)..(j - 1) : template[k] # "}"

NameByte(template, begin, i) == template[i] = "a" \/ (i > begin /\ template[i] = "1")

ValidName(template, i) ==
    /\ TokenAt(template, Stop(template, i)) = "}" /\ Stop(template, i) > i + 1
    /\ \A k \in (i + 1)..(Stop(template, i) - 1) : NameByte(template, i + 1, k)

SameName(name, param) == name = param

FindParam(name, value) == IF SameName(name, <<"a", "1">>) THEN value ELSE <<"none">>

\* What is written for a name.
Replaced(name, value) ==
    IF FindParam(name, value) = <<"none">> THEN <<"{">> \o name \o <<"}">>
                                           ELSE FindParam(name, value)

Output == [length : Nat, bytes : Seq(TemplateToken \cup {"v"})]

Finish(out, result) == [result |-> result, required |-> out.length, bytes |-> out.bytes]

Render(template, value, capacity) ==
    LET render[i \in 1..(Len(template) + 1)] == [out \in Output |->
            LET t == TokenAt(template, i)
                then(bytes, next) == render[next][AppendBytes(out, capacity, bytes)]
                name == SubSeq(template, i + 1, Stop(template, i) - 1)
            IN  CASE t = "end" -> Finish(out, IF out.length + 1 > capacity
                                              THEN "BUFFER_TOO_SMALL" ELSE "OK")
                  [] Escaped(template, i) -> then(<<t>>, i + 2)
                  [] t = "{" /\ ~Escaped(template, i) ->
                         IF ValidName(template, i)
                         THEN then(Replaced(name, value), Stop(template, i) + 1)
                         ELSE Finish(out, "INVALID_TEMPLATE")
                  [] t = "}" /\ ~Escaped(template, i) -> Finish(out, "INVALID_TEMPLATE")
                  [] t \notin {"{", "}", "end"} -> then(<<t>>, i + 1)]
    IN  render[1][[length |-> 0, bytes |-> <<>>]]
=============================================================================
