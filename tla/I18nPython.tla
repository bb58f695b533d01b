----------------------------- MODULE I18nPython -----------------------------
(***************************************************************************)
(* msys_sdk/i18n.py: normalization of a locale, its chain of fallbacks,    *)
(* the plural rules, the resolution of a message and the rendering of a    *)
(* template.                                                               *)
(***************************************************************************)
EXTENDS I18nTypes, SequencesExt

CONSTANT MaxPlaceholder \* MAX_PLACEHOLDER_INTEGER

-----------------------------------------------------------------------------
(* Mistakes the properties must tell from the code. *)

Unfiltered(chain, catalog) == chain
RequestedCategory(chain, locale) == chain[1]

-----------------------------------------------------------------------------
(* normalize_locale().  The regular expression it ends with adds nothing but   *)
(* that letters are of ASCII.                                                  *)

IsScript(raw, i) == Len(raw) >= i /\ raw[i] \in Four
IsRegion(raw, i) == Len(raw) >= i /\ raw[i] \in Two \cup Code

NormalizeLocale(raw) ==
    LET region == IF IsScript(raw, 2) THEN 3 ELSE 2
        rest == IF IsRegion(raw, region) THEN region + 1 ELSE region
        role(i) == CASE i = 1 -> "language" [] i \in 2..(region - 1) -> "script"
                     [] i \in region..(rest - 1) -> "region" [] i >= rest -> "variant"
    IN  IF /\ raw # <<>> /\ raw \notin Posix
           /\ raw[1] \in Letters
           /\ \A i \in rest..Len(raw) : raw[i] \in Long \cup Mixed \cup Dated
        THEN [i \in DOMAIN raw |-> <<role(i), raw[i]>>]
        ELSE Missing

-----------------------------------------------------------------------------
(* locale_candidates() and the part of set_locale() that makes the chain *)

Parents(locale) == [i \in DOMAIN locale |-> SubSeq(locale, 1, Len(locale) - i + 1)]

LocaleCandidates(locale, default) ==
    IF Contains(Parents(locale), default) THEN Parents(locale)
                                          ELSE Append(Parents(locale), default)

Available(chain, catalog) ==
    LET kept[n \in 0..Len(chain)] ==
            IF n = 0 THEN <<>>
            ELSE IF chain[n] \in DOMAIN catalog.messages THEN Append(kept[n - 1], chain[n])
            ELSE kept[n - 1]
    IN  kept[Len(chain)]

Chain(requested, catalog) == Available(LocaleCandidates(requested, catalog.default), catalog)

-----------------------------------------------------------------------------
(* plural_category() *)

SlavicFew == LastDigit(2..4) \ LastTwo(12..14)

\* The forms of a language besides "other", in the order they are tried.
Rules(language, region) ==
    CASE language \in {"zh", "ja", "ko", "th", "vi", "id", "ms"} -> <<>>
      [] language = "ar" -> <<<<"zero", {0}>>, <<"one", {1}>>, <<"two", {2}>>,
                              <<"few", LastTwo(3..10)>>, <<"many", LastTwo(11..99)>>>>
      [] language \in {"ru", "uk", "be"} ->
             <<<<"one", LastDigit({1}) \ LastTwo({11})>>, <<"few", SlavicFew>>, <<"many", Nat>>>>
      [] language = "pl" -> <<<<"one", {1}>>, <<"few", SlavicFew>>, <<"many", Nat>>>>
      [] language \in {"cs", "sk"} -> <<<<"one", {1}>>, <<"few", 2..4>>>>
      [] language = "sl" -> <<<<"one", LastTwo({1})>>, <<"two", LastTwo({2})>>,
                              <<"few", LastTwo({3, 4})>>>>
      [] language = "lt" -> <<<<"one", LastDigit({1}) \ LastTwo({11})>>,
                              <<"few", LastDigit(2..9) \ LastTwo(11..19)>>>>
      [] language = "lv" -> <<<<"zero", LastDigit({0}) \cup LastTwo(11..19)>>,
                              <<"one", LastDigit({1}) \ LastTwo({11})>>>>
      [] language = "ro" -> <<<<"one", {1}>>, <<"few", {0} \cup LastTwo(1..19)>>>>
      [] language = "he" -> <<<<"one", {1}>>, <<"two", {2}>>, <<"many", LastDigit({0}) \ {0}>>>>
      [] language = "cy" -> <<<<"zero", {0}>>, <<"one", {1}>>, <<"two", {2}>>, <<"few", {3}>>,
                              <<"many", {6}>>>>
      [] language = "ga" -> <<<<"one", {1}>>, <<"two", {2}>>, <<"few", 3..6>>, <<"many", 7..10>>>>
      [] language \in {"fr", "hi"} \/ (language = "pt" /\ region # "pt") -> <<<<"one", {0, 1}>>>>
      [] language \in {"is", "mk"} -> <<<<"one", LastDigit({1}) \ LastTwo({11})>>>>
      [] OTHER -> <<<<"one", {1}>>>>

\* The first part of two or three upper-case letters.
Region(locale) ==
    LET found == {i \in DOMAIN locale : locale[i][1] = "region" /\ locale[i][2] \in Two}
    IN  IF found = {} THEN "" ELSE locale[CHOOSE i \in found : TRUE][2]

Abs(count) == IF count < 0 THEN -count ELSE count

\* A locale that is none counts in English.
CategoryOf(locale, number) ==
    LET rules == IF locale = Missing THEN Rules("en", "") ELSE Rules(locale[1][2], Region(locale))
        form == SelectInSeq(rules, LAMBDA r : number \in r[2])
    IN  IF form = 0 THEN "other" ELSE rules[form][1]

\* Any other number raises a ValueError.
Countable == (-MaxPlaceholder)..MaxPlaceholder

PluralCategory(locale, count) ==
    IF count \in Countable THEN CategoryOf(locale, Abs(count)) ELSE "ValueError"

-----------------------------------------------------------------------------
(* Translator._resolve() and _resolve_plural(): the message of the first locale *)
(* of the chain that has one of the keys it is asked for.                       *)

Resolve(catalog, chain, keys(_)) ==
    LET has(l, key) == key \in catalog.messages[l]
        first == SelectInSeq(chain, LAMBDA l : \E i \in DOMAIN keys(l) : has(l, keys(l)[i]))
        l == chain[first]
    IN  IF first = 0 THEN Missing
        ELSE Message(l, keys(l)[SelectInSeq(keys(l), LAMBDA key : has(l, key))])

Text(catalog, chain, key) == Resolve(catalog, chain, LAMBDA l : <<key>>)

\* plural() raises what plural_category() raises for its first locale.
Raised == <<"ValueError">>

\* Each locale is asked with its own category.
OwnCategory(chain, locale) == locale

Plural(catalog, chain, count) ==
    LET keys(l) == <<PluralCategory(OwnCategory(chain, l), count), "other">>
        found == Resolve(catalog, chain, keys)
    IN  IF count \notin Countable THEN Raised
        ELSE IF found = Missing THEN Text(catalog, chain, "base")
        ELSE found

-----------------------------------------------------------------------------
(* _parse_template() and Translator._render() *)

\* _PLACEHOLDER
IsName(name) ==
    /\ name # <<>> /\ name[1] = "a"
    /\ \A i \in DOMAIN name : name[i] \in {"a", "1"}

Escaped(template, i) ==
    template[i] \in {"{", "}"} /\ TokenAt(template, i + 1) = template[i]

\* Where the first closing brace after i is, or 0.
Closing(template, i) == SelectInSubSeq(template, i + 1, Len(template), LAMBDA t : t = "}")

\* The tokens of a template, or an invalid one.
Parse(template) ==
    LET parse[i \in 1..(Len(template) + 1)] ==
            LET name == SubSeq(template, i + 1, Closing(template, i) - 1)
                then(token, next) == [valid |-> parse[next].valid,
                                      tokens |-> <<token>> \o parse[next].tokens]
            IN  IF i > Len(template) THEN [valid |-> TRUE, tokens |-> <<>>]
                ELSE CASE Escaped(template, i) -> then(<<"literal", <<template[i]>>>>, i + 2)
                       [] /\ template[i] = "{" /\ ~Escaped(template, i)
                          /\ Closing(template, i) # 0 /\ IsName(name) ->
                              then(<<"placeholder", name>>, Closing(template, i) + 1)
                       [] template[i] \notin {"{", "}"} ->
                              then(<<"literal", <<template[i]>>>>, i + 1)
                       [] OTHER -> [valid |-> FALSE, tokens |-> <<>>]
    IN  parse[1]

\* The only parameter is named a1; a name without a value stays visible, and so does
\* a whole template that is invalid.
TokenText(token, value) ==
    IF token[1] = "literal" THEN token[2]
    ELSE IF token[2] = <<"a", "1">> /\ value # <<"none">> THEN value
    ELSE <<"{">> \o token[2] \o <<"}">>

Render(template, value) ==
    LET parsed == Parse(template)
    IN  IF ~parsed.valid THEN template
        ELSE FlattenSeq([i \in DOMAIN parsed.tokens |-> TokenText(parsed.tokens[i], value)])
=============================================================================
