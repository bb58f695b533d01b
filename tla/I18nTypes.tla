------------------------------ MODULE I18nTypes -----------------------------
(***************************************************************************)
(* What the two implementations of msys.i18n.catalog.v1 have in common:    *)
(* locales, catalogs and templates.                                        *)
(*                                                                         *)
(* A locale that was given is a sequence of subtags.  A canonical one is a *)
(* sequence of pairs of a role and a subtag: the role decides the letter   *)
(* case, so that <<"region", "pt">> is PT and <<"language", "pt">> is pt.  *)
(* It has up to 63 characters, which are of ASCII; the spaces around it,   *)
(* an encoding and a modifier are left out.  White space inside of it is   *)
(* part of a subtag.                                                       *)
(*                                                                         *)
(* A catalog has a default locale and, for each locale, the keys it has    *)
(* messages for.  The keys are those of one name: "base" is the name       *)
(* itself, "one" is name.one, and so on.  A template is a sequence of      *)
(* tokens: braces, a letter (or _), a digit, and any other character.      *)
(***************************************************************************)
EXTENDS Integers, Sequences

CONSTANTS Two, Three, Four, Long, \* subtags of two, three, four, and five to eight letters
          Code,                   \* of three digits
          Dated,                  \* of a digit and three letters or digits
          Mixed,                  \* of five to eight letters and digits
          Spaced,                 \* with white space inside
          Wrong,                  \* any other, the empty one included
          Beginning               \* of one that is spaced, what is before the white space

\* A subtag is of one kind only: the kinds differ in the length or the characters.
ASSUME SubtagAssumption ==
    LET kinds == <<Two, Three, Four, Long, Code, Dated, Mixed, Wrong, Spaced>>
    IN  /\ \A i, j \in DOMAIN kinds : i # j => kinds[i] \cap kinds[j] = {}
        /\ {"en", "pt"} \subseteq Two /\ "posix" \in Long /\ "c" \in Wrong

Letters == Two \cup Three \cup Four \cup Long
Unspaced == Letters \cup Code \cup Dated \cup Mixed \cup Wrong
Subtag == Unspaced \cup Spaced
ASSUME BeginningAssumption == Beginning \in [Spaced -> Unspaced]

\* Names that ask for the default of the catalog.
Posix == {<<"c">>, <<"posix">>}

Role == {"language", "script", "region", "variant"}
Category == {"zero", "one", "two", "few", "many", "other"}

\* In the place of a locale or a message there is not.
Missing == <<>>

Message(locale, key) == <<locale, key>>

TemplateToken == {"{", "}", "a", "1", "."}

TokenAt(template, i) == IF i \in DOMAIN template THEN template[i] ELSE "end"

\* Cardinal numbers by their last digits.
LastDigit(digits) == {n \in Nat : n % 10 \in digits}
LastTwo(digits) == {n \in Nat : n % 100 \in digits}
=============================================================================
