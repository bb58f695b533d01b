-------------------------------- MODULE I18n --------------------------------
(***************************************************************************)
(* The Translator of msys_sdk/i18n.py with its catalog, and beside it the  *)
(* C functions of src/i18n.c, which a native application calls with the    *)
(* same catalog, locale and template.  The documentation promises that     *)
(* both give the same messages.                                            *)
(*                                                                         *)
(* Before a catalog is loaded a locale and a template are spelled out, one *)
(* token at a time, to compare the two normalizations, plural rules and    *)
(* renderings.  Then the translator runs.                                  *)
(***************************************************************************)
EXTENDS I18nTypes, FiniteSets

CONSTANTS IntMax,     \* INT64_MAX
          MaxPlaceholder, \* MAX_PLACEHOLDER_INTEGER
          Asked,      \* locales an application asks for
          Home, Away, \* languages catalogs are written in
          MessageKey, \* keys of messages
          Count,      \* numbers messages are asked for with
          Limit,      \* diagnostic_limit
          Later,      \* bound: subtags after the first one of a locale
          SpellCap,   \* bound: subtags of a locale
          TemplateCap \* bound: tokens of a template

ASSUME ChoiceAssumption ==
    /\ Asked \subseteq Seq(Subtag) /\ Later \subseteq Subtag
    /\ {Home, Away} \subseteq Two /\ Home # Away
    /\ MessageKey \subseteq Category \cup {"base"} /\ MessageKey # {}
ASSUME BoundAssumption ==
    /\ {Limit, SpellCap, TemplateCap} \subseteq Nat
    /\ IntMax \in Nat \ {0} /\ MaxPlaceholder \in 0..IntMax /\ Count \subseteq (-IntMax - 1)..IntMax

P == INSTANCE I18nPython
C == INSTANCE I18nC

VARIABLES
    catalog,     \* the catalog that is loaded; before, one without messages
    asked,       \* the locale set_locale() was given last
    requested,   \* _requested_locale
    chain,       \* _chain
    diagnostics, \* _diagnostics
    spelled,     \* a locale
    template     \* a template

translatorVars == <<asked, requested, chain, diagnostics>>
i18nVars == <<catalog, translatorVars, spelled, template>>

-----------------------------------------------------------------------------
(* _validate_catalog(): the default locale is there, none is empty, and it has *)
(* every key the others have.                                                  *)

Written == {<<<<"language", Home>>>>, <<<<"language", Away>>>>,
            <<<<"language", Away>>, <<"region", Away>>>>}

Valid(default, messages) ==
    /\ default \in DOMAIN messages
    /\ \A l \in DOMAIN messages : messages[l] # {} /\ messages[l] \subseteq messages[default]

NoCatalog == [default |-> Missing, messages |-> <<>>]

TranslatorInit ==
    /\ catalog = NoCatalog
    /\ asked = <<>> /\ requested = Missing /\ chain = <<>> /\ diagnostics = <<>>
    /\ spelled = <<>> /\ template = <<>>

-----------------------------------------------------------------------------
Spell(subtag) ==
    /\ catalog = NoCatalog /\ template = <<>> /\ Len(spelled) < SpellCap
    /\ spelled # <<>> => subtag \in Later
    /\ spelled' = Append(spelled, subtag)
    /\ UNCHANGED <<catalog, translatorVars, template>>

WriteToken(t) ==
    /\ catalog = NoCatalog /\ spelled = <<>> /\ Len(template) < TemplateCap
    /\ template' = Append(template, t)
    /\ UNCHANGED <<catalog, translatorVars, spelled>>

\* _emit() into a deque of bounded length
Retained(codes) ==
    LET all == diagnostics \o codes
    IN  IF Len(all) <= Limit THEN all ELSE SubSeq(all, Len(all) - Limit + 1, Len(all))

Emit(codes) == diagnostics' = Retained(codes)

\* set_locale() with a locale, or with what the environment says.
SetLocaleOf(cat, raw) ==
    LET locale == P!NormalizeLocale(raw)
        wanted == IF locale = Missing THEN cat.default ELSE locale
        invalid == locale = Missing /\ raw # <<>> /\ raw \notin Posix
        found == P!Chain(wanted, cat)
    IN  /\ asked' = raw /\ requested' = wanted /\ chain' = found
        /\ Emit((IF invalid THEN <<"invalid-locale">> ELSE <<>>)
                \o (IF found[1] # wanted THEN <<"locale-fallback">> ELSE <<>>))

\* Translator(): a catalog is loaded and the locale set.
Load(default, locales, raw) ==
    /\ catalog = NoCatalog /\ spelled = <<>> /\ template = <<>>
    /\ \E messages \in [locales -> SUBSET MessageKey] :
           /\ Valid(default, messages)
           /\ catalog' = [default |-> default, messages |-> messages]
    /\ SetLocaleOf(catalog', raw)
    /\ UNCHANGED <<spelled, template>>

SetLocale(raw) ==
    /\ catalog # NoCatalog
    /\ SetLocaleOf(catalog, raw)
    /\ UNCHANGED <<catalog, spelled, template>>

\* text() or plural() where no locale of the chain has the message.
TextMissing(message) ==
    /\ catalog # NoCatalog /\ message = Missing
    /\ Emit(<<"missing-key">>)
    /\ UNCHANGED <<catalog, asked, requested, chain, spelled, template>>

ClearDiagnostics ==
    /\ diagnostics # <<>> /\ diagnostics' = <<>>
    /\ UNCHANGED <<catalog, asked, requested, chain, spelled, template>>

-----------------------------------------------------------------------------
TranslatorNext ==
    \/ \E s \in Subtag : Spell(s)
    \/ \E t \in TemplateToken : WriteToken(t)
    \/ \E default \in Written, locales \in SUBSET Written : Load(default, locales, <<>>)
    \/ \E raw \in Asked : SetLocale(raw)
    \/ \E key \in MessageKey : TextMissing(P!Text(catalog, chain, key))
    \/ \E count \in Count : TextMissing(P!Plural(catalog, chain, count))
    \/ ClearDiagnostics

TranslatorSpec == TranslatorInit /\ [][TranslatorNext]_i18nVars

-----------------------------------------------------------------------------
(* Properties *)

Canonical == Seq(Role \X Subtag)

\* The type invariant.
TranslatorTypeOK ==
    /\ \/ catalog = NoCatalog
       \/ /\ catalog.default \in Written /\ Valid(catalog.default, catalog.messages)
          /\ catalog.messages \in UNION {[locales -> SUBSET MessageKey] : locales \in SUBSET Written}
    /\ asked \in Seq(Subtag) /\ requested \in Canonical /\ chain \in Seq(Canonical)
    /\ diagnostics \in Seq({"invalid-locale", "locale-fallback", "missing-key"})
    /\ Len(diagnostics) <= Limit
    /\ spelled \in Seq(Subtag) /\ template \in Seq(TemplateToken)

\* The chain has the requested locale, its parents and the default as far as the
\* catalog has them, and nothing else: a lookup raises no KeyError and skips nothing.
ChainTrue ==
    catalog # NoCatalog =>
        LET parents == {SubSeq(requested, 1, n) : n \in DOMAIN requested}
        IN  {chain[i] : i \in DOMAIN chain} =
                (parents \cap DOMAIN catalog.messages) \cup {catalog.default}

\* A locale with white space inside is for Python as none, where C reads its beginning.
Accepted(raw) == IF \E i \in DOMAIN raw : raw[i] \in Spaced THEN <<>> ELSE raw

\* The chain is that of the locale that was asked for last, as both normalize it.
Resolved ==
    catalog # NoCatalog =>
        /\ requested = C!RequestedLocale(catalog, Accepted(asked))
        /\ chain = P!Chain(requested, catalog)

\* The invariant of the translator, of named parts.
TranslatorTrue == TranslatorTypeOK /\ ChainTrue /\ Resolved

\* One and the same locale is canonical for both, whatever is asked for without white
\* space inside; with it Python finds none, and C what both find in the beginning of it.
LocalesAgree ==
    /\ P!NormalizeLocale(spelled) = C!NormalizeLocale(Accepted(spelled))
    /\ C!NormalizeLocale(spelled) = P!NormalizeLocale(C!Read(spelled))

\* What i18n.py says of the plural rules: they are shared with the C SDK.  C has a category
\* for every number of its type, the smallest included, Python the same one or, beyond the
\* integers it accepts, none.  Portuguese of Portugal with a script or a variant is left out:
\* there they differ.
RulesAgree ==
    LET locale == P!NormalizeLocale(spelled)
        excepted == Len(locale) > 2 /\ locale[1][2] = "pt" /\ P!Region(locale) = "pt"
    IN  spelled # <<>> /\ ~excepted => \A count \in (-IntMax - 1)..IntMax :
            LET category == C!PluralCategory(locale, count)
            IN  /\ category = P!CategoryOf(locale, P!Abs(count))
                /\ P!PluralCategory(locale, count) =
                       IF count \in P!Countable THEN category ELSE "ValueError"

\* What is asked for is the same for both, as far as the two say: the locale, and the
\* category of a number.
RequestsAgree == LocalesAgree /\ RulesAgree

\* The translator and the C functions resolve every key, and every number that Python
\* accepts, to the same message, although one filters its chain when the locale is set and
\* the other walks up at each call.  For any other number plural() raises, where C has a
\* message; for a locale with white space inside Python is as C without a locale.
MessagesAgree ==
    catalog # NoCatalog =>
        /\ \A key \in MessageKey :
               P!Text(catalog, chain, key) = C!Lookup(catalog, Accepted(asked), key)
        /\ \A count \in Count :
               P!Plural(catalog, chain, count) =
                   IF count \in P!Countable THEN C!LookupPlural(catalog, Accepted(asked), count)
                                            ELSE P!Raised

ParamValue == {<<"none">>, <<>>, <<"{", "a", "1", "}">>, <<"v", "v">>}

\* Sizes of a buffer.  Of no text there is only the NUL.
Buffer == 0..(IF template = <<>> THEN 1 ELSE TemplateCap + 2)

\* Both reject the same templates and render the others alike, in one pass; in C a
\* buffer that is too small has the beginning, and the length that is needed is told.
RendersAgree ==
    catalog = NoCatalog => \A value \in ParamValue, capacity \in Buffer :
        LET got == C!Render(template, value, capacity)
            text == P!Render(template, value)
        IN  IF ~P!Parse(template).valid THEN got.result = "INVALID_TEMPLATE"
            ELSE /\ got.required = Len(text)
                 /\ got.result = IF Len(text) < capacity THEN "OK" ELSE "BUFFER_TOO_SMALL"
                 /\ got.bytes = SubSeq(text, 1, IF Len(text) < capacity THEN Len(text)
                                                                        ELSE capacity - 1)
=============================================================================
