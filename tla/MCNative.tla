------------------------------ MODULE MCNative ------------------------------
(***************************************************************************)
(* What exists in C, for TLC: the client of src/mipc.c and localisation.   *)
(* They share no state, so that it is enough that in each behaviour one of *)
(* them begins and the other does not.                                     *)
(***************************************************************************)
EXTENDS MipcC, I18n

\* None, one of each kind, and those with one parent and with two.
MCAsked ==
    {<<>>, <<"c">>, <<"en">>, <<"pl">>, <<"ru">>, <<"1996">>, <<"pl pl">>,
     <<"pl", "pl">>, <<"en", "pl">>, <<"pl", "1996">>, <<"pl", "pl pl">>,
     <<"pl", "pl", "1996">>, <<"en", "pl", "1996">>}
MCBeginning == [s \in Spaced |-> IF s = "c x" THEN "c" ELSE "pl"]

nativeVars == <<vars, i18nVars>>

NativeInit == Init /\ TranslatorInit

Client(A) == TranslatorInit /\ A /\ UNCHANGED i18nVars
Local(A) == Init /\ A /\ UNCHANGED vars

\* The actions are named one by one, so that TLC counts the steps of each.
ClientNext ==
    \/ Client(Attach) \/ Client(Detach)
    \/ \E c \in Capacity :
           \/ Client(RecvInvalid(c)) \/ Client(RecvTimeout(c)) \/ Client(RecvEof(c))
           \/ Client(RecvError(c)) \/ Client(RecvTooLarge(c)) \/ Client(RecvTooSmall(c))
           \/ Client(RecvRecord(c))
    \/ \E t \in Token : Client(Write(t))
    \/ Client(SendDraft) \/ Client(PeerClose)
    \/ \E c \in Char : Client(AddChar(c))
    \/ \E d \in 0..9 : Client(AddDigit(d))

LocalNext ==
    \/ \E s \in Subtag : Local(Spell(s))
    \/ \E t \in TemplateToken : Local(WriteToken(t))
    \/ \E default \in Written, locales \in SUBSET Written : Local(Load(default, locales, <<>>))
    \/ \E raw \in Asked : Local(SetLocale(raw))
    \/ \E key \in MessageKey : Local(TextMissing(P!Text(catalog, chain, key)))
    \/ \E count \in Count : Local(TextMissing(P!Plural(catalog, chain, count)))
    \/ Local(ClearDiagnostics)

NativeSpec == NativeInit /\ [][ClientNext \/ LocalNext]_nativeVars
=============================================================================
