------------------------------ MODULE AppStart ------------------------------
(***************************************************************************)
(* The way of an application to the screen: its manifest is written        *)
(* (Manifest), msysd starts it with the names in it, or a developer by     *)
(* hand, it gives its windows their identity (WindowIdentity), and shows a *)
(* page (ScrollPage).                                                      *)
(***************************************************************************)
EXTENDS Manifest, WindowIdentity, ScrollPage

VARIABLE phase \* "install", "windows" or "page"

startVars == <<phase, fileVars, identityVars, pageVars>>

ByHand == [app |-> 0, component |-> 0]

\* The screen before it is turned: the narrowest and the highest.
ASSUME ScreenAssumption == /\ \E w \in Width : \A x \in Width : w <= x
                           /\ \E h \in Height : \A x \in Height : h >= x
Screen == [w |-> CHOOSE w \in Width : \A x \in Width : w <= x,
           h |-> CHOOSE h \in Height : \A x \in Height : h >= x]

Init ==
    /\ phase = "install"
    /\ FileInit /\ IdentityInit(ByHand) /\ PageInit(Screen)

Install == phase = "install" /\ FileNext /\ UNCHANGED <<phase, identityVars, pageVars>>

\* The windows that a process has when it is given an environment.
Starts(e) == env' = e /\ calls' = [t \in Gui |-> Constructor(e)]

\* A bound: the application starts when at most one writer has begun, and that one is done.
Quiet == \E w \in Writer :
    /\ at[w] \in {"idle", "done"} /\ ~force[w]
    /\ \A x \in Writer \ {w} : at[x] = "idle"

\* msysd reads the manifest; the environment names the component, or only the application.
Launch ==
    /\ phase = "install" /\ phase' = "windows" /\ Quiet
    /\ \/ /\ file[Destination] # NoFile
          /\ \/ Starts([app |-> file[Destination].of.package,
                        component |-> file[Destination].of.component])
             \/ Starts([app |-> file[Destination].of.package, component |-> 0])
       \/ file[Destination] = NoFile /\ Starts(ByHand)
    /\ UNCHANGED <<fileVars, step, asked, mark, wrote, hadError, previous, serverVars, handlerVars,
                   pageVars>>

Identify == phase = "windows" /\ IdentityNext /\ UNCHANGED <<phase, fileVars, pageVars>>

\* A bound: the page is looked at after one way to it, that of an application that was
\* started by hand and has its identity, and whose other windows are not made yet.
Map ==
    /\ phase = "windows" /\ phase' = "page"
    /\ env = ByHand /\ \A w \in Writer : at[w] = "idle"
    /\ \E t \in Gui :
          /\ step[t] = "idle" /\ calls[t] = <<>> /\ Alive(t) /\ mark[t] # NoIdentity
          /\ \A u \in Gui \ {t} : window[u] = "none"
    /\ foreign = 0
    /\ UNCHANGED <<fileVars, identityVars, pageVars>>

Show == phase = "page" /\ PageNext /\ UNCHANGED <<phase, fileVars, identityVars>>

Next == Install \/ Launch \/ Identify \/ Map \/ Show

\* Tk delivers its events.
Fairness == WF_startVars(phase = "page" /\ Handle /\ UNCHANGED <<phase, fileVars, identityVars>>)

Spec == Init /\ [][Next]_startVars /\ Fairness

-----------------------------------------------------------------------------
(* Properties *)

\* Until the process is started no thread of it asks for an identity.
NotStarted == phase = "install" =>
    \A t \in Gui : /\ step[t] = "idle"
                   /\ {asked[t], mark[t], class[t], properties[t]} = {NoIdentity}

\* The invariant of the page, of named parts.
PageTrue == PageTypeOK /\ InReach /\ EventsTell /\ DragTrue /\ ColumnsFit

\* A page that is shown comes to rest: the scrollbar that makes the text wrap and the text
\* that makes the scrollbar appear do not go on changing each other.
Settles == []<>(phase = "page") => <>[](events = <<>>)
=============================================================================
