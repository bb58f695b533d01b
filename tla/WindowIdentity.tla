--------------------------- MODULE WindowIdentity ---------------------------
(***************************************************************************)
(* msys_sdk/ui_identity.py, as TouchApplication.__init__() of tk_app.py    *)
(* and configure_tk_fonts() of ui_fonts.py call it: every GUI thread has a *)
(* window, and writes its identity to it through a connection to the X     *)
(* server of its own, under an error handler that the whole process has.   *)
(*                                                                         *)
(* Of the names in an identity there is the length.                        *)
(***************************************************************************)
EXTENDS Naturals, Sequences

CONSTANTS Gui,         \* GUI threads
          MaxIdentity, \* MAX_IDENTITY_BYTES
          MaxForeign   \* bound: errors of other connections

ASSUME BoundsAssumption == MaxIdentity \in Nat \ {0} /\ MaxForeign \in Nat

Default == "default" \* the error handler that was there before
ASSUME DefaultAssumption == Default \notin Gui

VARIABLES
    env,      \* lengths of MSYS_APP_ID and of the component, 0 if it is not set
    step,     \* where each thread is
    calls,    \* default_instance of the calls that the thread has to make
    asked,    \* the identity of the call it is in, or was in last
    window,   \* what the server has of its window
    class, properties, \* the identities that window shows
    mark,     \* the attribute that says which identity was applied
    queued,   \* requests whose errors were not read yet
    wrote, hadError,   \* wrote_identity, had_x11_error
    previous, \* previous_handler
    handler,  \* the handler of the process
    lock,     \* _X11_ERROR_HANDLER_LOCK
    foreign,  \* errors of other connections
    fatal     \* an error went to a handler that ends the process, or to one that is freed

threadVars == <<step, calls, asked, mark, wrote, hadError, previous>>
serverVars == <<window, class, properties, queued>>
handlerVars == <<handler, lock, foreign, fatal>>
identityVars == <<env, threadVars, serverVars, handlerVars>>

-----------------------------------------------------------------------------
(* window_identity(); the two default instances are no lengths of a component. *)

MainInstance == 0
LeafInstance == MaxIdentity + 1

\* _clean()
Clean(n) == IF n <= MaxIdentity THEN n ELSE MaxIdentity

\* The component id is package:component, and the instance what follows the last ":".
Identity(e, default) ==
    LET id == Clean(IF e.component = 0 THEN e.app ELSE e.app + 1 + e.component)
    IN  [app |-> Clean(e.app), component |-> id,
         instance |-> IF e.component # 0 /\ id > e.app + 1 THEN id - (e.app + 1) ELSE default]

NoIdentity == [app |-> 0, component |-> 0, instance |-> MaxIdentity + 2]

Supervised(e) == e.app # 0

\* TouchApplication.__init__(): configure_tk_fonts() first, which calls only in a
\* supervised process.
Constructor(e) == IF Supervised(e) THEN <<MainInstance, LeafInstance>> ELSE <<LeafInstance>>

IdentityInit(e) ==
    /\ env = e
    /\ step = [t \in Gui |-> "idle"] /\ calls = [t \in Gui |-> Constructor(e)]
    /\ asked = [t \in Gui |-> NoIdentity] /\ mark = [t \in Gui |-> NoIdentity]
    /\ wrote = [t \in Gui |-> FALSE] /\ hadError = [t \in Gui |-> FALSE]
    /\ previous = [t \in Gui |-> Default]
    /\ window = [t \in Gui |-> "none"] /\ queued = [t \in Gui |-> "nothing"]
    /\ class = [t \in Gui |-> NoIdentity] /\ properties = [t \in Gui |-> NoIdentity]
    /\ handler = Default /\ lock = FALSE /\ foreign = 0 /\ fatal = FALSE

-----------------------------------------------------------------------------
(* Mistakes the properties must tell from the code. *)

NoLock(t) == TRUE

-----------------------------------------------------------------------------
(* configure_tk_window_identity() *)

Goes(t, place) == step' = [step EXCEPT ![t] = place]

Alive(t) == window[t] \in {"unsent", "bare", "wrapped"}

\* It is written already, or winfo_id() makes the window on the connection of Tk.
Ask(t) ==
    /\ step[t] = "idle" /\ calls[t] # <<>>
    /\ LET identity == Identity(env, Head(calls[t]))
       IN  /\ asked' = [asked EXCEPT ![t] = identity]
           /\ Goes(t, IF mark[t] = identity THEN "idle"
                      ELSE IF window[t] = "gone" THEN "raised" ELSE "flush")
    /\ calls' = [calls EXCEPT ![t] = Tail(@)]
    /\ window' = [window EXCEPT ![t] = IF @ = "none" /\ step'[t] = "flush" THEN "unsent" ELSE @]
    /\ UNCHANGED <<env, mark, wrote, hadError, previous, class, properties, queued, handlerVars>>

\* update_idletasks() sends what Tk has queued: the window, with its wrapper or not yet.
FlushTk(t) ==
    /\ step[t] = "flush"
    /\ Goes(t, IF window[t] = "gone" THEN "raised" ELSE "open")
    /\ \E made \in {"bare", "wrapped"} :
          window' = [window EXCEPT ![t] = IF @ = "unsent" THEN made ELSE @]
    /\ UNCHANGED <<env, calls, asked, mark, wrote, hadError, previous,
                   class, properties, queued, handlerVars>>

-----------------------------------------------------------------------------
(* _write_x11_identity() *)

OpenDisplay(t) ==
    /\ step[t] = "open"
    /\ Goes(t, "enter") \/ Goes(t, "idle")
    /\ wrote' = [wrote EXCEPT ![t] = FALSE] /\ hadError' = [hadError EXCEPT ![t] = FALSE]
    /\ UNCHANGED <<env, calls, asked, mark, previous, serverVars, handlerVars>>

Unlocked(t) == ~lock

Enter(t) ==
    /\ step[t] = "enter" /\ Unlocked(t)
    /\ lock' = TRUE
    /\ previous' = [previous EXCEPT ![t] = handler] /\ handler' = t
    /\ Goes(t, "query")
    /\ UNCHANGED <<env, calls, asked, mark, wrote, hadError, serverVars, foreign, fatal>>

\* The callback lives as long as the call.
Freed(h) == step[h] \in {"idle", "flush", "open", "raised"}

\* Xlib gives errors to the handler that is installed.
Errors(happened) ==
    IF happened
    THEN IF handler = Default \/ Freed(handler)
         THEN fatal' = TRUE /\ UNCHANGED hadError
         ELSE hadError' = [hadError EXCEPT ![handler] = TRUE] /\ UNCHANGED fatal
    ELSE UNCHANGED <<hadError, fatal>>

\* A call of t that waits for the server: it has done what t has sent before.
RoundTrip(t) ==
    /\ class' = IF queued[t] = "class" /\ Alive(t) THEN [class EXCEPT ![t] = asked[t]] ELSE class
    /\ properties' = IF queued[t] = "properties" /\ Alive(t)
                     THEN [properties EXCEPT ![t] = asked[t]] ELSE properties

\* XQueryTree() fails for a window that the server does not have.
QueryTree(t) ==
    /\ step[t] = "query"
    /\ Goes(t, IF window[t] = "wrapped" THEN "hint" ELSE "drain")
    /\ Errors(window[t] \in {"gone", "unsent"})
    /\ UNCHANGED <<env, calls, asked, mark, wrote, previous, serverVars, handler, lock, foreign>>

\* XSetClassHint()
Hint(t) ==
    /\ step[t] = "hint"
    /\ queued' = [queued EXCEPT ![t] = "class"]
    /\ Goes(t, "change")
    /\ UNCHANGED <<env, calls, asked, mark, wrote, hadError, previous,
                   window, class, properties, handlerVars>>

\* XInternAtom() waits, then XChangeProperty() and XFlush().  An exception may come
\* between.
Change(t) ==
    /\ step[t] = "change"
    /\ RoundTrip(t) /\ Errors(queued[t] # "nothing" /\ ~Alive(t))
    /\ \/ queued' = [queued EXCEPT ![t] = "properties"] /\ wrote' = [wrote EXCEPT ![t] = TRUE]
       \/ queued' = [queued EXCEPT ![t] = "nothing"] /\ UNCHANGED wrote
    /\ Goes(t, "drain")
    /\ UNCHANGED <<env, calls, asked, mark, previous, window, handler, lock, foreign>>

\* finally: XSync()
Drain(t) ==
    /\ step[t] = "drain"
    /\ RoundTrip(t) /\ Errors(queued[t] # "nothing" /\ ~Alive(t))
    /\ queued' = [queued EXCEPT ![t] = "nothing"]
    /\ Goes(t, "leave")
    /\ UNCHANGED <<env, calls, asked, mark, wrote, previous, window, handler, lock, foreign>>

\* The handler from before is back, and the lock free.
Leave(t) ==
    /\ step[t] = "leave"
    /\ handler' = previous[t] /\ lock' = FALSE
    /\ Goes(t, "close")
    /\ UNCHANGED <<env, calls, asked, mark, wrote, hadError, previous, serverVars, foreign, fatal>>

Succeeded(t) == wrote[t] /\ ~hadError[t]

\* XCloseDisplay() waits for the server too; then the identity is marked as applied.
CloseDisplay(t) ==
    /\ step[t] = "close"
    /\ RoundTrip(t) /\ Errors(queued[t] # "nothing" /\ ~Alive(t))
    /\ queued' = [queued EXCEPT ![t] = "nothing"]
    /\ mark' = IF Succeeded(t) THEN [mark EXCEPT ![t] = asked[t]] ELSE mark
    /\ Goes(t, "idle")
    /\ UNCHANGED <<env, calls, asked, wrote, previous, window, handler, lock, foreign>>

-----------------------------------------------------------------------------
(* What others do. *)

\* Another client destroys the window.
DestroyWindow(t) ==
    /\ window[t] \in {"bare", "wrapped"}
    /\ window' = [window EXCEPT ![t] = "gone"]
    /\ UNCHANGED <<env, threadVars, class, properties, queued, handlerVars>>

\* A bare window gets its wrapper.
Wrap(t) ==
    /\ window[t] = "bare" /\ step[t] = "idle"
    /\ window' = [window EXCEPT ![t] = "wrapped"]
    /\ UNCHANGED <<env, threadVars, class, properties, queued, handlerVars>>

\* An error of another connection, while a handler of this module is installed.
ForeignError ==
    /\ handler # Default /\ foreign < MaxForeign
    /\ foreign' = foreign + 1 /\ Errors(TRUE)
    /\ UNCHANGED <<env, step, calls, asked, mark, wrote, previous, serverVars, handler, lock>>

\* The application calls once more.
Retry(t) ==
    /\ step[t] = "idle" /\ calls[t] = <<>> /\ mark[t] # Identity(env, LeafInstance)
    /\ calls' = [calls EXCEPT ![t] = <<LeafInstance>>]
    /\ UNCHANGED <<env, step, asked, mark, wrote, hadError, previous, serverVars, handlerVars>>

Thread(t) ==
    \/ Ask(t) \/ FlushTk(t) \/ OpenDisplay(t) \/ Enter(t) \/ QueryTree(t) \/ Hint(t)
    \/ Change(t) \/ Drain(t) \/ Leave(t) \/ CloseDisplay(t)

IdentityNext == ForeignError \/ \E t \in Gui : Thread(t) \/ DestroyWindow(t) \/ Wrap(t) \/ Retry(t)

-----------------------------------------------------------------------------
(* Properties *)

\* The type invariant of the identities.
IdentityTypeOK ==
    /\ step \in [Gui -> {"idle", "flush", "open", "enter", "query", "hint", "change", "drain",
                         "leave", "close", "raised"}]
    /\ env \in [app : Nat, component : Nat]
    /\ window \in [Gui -> {"none", "unsent", "bare", "wrapped", "gone"}]
    /\ queued \in [Gui -> {"nothing", "class", "properties"}]
    /\ {wrote, hadError} \subseteq [Gui -> BOOLEAN] /\ {lock, fatal} \subseteq BOOLEAN
    /\ previous \in [Gui -> Gui \cup {Default}] /\ handler \in Gui \cup {Default}
    /\ foreign \in 0..MaxForeign

\* An error of an identity never ends the process, and the process has its own handler
\* back when no call is in the section.
HandlerKept == ~fatal /\ (~lock => handler = Default)

\* A window that is there, and whose last identity is marked as applied, shows it, all of
\* it.  (An earlier one may be marked that a later one, which then failed, has replaced.)
MarkTrue == \A t \in Gui :
    Alive(t) /\ mark[t] # NoIdentity /\ step[t] = "idle" /\ asked[t] = mark[t] =>
        class[t] = mark[t] /\ properties[t] = mark[t]

\* The write has an error only if the window is gone, or another connection had one.
ErrorsExplained == \A t \in Gui : hadError[t] => window[t] = "gone" \/ foreign > 0

\* A supervised window shows the component of the manifest, unless its id is too long.
DeclaredShown == \A t \in Gui :
    mark[t] # NoIdentity /\ env.component # 0 /\ env.app + 1 + env.component <= MaxIdentity =>
        mark[t].component = env.app + 1 + env.component /\ mark[t].instance = env.component

\* What these rest on.  The handler of the process is that of the one call in the section,
\* and the one before it is the default.
InSection(t) == step[t] \in {"query", "hint", "change", "drain", "leave"}
OneHandler ==
    /\ \A t \in Gui : InSection(t) => lock /\ handler = t /\ previous[t] = Default
    /\ handler # Default => InSection(handler)

\* The window is there when a call looks at it, or is gone, and when the section is left
\* the server has what the call wrote.
WriteOK == \A t \in Gui :
    /\ step[t] = "flush" => window[t] # "none"
    /\ step[t] \notin {"idle", "flush", "raised"} => window[t] \in {"bare", "wrapped", "gone"}
    /\ step[t] \in {"enter", "query", "hint", "change"} => ~wrote[t]
    /\ queued[t] = IF step[t] = "change" THEN "class"
                   ELSE IF step[t] = "drain" /\ wrote[t] THEN "properties" ELSE "nothing"
    /\ step[t] \in {"drain", "leave", "close"} /\ wrote[t] /\ Alive(t) => class[t] = asked[t]
    /\ step[t] \in {"leave", "close"} /\ wrote[t] /\ Alive(t) => properties[t] = asked[t]

\* A thread asks for the two identities of its environment, the one of the leaf last.
Known == {NoIdentity, Identity(env, MainInstance), Identity(env, LeafInstance)}
AskedOK ==
    /\ calls \in [Gui -> {<<>>, <<LeafInstance>>, <<MainInstance, LeafInstance>>}]
    /\ {asked, mark, class, properties} \subseteq [Gui -> Known]
    /\ \A t \in Gui :
        /\ mark[t] = Identity(env, LeafInstance) => mark[t] \in {asked[t], NoIdentity}
        /\ calls[t] = <<MainInstance, LeafInstance>> => mark[t] = NoIdentity /\ step[t] = "idle"
        /\ step[t] # "idle" => mark[t] # asked[t]

\* The invariant of the identities, of named parts.
IdentityTrue ==
    /\ IdentityTypeOK /\ HandlerKept /\ MarkTrue /\ ErrorsExplained /\ DeclaredShown
    /\ OneHandler /\ WriteOK /\ AskedOK
=============================================================================
