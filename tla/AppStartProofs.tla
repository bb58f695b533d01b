--------------------------- MODULE AppStartProofs ---------------------------
(* Proofs about the manifest, the identities and the page of AppStart, for any     *)
(* writers, GUI threads, limits of the names and sizes of the screen.              *)
EXTENDS AppStart, SequenceTheorems, TLAPS

-----------------------------------------------------------------------------
(* The manifest *)

\* What is declared by default, by cases of what is offered to others.
LEMMA Declarations == DeclarationsTrue
  <1> SUFFICES ASSUME NEW o \in Options
               PROVE  LET d == Declared(o)
                      IN  /\ Provider(o) /\ o.readiness = "" => d.readiness = "mipc-ready"
                          /\ Provider(o) /\ o.launchable = "" => d.launchable = "no"
                          /\ Provider(o) /\ o.lifecycle = "" /\ o.restart = "" =>
                                d.restart = "on-failure"
                          /\ o.launchable = "" /\ d.launchable = "yes" /\ o.restart = "" =>
                                d.restart = "never"
    BY DEF DeclarationsTrue, Provider
  <1>1. /\ Declared(o).readiness = Given(o.readiness, IF Provider(o) THEN "mipc-ready" ELSE "exec")
        /\ Declared(o).restart =
              Given(o.restart, IF Lifecycle(o) = "manual" THEN "never" ELSE "on-failure")
        /\ Declared(o).launchable =
              Given(o.launchable, IF o.graphical /\ Lifecycle(o) = "manual" /\ ~Provider(o)
                                  THEN "yes" ELSE "no")
    BY DEF Declared
  <1>2. Lifecycle(o) = Given(o.lifecycle, IF Provider(o) THEN "on-demand" ELSE "manual")
    BY DEF Lifecycle
  <1> QED
    BY <1>1, <1>2 DEF Given

\* The file of a writer is not the destination.
LEMMA Apart == \A w \in Writer : w # Destination
  BY WriterAssumption

\* A step of one writer, of which the others keep what they have.
LEMMA CreateKeeps ==
  ASSUME FilesTrue, NEW w \in Writer, NEW p \in 1..(PackageMax + 1),
         NEW c \in 1..(ComponentMax + 1), NEW f \in BOOLEAN, Create(w, p, c, f)
  PROVE  FileTypeOK' /\ DestinationWhole' /\ OwnFile'
  <1> USE DEF FilesTrue, FileTypeOK
  <1>1. CASE p <= PackageMax /\ c <= ComponentMax
    <2>1. [package |-> p, component |-> c] \in Name
      BY <1>1, LengthAssumption DEF Name
    <2>2. FileTypeOK'
      BY <1>1, <2>1 DEF Create, WriterGoes
    <2>3. DestinationWhole'
      BY <1>1 DEF Create, WriterGoes, DestinationWhole
    <2>4. OwnFile'
      BY <1>1, <2>1 DEF Create, WriterGoes, OwnFile
    <2> QED
      BY <2>2, <2>3, <2>4
  <1>2. CASE ~(p <= PackageMax /\ c <= ComponentMax)
    <2>1. FileTypeOK'
      BY <1>2 DEF Create, WriterGoes
    <2>2. DestinationWhole'
      BY <1>2 DEF Create, WriterGoes, DestinationWhole
    <2>3. OwnFile'
      BY <1>2 DEF Create, WriterGoes, OwnFile
    <2> QED
      BY <2>1, <2>2, <2>3
  <1> QED
    BY <1>1, <1>2

\* Writing the temporary file.
LEMMA StreamKeeps ==
  ASSUME FilesTrue, NEW w \in Writer, Exists(w) \/ Open(w) \/ Write(w) \/ Kill(w)
  PROVE  FileTypeOK' /\ DestinationWhole' /\ OwnFile'
  <1> USE Apart DEF FilesTrue, FileTypeOK
  <1>1. /\ UNCHANGED <<mine, force>> /\ file'[Destination] = file[Destination]
        /\ \E place \in {"refused", "open", "write", "failed", "replace", "torn", "killed"} :
              at' = [at EXCEPT ![w] = place]
        /\ \A x \in Writer \ {w} : file'[x] = file[x]
    BY DEF Exists, Open, Write, Kill, WriterGoes, Stream
  <1>2. file' \in [Writer \cup {Destination} -> Content \cup {NoFile}]
    <2>1. CASE UNCHANGED file
      BY <2>1
    <2>2. CASE at[w] = "open" /\ file' = [file EXCEPT ![w] = [of |-> mine[w], whole |-> FALSE]]
      <3>1. [of |-> mine[w], whole |-> FALSE] \in Content
        BY <2>2 DEF OwnFile, Content
      <3> QED
        BY <2>2, <3>1
    <2>3. CASE at[w] = "write" /\ file' = [file EXCEPT ![w] = [of |-> @.of, whole |-> TRUE]]
      <3>1. file[w] = [of |-> mine[w], whole |-> FALSE] /\ mine[w] \in Name
        BY <2>3 DEF OwnFile
      <3>2. file' = [file EXCEPT ![w] = [of |-> mine[w], whole |-> TRUE]]
        BY <2>3, <3>1
      <3> QED
        BY <3>1, <3>2 DEF Content
    <2> QED
      BY <2>1, <2>2, <2>3 DEF Exists, Open, Write, Kill, Stream
  <1>3. FileTypeOK'
    BY <1>1, <1>2
  <1>4. DestinationWhole'
    <2>1. at[w] \notin {"killed", "done", "stuck"}
      BY DEF Exists, Open, Write, Kill
    <2>2. at[w] = "unlink" => at'[w] = "killed"
      BY DEF Exists, Open, Write, Kill, WriterGoes
    <2> QED
      BY <1>1, <2>1, <2>2 DEF DestinationWhole
  <1>5. OwnFile'
    <2>1. ASSUME NEW x \in Writer \ {w}
          PROVE  at'[x] = at[x] /\ mine'[x] = mine[x] /\ file'[x] = file[x]
      BY <1>1, <2>1
    <2>2. CASE Exists(w)
      <3>1. at[w] = "test" /\ at'[w] \in {"refused", "open", "failed"} /\ file' = file /\ mine' = mine
        BY <2>2 DEF Exists, WriterGoes
      <3> QED
        BY <1>1, <2>1, <3>1 DEF OwnFile
    <2>3. CASE Open(w)
      <3>1. mine[w] \in Name /\ mine' = mine /\ at[w] = "open" /\ file[w] = NoFile
        BY <2>3 DEF Open, OwnFile
      <3>2. \/ file'[w] = [of |-> mine[w], whole |-> FALSE] /\ at'[w] = "write"
            \/ file'[w] = NoFile /\ at'[w] = "failed"
        BY <2>3, <3>1 DEF Open, WriterGoes, Stream
      <3> QED
        BY <1>1, <2>1, <3>1, <3>2 DEF OwnFile
    <2>4. CASE Write(w)
      <3>1. file[w] = [of |-> mine[w], whole |-> FALSE] /\ mine[w] \in Name
        BY <2>4 DEF Write, OwnFile
      <3>2. \/ file'[w] = [of |-> mine[w], whole |-> TRUE] /\ at'[w] = "replace"
            \/ at'[w] = "torn"
        <4>1. CASE at' = [at EXCEPT ![w] = "torn"]
          BY <4>1
        <4>2. CASE at' = [at EXCEPT ![w] = "replace"]
                   /\ file' = [file EXCEPT ![w] = [of |-> file[w].of, whole |-> TRUE]]
          BY <3>1, <4>2
        <4> QED
          BY <2>4, <4>1, <4>2 DEF Write, WriterGoes, Stream
      <3> QED
        BY <1>1, <2>1, <3>1, <3>2 DEF OwnFile
    <2>5. CASE Kill(w)
      BY <2>5, <1>1, <2>1 DEF Kill, WriterGoes, OwnFile
    <2> QED
      BY <2>2, <2>3, <2>4, <2>5
  <1> QED
    BY <1>3, <1>4, <1>5

\* Putting it in place, and removing what is left.
LEMMA ReplaceKeeps ==
  ASSUME FilesTrue, NEW w \in Writer, Replace(w) \/ Unlink(w)
  PROVE  FileTypeOK' /\ DestinationWhole' /\ OwnFile'
  <1> USE Apart DEF FilesTrue, FileTypeOK
  <1>1. CASE Replace(w) /\ at'[w] = "unlink"
    <2>1. /\ file[w] = [of |-> mine[w], whole |-> TRUE] /\ mine[w] \in Name
          /\ file' = [file EXCEPT ![Destination] = file[w], ![w] = NoFile]
          /\ at' = [at EXCEPT ![w] = "unlink"] /\ UNCHANGED <<mine, force>>
      BY <1>1 DEF Replace, OwnFile, WriterGoes, Stream
    <2>2. FileTypeOK'
      BY <2>1
    <2>3. DestinationWhole'
      BY <2>1 DEF DestinationWhole
    <2>4. OwnFile'
      BY <2>1 DEF OwnFile
    <2> QED
      BY <2>2, <2>3, <2>4
  <1>2. CASE Replace(w) /\ at'[w] = "unlinkFailed"
    <2>1. at' = [at EXCEPT ![w] = "unlinkFailed"] /\ UNCHANGED <<mine, force, file>> /\ at[w] = "replace"
      BY <1>2 DEF Replace, WriterGoes
    <2> QED
      BY <2>1 DEF DestinationWhole, OwnFile
  <1>3. CASE Unlink(w) /\ Removes(w) /\ at'[w] # "stuck"
    <2>1. /\ file' = [file EXCEPT ![w] = NoFile] /\ UNCHANGED <<mine, force>>
          /\ \/ at[w] = "unlink" /\ at' = [at EXCEPT ![w] = "done"]
             \/ at[w] = "unlinkFailed" /\ at' = [at EXCEPT ![w] = "failed"]
      BY <1>3 DEF Unlink, Removes, WriterGoes
    <2>2. FileTypeOK'
      BY <2>1
    <2>3. DestinationWhole'
      BY <2>1 DEF DestinationWhole
    <2>4. OwnFile'
      BY <2>1 DEF OwnFile
    <2> QED
      BY <2>2, <2>3, <2>4
  <1>4. CASE Unlink(w) /\ at'[w] = "stuck" /\ UNCHANGED file
    <2>1. /\ at' = [at EXCEPT ![w] = "stuck"] /\ UNCHANGED <<mine, force, file>>
          /\ at[w] \in {"unlink", "unlinkFailed"}
      BY <1>4 DEF Unlink, WriterGoes
    <2>2. file[w] \in {NoFile, [of |-> mine[w], whole |-> TRUE]} /\ mine[w] \in Name
      BY <2>1 DEF OwnFile
    <2>3. FileTypeOK'
      BY <2>1
    <2>4. DestinationWhole'
      BY <2>1 DEF DestinationWhole
    <2>5. OwnFile'
      BY <2>1, <2>2 DEF OwnFile
    <2> QED
      BY <2>3, <2>4, <2>5
  <1>5. Unlink(w) => \/ Removes(w) /\ at'[w] # "stuck"
                     \/ at'[w] = "stuck" /\ UNCHANGED file
    BY DEF Unlink, WriterGoes
  <1>6. Replace(w) => at'[w] \in {"unlink", "unlinkFailed"}
    BY DEF Replace, WriterGoes
  <1> QED
    BY <1>1, <1>2, <1>3, <1>4, <1>5, <1>6

LEMMA FilesStep == FilesTrue /\ FileNext => FilesTrue'
  <1> SUFFICES ASSUME FilesTrue, FileNext PROVE FilesTrue'
    OBVIOUS
  <1>1. PICK w \in Writer :
           \/ \E p \in 1..(PackageMax + 1), c \in 1..(ComponentMax + 1), f \in BOOLEAN :
                 Create(w, p, c, f)
           \/ Exists(w) \/ Open(w) \/ Write(w) \/ Replace(w) \/ Unlink(w) \/ Kill(w)
    BY DEF FileNext
  <1>2. FileTypeOK' /\ DestinationWhole' /\ OwnFile'
    BY <1>1, CreateKeeps, StreamKeeps, ReplaceKeeps
  <1>3. NoLitter'
    BY <1>2 DEF OwnFile, NoLitter
  <1>4. DeclarationsTrue'
    BY Declarations DEF DeclarationsTrue, Options, Declared, Provider, Given, Lifecycle
  <1> QED
    BY <1>2, <1>3, <1>4 DEF FilesTrue

LEMMA FilesInit == FileInit => FilesTrue
  <1> SUFFICES ASSUME FileInit PROVE FilesTrue
    OBVIOUS
  <1>1. FileTypeOK /\ DestinationWhole /\ NoLitter /\ OwnFile
    BY DEF FileInit, FileTypeOK, DestinationWhole, NoLitter, OwnFile
  <1> QED
    BY <1>1, Declarations DEF FilesTrue

-----------------------------------------------------------------------------
(* The identities *)

\* What the steps of IdentityNext are proved to keep; the rest of IdentityTrue follows.
Kept == IdentityTypeOK /\ HandlerKept /\ MarkTrue /\ ErrorsExplained /\ OneHandler /\ WriteOK
        /\ AskedOK

\* A component whose id is short enough is named in both identities of its process.
LEMMA NameShown ==
  ASSUME NEW e \in [app : Nat, component : Nat], NEW d,
         e.component # 0, e.app + 1 + e.component <= MaxIdentity
  PROVE  /\ Identity(e, d).component = e.app + 1 + e.component
         /\ Identity(e, d).instance = e.component
  <1> DEFINE id == e.app + 1 + e.component
  <1>1. e.app \in Nat /\ e.component \in Nat /\ MaxIdentity \in Nat
    BY BoundsAssumption
  <1>2. Clean(id) = id
    BY <1>1 DEF Clean
  <1>3. id > e.app + 1 /\ id - (e.app + 1) = e.component
    BY <1>1
  <1> HIDE DEF id
  <1>4. Identity(e, d) = [app |-> Clean(e.app), component |-> id, instance |-> e.component]
    BY <1>2, <1>3 DEF Identity, id
  <1> QED
    BY <1>4 DEF id

\* An error that is read in the section goes to the call that is in it.
LEMMA ErrorsOwn ==
  ASSUME IdentityTrue, NEW t \in Gui, InSection(t), NEW b \in BOOLEAN, Errors(b)
  PROVE  fatal' = fatal /\ hadError' = IF b THEN [hadError EXCEPT ![t] = TRUE] ELSE hadError
  <1>1. handler = t /\ t # Default /\ ~Freed(t)
    BY DefaultAssumption DEF IdentityTrue, OneHandler, InSection, Freed
  <1> QED
    BY <1>1 DEF Errors

\* The identities of the main windows are asked for before anything was marked.
LEMMA AskLeaf ==
  ASSUME IdentityTrue, NEW t \in Gui, Ask(t)
  PROVE  \/ /\ calls[t] = <<LeafInstance>>
            /\ Head(calls[t]) = LeafInstance /\ Tail(calls[t]) = <<>>
         \/ /\ calls[t] = <<MainInstance, LeafInstance>> /\ mark[t] = NoIdentity
            /\ Head(calls[t]) = MainInstance /\ Tail(calls[t]) = <<LeafInstance>>
  <1>1. calls[t] \in {<<LeafInstance>>, <<MainInstance, LeafInstance>>}
    BY DEF Ask, IdentityTrue, AskedOK
  <1>2. Head(<<LeafInstance>>) = LeafInstance /\ Tail(<<LeafInstance>>) = <<>>
    OBVIOUS
  <1>3. /\ Head(<<MainInstance, LeafInstance>>) = MainInstance
        /\ Tail(<<MainInstance, LeafInstance>>) = <<LeafInstance>>
    OBVIOUS
  <1>4. calls[t] = <<MainInstance, LeafInstance>> => mark[t] = NoIdentity
    BY DEF IdentityTrue, AskedOK
  <1> QED
    BY <1>1, <1>2, <1>3, <1>4

LEMMA AskKeeps ==
  ASSUME IdentityTrue, NEW t \in Gui, Ask(t)
  PROVE  Kept'
  <1> USE DEF IdentityTrue, IdentityTypeOK, threadVars, serverVars, handlerVars
  <1>1. IdentityTypeOK'
    BY DEF Ask, Goes
  <1>2. HandlerKept'
    BY DEF Ask, Goes, HandlerKept
  <1>3. MarkTrue'
    <2>1. ASSUME NEW x \in Gui \ {t}
          PROVE  step'[x] = step[x] /\ asked'[x] = asked[x] /\ window'[x] = window[x]
      BY <2>1 DEF Ask, Goes, AskedOK
    <2>2. UNCHANGED <<mark, class, properties>>
      BY DEF Ask
    <2>3. CASE step'[t] = "idle"
      <3>1. step[t] = "idle" /\ mark[t] = asked'[t] /\ asked'[t] = Identity(env, Head(calls[t]))
        BY <2>3, AskLeaf DEF Ask, Goes, AskedOK
      <3>2. mark[t] = NoIdentity \/ asked[t] = mark[t]
        BY <3>1, AskLeaf DEF AskedOK
      <3>3. Alive(t)' => Alive(t)
        BY <2>3 DEF Ask, Alive
      <3> QED
        BY <2>1, <2>2, <3>1, <3>2, <3>3 DEF MarkTrue, Alive
    <2> QED
      BY <2>1, <2>2, <2>3 DEF MarkTrue, Alive
  <1>4. ErrorsExplained'
    BY DEF Ask, Goes, ErrorsExplained
  <1>5. OneHandler'
    BY DEF Ask, Goes, OneHandler, InSection
  <1>6. WriteOK'
    BY DEF Ask, Goes, WriteOK, Alive
  <1>7. AskedOK'
    <2>1. ASSUME NEW x \in Gui \ {t}
          PROVE  step'[x] = step[x] /\ asked'[x] = asked[x] /\ calls'[x] = calls[x]
      BY <2>1 DEF Ask, Goes, AskedOK
    <2>2. UNCHANGED <<mark, class, properties, env>>
      BY DEF Ask
    <2>3. /\ asked'[t] = Identity(env, Head(calls[t])) /\ calls'[t] = Tail(calls[t])
          /\ mark[t] # asked'[t] \/ step'[t] = "idle"
      BY DEF Ask, Goes, AskedOK
    <2>4. asked' \in [Gui -> Known]
      BY <2>3, AskLeaf DEF Ask, AskedOK, Known
    <2>5. calls' \in [Gui -> {<<>>, <<LeafInstance>>, <<MainInstance, LeafInstance>>}]
      BY AskLeaf DEF Ask, AskedOK
    <2>6. mark[t] = Identity(env, LeafInstance) => mark[t] \in {asked'[t], NoIdentity}
      BY <2>3, AskLeaf DEF AskedOK
    <2>7. calls'[t] # <<MainInstance, LeafInstance>>
      <3>1. Len(<<MainInstance, LeafInstance>>) = 2 /\ Len(<<LeafInstance>>) = 1 /\ Len(<<>>) = 0
        OBVIOUS
      <3>2. Len(calls'[t]) \in {0, 1}
        BY <2>3, <3>1, AskLeaf
      <3>3. ASSUME calls'[t] = <<MainInstance, LeafInstance>> PROVE FALSE
        <4>1. Len(calls'[t]) = 2
          BY <3>1, <3>3
        <4> QED
          BY <3>2, <4>1
      <3> QED
        BY <3>3
    <2>8. Known' = Known /\ Identity(env, LeafInstance)' = Identity(env, LeafInstance)
      BY <2>2 DEF Known
    <2> QED
      BY <2>1, <2>2, <2>3, <2>4, <2>5, <2>6, <2>7, <2>8 DEF AskedOK
  <1> QED
    BY <1>1, <1>2, <1>3, <1>4, <1>5, <1>6, <1>7 DEF Kept

LEMMA FlushTkKeeps ==
  ASSUME IdentityTrue, NEW t \in Gui, FlushTk(t)
  PROVE  Kept'
  <1> USE DEF IdentityTrue, IdentityTypeOK, threadVars, serverVars, handlerVars
  <1>1. IdentityTypeOK'
    BY DEF FlushTk, Goes
  <1>2. HandlerKept'
    BY DEF FlushTk, Goes, HandlerKept
  <1>3. MarkTrue'
    BY DEF FlushTk, Goes, MarkTrue, Alive, AskedOK
  <1>4. ErrorsExplained'
    BY DEF FlushTk, Goes, ErrorsExplained
  <1>5. OneHandler'
    BY DEF FlushTk, Goes, OneHandler, InSection
  <1>6. WriteOK'
    BY DEF FlushTk, Goes, WriteOK, Alive
  <1>7. AskedOK'
    BY DEF FlushTk, Goes, AskedOK, Known
  <1> QED
    BY <1>1, <1>2, <1>3, <1>4, <1>5, <1>6, <1>7 DEF Kept

LEMMA OpenDisplayKeeps ==
  ASSUME IdentityTrue, NEW t \in Gui, OpenDisplay(t)
  PROVE  Kept'
  <1> USE DEF IdentityTrue, IdentityTypeOK, threadVars, serverVars, handlerVars
  <1>1. IdentityTypeOK'
    BY DEF OpenDisplay, Goes
  <1>2. HandlerKept'
    BY DEF OpenDisplay, Goes, HandlerKept
  <1>3. MarkTrue'
    BY DEF OpenDisplay, Goes, MarkTrue, Alive, AskedOK
  <1>4. ErrorsExplained'
    BY DEF OpenDisplay, Goes, ErrorsExplained
  <1>5. OneHandler'
    BY DEF OpenDisplay, Goes, OneHandler, InSection
  <1>6. WriteOK'
    BY DEF OpenDisplay, Goes, WriteOK, Alive
  <1>7. AskedOK'
    BY DEF OpenDisplay, Goes, AskedOK, Known
  <1> QED
    BY <1>1, <1>2, <1>3, <1>4, <1>5, <1>6, <1>7 DEF Kept

LEMMA EnterKeeps ==
  ASSUME IdentityTrue, NEW t \in Gui, Enter(t)
  PROVE  Kept'
  <1> USE DEF IdentityTrue, IdentityTypeOK, threadVars, serverVars, handlerVars
  <1>1. IdentityTypeOK'
    BY DEF Enter, Goes, Unlocked
  <1>2. HandlerKept'
    BY DEF Enter, Goes, Unlocked, HandlerKept
  <1>3. MarkTrue'
    BY DEF Enter, Goes, Unlocked, MarkTrue, Alive
  <1>4. ErrorsExplained'
    BY DEF Enter, Goes, Unlocked, ErrorsExplained
  <1>5. OneHandler'
    BY DEF Enter, Goes, Unlocked, OneHandler, InSection
  <1>6. WriteOK'
    BY DEF Enter, Goes, Unlocked, WriteOK, Alive
  <1>7. AskedOK'
    BY DEF Enter, Goes, Unlocked, AskedOK, Known
  <1> QED
    BY <1>1, <1>2, <1>3, <1>4, <1>5, <1>6, <1>7 DEF Kept

LEMMA QueryTreeKeeps ==
  ASSUME IdentityTrue, NEW t \in Gui, QueryTree(t)
  PROVE  Kept'
  <1> USE DEF IdentityTrue, IdentityTypeOK, threadVars, serverVars, handlerVars
  <1>0. /\ fatal' = fatal /\ UNCHANGED <<handler, lock>>
        /\ hadError' = IF window[t] \in {"gone", "unsent"} THEN [hadError EXCEPT ![t] = TRUE] ELSE hadError
    <2>1. (window[t] \in {"gone", "unsent"}) \in BOOLEAN
      OBVIOUS
    <2> QED
      BY <2>1, ErrorsOwn DEF QueryTree, InSection
  <1>1. IdentityTypeOK'
    BY <1>0 DEF QueryTree, Goes
  <1>2. HandlerKept'
    BY <1>0 DEF QueryTree, Goes, HandlerKept
  <1>3. MarkTrue'
    BY DEF QueryTree, Goes, MarkTrue, Alive
  <1>4. ErrorsExplained'
    BY <1>0 DEF QueryTree, Goes, ErrorsExplained, WriteOK, Alive
  <1>5. OneHandler'
    BY DEF QueryTree, Goes, OneHandler, InSection
  <1>6. WriteOK'
    BY DEF QueryTree, Goes, WriteOK, Alive
  <1>7. AskedOK'
    BY DEF QueryTree, Goes, AskedOK, Known
  <1> QED
    BY <1>1, <1>2, <1>3, <1>4, <1>5, <1>6, <1>7 DEF Kept

LEMMA HintKeeps ==
  ASSUME IdentityTrue, NEW t \in Gui, Hint(t)
  PROVE  Kept'
  <1> USE DEF IdentityTrue, IdentityTypeOK, threadVars, serverVars, handlerVars
  <1>1. IdentityTypeOK'
    BY DEF Hint, Goes
  <1>2. HandlerKept'
    BY DEF Hint, Goes, HandlerKept
  <1>3. MarkTrue'
    BY DEF Hint, Goes, MarkTrue, Alive
  <1>4. ErrorsExplained'
    BY DEF Hint, Goes, ErrorsExplained
  <1>5. OneHandler'
    BY DEF Hint, Goes, OneHandler, InSection
  <1>6. WriteOK'
    BY DEF Hint, Goes, WriteOK, Alive
  <1>7. AskedOK'
    BY DEF Hint, Goes, AskedOK, Known
  <1> QED
    BY <1>1, <1>2, <1>3, <1>4, <1>5, <1>6, <1>7 DEF Kept

LEMMA ChangeKeeps ==
  ASSUME IdentityTrue, NEW t \in Gui, Change(t)
  PROVE  Kept'
  <1> USE DEF IdentityTrue, IdentityTypeOK, threadVars, serverVars, handlerVars
  <1>0. /\ fatal' = fatal /\ UNCHANGED <<handler, lock>>
        /\ hadError' = IF queued[t] # "nothing" /\ ~Alive(t) THEN [hadError EXCEPT ![t] = TRUE] ELSE hadError
    BY ErrorsOwn DEF Change, InSection
  <1>1. IdentityTypeOK'
    <2>1. /\ step' = [step EXCEPT ![t] = "drain"] /\ UNCHANGED <<env, window, previous, foreign>>
          /\ \/ queued' = [queued EXCEPT ![t] = "properties"]
                /\ wrote' = [wrote EXCEPT ![t] = TRUE]
             \/ queued' = [queued EXCEPT ![t] = "nothing"] /\ wrote' = wrote
      BY DEF Change, Goes
    <2>2. /\ queued' \in [Gui -> {"nothing", "class", "properties"}]
          /\ wrote' \in [Gui -> BOOLEAN]
      BY <2>1
    <2>3. hadError' \in [Gui -> BOOLEAN]
      BY <1>0
    <2> QED
      BY <1>0, <2>1, <2>2, <2>3
  <1>2. HandlerKept'
    BY <1>0 DEF Change, Goes, RoundTrip, HandlerKept
  <1>3. MarkTrue'
    BY DEF Change, Goes, RoundTrip, MarkTrue, Alive
  <1>4. ErrorsExplained'
    BY <1>0 DEF Change, Goes, ErrorsExplained, WriteOK, Alive
  <1>5. OneHandler'
    BY DEF Change, Goes, RoundTrip, OneHandler, InSection
  <1>6. WriteOK'
    <2>1. ASSUME NEW x \in Gui \ {t}
          PROVE  /\ step'[x] = step[x] /\ wrote'[x] = wrote[x] /\ queued'[x] = queued[x]
                 /\ class'[x] = class[x] /\ properties'[x] = properties[x]
      BY <2>1 DEF Change, Goes, RoundTrip, AskedOK
    <2>2. /\ step'[t] = "drain" /\ UNCHANGED <<window, asked>> /\ window[t] \in {"bare", "wrapped", "gone"}
          /\ \/ queued'[t] = "properties" /\ wrote'[t]
             \/ queued'[t] = "nothing" /\ ~wrote'[t]
      BY DEF Change, Goes, WriteOK
    <2>3. Alive(t) => class'[t] = asked[t]
      BY DEF Change, RoundTrip, AskedOK, WriteOK
    <2> QED
      BY <2>1, <2>2, <2>3 DEF WriteOK, Alive
  <1>7. AskedOK'
    BY DEF Change, Goes, RoundTrip, AskedOK, Known
  <1> QED
    BY <1>1, <1>2, <1>3, <1>4, <1>5, <1>6, <1>7 DEF Kept

LEMMA DrainKeeps ==
  ASSUME IdentityTrue, NEW t \in Gui, Drain(t)
  PROVE  Kept'
  <1> USE DEF IdentityTrue, IdentityTypeOK, threadVars, serverVars, handlerVars
  <1>0. /\ fatal' = fatal /\ UNCHANGED <<handler, lock>>
        /\ hadError' = IF queued[t] # "nothing" /\ ~Alive(t) THEN [hadError EXCEPT ![t] = TRUE] ELSE hadError
    BY ErrorsOwn DEF Drain, InSection
  <1>1. IdentityTypeOK'
    BY <1>0 DEF Drain, Goes, RoundTrip
  <1>2. HandlerKept'
    BY <1>0 DEF Drain, Goes, RoundTrip, HandlerKept
  <1>3. MarkTrue'
    BY DEF Drain, Goes, RoundTrip, MarkTrue, Alive
  <1>4. ErrorsExplained'
    BY <1>0 DEF Drain, Goes, ErrorsExplained, WriteOK, Alive
  <1>5. OneHandler'
    BY DEF Drain, Goes, RoundTrip, OneHandler, InSection
  <1>6. WriteOK'
    <2>1. ASSUME NEW x \in Gui \ {t}
          PROVE  /\ step'[x] = step[x] /\ wrote'[x] = wrote[x] /\ queued'[x] = queued[x]
                 /\ class'[x] = class[x] /\ properties'[x] = properties[x]
      BY <2>1 DEF Drain, Goes, RoundTrip, AskedOK
    <2>2. /\ step'[t] = "leave" /\ queued'[t] = "nothing"
          /\ UNCHANGED <<window, asked, wrote>> /\ window[t] \in {"bare", "wrapped", "gone"}
      BY DEF Drain, Goes, WriteOK
    <2>3. wrote[t] /\ Alive(t) => class'[t] = asked[t] /\ properties'[t] = asked[t]
      BY DEF Drain, RoundTrip, AskedOK, WriteOK
    <2> QED
      BY <2>1, <2>2, <2>3 DEF WriteOK, Alive
  <1>7. AskedOK'
    BY DEF Drain, Goes, RoundTrip, AskedOK, Known
  <1> QED
    BY <1>1, <1>2, <1>3, <1>4, <1>5, <1>6, <1>7 DEF Kept

LEMMA LeaveKeeps ==
  ASSUME IdentityTrue, NEW t \in Gui, Leave(t)
  PROVE  Kept'
  <1> USE DEF IdentityTrue, IdentityTypeOK, threadVars, serverVars, handlerVars
  <1>1. IdentityTypeOK'
    BY DEF Leave, Goes
  <1>2. HandlerKept'
    BY DEF Leave, Goes, HandlerKept, OneHandler, InSection
  <1>3. MarkTrue'
    BY DEF Leave, Goes, MarkTrue, Alive
  <1>4. ErrorsExplained'
    BY DEF Leave, Goes, ErrorsExplained
  <1>5. OneHandler'
    BY DEF Leave, Goes, OneHandler, InSection
  <1>6. WriteOK'
    BY DEF Leave, Goes, WriteOK, Alive
  <1>7. AskedOK'
    BY DEF Leave, Goes, AskedOK, Known
  <1> QED
    BY <1>1, <1>2, <1>3, <1>4, <1>5, <1>6, <1>7 DEF Kept

LEMMA CloseDisplayKeeps ==
  ASSUME IdentityTrue, NEW t \in Gui, CloseDisplay(t)
  PROVE  Kept'
  <1> USE DEF IdentityTrue, IdentityTypeOK, threadVars, serverVars, handlerVars
  <1>0. /\ UNCHANGED <<handler, lock, fatal, hadError, class, properties, queued>>
        /\ queued[t] = "nothing"
    BY DEF CloseDisplay, RoundTrip, Errors, WriteOK
  <1>1. IdentityTypeOK'
    BY <1>0 DEF CloseDisplay, Goes, Succeeded
  <1>2. HandlerKept'
    BY <1>0 DEF CloseDisplay, Goes, Succeeded, HandlerKept
  <1>3. MarkTrue'
    <2>1. ASSUME NEW x \in Gui \ {t} PROVE step'[x] = step[x] /\ mark'[x] = mark[x]
      BY <2>1 DEF CloseDisplay, Goes, AskedOK
    <2>2. /\ wrote[t] /\ Alive(t) => class[t] = asked[t] /\ properties[t] = asked[t]
          /\ UNCHANGED <<asked, window>>
      BY DEF CloseDisplay, WriteOK
    <2>3. (mark'[t] = asked[t] /\ wrote[t]) \/ mark'[t] = mark[t]
      BY DEF CloseDisplay, Succeeded, AskedOK
    <2> QED
      BY <1>0, <2>1, <2>2, <2>3 DEF MarkTrue, Alive, AskedOK, CloseDisplay
  <1>4. ErrorsExplained'
    BY <1>0 DEF CloseDisplay, Goes, Succeeded, ErrorsExplained
  <1>5. OneHandler'
    BY <1>0 DEF CloseDisplay, Goes, Succeeded, OneHandler, InSection
  <1>6. WriteOK'
    BY <1>0 DEF CloseDisplay, Goes, Succeeded, WriteOK, Alive
  <1>7. AskedOK'
    BY <1>0 DEF CloseDisplay, Goes, Succeeded, AskedOK, Known
  <1> QED
    BY <1>1, <1>2, <1>3, <1>4, <1>5, <1>6, <1>7 DEF Kept

LEMMA DestroyWindowKeeps ==
  ASSUME IdentityTrue, NEW t \in Gui, DestroyWindow(t)
  PROVE  Kept'
  <1> USE DEF IdentityTrue, IdentityTypeOK, threadVars, serverVars, handlerVars
  <1>1. IdentityTypeOK'
    BY DEF DestroyWindow
  <1>2. HandlerKept'
    BY DEF DestroyWindow, HandlerKept
  <1>3. MarkTrue'
    BY DEF DestroyWindow, MarkTrue, Alive
  <1>4. ErrorsExplained'
    BY DEF DestroyWindow, ErrorsExplained
  <1>5. OneHandler'
    BY DEF DestroyWindow, OneHandler, InSection
  <1>6. WriteOK'
    BY DEF DestroyWindow, WriteOK, Alive
  <1>7. AskedOK'
    BY DEF DestroyWindow, AskedOK, Known
  <1> QED
    BY <1>1, <1>2, <1>3, <1>4, <1>5, <1>6, <1>7 DEF Kept

LEMMA WrapKeeps ==
  ASSUME IdentityTrue, NEW t \in Gui, Wrap(t)
  PROVE  Kept'
  <1> USE DEF IdentityTrue, IdentityTypeOK, threadVars, serverVars, handlerVars
  <1>1. IdentityTypeOK'
    BY DEF Wrap
  <1>2. HandlerKept'
    BY DEF Wrap, HandlerKept
  <1>3. MarkTrue'
    BY DEF Wrap, MarkTrue, Alive
  <1>4. ErrorsExplained'
    BY DEF Wrap, ErrorsExplained
  <1>5. OneHandler'
    BY DEF Wrap, OneHandler, InSection
  <1>6. WriteOK'
    BY DEF Wrap, WriteOK, Alive
  <1>7. AskedOK'
    BY DEF Wrap, AskedOK, Known
  <1> QED
    BY <1>1, <1>2, <1>3, <1>4, <1>5, <1>6, <1>7 DEF Kept

LEMMA RetryKeeps ==
  ASSUME IdentityTrue, NEW t \in Gui, Retry(t)
  PROVE  Kept'
  <1> USE DEF IdentityTrue, IdentityTypeOK, threadVars, serverVars, handlerVars
  <1>1. IdentityTypeOK'
    BY DEF Retry
  <1>2. HandlerKept'
    BY DEF Retry, HandlerKept
  <1>3. MarkTrue'
    BY DEF Retry, MarkTrue, Alive
  <1>4. ErrorsExplained'
    BY DEF Retry, ErrorsExplained
  <1>5. OneHandler'
    BY DEF Retry, OneHandler, InSection
  <1>6. WriteOK'
    BY DEF Retry, WriteOK, Alive
  <1>7. AskedOK'
    BY DEF Retry, AskedOK, Known
  <1> QED
    BY <1>1, <1>2, <1>3, <1>4, <1>5, <1>6, <1>7 DEF Kept

LEMMA ForeignKeeps ==
  ASSUME IdentityTrue, ForeignError
  PROVE  Kept'
  <1> USE DEF IdentityTrue, IdentityTypeOK, threadVars, serverVars, handlerVars
  <1>1. /\ UNCHANGED <<env, step, calls, asked, mark, wrote, previous, window, class, properties,
                       queued, handler, lock, fatal>>
        /\ hadError' = [hadError EXCEPT ![handler] = TRUE] /\ foreign' = foreign + 1
        /\ foreign < MaxForeign
    <2>1. handler \in Gui /\ ~Freed(handler) /\ handler # Default
      BY DEF ForeignError, OneHandler, InSection, Freed
    <2> QED
      BY <2>1 DEF ForeignError, Errors
  <1>2. IdentityTypeOK'
    <2>1. foreign' \in 0..MaxForeign
      BY <1>1, BoundsAssumption
    <2>2. hadError' \in [Gui -> BOOLEAN]
      BY <1>1
    <2> QED
      BY <1>1, <2>1, <2>2
  <1>3. HandlerKept' /\ OneHandler'
    BY <1>1 DEF HandlerKept, OneHandler, InSection
  <1>4. ErrorsExplained'
    BY <1>1 DEF ErrorsExplained
  <1>5. MarkTrue' /\ WriteOK'
    BY <1>1 DEF MarkTrue, Alive, WriteOK
  <1>6. AskedOK'
    BY <1>1 DEF AskedOK, Known
  <1> QED
    BY <1>2, <1>3, <1>4, <1>5, <1>6 DEF Kept

\* What is declared is shown by whatever is marked, for its identity is one of the two.
LEMMA IdentityStep ==
  ASSUME IdentityTrue, IdentityNext
  PROVE  IdentityTrue'
  <1>1. Kept'
    BY ForeignKeeps, AskKeeps, FlushTkKeeps, OpenDisplayKeeps, EnterKeeps, QueryTreeKeeps,
       HintKeeps, ChangeKeeps, DrainKeeps, LeaveKeeps, CloseDisplayKeeps, DestroyWindowKeeps,
       WrapKeeps, RetryKeeps DEF IdentityNext, Thread
  <1>2. DeclaredShown'
    <2> SUFFICES ASSUME NEW t \in Gui, mark'[t] # NoIdentity, env'.component # 0,
                        env'.app + 1 + env'.component <= MaxIdentity
                 PROVE  /\ mark'[t].component = env'.app + 1 + env'.component
                        /\ mark'[t].instance = env'.component
      BY DEF DeclaredShown
    <2>1. env' \in [app : Nat, component : Nat]
      BY <1>1 DEF Kept, IdentityTypeOK
    <2>2. mark'[t] \in {Identity(env', MainInstance), Identity(env', LeafInstance)}
      BY <1>1 DEF Kept, AskedOK, Known, MainInstance, LeafInstance, Identity, Clean
    <2> QED
      BY <2>1, <2>2, NameShown
  <1> QED
    BY <1>1, <1>2 DEF IdentityTrue, Kept

-----------------------------------------------------------------------------
(* The start *)

\* What msysd and the developer give a process are lengths.
LEMMA Launched ==
  ASSUME FilesTrue, IdentityTrue, NotStarted, Launch
  PROVE  IdentityTrue' /\ NotStarted'
  <1> USE DEF IdentityTrue, IdentityTypeOK
  <1>1. PICK e \in [app : Nat, component : Nat] : Starts(e)
    <2>1. CASE file[Destination] = NoFile
      <3>1. ByHand \in [app : Nat, component : Nat]
        BY DEF ByHand
      <3> QED
        BY <2>1, <3>1 DEF Launch
    <2>2. CASE file[Destination] # NoFile
      <3>1. file[Destination].of \in Name
        BY <2>2 DEF FilesTrue, FileTypeOK, Content
      <3>2. file[Destination].of.package \in Nat /\ file[Destination].of.component \in Nat
        BY <3>1, LengthAssumption DEF Name
      <3> QED
        BY <2>2, <3>2 DEF Launch
    <2> QED
      BY <2>1, <2>2
  <1>2. /\ env' = e /\ calls' = [t \in Gui |-> Constructor(e)]
        /\ UNCHANGED <<step, asked, mark, wrote, hadError, previous, window, class, properties,
                       queued, handler, lock, foreign, fatal>>
        /\ phase = "install" /\ phase' = "windows"
    BY <1>1 DEF Launch, Starts, serverVars, handlerVars
  <1>3. \A t \in Gui : /\ step[t] = "idle" /\ asked[t] = NoIdentity /\ mark[t] = NoIdentity
                       /\ class[t] = NoIdentity /\ properties[t] = NoIdentity
    BY <1>2 DEF NotStarted
  <1>4. IdentityTypeOK' /\ HandlerKept' /\ ErrorsExplained' /\ OneHandler'
    BY <1>2 DEF HandlerKept, ErrorsExplained, OneHandler, InSection
  <1>5. MarkTrue' /\ DeclaredShown' /\ WriteOK'
    BY <1>2, <1>3 DEF MarkTrue, DeclaredShown, WriteOK, Alive
  <1>6. AskedOK'
    <2>1. Constructor(e) \in {<<>>, <<LeafInstance>>, <<MainInstance, LeafInstance>>}
      BY DEF Constructor
    <2>2. {asked', mark', class', properties'} \subseteq [Gui -> {NoIdentity}]
      BY <1>2, <1>3 DEF AskedOK
    <2>3. {asked', mark', class', properties'} \subseteq [Gui -> Known']
      BY <2>2 DEF Known
    <2> QED
      BY <1>2, <1>3, <2>1, <2>3 DEF AskedOK
  <1> QED
    BY <1>2, <1>4, <1>5, <1>6 DEF NotStarted

LEMMA FilesKept == FilesTrue /\ UNCHANGED fileVars => FilesTrue'
  <1> SUFFICES ASSUME FilesTrue, UNCHANGED fileVars PROVE FilesTrue'
    OBVIOUS
  <1>1. at' = at /\ mine' = mine /\ force' = force /\ file' = file
    BY DEF fileVars
  <1> QED
    BY <1>1 DEF FilesTrue, FileTypeOK, DestinationWhole, NoLitter, DeclarationsTrue, OwnFile

LEMMA IdentityKept ==
  ASSUME IdentityTrue, NotStarted, UNCHANGED identityVars, phase' = "install" => phase = "install"
  PROVE  IdentityTrue' /\ NotStarted'
  <1>1. UNCHANGED <<env, step, calls, asked, mark, wrote, hadError, previous, window, class,
                    properties, queued, handler, lock, foreign, fatal>>
    BY DEF identityVars, threadVars, serverVars, handlerVars
  <1>2. IdentityTypeOK' /\ HandlerKept' /\ MarkTrue' /\ ErrorsExplained' /\ DeclaredShown'
    BY <1>1 DEF IdentityTrue, IdentityTypeOK, HandlerKept, MarkTrue, Alive, ErrorsExplained,
                DeclaredShown
  <1>3. OneHandler' /\ WriteOK' /\ AskedOK'
    BY <1>1 DEF IdentityTrue, OneHandler, InSection, WriteOK, Alive, AskedOK, Known
  <1> QED
    BY <1>1, <1>2, <1>3 DEF IdentityTrue, NotStarted

LEMMA StartInit == Init => FilesTrue /\ IdentityTrue /\ NotStarted
  <1> SUFFICES ASSUME Init PROVE FilesTrue /\ IdentityTrue /\ NotStarted
    OBVIOUS
  <1>1. FilesTrue
    BY FilesInit DEF Init
  <1>2. NotStarted
    BY DEF Init, IdentityInit, NotStarted
  <1>3. IdentityTypeOK
    <2>1. env \in [app : Nat, component : Nat] /\ foreign \in 0..MaxForeign
      BY BoundsAssumption DEF Init, IdentityInit, ByHand
    <2>2. /\ step = [t \in Gui |-> "idle"] /\ window = [t \in Gui |-> "none"]
          /\ queued = [t \in Gui |-> "nothing"] /\ wrote = [t \in Gui |-> FALSE]
          /\ hadError = [t \in Gui |-> FALSE] /\ previous = [t \in Gui |-> Default]
          /\ handler = Default /\ lock = FALSE /\ fatal = FALSE
      BY DEF Init, IdentityInit
    <2> QED
      BY <2>1, <2>2 DEF IdentityTypeOK
  <1>4. HandlerKept /\ MarkTrue /\ ErrorsExplained /\ DeclaredShown /\ OneHandler /\ WriteOK
    BY DEF Init, IdentityInit, HandlerKept, MarkTrue, ErrorsExplained, DeclaredShown, OneHandler,
           InSection, WriteOK
  <1>5. AskedOK
    BY DEF Init, IdentityInit, AskedOK, Known, Constructor
  <1> QED
    BY <1>1, <1>2, <1>3, <1>4, <1>5 DEF IdentityTrue

-----------------------------------------------------------------------------
(* The page: sizes *)

LEMMA Quotients ==
  ASSUME NEW a \in Nat, NEW b \in Nat \ {0}
  PROVE  a \div b \in Nat
  OBVIOUS

LEMMA Sizes ==
  /\ \A v \in [w : Width, h : Height], b \in BOOLEAN : CanvasWidth(v, b) \in Nat \ {0}
  /\ \A n \in Nat : WrapWidth(n) \in Nat \ {0} /\ WrapWidth(Larger(1, n)) = WrapWidth(n)
  /\ \A n \in Nat : CardColumns(n) \in Nat \ {0}
  /\ \A l \in BOOLEAN, wr, n \in Nat \ {0} : ContentHeight(l, wr, n) \in Nat
  <1>0. /\ BarWidth \in Nat /\ Padding \in Nat /\ Minimum \in Nat /\ MaxColumns \in Nat
        /\ Text \in Nat /\ Card \in Nat
    BY SizeAssumption
  <1>1. ASSUME NEW v \in [w : Width, h : Height], NEW b \in BOOLEAN
        PROVE  CanvasWidth(v, b) \in Nat \ {0}
    <2>1. v.w \in Nat
      BY SizeAssumption
    <2> QED
      BY <1>0, <2>1 DEF CanvasWidth, Larger
  <1>2. ASSUME NEW n \in Nat
        PROVE  WrapWidth(n) \in Nat \ {0} /\ WrapWidth(Larger(1, n)) = WrapWidth(n)
    BY <1>0 DEF WrapWidth, ContentWidth, Larger
  <1>3. ASSUME NEW n \in Nat
        PROVE  CardColumns(n) \in Nat \ {0}
    <2>1. MaxColumns # NoMaximum
      BY <1>0, MaximumAssumption
    <2>2. (Larger(0, n) + Larger(0, 1)) \div (Larger(1, 1) + Larger(0, 1)) \in Nat
      BY DEF Larger
    <2> DEFINE q == (Larger(0, n) + Larger(0, 1)) \div (Larger(1, 1) + Larger(0, 1))
    <2>3. CardColumns(n) = Smaller(Larger(1, q), Larger(1, MaxColumns))
      BY <2>1 DEF CardColumns, Columns
    <2> HIDE DEF q
    <2>4. q \in Nat
      BY <2>2 DEF q
    <2> QED
      BY <1>0, <2>3, <2>4 DEF Larger, Smaller
  <1>4. ASSUME NEW l \in BOOLEAN, NEW wr \in Nat \ {0}, NEW n \in Nat \ {0}
        PROVE  ContentHeight(l, wr, n) \in Nat
    <2>1. Text + wr - 1 \in Nat /\ Card + n - 1 \in Nat
      BY <1>0
    <2>2. CeilDiv(Text, wr) \in Nat /\ CeilDiv(Card, n) \in Nat
      BY <2>1, Quotients DEF CeilDiv
    <2> QED
      BY <2>2 DEF ContentHeight
  <1> QED
    BY <1>1, <1>2, <1>3, <1>4

\* responsive_columns() gives the most columns that fit, and at least one.
LEMMA Fitting ==
  ASSUME NEW width \in Nat, NEW size \in 1..3, NEW gap \in 0..2
  PROVE  LET n == Columns(width, size, gap, NoMaximum)
         IN  /\ n = 1 \/ n * size + (n - 1) * gap <= width
             /\ (n + 1) * size + n * gap > width
  <1> DEFINE q == (width + gap) \div (size + gap)
             n == Columns(width, size, gap, NoMaximum)
  <1>1. n = IF 1 >= q THEN 1 ELSE q
    BY DEF Columns, Larger
  <1>2. q \in Int /\ q * (size + gap) <= width + gap /\ width + gap < (q + 1) * (size + gap)
    OBVIOUS
  <1> HIDE DEF q, n
  <1>3. size \in {1, 2, 3} /\ gap \in {0, 1, 2}
    OBVIOUS
  <1>4. (n = 1 \/ n * size + (n - 1) * gap <= width) /\ (n + 1) * size + n * gap > width
    BY <1>1, <1>2, <1>3
  <1> QED
    BY <1>4 DEF n

-----------------------------------------------------------------------------
(* The page: events that wait *)

EventSet == [kind : {"canvas", "cards", "content", "scroll"}, n : Nat]

LEMMA OneMore ==
  ASSUME NEW s \in Seq(EventSet), NEW e \in EventSet, NEW k, NEW n
  PROVE  /\ Append(s, e) \in Seq(EventSet)
         /\ Waits(Append(s, e), k) <=> e.kind = k \/ Waits(s, k)
         /\ LastTells(Append(s, e), k, n) <=> IF e.kind = k THEN e.n = n ELSE LastTells(s, k, n)
  <1> DEFINE t == Append(s, e)
  <1>1. t \in Seq(EventSet)
    BY AppendProperties
  <1>2. PICK m \in Nat : m = Len(s)
    BY LenProperties
  <1>3. /\ DOMAIN s = 1..m /\ DOMAIN t = 1..(m + 1) /\ t[m + 1] = e
        /\ \A i \in 1..m : t[i] = s[i]
    BY <1>1, <1>2, AppendProperties, LenProperties
  <1> HIDE DEF t
  <1>4. \A i \in 1..(m + 1) : i \in 1..m \/ i = m + 1
    OBVIOUS
  <1>5. \A i \in 1..m : i \in 1..(m + 1) /\ m + 1 > i
    OBVIOUS
  <1>6. m + 1 \in 1..(m + 1) /\ \A i \in 1..(m + 1) : ~(i > m + 1)
    OBVIOUS
  <1>7. Waits(t, k) <=> e.kind = k \/ Waits(s, k)
    BY <1>3, <1>4, <1>5, <1>6 DEF Waits
  <1>8. ASSUME e.kind = k PROVE LastTells(t, k, n) <=> e.n = n
    <2>1. LastTells(t, k, n) => e.n = n
      BY <1>3, <1>6, <1>8 DEF LastTells
    <2>2. ASSUME e.n = n PROVE LastTells(t, k, n)
      <3>1. ASSUME NEW i \in 1..(m + 1), \A j \in 1..(m + 1) : j > i => t[j].kind # k
            PROVE  t[i].n = n
        <4>1. i = m + 1
          BY <1>3, <1>4, <1>5, <1>6, <1>8, <3>1
        <4> QED
          BY <1>3, <2>2, <4>1
      <3> QED
        BY <1>3, <3>1 DEF LastTells
    <2> QED
      BY <2>1, <2>2
  <1>9. ASSUME e.kind # k PROVE LastTells(t, k, n) <=> LastTells(s, k, n)
    <2>1. ASSUME NEW i \in 1..m
          PROVE  (\A j \in 1..(m + 1) : j > i => t[j].kind # k)
                 <=> (\A j \in 1..m : j > i => s[j].kind # k)
      BY <1>3, <1>4, <1>5, <1>9, <2>1
    <2>2. ASSUME LastTells(s, k, n) PROVE LastTells(t, k, n)
      <3>1. ASSUME NEW i \in 1..(m + 1), t[i].kind = k,
                   \A j \in 1..(m + 1) : j > i => t[j].kind # k
            PROVE  t[i].n = n
        <4>1. i \in 1..m
          BY <1>3, <1>4, <1>9, <3>1
        <4> QED
          BY <1>3, <2>1, <2>2, <3>1, <4>1 DEF LastTells
      <3> QED
        BY <1>3, <3>1 DEF LastTells
    <2>3. ASSUME LastTells(t, k, n) PROVE LastTells(s, k, n)
      <3>1. ASSUME NEW i \in 1..m, s[i].kind = k, \A j \in 1..m : j > i => s[j].kind # k
            PROVE  s[i].n = n
        BY <1>3, <1>5, <2>1, <2>3, <3>1 DEF LastTells
      <3> QED
        BY <1>3, <3>1 DEF LastTells
    <2> QED
      BY <2>2, <2>3
  <1> QED
    BY <1>1, <1>7, <1>8, <1>9 DEF t

LEMMA OneLess ==
  ASSUME NEW s \in Seq(EventSet), s # <<>>, NEW k, NEW n
  PROVE  /\ Head(s) \in EventSet /\ Tail(s) \in Seq(EventSet)
         /\ Waits(s, k) <=> Head(s).kind = k \/ Waits(Tail(s), k)
         /\ LastTells(s, k, n) => LastTells(Tail(s), k, n)
         /\ LastTells(s, k, n) /\ Head(s).kind = k /\ ~Waits(Tail(s), k) => Head(s).n = n
  <1> DEFINE t == Tail(s)
  <1>1. Head(s) \in EventSet /\ t \in Seq(EventSet)
    BY HeadTailProperties
  <1>2. PICK m \in Nat : m = Len(t)
    BY <1>1, LenProperties
  <1>3. /\ DOMAIN t = 1..m /\ DOMAIN s = 1..(m + 1) /\ s[1] = Head(s)
        /\ \A i \in 1..m : t[i] = s[i + 1]
    <2>1. Len(s) \in Nat /\ Len(t) = Len(s) - 1 /\ \A i \in 1..Len(t) : t[i] = s[i + 1]
      BY HeadTailProperties, LenProperties
    <2>2. Len(s) = m + 1
      BY <1>2, <2>1
    <2> QED
      <3>1. DOMAIN t = 1..m /\ DOMAIN s = 1..(m + 1)
        BY <1>1, <1>2, <2>2, LenProperties
      <3>2. \A i \in 1..m : t[i] = s[i + 1]
        BY <1>2, <2>1
      <3>3. s[1] = Head(s)
        OBVIOUS
      <3> QED
        BY <3>1, <3>2, <3>3
  <1> HIDE DEF t
  <1>4. \A i \in 1..(m + 1) : i = 1 \/ (i - 1 \in 1..m /\ s[i] = t[i - 1])
    <2>1. ASSUME NEW i \in 1..(m + 1), i # 1 PROVE i - 1 \in 1..m /\ (i - 1) + 1 = i
      BY <2>1
    <2> QED
      BY <1>3, <2>1
  <1>5. \A i \in 1..m : i + 1 \in 1..(m + 1) /\ i + 1 > 1 /\ t[i] = s[i + 1]
    BY <1>3
  <1>6. 1 \in 1..(m + 1)
    OBVIOUS
  <1>7. Waits(s, k) <=> Head(s).kind = k \/ Waits(t, k)
    <2>1. ASSUME Waits(s, k) PROVE Head(s).kind = k \/ Waits(t, k)
      BY <1>3, <1>4, <2>1 DEF Waits
    <2>2. ASSUME Waits(t, k) PROVE Waits(s, k)
      BY <1>3, <1>5, <2>2 DEF Waits
    <2>3. ASSUME Head(s).kind = k PROVE Waits(s, k)
      BY <1>3, <1>6, <2>3 DEF Waits
    <2> QED
      BY <2>1, <2>2, <2>3
  <1>8. ASSUME LastTells(s, k, n) PROVE LastTells(t, k, n)
    <2>1. ASSUME NEW i \in 1..m, t[i].kind = k, \A j \in 1..m : j > i => t[j].kind # k
          PROVE  t[i].n = n
      <3>1. ASSUME NEW j \in 1..(m + 1), j > i + 1 PROVE s[j].kind # k
        <4>1. j # 1 /\ j - 1 > i
          BY <3>1
        <4> QED
          BY <1>4, <2>1, <4>1
      <3> QED
        BY <1>3, <1>5, <1>8, <2>1, <3>1 DEF LastTells
    <2> QED
      BY <1>3, <2>1 DEF LastTells
  <1>9. ASSUME LastTells(s, k, n), Head(s).kind = k, ~Waits(t, k) PROVE Head(s).n = n
    <2>1. ASSUME NEW j \in 1..(m + 1), j > 1 PROVE s[j].kind # k
      BY <1>3, <1>4, <1>9, <2>1 DEF Waits
    <2> QED
      BY <1>3, <1>6, <1>9, <2>1 DEF LastTells
  <1> QED
    BY <1>1, <1>7, <1>8, <1>9 DEF t

\* An event for what has changed, or none.
LEMMA ChangedMore ==
  ASSUME NEW s \in Seq(EventSet), NEW k, NEW old, NEW new
  PROVE  s \o Changed(k, old, new) = IF old = new THEN s ELSE Append(s, Event(k, new))
  <1>1. CASE old = new
    BY <1>1, ConcatEmptySeq DEF Changed
  <1>2. CASE old # new
    <2>1. s \o <<Event(k, new)>> = Append(s, Event(k, new))
      OBVIOUS
    <2> QED
      BY <1>2, <2>1 DEF Changed
  <1> QED
    BY <1>1, <1>2

LEMMA MoreIf ==
  ASSUME NEW s \in Seq(EventSet), NEW kind \in {"canvas", "cards", "content", "scroll"},
         NEW old \in Nat, NEW new \in Nat, NEW k, NEW n
  PROVE  LET t == s \o Changed(kind, old, new)
         IN  /\ t \in Seq(EventSet)
             /\ Waits(t, k) <=> Waits(s, k) \/ (k = kind /\ old # new)
             /\ LastTells(t, k, n) <=> IF k = kind /\ old # new THEN new = n ELSE LastTells(s, k, n)
  <1>1. Event(kind, new) \in EventSet /\ Event(kind, new).kind = kind /\ Event(kind, new).n = new
    BY DEF Event, EventSet
  <1> DEFINE t == s \o Changed(kind, old, new)
  <1>2. t = IF old = new THEN s ELSE Append(s, Event(kind, new))
    BY ChangedMore
  <1> HIDE DEF t
  <1>3. ASSUME old = new
        PROVE  t = s
    BY <1>2, <1>3
  <1>4. ASSUME old # new
        PROVE  /\ t \in Seq(EventSet)
               /\ Waits(t, k) <=> Waits(s, k) \/ k = kind
               /\ LastTells(t, k, n) <=> IF k = kind THEN new = n ELSE LastTells(s, k, n)
    BY <1>1, <1>2, <1>4, OneMore
  <1>5. /\ t \in Seq(EventSet)
        /\ Waits(t, k) <=> Waits(s, k) \/ (k = kind /\ old # new)
        /\ LastTells(t, k, n) <=> IF k = kind /\ old # new THEN new = n ELSE LastTells(s, k, n)
    BY <1>3, <1>4
  <1> QED
    BY <1>5 DEF t

\* What the page is, as numbers.
LEMMA PageNumbers ==
  ASSUME PageTypeOK
  PROVE  /\ events \in Seq(EventSet) /\ item \in Nat \ {0} /\ wrap \in Nat \ {0}
         /\ columns \in Nat \ {0} /\ region \in Nat /\ view.h \in Nat
         /\ CanvasWidth(view, bar) \in Nat \ {0} /\ Fits(region, view) \in {0, 1}
         /\ ContentHeight(label, wrap, columns) \in Nat
  <1>1. view \in [w : Width, h : Height] /\ bar \in BOOLEAN /\ label \in BOOLEAN
    BY DEF PageTypeOK
  <1>2. view.h \in Nat
    BY <1>1, SizeAssumption
  <1> QED
    BY <1>1, <1>2, Sizes DEF PageTypeOK, EventSet, Fits

LEMMA CanvasStep ==
  ASSUME PageTypeOK, EventsTell, CanvasResized
  PROVE  PageTypeOK' /\ EventsTell'
  <1> DEFINE n == Head(events).n
             s0 == Tail(events)
             s1 == s0 \o Changed("cards", item, item')
             old == ContentHeight(label, wrap, columns)
             new == ContentHeight(label, wrap', columns)
             s2 == s1 \o Changed("content", old, new)
             last == Event("scroll", Fits(region, view))
  <1>1. /\ events # <<>> /\ Head(events).kind = "canvas"
        /\ item' = (IF "page" \in follows THEN Larger(1, n) ELSE item)
        /\ wrap' = (IF "label" \in follows THEN WrapWidth(n) ELSE wrap)
        /\ events' = s2 \o <<last>>
        /\ UNCHANGED <<viewVars, bar, columns, region, label, follows, gestureVars>>
    BY DEF CanvasResized, Deliver
  <1>2. /\ events \in Seq(EventSet) /\ item \in Nat \ {0} /\ columns \in Nat \ {0}
        /\ CanvasWidth(view, bar) \in Nat \ {0} /\ Fits(region, view) \in Nat /\ old \in Nat
        /\ label \in BOOLEAN /\ wrap \in Nat \ {0}
    BY PageNumbers DEF PageTypeOK
  <1>3. \A k : Waits(events, k) <=> Head(events).kind = k \/ Waits(s0, k)
    BY <1>1, <1>2, OneLess
  <1>4. \A k, m : /\ LastTells(events, k, m) => LastTells(s0, k, m)
                  /\ LastTells(events, k, m) /\ Head(events).kind = k /\ ~Waits(s0, k) => n = m
    BY <1>1, <1>2, OneLess
  <1>5. s0 \in Seq(EventSet) /\ n \in Nat
    BY <1>1, <1>2, OneLess DEF EventSet
  <1>6. (label => "page" \in follows) /\ ("label" \in follows <=> label)
    BY <1>2 DEF EventsTell
  <1>7. /\ "page" \in follows => item' = Larger(1, n)
        /\ item' \in Nat \ {0} /\ wrap' \in Nat \ {0}
        /\ label => wrap' = WrapWidth(item')
        /\ wrap' = IF label THEN WrapWidth(n) ELSE wrap
    <2>1. WrapWidth(n) \in Nat \ {0} /\ WrapWidth(Larger(1, n)) = WrapWidth(n)
      BY <1>5, Sizes
    <2>2. Larger(1, n) \in Nat \ {0}
      BY <1>5 DEF Larger
    <2> QED
      BY <1>1, <1>2, <1>6, <2>1, <2>2
  <1>8. new \in Nat
    BY <1>2, <1>7, Sizes
  <1> HIDE DEF n, s0, old, new
  <1>9. /\ s1 \in Seq(EventSet)
        /\ \A k : Waits(s1, k) <=> Waits(s0, k) \/ (k = "cards" /\ item # item')
        /\ \A k, m : LastTells(s1, k, m) <=>
               IF k = "cards" /\ item # item' THEN item' = m ELSE LastTells(s0, k, m)
    <2>1. ASSUME NEW k, NEW m
          PROVE  /\ s1 \in Seq(EventSet)
                 /\ Waits(s1, k) <=> Waits(s0, k) \/ (k = "cards" /\ item # item')
                 /\ LastTells(s1, k, m) <=>
                        IF k = "cards" /\ item # item' THEN item' = m ELSE LastTells(s0, k, m)
      <3>1. item \in Nat /\ item' \in Nat /\ s0 \in Seq(EventSet)
        BY <1>2, <1>5, <1>7
      <3> QED
        BY <3>1, MoreIf
    <2> QED
      BY <2>1
  <1> HIDE DEF s1
  <1>10. /\ s2 \in Seq(EventSet)
         /\ \A k : Waits(s2, k) <=> Waits(s1, k) \/ (k = "content" /\ old # new)
         /\ \A k, m : LastTells(s2, k, m) <=>
                IF k = "content" /\ old # new THEN new = m ELSE LastTells(s1, k, m)
    <2>1. ASSUME NEW k, NEW m
          PROVE  /\ s2 \in Seq(EventSet)
                 /\ Waits(s2, k) <=> Waits(s1, k) \/ (k = "content" /\ old # new)
                 /\ LastTells(s2, k, m) <=>
                        IF k = "content" /\ old # new THEN new = m ELSE LastTells(s1, k, m)
      <3>1. old \in Nat /\ new \in Nat /\ s1 \in Seq(EventSet)
        BY <1>2, <1>8, <1>9
      <3> QED
        BY <3>1, MoreIf
    <2> QED
      BY <2>1
  <1> HIDE DEF s2
  <1>11. last \in EventSet /\ last.kind = "scroll" /\ last.n = Fits(region, view)
    BY <1>2 DEF Event, EventSet
  <1>12. events' = Append(s2, last)
    BY <1>1, <1>10
  <1> HIDE DEF last
  <1>13. /\ events' \in Seq(EventSet)
         /\ \A k : Waits(events', k) <=> Waits(s2, k) \/ k = "scroll"
         /\ \A k, m : LastTells(events', k, m) <=>
                IF k = "scroll" THEN Fits(region, view) = m ELSE LastTells(s2, k, m)
    BY <1>10, <1>11, <1>12, OneMore
  <1>14. /\ CanvasWidth(view, bar)' = CanvasWidth(view, bar)
         /\ Fits(region, view)' = Fits(region, view)
         /\ UNCHANGED <<columns, region, label, follows, view, bar>>
    BY <1>1 DEF viewVars, CanvasWidth, Fits
  <1>15. PageTypeOK'
    BY <1>1, <1>7, <1>13 DEF PageTypeOK, EventSet, viewVars, gestureVars
  <1>16. LastTells(events', "canvas", CanvasWidth(view, bar)) /\ LastTells(events', "cards", item')
    BY <1>4, <1>9, <1>10, <1>13 DEF EventsTell
  <1>17. ASSUME ~Waits(events', "canvas")
         PROVE  /\ "page" \in follows => item' = CanvasWidth(view, bar)
                /\ Waits(events', "scroll")
                /\ LastTells(events', "scroll", Fits(region, view))
    <2>1. ~Waits(s0, "canvas")
      BY <1>9, <1>10, <1>13, <1>17
    <2>2. n = CanvasWidth(view, bar)
      BY <1>1, <1>4, <2>1 DEF EventsTell
    <2>3. Larger(1, n) = n
      BY <1>2, <2>2 DEF Larger
    <2> QED
      BY <1>7, <1>13, <2>2, <2>3
  <1>18. ~Waits(events', "cards") => columns = CardColumns(item')
    BY <1>1, <1>3, <1>9, <1>10, <1>13 DEF EventsTell
  <1>19. ~Waits(events', "content") => region = new
    BY <1>1, <1>3, <1>9, <1>10, <1>13 DEF EventsTell, old
  <1>20. new = ContentHeight(label, wrap, columns)'
    BY <1>14 DEF new
  <1> QED
    BY <1>7, <1>14, <1>15, <1>16, <1>17, <1>18, <1>19, <1>20 DEF EventsTell

\* What is left of the events when one is delivered.
LEMMA Delivered ==
  ASSUME PageTypeOK, NEW kind, Deliver(kind)
  PROVE  /\ Tail(events) \in Seq(EventSet) /\ Head(events).n \in Nat /\ Head(events).kind = kind
         /\ \A k : Waits(events, k) <=> kind = k \/ Waits(Tail(events), k)
         /\ \A k, m : /\ LastTells(events, k, m) => LastTells(Tail(events), k, m)
                      /\ LastTells(events, k, m) /\ kind = k /\ ~Waits(Tail(events), k) =>
                             Head(events).n = m
  BY PageNumbers, OneLess DEF Deliver, EventSet

LEMMA CardsStep ==
  ASSUME PageTypeOK, EventsTell, CardsResized
  PROVE  PageTypeOK' /\ EventsTell'
  <1> DEFINE n == Head(events).n
             s0 == Tail(events)
             old == ContentHeight(label, wrap, columns)
             new == ContentHeight(label, wrap, columns')
  <1>1. /\ Deliver("cards") /\ columns' = CardColumns(n)
        /\ events' = s0 \o Changed("content", old, new)
        /\ UNCHANGED <<viewVars, bar, item, wrap, region, label, follows, gestureVars>>
    BY DEF CardsResized
  <1>2. /\ wrap \in Nat \ {0} /\ old \in Nat /\ label \in BOOLEAN
    BY PageNumbers DEF PageTypeOK
  <1>3. /\ s0 \in Seq(EventSet) /\ n \in Nat
        /\ \A k : Waits(events, k) <=> "cards" = k \/ Waits(s0, k)
        /\ \A k, m : /\ LastTells(events, k, m) => LastTells(s0, k, m)
                     /\ LastTells(events, k, m) /\ "cards" = k /\ ~Waits(s0, k) => n = m
    BY <1>1, Delivered
  <1>4. columns' \in Nat \ {0} /\ new \in Nat
    BY <1>1, <1>2, <1>3, Sizes
  <1> HIDE DEF n, s0, old, new
  <1>5. ASSUME NEW k, NEW m
        PROVE  /\ events' \in Seq(EventSet)
               /\ Waits(events', k) <=> Waits(s0, k) \/ (k = "content" /\ old # new)
               /\ LastTells(events', k, m) <=>
                      IF k = "content" /\ old # new THEN new = m ELSE LastTells(s0, k, m)
    BY <1>1, <1>2, <1>3, <1>4, MoreIf
  <1>6. /\ CanvasWidth(view, bar)' = CanvasWidth(view, bar)
        /\ Fits(region, view)' = Fits(region, view)
        /\ UNCHANGED <<item, wrap, region, label, follows, view, bar>>
    BY <1>1 DEF viewVars, CanvasWidth, Fits
  <1>7. PageTypeOK'
    BY <1>1, <1>4, <1>5 DEF PageTypeOK, EventSet, viewVars, gestureVars
  <1>8. LastTells(events', "canvas", CanvasWidth(view, bar)) /\ LastTells(events', "cards", item)
    BY <1>3, <1>5 DEF EventsTell
  <1>9. ~Waits(events', "canvas") =>
            /\ "page" \in follows => item = CanvasWidth(view, bar)
            /\ LastTells(events', "scroll", Fits(region, view))
            /\ ~Waits(events', "scroll") => bar = ShowsBar(Fits(region, view))
    BY <1>3, <1>5 DEF EventsTell
  <1>10. ~Waits(events', "cards") => columns' = CardColumns(item)
    BY <1>1, <1>3, <1>5 DEF EventsTell
  <1>11. ~Waits(events', "content") => region = new
    BY <1>3, <1>5 DEF EventsTell, old
  <1>12. new = ContentHeight(label, wrap, columns)'
    BY <1>6 DEF new
  <1> QED
    BY <1>6, <1>7, <1>8, <1>9, <1>10, <1>11, <1>12 DEF EventsTell

LEMMA ContentStep ==
  ASSUME PageTypeOK, EventsTell, ContentResized
  PROVE  PageTypeOK' /\ EventsTell'
  <1> DEFINE s0 == Tail(events)
             last == Event("scroll", Fits(region', view))
  <1>1. /\ Deliver("content") /\ region' = ContentHeight(label, wrap, columns)
        /\ events' = Append(s0, last)
        /\ UNCHANGED <<viewVars, bar, item, wrap, columns, label, follows, gestureVars>>
    BY DEF ContentResized
  <1>2. region' \in Nat
    BY <1>1, PageNumbers
  <1>3. /\ s0 \in Seq(EventSet)
        /\ \A k : Waits(events, k) <=> "content" = k \/ Waits(s0, k)
        /\ \A k, m : LastTells(events, k, m) => LastTells(s0, k, m)
    BY <1>1, Delivered
  <1>4. last \in EventSet /\ last.kind = "scroll" /\ last.n = Fits(region', view)
    BY DEF Event, EventSet, Fits
  <1> HIDE DEF s0, last
  <1>5. ASSUME NEW k, NEW m
        PROVE  /\ events' \in Seq(EventSet)
               /\ Waits(events', k) <=> k = "scroll" \/ Waits(s0, k)
               /\ LastTells(events', k, m) <=>
                      IF k = "scroll" THEN Fits(region', view) = m ELSE LastTells(s0, k, m)
    BY <1>1, <1>3, <1>4, OneMore
  <1>6. /\ CanvasWidth(view, bar)' = CanvasWidth(view, bar)
        /\ Fits(region, view)' = Fits(region', view)
        /\ ContentHeight(label, wrap, columns)' = ContentHeight(label, wrap, columns)
        /\ UNCHANGED <<item, wrap, columns, label, follows, view, bar>>
    BY <1>1 DEF viewVars, CanvasWidth, Fits, ContentHeight
  <1>7. PageTypeOK'
    BY <1>1, <1>2, <1>5 DEF PageTypeOK, EventSet, viewVars, gestureVars
  <1>8. LastTells(events', "canvas", CanvasWidth(view, bar)) /\ LastTells(events', "cards", item)
    BY <1>3, <1>5 DEF EventsTell
  <1>9. /\ LastTells(events', "scroll", Fits(region', view)) /\ Waits(events', "scroll")
        /\ ~Waits(events', "canvas") => ("page" \in follows => item = CanvasWidth(view, bar))
        /\ ~Waits(events', "cards") => columns = CardColumns(item)
    BY <1>3, <1>5 DEF EventsTell
  <1> QED
    BY <1>1, <1>6, <1>7, <1>8, <1>9 DEF EventsTell

LEMMA ScrollStep ==
  ASSUME PageTypeOK, EventsTell, ScrollbarSet
  PROVE  PageTypeOK' /\ EventsTell'
  <1> DEFINE n == Head(events).n
             s0 == Tail(events)
             old == CanvasWidth(view, bar)
             new == CanvasWidth(view, bar')
  <1>1. /\ Deliver("scroll") /\ bar' = ShowsBar(n)
        /\ events' = s0 \o Changed("canvas", old, new)
        /\ UNCHANGED <<viewVars, item, wrap, columns, region, label, follows, gestureVars>>
    BY DEF ScrollbarSet
  <1>2. /\ s0 \in Seq(EventSet) /\ n \in Nat
        /\ \A k : Waits(events, k) <=> "scroll" = k \/ Waits(s0, k)
        /\ \A k, m : /\ LastTells(events, k, m) => LastTells(s0, k, m)
                     /\ LastTells(events, k, m) /\ "scroll" = k /\ ~Waits(s0, k) => n = m
    BY <1>1, Delivered
  <1>3. bar' \in BOOLEAN /\ old \in Nat /\ new \in Nat
    <2>1. bar' \in BOOLEAN
      BY <1>1 DEF ShowsBar
    <2> QED
      BY <2>1, Sizes DEF PageTypeOK
  <1> HIDE DEF n, s0, old, new
  <1>4. ASSUME NEW k, NEW m
        PROVE  /\ events' \in Seq(EventSet)
               /\ Waits(events', k) <=> Waits(s0, k) \/ (k = "canvas" /\ old # new)
               /\ LastTells(events', k, m) <=>
                      IF k = "canvas" /\ old # new THEN new = m ELSE LastTells(s0, k, m)
    BY <1>1, <1>2, <1>3, MoreIf
  <1>5. /\ Fits(region, view)' = Fits(region, view)
        /\ ContentHeight(label, wrap, columns)' = ContentHeight(label, wrap, columns)
        /\ UNCHANGED <<item, wrap, columns, region, label, follows, view>>
    BY <1>1 DEF viewVars, Fits, ContentHeight
  <1>6. PageTypeOK'
    BY <1>1, <1>3, <1>4 DEF PageTypeOK, EventSet, viewVars, gestureVars
  <1>7. LastTells(events', "canvas", new) /\ LastTells(events', "cards", item)
    BY <1>2, <1>4 DEF EventsTell, old
  <1>8. ASSUME ~Waits(events', "canvas")
        PROVE  /\ "page" \in follows => item = new
               /\ LastTells(events', "scroll", Fits(region, view))
               /\ ~Waits(events', "scroll") => bar' = ShowsBar(Fits(region, view))
    <2>1. ~Waits(events, "canvas") /\ old = new
      BY <1>2, <1>4, <1>8
    <2>2. /\ "page" \in follows => item = old
          /\ LastTells(events, "scroll", Fits(region, view))
      BY <2>1 DEF EventsTell, old
    <2>3. LastTells(events', "scroll", Fits(region, view))
      BY <1>2, <1>4, <2>2
    <2>4. ASSUME ~Waits(events', "scroll") PROVE bar' = ShowsBar(Fits(region, view))
      <3>1. n = Fits(region, view)
        BY <1>2, <1>4, <2>2, <2>4
      <3> QED
        BY <1>1, <3>1
    <2> QED
      BY <2>1, <2>2, <2>3, <2>4
  <1>9. /\ ~Waits(events', "cards") => columns = CardColumns(item)
        /\ ~Waits(events', "content") => region = ContentHeight(label, wrap, columns)
    BY <1>2, <1>4 DEF EventsTell
  <1>10. new = CanvasWidth(view, bar)'
    BY <1>5 DEF new
  <1>11. /\ ("label" \in follows <=> label) /\ (label => "page" \in follows)
         /\ label => wrap = WrapWidth(item)
    BY DEF EventsTell
  <1> QED
    BY <1>5, <1>6, <1>7, <1>8, <1>9, <1>10, <1>11 DEF EventsTell

LEMMA TurnStep ==
  ASSUME PageTypeOK, EventsTell, NEW v \in [w : Width, h : Height], Turn(v)
  PROVE  PageTypeOK' /\ EventsTell'
  <1> DEFINE last == Event("canvas", CanvasWidth(v, bar))
  <1>1. /\ turns < MaxTurns /\ turns' = turns + 1 /\ view' = v /\ events' = Append(events, last)
        /\ UNCHANGED <<layoutVars, gestureVars>>
    BY DEF Turn
  <1>2. /\ last \in EventSet /\ last.kind = "canvas" /\ last.n = CanvasWidth(v, bar)
        /\ events \in Seq(EventSet)
    <2>1. CanvasWidth(v, bar) \in Nat
      BY Sizes DEF PageTypeOK
    <2> QED
      BY <2>1, PageNumbers DEF Event, EventSet
  <1> HIDE DEF last
  <1>3. ASSUME NEW k, NEW m
        PROVE  /\ events' \in Seq(EventSet)
               /\ Waits(events', k) <=> k = "canvas" \/ Waits(events, k)
               /\ LastTells(events', k, m) <=>
                      IF k = "canvas" THEN CanvasWidth(v, bar) = m ELSE LastTells(events, k, m)
    BY <1>1, <1>2, OneMore
  <1>4. turns' \in 0..MaxTurns
    BY <1>1, SizeAssumption DEF PageTypeOK
  <1>5. PageTypeOK'
    BY <1>1, <1>3, <1>4 DEF PageTypeOK, EventSet, layoutVars, gestureVars
  <1>6. /\ CanvasWidth(view, bar)' = CanvasWidth(v, bar)
        /\ ContentHeight(label, wrap, columns)' = ContentHeight(label, wrap, columns)
        /\ UNCHANGED <<item, wrap, columns, region, label, follows>>
    BY <1>1 DEF layoutVars, CanvasWidth, ContentHeight
  <1>7. /\ LastTells(events', "canvas", CanvasWidth(v, bar)) /\ Waits(events', "canvas")
        /\ LastTells(events', "cards", item)
        /\ ~Waits(events', "cards") => columns = CardColumns(item)
        /\ ~Waits(events', "content") => region = ContentHeight(label, wrap, columns)
    BY <1>3 DEF EventsTell
  <1> QED
    BY <1>5, <1>6, <1>7 DEF EventsTell

\* The page may lose its binding with that of the label.
LEMMA DestroyStep ==
  ASSUME PageTypeOK, EventsTell, DestroyLabel
  PROVE  PageTypeOK' /\ EventsTell'
  <1> DEFINE old == ContentHeight(TRUE, wrap, columns)
             new == ContentHeight(FALSE, wrap, columns)
  <1>1. /\ label /\ label' = FALSE /\ follows' \in {follows \ {"label"}, {}}
        /\ events' = events \o Changed("content", old, new)
        /\ UNCHANGED <<viewVars, bar, item, wrap, columns, region, gestureVars>>
    BY DEF DestroyLabel
  <1>2. events \in Seq(EventSet) /\ old \in Nat /\ new \in Nat /\ label = TRUE
    BY <1>1, PageNumbers, Sizes DEF PageTypeOK
  <1>3. ContentHeight(label, wrap, columns) = old
    BY <1>2
  <1> HIDE DEF old, new
  <1>4. ASSUME NEW k, NEW m
        PROVE  /\ events' \in Seq(EventSet)
               /\ Waits(events', k) <=> Waits(events, k) \/ (k = "content" /\ old # new)
               /\ LastTells(events', k, m) <=>
                      IF k = "content" /\ old # new THEN new = m ELSE LastTells(events, k, m)
    BY <1>1, <1>2, MoreIf
  <1>5. /\ follows' \subseteq {"page", "label"} /\ "label" \notin follows'
        /\ "page" \in follows' => "page" \in follows
    BY <1>1 DEF PageTypeOK
  <1>6. PageTypeOK'
    BY <1>1, <1>4, <1>5 DEF PageTypeOK, EventSet, viewVars, gestureVars
  <1>7. /\ CanvasWidth(view, bar)' = CanvasWidth(view, bar)
        /\ Fits(region, view)' = Fits(region, view)
        /\ ContentHeight(label, wrap, columns)' = new
        /\ UNCHANGED <<item, wrap, columns, region, view, bar>>
    BY <1>1 DEF viewVars, CanvasWidth, Fits, new
  <1>8. /\ LastTells(events', "canvas", CanvasWidth(view, bar)) /\ LastTells(events', "cards", item)
        /\ ~Waits(events', "canvas") =>
               /\ "page" \in follows => item = CanvasWidth(view, bar)
               /\ LastTells(events', "scroll", Fits(region, view))
               /\ ~Waits(events', "scroll") => bar = ShowsBar(Fits(region, view))
        /\ ~Waits(events', "cards") => columns = CardColumns(item)
    BY <1>4 DEF EventsTell
  <1>9. ~Waits(events', "content") => region = new
    BY <1>3, <1>4 DEF EventsTell
  <1> QED
    BY <1>1, <1>5, <1>6, <1>7, <1>8, <1>9 DEF EventsTell

\* A gesture leaves the layout as it is.
LEMMA GestureStep ==
  ASSUME PageTypeOK, EventsTell, DragTrue,
         Release \/ \E y \in 0..MaxY : Press(y) \/ Motion(y)
  PROVE  PageTypeOK' /\ EventsTell' /\ DragTrue'
  <1>1. UNCHANGED <<viewVars, layoutVars, events>>
    BY DEF Release, Press, Motion
  <1>2. /\ Threshold \in Nat /\ MaxY \in Nat /\ far \in (-1)..MaxY /\ origin \in 0..MaxY
        /\ dragging \in BOOLEAN /\ pressed \in BOOLEAN
    BY SizeAssumption DEF PageTypeOK
  <1>3. /\ origin' \in 0..MaxY /\ far' \in (-1)..MaxY /\ dragging' \in BOOLEAN
        /\ pressed' \in BOOLEAN /\ DragTrue'
    <2>0. -1 \in (-1)..MaxY
      BY <1>2
    <2>1. CASE Release
      <3>1. origin' = origin /\ far' = -1 /\ dragging' = FALSE /\ pressed' = FALSE
        BY <2>1 DEF Release
      <3>2. DragTrue'
        BY <3>1 DEF DragTrue
      <3> QED
        BY <1>2, <2>0, <3>1, <3>2
    <2>2. ASSUME NEW y \in 0..MaxY, Press(y)
          PROVE  /\ origin' \in 0..MaxY /\ far' \in (-1)..MaxY /\ dragging' \in BOOLEAN
                 /\ pressed' \in BOOLEAN /\ DragTrue'
      <3>1. origin' = y /\ far' = -1 /\ dragging' = FALSE /\ pressed' = TRUE
        BY <2>2 DEF Press
      <3>2. ~(far' >= Threshold)
        BY <1>2, <3>1
      <3>3. DragTrue'
        BY <3>1, <3>2 DEF DragTrue
      <3> QED
        BY <2>0, <3>1, <3>3
    <2>3. ASSUME NEW y \in 0..MaxY, Motion(y)
          PROVE  /\ origin' \in 0..MaxY /\ far' \in (-1)..MaxY /\ dragging' \in BOOLEAN
                 /\ pressed' \in BOOLEAN /\ DragTrue'
      <3>1. Distance(y, origin) \in 0..MaxY
        BY <1>2 DEF Distance
      <3>2. PICK d \in 0..MaxY : d = Distance(y, origin)
        BY <3>1
      <3>3. /\ pressed /\ pressed' = pressed /\ origin' = origin
            /\ dragging' = (dragging \/ d >= Threshold) /\ far' = (IF far >= d THEN far ELSE d)
        BY <2>3, <3>2 DEF Motion, IsDrag, Larger
      <3>4. dragging <=> far >= Threshold
        BY <3>3 DEF DragTrue
      <3>5. far' \in (-1)..MaxY
        BY <1>2, <3>3
      <3>6. dragging' <=> far' >= Threshold
        <4>1. dragging' <=> dragging \/ d >= Threshold
          BY <3>3
        <4>2. far' >= Threshold <=> far >= Threshold \/ d >= Threshold
          BY <1>2, <3>3
        <4> QED
          BY <3>4, <4>1, <4>2
      <3>7. dragging' \in BOOLEAN
        BY <3>3
      <3> QED
        BY <1>2, <3>3, <3>5, <3>6, <3>7 DEF DragTrue
    <2> QED
      BY <2>1, <2>2, <2>3
  <1>4. PageTypeOK'
    BY <1>1, <1>3 DEF PageTypeOK, viewVars, layoutVars
  <1>5. EventsTell'
    BY <1>1 DEF EventsTell, viewVars, layoutVars, CanvasWidth, ContentHeight, Fits, WrapWidth,
                CardColumns, ShowsBar, LastTells, Waits
  <1> QED
    BY <1>3, <1>4, <1>5

\* Nothing happens to the page.
LEMMA PageStays ==
  ASSUME PageTypeOK, EventsTell, DragTrue, UNCHANGED pageVars
  PROVE  PageTypeOK' /\ EventsTell' /\ DragTrue'
  BY DEF pageVars, viewVars, layoutVars, gestureVars, PageTypeOK, DragTrue, EventsTell, CanvasWidth,
         ContentHeight, Fits, WrapWidth, CardColumns, ShowsBar, LastTells, Waits

LEMMA PageStep ==
  ASSUME PageTypeOK, EventsTell, DragTrue, PageNext
  PROVE  PageTypeOK' /\ EventsTell' /\ DragTrue'
  <1>1. CASE Handle \/ DestroyLabel \/ \E w \in Width, h \in Height : Turn([w |-> w, h |-> h])
    <2>1. PageTypeOK' /\ EventsTell'
      <3>1. CASE Handle
        BY <3>1, CanvasStep, CardsStep, ContentStep, ScrollStep DEF Handle
      <3>2. CASE DestroyLabel
        BY <3>2, DestroyStep
      <3>3. ASSUME NEW w \in Width, NEW h \in Height, Turn([w |-> w, h |-> h])
            PROVE  PageTypeOK' /\ EventsTell'
        BY <3>3, TurnStep
      <3> QED
        BY <1>1, <3>1, <3>2, <3>3
    <2>2. UNCHANGED gestureVars
      BY <1>1 DEF Handle, CanvasResized, CardsResized, ContentResized, ScrollbarSet, DestroyLabel, Turn
    <2> QED
      BY <2>1, <2>2 DEF DragTrue, gestureVars
  <1>2. CASE Release \/ \E y \in 0..MaxY : Press(y) \/ Motion(y)
    BY <1>2, GestureStep
  <1> QED
    BY <1>1, <1>2 DEF PageNext

LEMMA PageBegins ==
  ASSUME NEW v \in [w : Width, h : Height], PageInit(v)
  PROVE  PageTypeOK /\ EventsTell /\ DragTrue
  <1> DEFINE a == Event("canvas", CanvasWidth(view, bar))
             b == Event("content", ContentHeight(label, wrap, columns))
  <1>1. /\ view = v /\ turns = 0 /\ bar = TRUE /\ item = 1 /\ region = 0 /\ label = TRUE
        /\ wrap = WrapWidth(1) /\ columns = CardColumns(1) /\ follows = {"page", "label"}
        /\ events = <<a, b>>
        /\ origin = 0 /\ dragging = FALSE /\ pressed = FALSE /\ far = -1
    BY DEF PageInit
  <1>2. /\ CanvasWidth(view, bar) \in Nat /\ wrap \in Nat \ {0} /\ columns \in Nat \ {0}
    BY <1>1, Sizes
  <1>3. ContentHeight(label, wrap, columns) \in Nat
    BY <1>1, <1>2, Sizes
  <1>4. /\ a \in EventSet /\ a.kind = "canvas" /\ a.n = CanvasWidth(view, bar)
        /\ b \in EventSet /\ b.kind = "content"
    BY <1>2, <1>3 DEF Event, EventSet
  <1> HIDE DEF a, b
  <1>5. /\ events \in Seq(EventSet) /\ DOMAIN events = 1..2 /\ events[1] = a /\ events[2] = b
        /\ \A i \in 1..2 : i = 1 \/ i = 2
    BY <1>1, <1>4
  <1>6. PageTypeOK
    <2>1. 0 \in 0..MaxTurns /\ 0 \in 0..MaxY /\ -1 \in (-1)..MaxY
      BY SizeAssumption
    <2>2. view \in [w : Width, h : Height] /\ turns \in 0..MaxTurns
      BY <1>1, <2>1
    <2>3. {bar, label, dragging, pressed} \subseteq BOOLEAN /\ follows \subseteq {"page", "label"}
      BY <1>1
    <2>4. item \in Nat \ {0} /\ region \in Nat
      BY <1>1
    <2>5. events \in Seq([kind : {"canvas", "cards", "content", "scroll"}, n : Nat])
      BY <1>5 DEF EventSet
    <2>6. origin \in 0..MaxY /\ far \in (-1)..MaxY
      BY <1>1, <2>1
    <2> QED
      BY <1>2, <2>2, <2>3, <2>4, <2>5, <2>6 DEF PageTypeOK
  <1>7. /\ LastTells(events, "canvas", CanvasWidth(view, bar)) /\ Waits(events, "canvas")
        /\ LastTells(events, "cards", item) /\ Waits(events, "content")
    <2>1. 1 \in 1..2 /\ 2 \in 1..2
      OBVIOUS
    <2> QED
      BY <1>4, <1>5, <2>1 DEF LastTells, Waits
  <1>8. EventsTell
    BY <1>1, <1>7 DEF EventsTell
  <1> QED
    BY <1>1, <1>6, <1>8 DEF DragTrue

\* What is left when no event waits.
LEMMA PageRests ==
  ASSUME PageTypeOK, EventsTell, DragTrue
  PROVE  PageTrue
  <1>1. InReach
    <2> SUFFICES ASSUME events = <<>> PROVE InReach
      BY DEF InReach
    <2>1. \A k : ~Waits(events, k)
      BY DEF Waits
    <2>2. bar <=> region > view.h
      <3>1. bar = ShowsBar(Fits(region, view))
        BY <2>1 DEF EventsTell
      <3>2. region \in Nat /\ view.h \in Nat
        BY PageNumbers
      <3>3. Fits(region, view) = 0 <=> region > view.h
        BY <3>2 DEF Fits
      <3> QED
        BY <3>1, <3>3 DEF ShowsBar
    <2> QED
      BY <2>1, <2>2 DEF EventsTell, InReach
  <1>2. ColumnsFit
    <2>1. \A width \in Width \cup {item} : width \in Nat
      BY SizeAssumption DEF PageTypeOK
    <2> QED
      BY <2>1, Fitting DEF ColumnsFit
  <1> QED
    BY <1>1, <1>2 DEF PageTrue

-----------------------------------------------------------------------------
(* Theorems *)

LEMMA Started == Spec => [](FilesTrue /\ IdentityTrue /\ NotStarted)
  <1>1. ASSUME FilesTrue, IdentityTrue, NotStarted, [Next]_startVars
        PROVE  (FilesTrue /\ IdentityTrue /\ NotStarted)'
    <2>1. CASE Install
      <3>1. UNCHANGED <<phase, identityVars>> /\ FileNext
        BY <2>1 DEF Install
      <3> QED
        BY <1>1, <3>1, FilesStep, IdentityKept
    <2>2. CASE Launch
      BY <1>1, <2>2, Launched, FilesKept DEF Launch
    <2>3. CASE Identify
      <3>1. UNCHANGED <<phase, fileVars>> /\ IdentityNext /\ phase = "windows"
        BY <2>3 DEF Identify
      <3> QED
        BY <1>1, <3>1, IdentityStep, FilesKept DEF NotStarted
    <2>4. CASE Map
      BY <1>1, <2>4, IdentityKept, FilesKept DEF Map
    <2>5. CASE Show \/ UNCHANGED startVars
      BY <1>1, <2>5, IdentityKept, FilesKept DEF Show, startVars
    <2> QED
      BY <1>1, <2>1, <2>2, <2>3, <2>4, <2>5 DEF Next
  <1> QED
    BY StartInit, <1>1, PTL DEF Spec

\* Whatever writers do at the same time, fail or are killed, the destination is one whole
\* manifest, and a temporary file stays only where a writer was killed, could not write it or
\* could not remove it.
THEOREM ManifestWhole == Spec => []FilesTrue
  BY Started, PTL

\* The error handler of the process is given back and no error of an identity ends the
\* process; a window whose last identity is marked as applied shows it, all of it, and it
\* is the component that the manifest names.
THEOREM IdentityShown == Spec => []IdentityTrue
  BY Started, PTL

\* A page at rest is all in reach, whatever events were late, how often the screen was turned,
\* when its label was destroyed and what else unbind() of tkinter removed then; it has the
\* width of the canvas where the page kept its binding; and a drag is no tap.
THEOREM PageShown == Spec => []PageTrue
  <1>1. Init => PageTypeOK /\ EventsTell /\ DragTrue
    <2>1. Screen \in [w : Width, h : Height]
      BY ScreenAssumption DEF Screen
    <2> QED
      BY <2>1, PageBegins DEF Init
  <1>2. ASSUME PageTypeOK, EventsTell, DragTrue, [Next]_startVars
        PROVE  (PageTypeOK /\ EventsTell /\ DragTrue)'
    <2>1. CASE Show
      BY <1>2, <2>1, PageStep DEF Show
    <2>2. CASE UNCHANGED pageVars
      BY <1>2, <2>2, PageStays
    <2> QED
      BY <1>2, <2>1, <2>2 DEF Next, Install, Launch, Identify, Map, startVars
  <1>3. PageTypeOK /\ EventsTell /\ DragTrue => PageTrue
    BY PageRests
  <1> QED
    BY <1>1, <1>2, <1>3, PTL DEF Spec

=============================================================================
