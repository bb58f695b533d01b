------------------------------ MODULE Manifest ------------------------------
(***************************************************************************)
(* The writing of a manifest by msys_sdk/app_manifest.py: several writers  *)
(* with a manifest each, one destination, and a temporary file per writer. *)
(* Any step that touches the file system may fail, and a writer may be     *)
(* killed at any moment.                                                   *)
(*                                                                         *)
(* Of a manifest there are the lengths of the two names that become the    *)
(* identity of the application's windows, and what is declared about when  *)
(* it is started.                                                          *)
(***************************************************************************)
EXTENDS Naturals

CONSTANTS Writer,       \* processes that call write_manifest(), once each
          Destination,  \* the name of the file they write
          PackageMax,   \* 128
          ComponentMax  \* 64

ASSUME WriterAssumption == Destination \notin Writer
ASSUME LengthAssumption == {PackageMax, ComponentMax} \subseteq Nat \ {0}

Name == [package : 1..PackageMax, component : 1..ComponentMax]
NoName == [package |-> 0, component |-> 0]

\* A file: whose manifest it has, and whether all of it.
Content == [of : Name, whole : BOOLEAN]
NoFile == [of |-> NoName, whole |-> FALSE]

VARIABLES
    at,    \* where each writer is
    mine,  \* the manifest it writes
    force, \* whether it may overwrite
    file   \* the destination, and the temporary file of each writer

fileVars == <<at, mine, force, file>>

FileInit ==
    /\ at = [w \in Writer |-> "idle"] /\ mine = [w \in Writer |-> NoName]
    /\ force = [w \in Writer |-> FALSE]
    /\ file = [f \in Writer \cup {Destination} |-> NoFile]

WriterGoes(w, place) == at' = [at EXCEPT ![w] = place]

-----------------------------------------------------------------------------
(* Mistakes the properties must tell from the code. *)

InPlace(w) == Destination

-----------------------------------------------------------------------------
(* create_application_manifest(): what a developer leaves out is "". *)

Options == [roles : BOOLEAN, interfaces : BOOLEAN, capabilities : BOOLEAN,
            lifecycle : {"", "session", "background", "on-demand", "manual"},
            restart : {"", "never", "on-failure", "always"}, readiness : {"", "exec", "mipc-ready"},
            launchable : {"", "yes", "no"}, graphical : BOOLEAN, display : BOOLEAN]

Provider(o) == o.roles \/ o.interfaces \/ o.capabilities

Given(option, default) == IF option # "" THEN option ELSE default

Lifecycle(o) == Given(o.lifecycle, IF Provider(o) THEN "on-demand" ELSE "manual")

Declared(o) ==
    [lifecycle  |-> Lifecycle(o),
     restart    |-> Given(o.restart, IF Lifecycle(o) = "manual" THEN "never" ELSE "on-failure"),
     readiness  |-> Given(o.readiness, IF Provider(o) THEN "mipc-ready" ELSE "exec"),
     launchable |-> Given(o.launchable, IF o.graphical /\ Lifecycle(o) = "manual" /\ ~Provider(o)
                                        THEN "yes" ELSE "no"),
     display    |-> o.display \/ o.graphical]

\* Names that are too long are refused.
Create(w, package, component, forced) ==
    /\ at[w] = "idle"
    /\ IF package <= PackageMax /\ component <= ComponentMax
       THEN /\ WriterGoes(w, "test")
            /\ mine' = [mine EXCEPT ![w] = [package |-> package, component |-> component]]
            /\ force' = [force EXCEPT ![w] = forced]
       ELSE WriterGoes(w, "refused") /\ UNCHANGED <<mine, force>>
    /\ UNCHANGED file

-----------------------------------------------------------------------------
(* write_manifest() *)

Exists(w) ==
    /\ at[w] = "test"
    /\ \/ WriterGoes(w, IF file[Destination] # NoFile /\ ~force[w] THEN "refused" ELSE "open")
       \/ WriterGoes(w, "failed")
    /\ UNCHANGED <<mine, force, file>>

\* Where the stream writes.
Stream(w) == w

\* The directory and the temporary file are made.
Open(w) ==
    /\ at[w] = "open"
    /\ \/ /\ file' = [file EXCEPT ![Stream(w)] = [of |-> mine[w], whole |-> FALSE]]
          /\ WriterGoes(w, "write")
       \/ WriterGoes(w, "failed") /\ UNCHANGED file
    /\ UNCHANGED <<mine, force>>

\* write(), flush() and fsync().  When they fail the file has no name yet that
\* finally could remove.
Write(w) ==
    /\ at[w] = "write"
    /\ \/ /\ file' = [file EXCEPT ![Stream(w)] = [of |-> @.of, whole |-> TRUE]]
          /\ WriterGoes(w, "replace")
       \/ WriterGoes(w, "torn") /\ UNCHANGED file
    /\ UNCHANGED <<mine, force>>

Replace(w) ==
    /\ at[w] = "replace"
    /\ \/ /\ file' = [file EXCEPT ![Destination] = file[Stream(w)], ![w] = NoFile]
          /\ WriterGoes(w, "unlink")
       \/ WriterGoes(w, "unlinkFailed") /\ UNCHANGED file
    /\ UNCHANGED <<mine, force>>

Removes(w) == file' = [file EXCEPT ![w] = NoFile]

\* finally; there may be nothing to remove.  Any other OSError leaves what is there, and is
\* what write_manifest() raises, also of a manifest that is in its place.
Unlink(w) ==
    /\ at[w] \in {"unlink", "unlinkFailed"}
    /\ \/ Removes(w) /\ WriterGoes(w, IF at[w] = "unlink" THEN "done" ELSE "failed")
       \/ WriterGoes(w, "stuck") /\ UNCHANGED file
    /\ UNCHANGED <<mine, force>>

Kill(w) ==
    /\ at[w] \in {"test", "open", "write", "replace", "unlink", "unlinkFailed"}
    /\ WriterGoes(w, "killed")
    /\ UNCHANGED <<mine, force, file>>

FileNext == \E w \in Writer :
    \/ \E p \in 1..(PackageMax + 1), c \in 1..(ComponentMax + 1), f \in BOOLEAN : Create(w, p, c, f)
    \/ Exists(w) \/ Open(w) \/ Write(w) \/ Replace(w) \/ Unlink(w) \/ Kill(w)

-----------------------------------------------------------------------------
(* Properties *)

\* The type invariant of the files.
FileTypeOK ==
    /\ at \in [Writer -> {"idle", "test", "open", "write", "replace", "unlink", "unlinkFailed",
                          "refused", "torn", "failed", "stuck", "killed", "done"}]
    /\ mine \in [Writer -> Name \cup {NoName}] /\ force \in [Writer -> BOOLEAN]
    /\ file \in [Writer \cup {Destination} -> Content \cup {NoFile}]

\* The destination is one whole manifest, of a writer that got as far as that, whatever
\* else is written, fails or is killed at the same time.
DestinationWhole ==
    file[Destination] # NoFile =>
        /\ file[Destination].whole
        /\ \E w \in Writer : /\ mine[w] = file[Destination].of
                            /\ at[w] \in {"unlink", "done", "stuck", "killed"}

\* A temporary file is left behind only by a writer that was killed, could not write it, or
\* could not remove it.
NoLitter == \A w \in Writer : file[w] # NoFile => at[w] \notin {"refused", "failed", "done"}

\* Left to the defaults, a component that others discover is supervised and says when it is
\* ready, and the one that the shell launches is not started again by the supervisor.
DeclarationsTrue == \A o \in Options :
    LET d == Declared(o)
    IN  /\ (o.roles \/ o.interfaces \/ o.capabilities) /\ o.readiness = "" => d.readiness = "mipc-ready"
        /\ (o.roles \/ o.interfaces \/ o.capabilities) /\ o.launchable = "" => d.launchable = "no"
        /\ (o.roles \/ o.interfaces \/ o.capabilities) /\ o.lifecycle = "" /\ o.restart = "" =>
              d.restart = "on-failure"
        /\ o.launchable = "" /\ d.launchable = "yes" /\ o.restart = "" => d.restart = "never"

\* What these rest on: the temporary file of a writer has, as far as the writer got, what
\* the writer wrote, and is nobody else's.
OwnFile == \A w \in Writer :
    /\ at[w] \notin {"idle", "refused"} => mine[w] \in Name
    /\ at[w] \in {"idle", "refused", "test", "open", "unlink", "failed", "done"} => file[w] = NoFile
    /\ at[w] = "write" => file[w] = [of |-> mine[w], whole |-> FALSE]
    /\ at[w] = "stuck" => file[w] \in {NoFile, [of |-> mine[w], whole |-> TRUE]}
    /\ at[w] \in {"replace", "unlinkFailed"} => file[w] = [of |-> mine[w], whole |-> TRUE]

\* The invariant of the manifest, of named parts.
FilesTrue == FileTypeOK /\ DestinationWhole /\ NoLitter /\ DeclarationsTrue /\ OwnFile
=============================================================================
