# Verification of msys-sdk

TLA+ models of the concurrent parts of msys-sdk, of the C library, of the two
implementations of localisation, and of the way of an application from its manifest to a
page on the screen, the TLC runs that check them on small instances,
and proofs, checked by TLAPS, that hold for every instance.
`PROJECT.json` lists the runs, the mutants that show that each property can
fail, the source lines every definition stands for, the findings, the hazards
and the theorems.

## 1. The system

msysd (not in this repository) starts components and gives each an inherited
SEQPACKET descriptor, `MSYS_CONTROL_FD`.  A record is one packet with one JSON
object: `hello`/`welcome`/`ready`, `call` and its `return` or `error`, `event`,
`shutdown`.  The SDK is what a component uses at its end of that descriptor.

| component | state | operations | concurrency and failure | what makes it correct |
|---|---|---|---|---|
| `client.py` MsysClient | `_next_id`, `_pending` (id to one-place waiter), `_event_queue`, `_closed` and the terminal errors, the locks `_send_lock`, `_pending_lock`, `_terminal_lock`, `_reader_start_lock`, `_run_lock`, `_socket_close_lock`, the reader thread | `send`, `call` (and `call_role`, `discover`, ... on top of it), `recv`, `run`, `close`, `hello`, `ready`, `subscribe`, `event` | any thread may call; one reader thread; termination by the reader, by `close()` and by a failing send at once; timeouts; late and duplicated replies; a full send buffer | a call ends once, with its own reply or a true error; a termination strands nobody; records keep their order; `run()` and the reader end |
| `client.py` public_call | none | one request over the public socket | lines split and joined by the stream, a silent or closing msysd, sizes at the limit | an answer that msysd gives as it should is read; the call ends |
| `component_ipc.py` ComponentChannel | `closed`, `_pending`, `_next_id`, `_pump_thread`, two locks | `handshake`, `start`, `pump`, `call`, `send`, `receive`, `close` | caller threads, the pump thread with the application's callback and call handler, threads in `close()` | calls end with their own reply or a true failure; an inbound call is answered once; the end is told once and last |
| `component_ipc.py` PublicMipcClient | `_next_id` under `_lock` | `call` over a stream socket for each request | the same, and threads that share the ids | the same, and the answer is the one to this request |
| `stdio_bridge.py` StdioBridge | `_stop`, `_results`, the child process | `run` with the pumps `_socket_to_child` and `_child_to_socket`, `_terminate_child` | two pump threads, a polling main thread, a child that may close either stream, exit, hang or ignore SIGTERM | lines pass in order and validated; a failure is reported; no child is left; `run()` returns |
| `ui_input_method.py` TkInputMethodBinding | `_widgets`, `_pending`, `_desired`, `_worker_running`, `_focus_check`, `_closed` | `bind`, `show`, `hide`, `sync_focus`, `close`, Tk events | Tk's thread against a worker thread; role calls that fail or time out and are served later | one worker; the newest request wins; hide comes last |
| `tk_app.py` TouchApplication | `_messages`, `closed`, its own copy of the input-method worker over a ComponentChannel | `post`, `_poll_messages`, events, `close` | Tk's thread, background threads, the channel's callback thread | as the two above; nothing after `close()` |
| `application_navigation.py` | none | a call handler | runs on the pump thread | returns an object or raises |
| `i18n.py`, `package_i18n.py` | a catalog, the requested locale and its chain, bounded diagnostics | `set_locale`, `text`, `plural`, normalization, plural rules, templates | none | the chain fits the catalog; the same answers as in C |
| `src/i18n.c`, `i18n_c.py` | static tables | the same in C, and the generator of the tables | none | agrees with the Python one |
| `src/mipc.c` | a descriptor and the last error | send and receive of one record, JSON scanner, extraction of strings and integers | oversized packets, small buffers, EINTR, overflow | no record is lost unseen; a second attempt succeeds; fields are read exactly or refused |
| `app_manifest.py` | a file, and one temporary file per writer | build and write a manifest | other writers, a failing write, a killed writer | the file is one whole manifest; the defaults fit each other |
| `ui_layout.py`, cards and gestures of `tk_app.py` | scrollbar, scrollregion, wrap, columns, `_dragging` | handlers of `<Configure>`, of the scrollbar and of a pointer | events of earlier moments that cause each other | a page settles, all of it in reach; a drag is no tap |
| `ui_identity.py` | the error handler of the process under `_X11_ERROR_HANDLER_LOCK`, a mark on each window | `configure_tk_window_identity` | GUI threads, windows that are bare or disappear, errors of other connections | an error never ends the process; a marked window shows its identity |
| `ui_fonts.py`, `__init__.py`, `example/` | none | configuration of the toolkit, lazy imports, samples | none | - |

How they interact: `TouchApplication` owns a `ComponentChannel` and posts its
records to Tk's thread; `TkInputMethodBinding` makes its role calls through the
`call_role()` of an MsysClient or through any callable of that shape; the
navigation handler is a call handler of the channel; the bridge replaces the
client for a child written in another language.  A manifest names package and component,
msysd gives the names to the process, `configure_tk_fonts()` and `TouchApplication` give them
to the window.

## 2. Modules

| module | models | extends or instantiates |
|---|---|---|
| `MipcOutcome` | why a client terminates, and how a call may end | - |
| `Rpc` | abstract specification: what callers are promised | `MipcOutcome` |
| `MsysClient` | MsysClient of `client.py` | `MipcOutcome`; `R == INSTANCE Rpc WITH ...` |
| `MCMsysClient` | symmetry for TLC | `MsysClient` |
| `MCClientRecv` | for TLC: what is kept apart in its run | `MsysClient` |
| `MsysClientProofs` | theorems and proofs | `MsysClient`, `TLAPS` |
| `Channel` | abstract specification: what the callers of a component channel are promised | `MipcOutcome` |
| `ComponentChannel` | ComponentChannel of `component_ipc.py` | `MipcOutcome`; `C == INSTANCE Channel WITH ...` |
| `ComponentChannelProofs` | theorems and proofs | `ComponentChannel`, `TLAPS` |
| `PublicCall` | `public_call()` of `client.py` and PublicMipcClient of `component_ipc.py`, each over a stream | - |
| `PublicCallProofs` | theorems and proofs | `PublicCall`, `TLAPS` |
| `InputMethod` | `ui_input_method.py` and the provider of the role | - |
| `InputMethodProofs` | theorems and proofs | `InputMethod`, `TLAPS` |
| `StdioBridge` | `stdio_bridge.py`, the child and msysd | - |
| `StdioBridgeProofs` | theorems and proofs | `StdioBridge`, `TLAPS` |
| `AppShell` | TouchApplication of `tk_app.py`, the channel as its callers see it, the provider | - |
| `AppShellProofs` | theorems and proofs | `AppShell`, `TLAPS` |
| `Manifest` | `app_manifest.py`: defaults, limits, the writing of the file | - |
| `WindowIdentity` | `ui_identity.py`, the X server and Tk as it sees them | - |
| `Layout` | the arithmetic of `ui_layout.py` | - |
| `ScrollPage` | TkScrollablePage and the wrap of `ui_layout.py`, cards of `tk_app.py`, events of Tk | `Layout` |
| `AppStart` | an application from its manifest to a page | `Manifest`, `WindowIdentity`, `ScrollPage` |
| `AppStartProofs` | theorems and proofs | `AppStart`, `TLAPS` |
| `MipcJson` | the operators of `src/mipc.c` on text: scanner, search, decoding, escaping | - |
| `MipcC` | the client of `src/mipc.c`, and the reference of the scanner | `MipcJson` |
| `I18nTypes` | locales, catalogs and templates, as both implementations take them | - |
| `I18nPython` | the algorithms of `i18n.py` | `I18nTypes` |
| `I18nC` | the algorithms of `src/i18n.c` | `I18nTypes` |
| `I18n` | the Translator of `i18n.py`, compared with the C functions | `P == INSTANCE I18nPython`, `C == INSTANCE I18nC` |
| `MCLines` | for TLC: the bridge or the public clients, in one run | `StdioBridge`, `PublicCall` |
| `MCNative` | for TLC: the C client or localisation, in one run, and the values of constants that are functions or sets of sequences | `MipcC`, `I18n` |
| `NativeProofs` | theorems and proofs of what exists in C: `src/mipc.c`, and localisation in both languages | `MipcC`, `I18n`, `TLAPS` |

The models of threads have the same shape: a program counter for each thread, the
attributes of the object as variables, the descriptor as two sequences of
records in the kernel, one action for each stretch of code between two points
where another thread may see or change something.  The environment (msysd, the
child, the provider of the role) is a set of actions that are marked external
in the map.

The modules that runs instantiate also hold, in a section of its own, the
mistakes the mutants put in the place of a definition.

### MsysClient

Threads: `Caller` (those in `Sender` also send records without an id),
`Consumer` (`recv()` and `run()`), `Closer`, `Reader`.

* `_closed` and the terminal errors are one variable, `terminal`: they are
  written together under `_terminal_lock`, and the reason determines both.
* `_pending` is the set `pending` of ids, and the waiter of id *i* is `slot[i]`:
  a waiter outlives its registration, as the caller still looks at it.
* Registration is two steps, `RegisterCheck` and `Register`, under
  `_pending_lock`: between them another thread may set `_closed`, which is
  guarded by a different lock.
* `_terminate()` is three, `Terminate` (under `_terminal_lock`), `Drain` (under
  `_pending_lock`) and `Post` (the last record of the event queue).  Three kinds of
  thread run it: the reader, `close()`, and a caller whose send failed.
* `sendall()` holds `_send_lock` while the buffer towards msysd is full.  It may fail in
  any state (`SendError`), with both ends of the socket open as well; `_terminate()` then
  leaves the socket open.
* A timer that expires is `Expire`, and what the caller then does under
  the lock is `Expired`.
* The reader is "assigned" between the assignment of `_reader_thread` and the
  moment the thread runs, which is when `Join` may raise.
* Records carry a number so that order can be stated; of their content there is left
  whether an object is empty, since an empty one ends `run()`.  The callback of `run()` is assumed to return.

### ComponentChannel

Threads: `Main` (handshake, then start), `Caller`, `Closer`, `Pump`.
`closed` is only set by `close()`, without a lock.  `send()` is one step since
its lock guards one system call, which fails when the buffer stays full for as long as
the timeout that `receive()` has set on the descriptor.  `_fail_pending()` is two:
`Clear` empties the table under the lock, `FailTaken` fills the waiters after it.
The pump ends in "dead" when it returns and in "crashed" when an exception leaves
`pump()`: from `settimeout()` on a closed descriptor, or from the sending of an
error reply.  The callback is assumed not to raise.  The handler may make a call on the
same channel (`Nested`), which registers and sends on the pump's thread and waits there for a
reply that nobody reads: the timeout or `close()` ends it.  Then the handler returns
an object or raises.  Other threads of the application in `send()` are not modelled.
msysd's first record is a welcome, and it sends no second one.

### PublicCall

Each call has a stream of its own.  A line is its symbols and a newline; a symbol tells which line
it is of, so that a piece of one line joined to a piece of another is not taken for either.
msysd begins a line (a welcome, an answer to this or another id, an error, an empty line; up to
one symbol over the limit), writes some of it at a time, reads the request and may close at
any moment.  `recv()` takes what is there, as much as the code asks for.  The two readers
are modelled each as it is: `public_call()` reads until the text ends with a newline and counts
it, the other until there is one, and drops what follows.  `Own` and `IdsDistinct` are about
PublicMipcClient; `public_call()` always has the id 1 and accepts any answer, so of it
`Own` only says that the answer is a line that msysd wrote.

### Manifest, WindowIdentity, Layout, ScrollPage and AppStart

*Manifest.*  A writer tests, makes a temporary file, writes it, replaces the destination and
removes what is left; each step on the file system may fail, the removal included, which ends a writer
in "stuck", and a writer may be killed at any place.  Of a manifest the files have the lengths of its two names.  `Declared` is what
`create_application_manifest()` decides for everything a developer may leave out.

*WindowIdentity.*  A thread goes through `configure_tk_window_identity()` and
`_write_x11_identity()`: the mark, the window, the flush of Tk's connection, then under
the lock the handler, the query for the wrapper, the requests, the synchronisation, the old handler.
A request is queued, and its error comes to whatever handler is installed at the next call that
waits for the server.  Windows may be destroyed by others at any time, and an error of another connection
may come while the handler is installed.  The names are lengths; what `_clean()` cuts
off is seen in them.  The three properties are one request.

*Layout and ScrollPage.*  Tk delivers events in order, each with the width or the view of the moment it was made.
The canvas tells the content and the label its width, the content its height to the
scrollregion, the canvas what it shows to the scrollbar, and the scrollbar takes its width from
the canvas.  When the label is destroyed its binding is removed and, as in older versions of tkinter, that of Python 3.10
among them, perhaps those of the page with it.  Text is as high as its characters divided by the wrap, cards as their rows.  A pointer
goes down when the page has settled.

*AppStart* puts them behind each other, since that is how they depend on each other: what is in the file
becomes the environment, the environment the identity, and a window is there before
its page is.  Two guards in it are bounds and say so: an application starts when at most one writer has
begun, and the page is looked at after one start by hand.

### InputMethod

Tk's thread runs one event at a time; `hide()` and `close()` take several steps,
as they read `_desired` without the lock or make a role call.  A request is a
record of visibility and mode.  The worker is a thread that is started when
`_worker_running` is false.  The provider gets the requests in the order they were
sent (`calls`) and `replied` is the one it answered last; `ack[t]` counts how many more it must answer before the call of
thread *t* is.  A call that timed out stays in `calls`.  A refusal (`Refuse`) is one of
two things: `call()` of a component channel raises it, and the worker forgets the request; `MsysClient.call()`
returns the error record like any other (`client.py:318`), and the worker takes it for success.
`_last_error` and `on_error` are reports only and are left out.

### StdioBridge

A record is a number, and 0 is what is not one JSON object within the limit.
The child closes its descriptors ("exiting") a moment before it can be waited
for ("exited"); it leaves no process behind that holds them.  A pump has the lock of
its stream while it is in a read or a write, which `close()` of that stream needs.
`_results` holds the names of the sources; that of a malformed line has a name of its
own, "child-malformed", to tell it from an OSError.  The control descriptor
towards msysd holds `ControlCap` records, and `sendall()` blocks in it until msysd reads, the descriptor is
shut down, or the system fails the call.  `main()` of the module only parses arguments and
forwards signals to the child, which the model sees as an exit.

### AppShell

Tk's thread (`ui`) runs one event, timer or idle callback at a time; `back` is where it
returns to from `close()`, which may be called in the middle of `_poll_messages()`.
The queue of messages, the timer of the poll, the idle callback of
`activate_lifecycle()` and the focus check are variables.  The worker is that of
InputMethod, over a `ComponentChannel`, of which the module takes only what the channel
runs show: the end is told once and last (`told`), and a call ends by an answer or an
error.  An application's `handle_message()` may call `close()`; it is assumed to
return and not to raise.  `focus_get()` raises only when the window is gone, and an editor
is attached once.  Widgets, styles, fonts and images are left out.

### MipcJson and MipcC

Text is a sequence of tokens, named as in the grammar of JSON, so that white space and the spelling of strings and
numbers are left out; what a string or a number contains is looked at one
character at a time, in operators of their own.  `Skip` is the recursive scanner with its
two loops and its depth, `Find` the search, `GetU64`, `GetString`, `EscapedLength` the
rest.  In `MipcC` msysd writes a record one token at a time; beside it runs an automaton
that knows the grammar and notes which members of the outer object are complete.
It shares nothing with the scanner and is what `FieldsTrue` compares it with.  The scanner is a recursive function
from a place, to what is scanned there, to the depth: as every call is made further on in the text, the induction
of its proof is on the place alone.  A zero-length
record, keys spelled with `\u`, and calls interrupted by a signal (they are made again)
are left out.

### I18nTypes, I18nPython, I18nC and I18n

A locale is a sequence of subtags, which differ in length and kind of characters, and
normalization gives each a role (language, script, region, variant), which stands for the
letter case.  A plural rule is a sequence of forms with the sets of numbers that take them, in the
order the code tries them.  The two modules are translated each from its own source, so
what they have in common is a result of the comparison.  White space inside a locale is part of a subtag, of which C
reads the beginning (`Beginning`).  Beyond `MaxPlaceholder` Python has a "ValueError" in the place of a category or a message.
Spaces around a locale, an encoding or a modifier are left out, and so is the sampling of the environment;
a locale is of ASCII and has no more than the 63 characters that C takes.
(The environment is where the sources differ in what they skip: C an empty
value, Python a blank one as well.)

## 3. What is checked

Each run is a question; the bounds are in its `.cfg`.

| run | properties | instance |
|---|---|---|
| `client_calls` | IInv (TypeOK, NoLeak and others), NoStrandedCall, TimeoutHonest, ImplementsRpc | two callers that also send, one closer, two ids, two records of msysd (replies, also late and duplicated), three pieces of work |
| `client_recv` | EndTrue (OneLastRecord, QueuedTrue, ReportsTrue), WireOrder, RunDeliversAll; TerminationEnds (liveness) | one closer beside one caller and one consumer, with two records (replies, events, empty objects, shutdown) and two pieces of work; or beside two callers, one of which also sends, into a socket with room for one record, with one call and no record of msysd (`Apart`) |
| `client_shutdown` | ShutdownTold: violated | as `client_recv`, with shutdown records only |
| `channel_calls` | IInv (TypeOK, ItemsTrue, OneAnswer and others), NoStrandedCall, EndTold, ImplementsChannel; CallsEnd, CallsAnswered, PumpEnds (liveness) | the handshake, one caller and the pump's own calls, one closer, two records of any kind, a call handler, three pieces of work |
| `input_requests` | IInv (TypeOK, OneWorker, Settled and others); RequestsTaken (liveness) | two editors, two modes, two worker threads, two requests on their way |
| `input_close` | HideOrdered: violated | one editor, one mode |
| `lines` | of the bridge IInv (TypeOK, ForwardedInOrder and others), ChildGone; ClosedOutputFails, RunReturns (liveness) | two lines, two records of msysd, pipes and a control channel of one record |
| | of the public clients PublicInv (PublicTypeOK, IdsDistinct, Own, OneLine and others), AnswerRead; CallEnds (liveness) | one `public_call()`, two threads of a PublicMipcClient, two lines of up to three symbols at a limit of two, one stream at a time |
| `bridge_malformed` | MalformedFails: violated | one line, one record |
| `app_shell` | IInv (TypeOK, OneWorker, Settled and others), NothingAfterEnd; EndCloses, EarlyFocusServed (liveness) | one editor, one mode, two worker threads, one request on its way, one message besides the last |
| `app_start` | FilesTrue (FileTypeOK, DestinationWhole, NoLitter, DeclarationsTrue, OwnFile), IdentityTrue (IdentityTypeOK, HandlerKept, MarkTrue, ErrorsExplained, DeclaredShown, OneHandler, WriteOK, AskedOK), PageTrue (PageTypeOK, InReach, EventsTell, DragTrue, ColumnsFit); Settles (liveness) | two writers, names of up to one and two bytes with an identity of three, two GUI threads, one error of another connection, screens of 2 and 4 by 2 and 4 that are turned twice, a text of six characters, three cards, an `unbind()` of either kind, every combination of what a manifest may leave out |
| `page_unbound` | FillsCanvas: violated | the screens and the page of `app_start`, one writer, one GUI thread |
| `native` | of the C client FieldsTrue, Inv (IInv, which is TypeOK and Waits, NumbersTrue, StringsTrue, SendsWithinLimit), TakenWithReport, RetrySucceeds | every text of up to nine tokens over two keys, nesting of two; strings of up to four characters, numbers of up to four digits, largest number 255; records of up to three tokens, a limit of two, buffers of 0, 2 and 3 |
| | of localisation TranslatorTrue (TranslatorTypeOK, ChainTrue, Resolved), RequestsAgree (LocalesAgree, RulesAgree), MessagesAgree, RendersAgree | every locale of up to four subtags (25 to begin with, nine to go on), two of them with white space inside, 13 locales that are asked for, every template of up to five tokens, every catalog of three locales and three keys, all numbers of eight bits, 119 being the largest that Python takes, one diagnostic kept |

Why these bounds are enough for the interesting cases:

* One-place buffers (`OutCap`, `PipeCap`, `ControlCap`) make a sender block with the lock held
  after one record.  In `client_recv` a thread sends a record, the same one or another blocks with the
  next, and whoever is left waits for the lock behind it.
* `MaxId` bounds the ids that calls may begin with; as callers pass the test
  together, one more id than `MaxId` is handed out when there are two of them.
  With a second id a late reply can meet a newer call.
* `MaxWire` = 2 lets a reply be followed by a duplicate, by shutdown or by an
  invalid record; end of file, a reset and a failing send need no record.
* `MaxWork` bounds the sum of the ids handed out, or about to be, and of the records msysd
  sends: more calls with fewer records and the other way round, but not both at once.  After
  `close()` a call may begin without it, as it only finds the client closed.
* One thread in `close()` is enough: in the client the reader and a failing send terminate
  beside it, on the channel the pump fails the calls beside it, and its own call
  waits beside that of the caller.
* Two requests of the input method on their way let the provider serve an older one after a newer
  one was sent.
* A line of `PublicCall` at the limit has two symbols, one above it three, so that a line is
  read in pieces at every place.  Streams share nothing, so one is open at a time (`MaxOpen`);
  what the threads share, the ids, is drawn under a lock before.
* Two lines let a good one follow a malformed one.
* In the shell one editor is focused, touched, left and destroyed in every order; two editors
  are what `input_requests` has.  One message before the last can close the window, or
  follow the last one.
* Names of one and two bytes with a separator are four, one more than an identity has: they are cut as
  128, 1 and 64 bytes are at 192.  Two GUI threads install and restore the error handler in any
  order.  On the screen of 4 by 4 the page fits without the scrollbar and does not with it, on the
  others it does not fit, and when the label is gone the cards fit on some with the scrollbar as well.  A pointer
  may go two or three units, the threshold being two, and come back.
* Nine tokens are enough for a member behind another member, for an object in an array in the outer
  object, and for one level more than `MaxDepth` allows.  255 has its overflow
  at the third digit and at a fourth; the test does not depend on the width.
* The numbers of `RulesAgree` contain every last digit, and the last two digits from 0 to 99; the
  smallest has no negative of its type.  `MaxPlaceholder` = 119 below `IntMax` = 127 leaves some on both
  sides that Python refuses, as 2^53 - 1 does below 2^63 - 1; of the three in `Count` 122 is one.  After the first subtag of a locale one
  of each kind is enough, since the code looks at the kind only, and at `pt`.

Three runs have parts that share no state, or threads that are not needed at the same time.  In `lines` and in `native` each behaviour has
one part that begins and another that never does (`LineSpec`, `NativeSpec`); as neither reads or writes a variable of the other,
a behaviour in which both go on adds nothing.  In `client_recv` no thread sends while or after a consumer
acts, as far as that can be told from the state, and no record comes from msysd meanwhile (`Apart`, a constraint); what it takes away are
choices of the application and of msysd.

Symmetry is used in `client_calls` only, over the callers, which nothing
distinguishes there.  Deadlock is checked in the client
and channel runs, where the environment always has a step left until everything
is closed, and then somebody may still call and be refused.  It is off for the
input method (a closed window with nothing on its way stops), for the bridge
(`run()` has returned), for `lines` (the same, or all calls are done), for the shell (the window is gone),
for `app_start` (the page has settled) and for `native` (a locale that is spelled to the end).

### Fairness

Weak fairness of each thread's steps, because operating-system threads are
scheduled.  In the shell Tk's thread is fair within a callback, and a timer that is due and an idle
callback have strong fairness: Tk serves them between events, however many
events there are; events themselves need not happen.  Its role calls time out by their own timer.
In the other modules nothing is assumed of what an application, a timer or msysd does: a call
never has to time out, msysd never has to read, reply or close, the child never has to
exit.  Two timers are steps of a fair thread, since the code itself returns to its
loop after them: the one second of `receive()` in the pump, and the polling of the
bridge (0.05 s, 0.15 s and 1.5 s).  A thread in a `sendall()` that is full (`Blocked`, in the client and in the bridge) is not
fair: the system may fail the call, but need not.  Locks need no strong fairness: a lock is held for a bounded
number of steps of a fair thread, except `_send_lock`, which may be held for ever
while msysd does not read; the end of the socket frees it.  `client_recv` has a thread blocked in `sendall()`
and one behind it, with calls that are bounded, so it shows that both are freed, and not that
somebody who waits for the lock gets it among others who come back for ever.  `ClosedOutputFails` is
said of behaviours in which the output pump of the bridge is again and again not blocked
(`[]<>~Blocked`): the pump sees the end of the output behind the lines before it, so msysd must read those.
`RunReturns` needs no such thing.  In `PublicCall` the steps of a caller are fair, with its timeout,
since both readers set one on the socket; msysd promises nothing.  In `AppStart` only the
delivery of events by Tk is fair, which its main loop does; the user promises nothing.  Where a run keeps a thread or a
part from beginning, it takes away choices that have no fairness, and what has not begun has no step that must be taken.

### What some of the properties say

* `NoStrandedCall`: the table is drained under another lock than the one that sets
  `_closed`.  A call that tested `_closed` just before must be in the table when it
  is drained, which holds because the test and the registration are under
  `_pending_lock`; without it (mutant `NoLock`) the call waits for nobody.
* `TimeoutHonest`: the second look at the waiter, under the lock that the
  dispatcher holds when it delivers.  ComponentChannel has no such look; nothing says it has.
* `ImplementsRpc`: the refinement mapping counts a call as begun from the moment it holds
  `_pending_lock` with the client open (the test of `_closed` is then past) until it
  has its outcome, and takes the id it is about to draw as drawn.
* `ImplementsChannel`: close() and the end of the pump both empty the table and fill what they took later, in any order.
  `Channel` says which call each of them fails: `Lost` are the calls that wait with nothing yet when the pump empties the
  table and that close() had not taken.  They are told why the pump ended; a call that begins afterwards is not,
  since the pump leaves `closed` alone.  With a failure that names the last cause whoever fails (mutant
  `LastCause`) a call that close() ends is told of an end that never came.
* `ItemsTrue`, a part of the channel's `IInv`: the pump looks the waiter up under the lock and fills it later.  A
  waiter that belongs to a call that is over is filled in vain; it is never another call's.
* `Settled`: coalescing drops requests, and a failed one is forgotten; when the worker
  ends, what the provider answered last is what is desired.  What it says of a failure is of calls
  that raised: an answer that `MsysClient.call()` returns counts, whatever it says.
* `EndTrue`: the record of the end that is queued is the one of the reason the client has
  for good, whichever thread was first (`QueuedTrue`).  What `recv()` makes up when the queue of a closed
  client is empty is less: it calls a shutdown an end of file too, but never an error, and nothing else an error (`ReportsTrue`).
  `ShutdownTold` is what the tests expect beyond that, and it is violated (section 5).
* `TerminationEnds`: who waits for an answer, and `run()`, are ended by the termination itself.  Who is in `sendall()`, who waits for
  `_send_lock` behind it, and the reader are ended when the socket goes (`SocketGoes`), which the reader and `close()` see to;
  after a send that failed with the socket open it takes a `close()` or msysd.
* `NothingAfterEnd`: messages are left in the queue when `close()` runs inside the poll;
  the loop must be left at once, also when the handler of an earlier message closed.
* `EarlyFocusServed`: a focus event before there is a channel is dropped, and only the
  idle callback makes up for it.
* `AnswerRead`: if what msysd wrote on a stream is a welcome and an answer, each within the limit, then
  the call ends with that answer, unless the socket fails or the time is over, however the
  lines are split and joined.
* `HandlerKept`: an X error that belongs to an identity never meets the default handler, which
  ends the process; it holds because the synchronisation with the server comes before the old
  handler is restored, and because the lock is kept from the one to the other.
* `OneLine`, a part of `PublicInv`: while msysd does what it should, what was read, what is in
  the socket and what msysd has still to write are, put together, the rest of one line, and the
  client has no newline of it.
* `MarkTrue`: a mark is written before the requests are known to have succeeded and is believed at
  the next call.
* `Settles` and `InReach`: width, height and scrollbar form a circle of events, each of which may be late.
  It ends because a narrower canvas never makes the content lower, so that a scrollbar which
  appears stays; at the end the scrollregion has the height of the content, and what is below can be scrolled to.
  That the content has the width of the canvas is said as long as the page has its binding; `FillsCanvas` says it always,
  and is violated (section 5).
* `NoLitter`: a temporary file stays only where a writer was killed, could not write it ("torn") or could not remove it ("stuck").
* `RetrySucceeds`: what `mipc.h` says of a buffer that is too small.
* `MessagesAgree`: one side filters the chain when the locale is set, the other walks up at each
  call; they agree because a catalog's default has every key.  Where Python raises, for a number beyond
  `MaxPlaceholder`, C has a message; a locale with white space inside is for Python as none.
* `TranslatorTrue`: a translator is used for many calls of `set_locale()`, and its chain is filtered once for each.
  It is always the chain of the locale that was asked for last, with the parents the catalog has and the default.
* `FieldsTrue` is about every text, JSON or not.  What is found in it is the first
  complete member with the key of the outer object, and never one of an object inside it; "not found" is said
  only of a text that is one object within the limit.
* `RequestsAgree`: the same locale written the same way (`LocalesAgree`) and counted by the same rule
  (`RulesAgree`) on both sides.  The exceptions are in the formulas: for a locale with white space inside Python finds
  none and C what both find in its beginning; for a number beyond `MaxPlaceholder` C has the category that the rule of Python
  gives its magnitude, and Python raises; Portuguese of Portugal with a script or a variant is left out of the rules.

Where a run checks several invariants of one state under one name (`IInv`, `Inv`, `EndTrue`, `FilesTrue`, `TranslatorTrue` and others), each has
a definition and a comment of its own.

Each property has a mutant: a definition of the module replaced by a mistake the
code could have, under which TLC finds the property violated.

## 4. What is proved

Each theorem is about `Spec` (`PublicSpec` in `PublicCall`, `TranslatorSpec` in `I18n`) and holds for any sets of threads, editors, windows and capacities, finite
or infinite, and any values of the bounds, from the named assumptions of its module and nothing
else.  The assumptions say that the kinds of threads are distinct and that `Free`, `Nobody`,
`Default` and `Destination` are none of them, that bounds and limits are natural numbers (some of them not
zero), that "none" is no mode, that a key is none of the structural tokens, that the kinds of subtags are
disjoint and contain what the code compares with, that the two languages catalogs are written in differ, that there are keys of messages and each is the base text or a plural
category, that a number is one of the C type, and that the screens have a least width and a greatest height, where
a page begins.  TLC evaluates them in the runs.  The specifications of the runs imply it: they add fairness, choose
who acts, or have a step of one part leave the other as it is; so the theorems hold for them as well.

| module | theorem | statement |
|---|---|---|
| `MsysClientProofs` | `TypeCorrect` | Spec => []TypeOK |
| | `Inductive` | Spec => []IInv |
| | `NeverStranded` | Spec => []NoStrandedCall |
| | `HonestTimeouts` | Spec => []TimeoutHonest |
| | `PendingOwned` | Spec => []NoLeak |
| | `Refinement` | Spec => R!Spec |
| | `RecvInductive` | Spec => []RecvInv |
| | `EndToldTruly` | Spec => []EndTrue |
| | `InWireOrder` | Spec => []WireOrder |
| | `RunTakesAll` | Spec => RunDeliversAll |
| `ComponentChannelProofs` | `Inductive` | Spec => []IInv |
| | `NeverStranded` | Spec => []NoStrandedCall |
| | `AnsweredOnce` | Spec => []OneAnswer |
| | `EndIsTold` | Spec => EndTold |
| | `Refinement` | Spec => ImplementsChannel |
| `PublicCallProofs` | `Inductive` | PublicSpec => []PublicInv |
| | `AnswerTaken` | PublicSpec => []AnswerRead |
| | `OwnAnswers` | PublicSpec => []Own |
| `InputMethodProofs` | `Inductive` | Spec => []IInv |
| | `NeverTwoWorkers` | Spec => []OneWorker |
| | `RestsSettled` | Spec => []Settled |
| `StdioBridgeProofs` | `Inductive` | Spec => []IInv |
| | `InOrder` | Spec => []ForwardedInOrder |
| | `NoChildLeft` | Spec => []ChildGone |
| `AppShellProofs` | `Inductive` | Spec => []IInv |
| | `RestsSettled` | Spec => []Settled |
| | `NothingHandledAfter` | Spec => NothingAfterEnd |
| `AppStartProofs` | `ManifestWhole` | Spec => []FilesTrue |
| | `IdentityShown` | Spec => []IdentityTrue |
| | `PageShown` | Spec => []PageTrue |
| `NativeProofs`, of `MipcC` | `Inductive` | Spec => []IInv |
| | `TakenTold` | Spec => TakenWithReport |
| | `RetryBrings` | Spec => RetrySucceeds |
| | `ClientCorrect` | Spec => []Inv |
| | `FieldsFound` | Spec => []FieldsTrue |
| `NativeProofs`, of `I18n` | `TranslatorCorrect` | TranslatorSpec => []TranslatorTrue |
| | `RequestsTheSame` | TranslatorSpec => []RequestsAgree |
| | `MessagesTheSame` | TranslatorSpec => []MessagesAgree |
| | `RendersTheSame` | TranslatorSpec => []RendersAgree |

Every invariant and every action property of the passing runs, and both refinements, are stated by one of these
theorems or are a part of the invariant of one.

In each module the inductive invariant was checked by TLC before it was proved, and is one of the
properties of its run (`IInv`, `PublicInv`, `FilesTrue`, `IdentityTrue`, `PageTrue`, `TranslatorTrue`), with two exceptions: of `RecvInv` of the
client the run checks the consequences, and `SyntaxTrue` of the C library has a bound variable that is a run of an automaton, for
which TLC would have to try every sequence of its states.  A property that is stated alone in a run as well is either a conjunct of that
invariant or follows from it, which the theorem says.

### MsysClient

`NoStrandedCall` is not inductive: that a waiting caller has an item once the table is drained
follows from what was true while it was not.  `IInv` adds

* `LockHeld`: who is at "register" is who holds `_pending_lock`; so `Drain`
  cannot happen between the test and the registration;
* `IdsInCalls`: a caller has an id exactly from registration to the end of `finally`;
* `ClosingOrder`: who drains or posts does it for the reason that stays (only
  the first thread in `_terminate()` gets so far), and after the drain the table is empty
  and nobody registers;
* `Served`: a call that has no outcome is registered or has an item;
* `SlotsTrue`, `RepliesTrue`: an item is the answer to that request, which msysd gave,
  or the reason of the termination; likewise replies in the kernel and in the reader's hand.

`IInv` is checked by TLC in `client_calls` as well.  The type invariant is proved first, in
four lemmas (places, calls, records, wire), each with a step per action; then the
rest of `IInv` with one lemma per kind of thread.  The refinement has a lemma for
stuttering steps, one for the steps that end a call, and one that the outcome
is among those `Rpc` allows, which is where `Served` and `SlotsTrue` are needed.

`NoLeak`, which `PendingOwned` proves, is checked by TLC as a part of `IInv`.

`RecvInv` is about the records: the last one is queued once, or is still to be queued by the one thread
that was first in `_terminate()` (`EndOnce`), the reason is known before it is told (`EndKnown`; a shutdown may be told as an end of file while its record
is still to be queued, which is why `EndToldTruly` says no more), and
the numbers of the records grow along the way from the kernel through the reader's hand and the queue to the
consumer (`Numbered`, `Ordered`).  `RunDeliversAll` follows with `NothingBehind`: when the reader ended the
client, the last record is the last in the queue.

### ComponentChannel

The danger is `_fail_pending()`: ids leave the table under the lock and their waiters are filled after it.
`Served` therefore has a third case, that some thread in "fail" has the id in `taken`, and `IdsOwned`
says that an id is of one call only, so that a late filling is not another call's.
`ClosingOrder` is what closes the race with a call that registers: `closed` is set before the table is emptied, and
registering needs the lock.  For `OneAnswer`, `Unanswered` says that what is buffered and what the pump holds
has no answer yet; for `EndTold`, `Ending` counts how often the end was told at each place of the pump.

The refinement has a lemma for each kind of thread.  Nobody is lost before the pump ends (`NoneLost`), and it ends once
(`EndStays`).  `ChannelClear` is the step that matters: by `Served` whoever waits is registered and taken now, has an item, which by `ItemsTrue` is
an answer or close()'s, or was taken by close().  `TakenApart`, that no two threads have taken the same waiter, is
needed for `ChannelFail`: filling its waiters close() does not get ahead of the pump.

### InputMethod and AppShell

`Single` says that the workers that run are one, the last one started, and `InTurn` follows the desired
request: it waits for the worker, the worker has it, or the provider answers it last.  A call that timed out stays with the
provider, so what counts is the last of the calls that were sent (`Latest`).  In the shell the end of the channel takes the
answers away, which weakens that part to `told /\ ack # 0`, and `Mail` says that one message is the end, and
that after it `close()` is on its way wherever it was called from; `NothingAfterEnd` follows.
`HideOrdered` is false (section 5).

### StdioBridge

`Lines` relates the lines in the pipe, in the pump's hand and sent to the numbers the child gave them;
`Exits` says that every way out of the loop has waited for the child.

### PublicCall

The texts of the two readers are sequences that are cut and joined at any place.  The proof has a lemma for
each: the parts of a sequence put together are the sequence (`Splits`), what is moved from the front of
one to the end of another changes nothing (`Moves`), the text of a line has one newline and it is the last
(`Texts`).  With `OneLine` a piece that was received is a beginning of one known text: before its last symbol there is no
newline and not too much, so that the reader goes on; with the last symbol it is the line (`ReceiveFine`).
`StreamOK` is needed for what does not conform: whatever a client decodes is of a line msysd began on
that stream, and only what was written after the request was read has its id, which is `Own`.

### AppStart

`OwnFile` says in which state the temporary file of a writer is at each of its places; it has a name of its own,
so another writer cannot have changed it.  `OneHandler` says that a thread between the two changes of the error handler has
the lock and the old handler in hand; with it an error that comes at a call in the section meets the
handler of that section.  `WriteOK` and `AskedOK` follow an identity from the call to the mark.  Identity and file are
untouched by each other's steps and by the page, except at `Launch` (`NotStarted`, `Started`).

`InReach` speaks of a page at rest only.  `EventsTell` says what is true on the way there: what is out of
date has an event that waits, and of the events of a kind the last has the value of now.  A step of a handler may make the
very thing it sets out of date again (the scrollbar narrows the canvas it was made for), so the conjuncts name
the chain: the canvas tells the cards, cards and wrap the content, the content the scrollbar, the scrollbar the canvas.  The lemmas `OneMore` and
`OneLess` say what an event added or delivered does to `Waits` and `LastTells`, and there is a lemma for each handler.
That the page comes to rest is `Settles`, which TLC checks.  The page may lose its binding with the label's: from then on the
content keeps its width, which is then the width that columns and wrap follow; no other conjunct needs the canvas to be that wide.

### What recursive definitions compute

The scanner, the search, the decoders, the parsers of templates and the walks over locales are recursive functions, which TLA+
defines with CHOOSE, and the induction theorems of the library take operators, which the provers at hand do
not instantiate.  `NativeProofs` therefore begins with induction and recursion of its own, over sets and functions: a set of
numbers has a least one (`LeastNumber`, from the finite sets, which have no endless descent), so a set of numbers that contains zero
and successors contains all (`NumbersInduce`, and `DownInduce` from the end of a sequence), so that a function
whose values follow from the one before exists (`NumbersRecur`), and one whose values follow from any that are further on (`DownRecur`,
`DownRecurs`).  For each recursive definition there is then a lemma that the function exists (`...Some`), one
that reads its equation at each place (`...Is`), and an induction of the property in question.

### MipcC

`Waits` says that a record that was reported as too large for the buffer is still the first of the socket, and that its
length is what was reported; `TakenWithReport` and `RetrySucceeds` follow.

*Numbers and strings* (`ClientCorrect`).  The test before a digit is taken is the one that keeps the value within the
largest number, for every largest number (`OverflowIs`).  A string is decoded character by character; the induction goes over
what is stored, and the hard part is that a pair of surrogates is one character for the code and two in
the text (`BeforeStep`, `PairStep`).  It is stored byte by byte, so what is stored is the longest beginning of the bytes that fits, which may end within a character.

*Fields* (`FieldsFound`).  The scanner calls itself at later places only, which is not in its text but a fact about its results:
a function with its equation exists among those that move forward (`LaterSome`, `ScannedSome`), and there is no other
(`SkipsOnce`).  `FieldsTrue` compares the scanner with the automaton, which reads from the
beginning, so the proof needs

* `SyntaxTrue`, the strengthening: what the automaton is in is where a run over the written text ends;
* `ValueTrue` and `LoopTrue` for all places by induction from the end of the text (`ScannerTrue`): in whatever state the
  automaton may take a value, the scanner ends it at the place where the automaton has it complete, with the
  containers it had before, or both see that it never is;
* that members only grow (`MembersStay`), so that what is complete at the end of a value is among
  the first ones at the end of the text, and the first with a key stays the first (`FirstIs`);
* `Ruined` states, in which the automaton finds nothing more: there the answer is INVALID_JSON, or a
  member that was complete before;
* `MemberTrue` for the search, again by induction from the end of the text (`FindTrue`).

### Localisation

*TranslatorCorrect.*  `ChainTrue` alone is not inductive, since the chain is not computed from the catalog's state but from a
locale that is kept beside it; `Resolved` says which one.  The filter of the chain is followed from prefix to prefix
(`KeepsAll`), and a normalized locale always begins with a language, so that its parents are what the chain is made of.

*RequestsTheSame.*  Both normalize subtag by subtag, each with tests of its own; the kinds of subtags being disjoint, they take
the same branch.  White space is a kind that neither takes for anything (`SpacedIsNone`); C reads only what is before it
(`ReadIs`), and without any both read the same (`AcceptedAlike`).  For the plural rules a number is replaced by its magnitude, whose last digits C
computes without overflow also for the smallest number, which has no negative in its type (`Magnitudes`).  That holds for every number; that Python raises for those it does not count
(`Countable`) is said beside it.

*MessagesTheSame.*  Both are shown to return the text at the longest of the locale and its parents that has it, and of the default
otherwise: Python's as the first of the filtered chain that has it (`ChainLeads`, `LookupEnds`), C's as the end of a walk (`GoesEnds`).

*RendersTheSame.*  A place of a template is seen alike by both (`SamePlaces`), so by induction from its end Python
parses what C renders piece by piece.  C appends each piece to a buffer that may be full; what is
stored after two appends is what one append of both stores (`FittingTwice`), so the buffer ends with the beginning that fits of
what Python returns, and the length is the whole one.

### What stays with TLC

* Liveness (CallsEnd, CallEnds, CallsAnswered, PumpEnds, TerminationEnds, RequestsTaken, RunReturns,
  ClosedOutputFails, EndCloses, EarlyFocusServed, Settles): the provers do not
  reason about fairness and ENABLED.
* The four properties that are violated: ShutdownTold, HideOrdered, MalformedFails and FillsCanvas.

## 5. Findings

Each of these is a run that TLC must find violated.

1. `client_shutdown`.  `_terminate()` sets `_closed` (`client.py:232`) and fails the pending calls before it
   queues the shutdown record; in between `recv()` on a closed client with an empty queue returns `{"type": "eof"}` (258),
   also to a thread whose call has just raised MsysShutdown.  `tests/test_client.py:209` expects shutdown.
2. `input_close`.  A worker that has taken a show request makes its role call after the hide of
   `close()`; README line 281 promises an ordered hide.  The worker of `tk_app.py` has
   the same order.
3. `bridge_malformed`.  The loop of `run()` ends as soon as the child has exited and a
   result that waits is not looked at: a malformed line followed by an exit returns
   the child's own code.  README line 340 and `tests/test_stdio_bridge.py:67` say 65.
4. `page_unbound`.  In older versions of tkinter, that of Python 3.10 among them, `unbind(sequence, id)` removes every binding of the event, so a label that is
   destroyed takes the page's binding to its canvas with it (`ui_layout.py:90`), and the content keeps the width it had when the
   screen is turned.  The comment at `ui_layout.py:63` says "removes only this binding", and `pyproject.toml:4` supports Python
   from 3.10 on.

Defects met while modelling that have no run of their own; the models have the steps:

* `client.py:98-107`: a send that fails with both ends of the socket open terminates the client and leaves the
  socket open; a thread that is blocked in `sendall()`, those behind it and the reader stay there until somebody calls `close()`.
* `client.py:447`: an empty record `{}` ends `run()` with the client open, as if it were the end.
* `ui_input_method.py:263`: an error record that `MsysClient.call_role()` returns is taken for success: the request stays desired,
  `on_error` is not told, and the same request is not made again at the next focus.
* `ui_input_method.py:213` and `tk_app.py:636`: hide reads the desired request twice without
  the lock; a worker that forgets a failed one between the reads makes it raise TypeError.
* `stdio_bridge.py:194`: when the child has exited `run()` shuts the descriptor down
  while the output pump may still have lines to forward;
  `tests/test_stdio_bridge.py:57` expects the last of them.
* `i18n.py:294` and `i18n.c:334`: Portuguese of Portugal with a script or a variant
  (`pt-Latn-PT`) counts by the European rule in Python and by the Brazilian one in C,
  which compares the whole locale.  `i18n.py:193` says that the rules are shared.
* `i18n.py:198` and `i18n.c:233`: a count beyond 2^53 - 1, or below its negative, raises ValueError in Python and has a
  category, and a message, in C.
* `i18n.c:40`: C stops reading a locale at the first white space, so that `en US` is `en`, where Python finds no locale.
  A locale of more than 63 characters is refused by C only.
* `app_manifest.py:307`: a file that appears after the test of `exists()` is overwritten by
  `os.replace()` (326) without `force`, where the docstring (304) says "without overwriting by
  default".  The model has the step; `FilesTrue` says that the file is whole all the same.
* `app_manifest.py:325`: the name of the temporary file is known only after `fsync()`, so
  that a write, flush or `fsync()` that fails leaves the file behind.  `NoLitter` excepts it ("torn").
* `app_manifest.py:330`: only FileNotFoundError of `unlink()` is caught.  Any other error leaves the whole temporary file after a
  replace that failed, and hides that failure.  `NoLitter` excepts it ("stuck").
* `ui_identity.py:62`: the docstring says that the component is retained verbatim, but a package of 128
  bytes and a component of 64 are 193 with the separator, one more than `MAX_IDENTITY_BYTES`;
  both the component and the instance are cut.
* `ui_identity.py`: an environment variable that is not UTF-8 makes `_clean()` raise
  UnicodeEncodeError out of `configure_tk_window_identity()`, which is meant never to fail.
* `ui_layout.py:64`: "unsupported/destroyed widgets fail quietly", but `_tkinter.TclError`, which Tk
  raises for a destroyed widget, is none of the exceptions that are caught.
* `client.py`: `public_call()` counts the newline, so that it refuses an answer of exactly 256 KiB
  that PublicMipcClient accepts; it takes any first line for a welcome and any second for its
  answer.  PublicMipcClient drops what follows the first newline it reads.  Each `recv()`
  of both has the whole timeout again.

The two of the bridge also show on the program itself, with a child that prints and exits
at once, in some of a few dozen runs.

## 6. What is not modelled, and why

* In the C library the members of the records that are sent; in localisation the reading of
  catalog files and `package_i18n.py`.
* In the Python modules the content of records and its limits: a record that does not decode is
  one kind of record.
* `_last_error` and `on_error` of the input method, which only report.
* A callback of `run()` or of the channel that blocks or raises, a thread that cannot be
  started, a child that leaves its descriptors to a process of its own.
* The patterns a manifest's names, commands and texts have to match, and its command line.
* The wheel, the position a page is scrolled to, and the Qt helpers, which set properties
  once; content that is higher on a wider canvas, which would never settle.
* The selection of a font family and its sizes, styles, icons, lazy imports, the header generator
  and the examples: no state of their own that could go wrong over time.

## 7. Plan

Built first were the client with its abstract specification and proofs, the channel, the
input method and the bridge, since they have the concurrency; then the shell, the C
library and localisation; then the public calls, the calls a handler makes on the pump's thread,
and the way of an application from its manifest to a page; last an abstract channel, as `Rpc` is for the client.
What is left to model is an `AppShell` that uses `Channel` in the place of its own summary of it.

Every safety property of the runs is proved; no proof is left to add for what is modelled.
