# Verification of the Python Runnable agent

This directory holds TLA+ models of `codefly-dev/runnable-python`, the TLC runs
that check them on small instances, and TLAPS proofs of the theorems that hold
for every value of the constants. The repository has two programs in it:

- the **harness** (`pkg/harness/codefly_runnable`, Python), generated into
  every Runnable. It is an HTTP server that calls the author's handler and owes
  its caller answers that *prove* something about the handler's effect;
- the **Builder agent** (`pkg/agent` with `pkg/generate`, `pkg/prepare`,
  `pkg/pack`, Go), a gRPC service that scaffolds a Runnable, prepares a
  snapshot of it and packages that snapshot with evidence of what was built.

`runner.py` below is `src/pkg/harness/codefly_runnable/runner.py`.

## Inventory

| Component | State | Operations | Shares with | Hard because |
| --- | --- | --- | --- | --- |
| Calls and slots (`_Calls`, `_Slot`, `do_POST`, `_run`) | `_active`, `_stopping`, each slot's `_holders`, `produced` | admit, hold, release, `_free`, stop, drain | the request's thread, the handler's thread, the main thread | two threads let go of one slot in either order; a deadline races the handler; a drain races admission |
| Connections (`_Server`, `Handler`) | `_open` (an ordered dict to "idle"), the `readers` semaphore, `_reading`, `close_connection` | register, claim, idle, `shutdown_request`, the loop of `handle_one_request` | one thread per connection and the accepting thread; asks Calls for a slot | eviction races a request beginning; a dozen ways for a request to end, each owing a reader and a slot |
| Diagnostics (`_Diagnostics`) | `_queue`, `_dropped`, `_closing` | say, `_write`, close | every thread says, one writes, main closes | a stream nobody reads; the count is taken while others are counting |
| Signals and serving (`main`) | the `stopping` Event, the server's shutdown request | stop, `server.shutdown` on a thread, `serve_forever`, exit | calls `_Calls.stop`; precedes the drain | handlers run between any two bytecodes, of each other too |
| Framing (`_framing`, `_read`, `read_call`, `header`) | none | checks in an order, each with its status | before admission and under the decoding lock | order of refusals, numeric edges |
| Deadlines (`read_call`, `_run`, `_Input`) | `deadline`, `budget` | one instant per request; a budget per call | clock | two clocks, time passing between measuring and spending |
| Payload schema (`schema.py`) | none | `parse`, `validate` | both ends of a call | recursion, no coercion, types Python does not keep apart |
| Builder (`agent/builder.go`) | `runnable`, `prepared`, `build` in memory; source, snapshots, archives on disk | Load, Create, RunnableBuildInputs, Package | generate, prepare, pack; the disk with authors and other processes | any step fails half way; files change between measuring and archiving |
| Generate, prepare, pack, recipe | the disk | scaffold, generate, lock, copy, install, measure, archive, copy again | called by the Builder under its mutex | partial results; links: of authors, of interpreters, in the spelling of every directory |
| Contract document (`contract.go`, `contract.py`) | written by one program, read by the other | generate, encode, load | the declaration; the harness's start | what the writer omits the reader has to supply |
| Typed bindings (`types.go`) | the names given so far | render, allocate | the declaration; the handler's author | distinct paths that come to one class name |
| Configuration digest (`pack.go`) | none | canonicalise, hash | the declaration; the build's evidence | order and defaults must not count, everything else must |
| Agent surface, handler context | none | an advertisement, a record | | |

How they interact: a connection's thread reads a request under a *reader*,
asks `_Calls` for a *slot*, decodes under the slot, gives the reader back, runs
the handler on a second thread that holds the same slot, answers, and lets the
slot go. A signal closes admission, ends the accepting loop, and the main thread
waits for the slots before the process exits.

What makes each correct:

- *Calls*: no slot leaked or freed twice; never more author code running than
  declared; a clean exit misses nobody; an answer never claims more about the
  effect than is so; everything admitted ends.
- *Connections*: readers conserved; nothing is read without one; only idle
  connections are evicted, longest idle first; every begun request ends.
- *Diagnostics*: nobody waits on the stream; no message vanishes uncounted.
- *Signals*: a signal leads to the drain, which begins after admission closed.
- *Framing and deadlines*: no byte of one request is read as another; a request is
  answered once, and its peer not told to go on and then refused for its framing; a
  handler runs only under an instant still ahead, and is given up no sooner than the
  instant it was told.
- *Builder*: the package is what was measured; the snapshot belongs to the
  declaration; nothing earlier is overwritten.
- *Files*: nothing is written outside the Runnable and the output, but for what three
  files at the Runnable's top lead to; what is measured is what is archived; the package
  works where it is extracted.
- *Declaration*: the harness enforces, and the bindings say, what was declared;
  the digest changes exactly when the configuration does.

## Modules

| Module | Models | Checked by |
| --- | --- | --- |
| `Admission` | the promise of `_Calls`, without threads or locks | refined by `Calls` |
| `Calls` | `_Calls`, `_Slot`, `do_POST` after the body arrived, `_run`, `_answer`, drain, exit | `MCCalls.cfg` |
| `Connections` | the registry, the readers, the connection thread's loop | `MCConnections.cfg` |
| `Request` | one connection's requests: framing, `read_call`, the budget against a clock | `MCRequest*.cfg` |
| `Buffer` | the promise of `_Diagnostics`, without threads or locks | refined by `Diagnostics` |
| `Diagnostics` | the bounded queue and its writer | `MCDiagnostics*.cfg` |
| `Shutdown` | nested signal handlers up to the drain | `Shutdown*.cfg` |
| `Release` | the promise of RunnableBuildInputs and Package, without the steps of a call | refined by `Builder` |
| `Builder` | the four calls of the agent over a shared disk | `MCBuilder*.cfg` |
| `Paths` | a disk with links; `Resolve`, `Within`, `Confine` | with `Files` |
| `Files` | scaffold, generate, prepare, archive and image recipe, as what they do to a disk | `MCFiles.cfg` |
| `Payload` | declared fields, what the document leaves of them, the harness's validators | with `Declaration` |
| `Bindings` | the generated `codefly_types.py` and its execution | with `Declaration` |
| `Digest` | `ConfigurationDigest`, which sorts, defaults and hashes | with `Declaration` |
| `Packages` | from a declaration to its document, bindings, digest and the running contract, for any schemas | with `Declaration` |
| `Declaration` | `Packages` with the schemas of `Payload` and the classes of `Bindings` | `MCDeclaration.cfg` |
| `CallsProofs`, `ConnectionsProofs`, `DiagnosticsProofs`, `ShutdownProofs`, `RequestProofs`, `BuilderProofs`, `DigestProofs`, `PackagesProofs` | the theorems about the module each is named after | tlapm |

`MC…` modules only name model values, small sets and symmetry. Each operation a
plausible bug could sit in is preceded by a variant that has the bug; nothing
uses the variants but the mutation runs, which replace the operation by the
variant and expect the property to fail.

### `Calls` and `Admission`

A call has two program counters, `req` for the request's thread and `hdl` for
the handler's. A step is what a thread does under one hold of a lock, or between
two points that another thread can observe: `_Slot.release` is therefore two
steps (the slot's lock, then `_free` under the calls' lock) and so is the drain's
test and wait, which Python's condition variable makes one step with the lock
given up. `Admit` and `Refuse` are `_Calls.admit`; `Decode` is the decoding lock
held; `Hold`, `Start`, `StartFails` are `_run` before the thread; `Judge` is
`join` and `is_alive`; `Send` is `_answer`, with the code of a `HandlerFailure`
read a second time. Author code is `Commit` and `Return`: it may commit its
effect at any time while it runs, or never, and is held to two obligations
(`Honest`): it returns a result only once its effect committed, and raises
`HandlerFailure` only when none did. The table "What an answer proves" makes no
sense without them and the harness cannot check them.

The abstraction `inside` of `Admission` is the set of occupied slots. The
refinement says that, counted this way, a call enters only while admission is
open and the limit is not reached, is refused only for one of these two reasons,
and that the process ends cleanly only with nobody inside.

### `Connections`

A connection has one thread, `at`. `open` and `idle` are the registry's dict and its
values; `waited` is a history of the order connections fell idle in. The slot of a call
is a bit of the connection (`held`), and a handler that was answered at its deadline and
runs on is a `stray`. `Oldest` is the connection that `register` evicts, if any;
`RemoveFirst` is taking a key out of the dict. Every deadline of the code (idle, request
read, call budget, write stall) is an action that may fire at any moment its wait is
open. A `closed` connection may be accepted again: the model's sockets are recycled like
descriptors.

### `Request`

One connection, one request after another, against a clock that ticks between any two
steps. A request is what its peer sent: the header lines that frame it, in the order the
parser meets them, and the body that really follows. `Framing` is `_framing` with its
checks in their order; it is asked twice, as in the code, once when a peer waits for
leave to send (`HeadArrives`, `handle_expect_100`) and once before the body is read
(`Frame`). `TakeDecoder` and `Decode` are `read_call`: the budget is measured when the
decoder is free, the handler's instant after decoding, and `Start` begins the wait of
`_run` later still. Whether a reader or a slot is free is any answer here (`Begin`,
`Admit`): `Connections` and `Calls` have who holds them. A request begun on a connection
that was evicted meanwhile is a third answer to `Begin`: it ends unanswered (`claim`).
An answer that cannot be rendered, because its text has no UTF-8, raises instead of
being written (`Answer`, "unrendered"). Only the framing is judged before a peer is told
to go on: the Work Context and the deadline are read by `read_call`, so such a peer may
send its body and then be answered `400`, and the instance has such requests.
`RequestsAssumption` is what a request is: bytes after a body whose length all framing
lines give are the next request and not part of this one, and a head whose stream ended
has none. The caller's clock and the harness's are one clock.

### `Diagnostics` and `Buffer`

`accepted`, `done` and `mark` are histories. The writer's `Write` has no
fairness: the stream may never accept another byte, and the properties hold
regardless. In `Buffer` a message is offered once and is taken or counted as lost in
the same step; the code does the second later and under another lock, so `lost` is what
is counted, what is about to be, and what close took of the count. What waits is what
the writer has in hand and what is queued, one more than the capacity at most.

### `Shutdown`

CPython runs signal handlers on the main thread between bytecodes, so `frames`
is a stack and only its top moves; the main thread's own code moves when the
stack is empty. `Event.set` is three of the handler's steps because a signal may
arrive while it holds the Event's lock. `serve_forever` and `shutdown` are the
standard library's, modelled from how `main` uses them.

### `Builder` and `Release`

`rpc` is the call that holds the mutex and how far it is. Contents are version
numbers, a file's own only by whether they changed. `Measure` is what
`pack.Build` digests and `Bytes` what `writeArchive` archives: the difference
between the two is what the properties are about. `StepFails`, `GenerateFails`
and `WriteArchiveFails` end a call after any step; `Restart` is the end of the
agent's process; `Edit` is anybody else writing the source or a snapshot. An edit
always gives bytes that were not there before: a file changed and changed back
between the two measures of `Package` would be archived unmeasured, and is
listed as a hazard the model does not cover. Generated files of the source are
not edited, as their headers ask; a snapshot's contract counts among its
unmeasured files. `Release` keeps what whoever releases can see: whether there is a
snapshot to package and with what evidence, the archives, finished or not, and what
Package answered with. Every other step of a call is a stutter of it.

### `Paths` and `Files`

A disk is a function from the paths that exist to entries; a link leads to a path,
from the root or from where it is. `Follow` is what every system call does with
links, dangling ones and cycles told apart as the library tells them apart
(`ErrNotExist` or another error), since `Resolve` branches on it. A copy that fails
part way is taken to have copied all that could be copied, which bounds what it
leaves behind. Each action is one call of the agent on a disk nobody else
writes; what others do meanwhile is in `Builder`. What a package is measured over
includes the Python files of the harness copied into it, as `DigestDirectory` reads
them. The links of a runtime that lead
into its `__pycache__` dangle in the copy, because the bytecode is not copied; the
instance has none. `Executable` is what the interpreter says of itself after links are
resolved; `BundleInterpreter` refuses one that is not in its own runtime. A `WriteFile`
goes where a link at its path leads, as `os.WriteFile` does, and the harness's directory,
the handler and the archive are confined before they are written. The files that the
agent names itself at the Runnable's top (`pyproject.toml`, `codefly_types.py`, `uv.lock`)
are not: `WritesAreConfined` excepts what they lead to (`Owned`), and only that. The
declaration's own file is written by core and is not in the model.

### `Payload`, `Bindings`, `Digest`, `Packages` and `Declaration`

`Packages` builds several times in a row from declarations that core's validation
admits: it generates (`GenerateDocument`, `Render`), packages (`ConfigurationDigest`)
and starts the harness (`Load`). How a schema is encoded, parsed and rendered are its
parameters, which `Declaration` has from `Payload` (`schemaOf`, `ParseSchema`) and
`Bindings` (`Types`): these are recursive over schemas, the steps are not, and so the
steps can be proved about. The document is a JSON object, a function whose domain lacks
what Go's `omitempty` left out, and `ParseField` supplies what is missing;
`ValidateObject` and `ValidateValue` are then compared with `Admits`, which says as a
set what a declaration admits. Integers have `Width` bits, two in the instance.
`Bindings` renders the classes with the allocator's state threaded as in the code, and
`Imported` executes them from top to bottom as Python does: an unknown name raises, a
second definition replaces the first. Names are sequences of syllables, enough for
`x_item` and an item of `x` to collide. A digest is the value hashed; names are numbers,
ordered like the strings; a sort is any order that leaves no element after a greater one
(`SortedBy`), since `sort.Slice` is not stable. The handler's module and the release
identity pass through unread and are left out.

## Runs

| Run | Instance | Shows |
| --- | --- | --- |
| `calls` | 2 calls, limit 1, every outcome; fair | slots, bound, drain, the answers' proofs, the refinement with its liveness, everything ends |
| `connections` | 3 sockets, 1 reader, limit 1, none idle to spare: bound 2; fair | registry, readers, slots; a begun request ends |
| `diagnostics` | 4 messages, queue of 2; fair | nothing vanishes, nobody waits, the refinement |
| `diagnostics_count` | the same | a statement that does not hold |
| `shutdown`, `shutdown_nested` | 4 signals, 2 signals; fair | a signal ends serving, but for a nested handler |
| `builder` | 3 directories, versions up to 3 (2 edits); symmetric | packages, snapshots, leftovers, the refinement |
| `builder_nested` | 2 directories, one in the other | a statement that does not hold |
| `request` | 590 requests (every pair of framing lines; every instant, method and content, with and without waiting for leave), any after any, clock to 5, timeout 2 | framing, one reply, budgets |
| `request_length` | the same, clock to 2 | a statement that does not hold |
| `files` | disks with one of 19 oddities of the source and one of 11 of the runtime or some of the output, 3 spellings of the Runnable, 5 handlers, 7 outputs | confinement, relocation, what is measured |
| `declaration` | 68 schemas, 8 executions, 18 orders of what a configuration lists; 2 builds | document, validators, bindings, digest |

Why the bounds are enough. *Calls*: a slot has two holders and the properties relate at
most a holder, a competitor and the drain: two calls over one slot give a full house, a
refusal and a late return, and liveness needs a call and one it waits for. The safety
properties of *Calls*, *Connections*, *Diagnostics*, *Shutdown*, *Request* and *Builder*
are proved besides, for any constants: there the bounds matter for liveness, and for
showing that the interesting cases happen. *Connections*: one over the bound, so that an
accepted connection evicts one while another is busy, or the older of two that are idle;
one reader and one slot make both refusals happen. *Request*: a timeout of 2 with
deadlines before, within and past it, and a clock that outlives the queue, the decoding
and the wait; lengths at, below and above what is declared, readable and sent. *Files*:
links that lead inside, outside, nowhere, to a directory or round in a cycle, on the
handler's path, at the generated directory, among the sources, at the three files the
agent names, in the runtime, at its interpreter and on the way to the output: not each
kind in each place, but each at the places where the code treats it differently, one or
two at a time, since a step's result depends on the links of one path. *Declaration*:
every type, both flags, arrays of arrays and objects in objects; payloads just inside
and outside two-bit integers, and of every kind; two packages, since the digest relates
two. *Diagnostics*: two messages fill the queue, a third is dropped and a fourth is
being dropped while the count is taken. *Shutdown*: a third signal nests inside a
second's `Event.set`, a fourth comes after the drain began. *Builder*: a snapshot, its
replacement and a place for archives; two edits are one before and one between the two
measures. `CHECK_DEADLOCK` is on everywhere: where a program really has nothing more to
do (`Exited`, a closed `Diagnostics`, `Settled`) the module says so with a stutter.

### Fairness

Only what the platform schedules or a timeout guarantees is fair. In `Calls` each
thread's harness steps and the drain are weakly fair, author code is not: no handler has
to return, and no signal has to come. In `Connections` the steps of `OwnStep`, which
include every deadline, are fair; what takes a peer or a handler is not. `Request`,
`Files` and `Declaration` have no liveness property. In `Diagnostics` the threads that
say, and close with its bounded join, are fair; the writer is not. In `Shutdown` the
main thread and the shutdown thread are fair. `Builder` has no liveness property.

## What the violation runs show

Each checks one sentence of the repository against what the code does; the
quotations are in `PROJECT.json`.

1. `diagnostics_count`: the count of dropped messages is dropped when the queue is
   still full at close.
2. `shutdown_nested`: a second signal inside the first's `Event.set` deadlocks the
   main thread with itself.
3. `builder_nested`: a failed build inside the loaded snapshot leaves its files there.
4. `request_length`: a length of thousands of digits raises in `int()` and the
   connection ends without the 400.

Smaller ones are in the models without a run of their own. With no idle connection to
close, the registry grows past the bound `docs/protocol.md` gives (`Accept`):
connections being refused or answered hold no reader and no slot. Files no input names
change the package and not its build (`Edit` of the rest in `Builder`), where
`pack.Build` speaks of every input that changes the package bytes. Scaffolding is
documented to refuse paths that leave the Runnable (`docs/milestone_2_review_fixes.md`),
and does for the handler; a `pyproject.toml` that is a dangling link it follows, and
makes the file that the link leads to (`WriteIfAbsent`). `Generate` writes a
`codefly_types.py` through a link there, dangling or not, and uv its `uv.lock` (`Owned`
in `Files`). `copyTree` says it leaves behind what a developer's environment left in the
source (`prepare.go:132-134`), but only directories: the `.git` of a worktree or a
submodule is a file, and is copied into the snapshot and archived (`CopyTree`, with a
disk of the run `files`). An answer whose text cannot be encoded raises where it is
rendered, after the `except` of `do_POST` that would have answered, and is never written
(`Send` of `Calls`, "raised"; `Answer` of `Request`, "unrendered"); its slot does come
back (`SlotComesBack`). The drain returns slots where its docstring says handlers: a
call whose handler has ended and whose request is still writing is in the number
(`GraceEnds`). A body refused with 503 is referenced until the write ends, after its
reader was given back (`Refuse` of `Connections`).

## Proofs

Every safety property of the runs of `Calls`, `Connections`, `Diagnostics`, `Shutdown`,
`Request` and `Builder`, the three refinements among them (of `Calls`' the safety half),
and `DigestPins` of `declaration` is a theorem of its module's `Spec`, for all values of
the constants that the assumptions admit. The type invariants of `Diagnostics`,
`Shutdown`, `Request` and `Builder` are part of these proofs and no run is spent on
them. Each of these proofs has the same shape: an inductive invariant `IInv`, a lemma
for each group of actions that it is kept, `Invariance`, and what follows from it.
Hardly any of the properties is inductive by itself; below is what had to be added to
them and why. The `IInv` of the five modules after `Calls` were checked by TLC on the
runs' instances before they were proved.

| Module | From | Theorems besides `Invariance` |
| --- | --- | --- |
| `CallsProofs` | a positive `Limit`, `Author` within `Outcome` | `TypeCorrect`, `SlotsAccounted`, `ConcurrencyBounded`, `CleanExits`, `DrainWoken`, `AnswersProve`, `Refinement` |
| `ConnectionsProofs` | positive `Readers` and `Limit`, a natural `IdleRoom` | `TypeCorrect`, `ReadersAreConserved`, `ReadsAreCovered`, `ServedAreRegistered`, `EvictionOrder`, `NothingIsLeaked`; `MemoryBounded`, `SlotsBounded` |
| `DiagnosticsProofs` | a positive `Capacity`, `Count` not one of the messages | `NoneVanishes`, `WriterDrains`, `Refinement`; `TypeCorrect`, `WrittenInOrder` |
| `ShutdownProofs` | a natural `MaxSignals` | `DrainsAfterStop`; `WedgedForEver` |
| `RequestProofs` | `BoundsAssumption`, `RequestsAssumption` | `StaysInSync`, `RepliesOnce`, `WaitsTheBudget`, `TellsTheCallersInstant` |
| `BuilderProofs` | `Under` relates directories, `None` is none, a positive `MaxEdits` | `PackagesThePrepared`, `DigestsTheContract`, `PreparesTheCurrent`, `OverwritesNothing`, `Refinement`; `TypeCorrect`, `ApartEachIsItsOwn` |
| `DigestProofs` | a positive `DefaultBytes` | no `Invariance`, as `Digest` has no states; `DigestIsCanonical` |
| `PackagesProofs` | `BoundsAreNumbers`, `DeclarationsAssumption`, a positive `DefaultBytes` | `DigestsPin`; `LimitsEnforced` |

After a semicolon stand theorems that no run states.

**`Calls`.** `Call` is any set, finite or not.
`SlotAccounting` says how many slots are
held, and that each has a thread yet to let go of it, but not how many threads its
`holders` counts, so a release could go below zero; `AnswerProves` says
nothing of a handler still running whose answer is yet to be judged. `IInv`
adds, per call, `HolderInv` (the number of holders is the number of threads whose
program counter says they hold; one that frees is alone) and `AnswerInv` (what
`produced` and `answer` imply of the effect), and globally `CountInv` (the count
is the cardinality of the occupied slots, which are finite, and within the limit)
and `DrainInv` (past the signal admission is closed, nothing remaining means
nothing active, and an unnotified wait means something is). The step is proved in
two halves, a call's and the main thread's, each by lemmas about one part:
`RequestTypes … MainTypes`, `RequestHolders`, `HandlerHolders`,
`RequestAnswers`, `HandlerAnswers`, `CallCount` (over `AdmitOccupies`,
`FreeVacates`, `OthersKeepOccupied`, which say what each action does to the set of
occupied slots), `CallDrain`, `MainDrain`. `Refinement` is
`Spec => Promise!Spec`: each
action maps to `Enter`, `Refuse`, `Leave`, `Close`, `End` or a stutter of `Admission`.

**`Connections`.** `Conn` is any set. `ThreadInv` says what a thread holds (a reader, a
slot, a body) at each place, `RegistryInv` what the registry says of its connection
there, and that one still waiting without being registered has been shut; `CountInv`
that the readers out and the slots taken are finitely many and add up.
`LongestIdleFirst` needs both lists free of repetition, and is kept by lemmas about
lists (`RemoveKeeps`, `AppendKeeps`, `ReplaceKeeps`) that say who is in a list and who
before whom; no other lemma looks at places in one. The steps are a thread's between two
visits to the registry (`RequestStep`), the visits (`RegistryStep`), and the rest.
`MemoryBounded` is the consequence for `READ_MEMORY_BYTES`: no more requests are kept
undecoded than there are readers. `SlotsBounded` counts the strays.

**`Diagnostics`.** `NothingVanishes` compares counts, and a count alone does not say
what close has taken: `CloseInv` does, per place of `main`, with when the writer may
hold a message. `InOrder`, that what was accepted is what was written, what the
writer holds and what waits, in that order, makes `WriterEndsDrained` inductive:
the writer ends when the flag is set and the queue empty, so it has written
everything. `WrittenInOrder` is its consequence for a reader of the stream. `Refinement`
(`Spec => ImplementsBuffer`) needs the same two: a message put behind the queue is
behind what the writer holds too (`PutsBehind`), `Get` moves one from the queue to the
hand and shows nothing, and counting, or taking the count, moves a loss from one place
to another (`CountingIsUnseen`), which takes the cardinality of those about to be
counted. That close says its count only where something was lost is `CloseInv`.

**`Shutdown`.** The proof follows the stack: `LockInv` says that at most one handler
is past taking the Event's lock and before giving it back, and that all above it
are before; `AfterFlag` and `AfterStop` order what a stop does, so that the threads
that end the loop exist only once admission is closed. `WedgedForEver` is
`Spec => [](Wedged => []~stopped)`: once a handler waits for the lock that one below
it holds with the flag unset, admission is never closed. `shutdown_nested` shows that
such a state is reached, the theorem that nothing leads out of it.

**`Request`.** `BodyInv` says how much of the body is unread at each place, and that
past `Frame` the length announced is no more than was sent, hence (`ReadsOneLength`)
exactly what was sent: this is where `RequestsAssumption` enters, and every check of
`_framing`. `ReplyInv` has an answer counted only where the
connection is idle or closed, and an invited peer only past every refusal of its
framing: what `read_call` judges may still be answered `400`.
`TimeInv` chains the instants: decoder, budget, the handler's instant, the end of the
wait, each read off the clock no earlier than the one before.

**`Builder`.** `PackagedIsPrepared` speaks of the moment after the second measure. Up to
it versions only go up (`EditInv`), so what was archived lies between what was built
and what is there now (`ArchiveInv`), and equal measures at both ends leave one
value in between: the argument for measuring twice, and the one an edit restored would
break. `BuildInv` follows the contract from its generation into the tree,
`PreparedInv` and `PreparedIsCurrent` keep it there; that the tree being built is never
the loaded one follows from the first being incomplete and the second whole (`CopyIInv`),
whichever directories are nested. `OverwritesNothing` is an action property: each step
that writes a tree or an archive found none there. `ApartEachIsItsOwn` says that a
directory inside another is all that `builder_nested` needs. `Refinement`
(`Spec => ImplementsRelease`) adds to `ArchiveInv` that an archive about to be verified
is whole: a failed one ends its call. It maps `Load` and `Restart` to `Forget`, `Adopt`
to `Prepare`, the two ways to write an archive to `Write`, a `Verify` that finds the
measure unchanged to `Answer`, and all else to a stutter.

**`Digest`.** `DigestPins` rests on sorting being canonical, which the run checks for
lists of two. `DigestIsCanonical` says it for lists of any length, without induction. An
order in which nothing comes too late exists (`SortedExists`): put each element at the
place that is the number of those up to it, which is a bijection because it is an
injection of a finite set into itself. Two lists of the same elements have the same
orders (`OrdersOfOne`), so the sort, which depends on nothing else, chooses the same one
(`SortPins`). This is used twice, for the endpoints of a dependency and for the
dependencies with their endpoints sorted. `Declarable` has the precondition: nothing is
listed twice, and dependencies differ in module or name. `DeclarationsAssumption` takes
it of core's validation, which is outside this repository; without it the unstable sort
of two dependencies with the same coordinates may digest one declaration in two ways.

**`Packages`.** The invariant is that the document of a package and the contract of a
harness that serves are those of one declaration, the edits between builds
notwithstanding (`DocumentInv`, `ContractInv`, `PackagesInv`), and that no document
that was generated is one the harness refuses (`GeneratedIsReadable`, which needs a
positive timeout). `DigestsPin` compares any two packages ever built: `DigestIsCanonical`
for what is listed, `LimitsPin` for the limits, which the digest and the document say
differently. `LimitsEnforced` is the half of `HarnessIsDeclared` about limits; the
other half, what a schema comes to when encoded, parsed and used, the run `declaration`
checks.

Only model-checked, and why:

- liveness, which the prover cannot do: `AdmittedEnds`, `SlotComesBack`, `StopEnds` and
  the fair half of the refinement in `calls`, `RequestsEnd` in `connections`,
  `SayNeverWaits` and `CloseReturns` in `diagnostics`, `SignalStopsOrNested` in
  `shutdown`;
- `Relocates`, `MeasuredIsArchived` and `WritesAreConfined` of `Files`, and of
  `Declaration` the half of `HarnessIsDeclared` that is about payloads and
  `BindingsAreDeclared`: they are about recursive
  definitions over data (`Follow` along links, `ParseField` and the validators along a
  schema, the names' allocator, folds), and what such a definition computes for
  every input needs induction over that data, which the installed provers cannot do.

`Connections` is not shown to implement `Admission`. There a call has an identity that
enters once; a connection is used again, and its stray handler outlives the call.
`SlotsBounded` is what remains of the promise without identities.

## Not modelled

Text and bytes (rendering, hashing, HTTP syntax, JSON's spelling) are abstracted
everywhere. Not modelled at all are the agent's advertisement and the handler's
context, which keep no state; what uv resolves and installs, and the image a
Dockerfile builds, which are other programs; `_exit_now`'s bounded run of atexit
callbacks; links that change between the check of a path and its use; an offset
between the caller's clock and the harness's. The diagnostics that calls say are in
`Diagnostics` only.

## Plan

1. Done: `Admission`, `Calls`, `CallsProofs`, `Connections`, `Diagnostics`,
   `Shutdown`, `Builder`; then `Request`, `Paths`, `Files`, `Payload`, `Bindings`, `Digest`,
   `Declaration`.
2. Done: the proofs of all safety properties of `Calls`, `Connections`, `Diagnostics`,
   `Shutdown`, `Request` and `Builder`, that `Digest` is canonical, and what `Packages`
   makes of it.
3. Done: `Buffer` and `Release`, implemented by `Diagnostics` and `Builder` as
   `Admission` is by `Calls`, with proofs.
4. Left, for a prover with induction over data: `Paths` and `Files` (that `Resolve` leads
   where `Place` does, whatever the links), `Payload` (that a schema encoded and parsed
   is the one declared) and `Bindings` (that no two classes share a name).
