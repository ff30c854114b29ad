# A TLA+ model of pmprov

pmprov records the provenance of a notebook analysis: cells are rewritten so that every
call goes through `RuntimeTracker.trace_step`, which records a step, the analysis state it
leads to, and the artifacts involved, in a DuckDB (or SQLite) database.  This directory
models the parts of it where order, concurrency, aliasing and failure decide whether the
record is right, checks them with TLC on small instances, and proves some of them for every
instance with TLAPS.

Line numbers are those of files in `tracker/`.  `PROJECT.json` maps every definition to the
lines it stands for, gives every property a change of the code that breaks it, and lists the
hazards of the code with the properties that cover them.

## 1. Inventory

| Component | Code | State | Operations | What makes it correct | Modelled in |
|---|---|---|---|---|---|
| Writer thread and queue | `storage.py` 135-220, 297-316, 378-553 | `_tasks`, `_closed`, `_pending_rows`, `_flush_queued`, the writer's session | `submit`, `shutdown`, `_queue_rows`, `_flush_rows`, `_insert_rows`, `_writer_main` | what is accepted is stored, in order, newest row of a key last; exit and waiting callers end | `WriteQueue` (not the SQLite session) |
| Connection lock | `storage.py` 33-131, 322-376 | `_connect_lock`, `_readers_waiting`, open connections | `_connect`, `close`, `_begin_session`, `_end_session` | one connection at a time, lock never leaked, readers not starved | `ConnectLock` |
| State tree, checkout, replay | `runtime.py` 320-477, 514-976, `ui_interactions.py` | current state, branch, pending checkout; rows of states, steps, branches, active pointer | `trace_step`, `trace_ui_step`, `checkout`, `resume` | connected tree, forks where and only where steps differ, resumable after any end | `Branching` |
| Artifacts and bindings | `runtime.py` 1032-1309, `storage.py` 702-926 | registries keyed by `id(object)`, `_tracked`, `_bindings`, latest version per artifact | `_persist_output`, `_build_artifact_records`, `_refresh_tracked`, `_link_untouched_artifacts`, `load_artifact` | a variable of a state restores what it was; parameters, registry and links name the versions they should | `Artifacts` (not figures) |
| Rewriting and step operations | `ast_rewriter.py`, `step_ops.py`, `runtime.py` 140-300, 785-830 | none; bindings of the tracker | transform of a cell; which names a step is told | a name the tracker was told of is bound to what it refers to | `Statements` (top-level forms) |
| Restore | `restore.py` | none | `restore_state` | returns the variables of the state | `Artifacts` |
| Operations, agents | `runtime.py` 978-1030, `storage.py` 960-1100 | cache per process, rows shared by all | `_get_or_create_operation`, `find_operation_by_name` | one operation per name, a step's details can be read | `Sessions` |
| Kernel hooks | `kernel_hooks.py` | the runtime of the kernel | `init_jupyter`, `init_marimo` | a history that is found can be resumed | `Sessions` (the choice only) |
| Annotations, tags, pipelines | `annotations.py`, `storage.py` 1905-2093 | rows | add, update, remove, tag, untag, create | nothing names a missing row; what is removed stays removed | `Sessions` |
| History reads, curated copies | `storage.py` 555-696, 1101-1521 | none | `load_graph`, ancestor chain, last parameters, `materialize_curated_history` | reads follow the tree; a copy can be replayed | `Histories` |
| Introspection, replay | `introspection.py` | none | `replay_state`, `replay_pipeline`, independent history | the steps of a replay rejoin or fork like any other | `Histories` |
| Pruned views | `pruning.py` | saved views | cascade, collapse | every visible step on exactly one edge | `Histories` |
| Review cursor | `review.py` | path, index | back, forward, goto, restore | the cursor is on its path, the path is a line of the tree | `Histories` |
| Snapshot policy | `snapshot_policy.py` | modes, threshold | `should_snapshot` | precedence of three lookups | an open choice in `Statements`, `Artifacts` |
| Comparison, abstractions | `comparison.py` | abstraction cache | compare, apply | - | no |
| Snapshots, deltas | `snapshot_engine.py`, `delta_calculator.py` | none | `compute_delta` | - | no |
| Observers | `observers.py` | callbacks | notify | - | no |
| Rendering, export, logging, models | `visualizations.py`, `history_export.py`, `logger.py`, `models/` | none | - | - | no |

How they interact.  A rewritten cell calls `trace_step`; it runs the traced function, resolves
the input state (`Branching`), stores what came out and binds names to it (`Statements`,
`Artifacts`), finds the operation (`Sessions`) and hands all rows to the save methods of the
storage backend, which put tasks on a queue (`WriteQueue`); one writer thread takes them and
writes them in sessions that hold the process-wide connection lock (`ConnectLock`).  Reads (of
`checkout`, of a replay, of every query method) open a connection of their own on the thread
that asks: they compete with the writer for that lock, and see only what the writer has
stored.  Other processes may work on the same database at the same time.

The hard parts are therefore: the flag that says a flush is coming, shared by callers and
writer; the order in which rows of one step reach the database, when the process may die
between any two; reads of what is still queued; two processes that look before they write;
objects that change without a step, under another name, or leave their address to another;
faults of one step of several; and the exit.

## 2. Modules

| Module | Models | Extends or instantiates |
|---|---|---|
| `WriteQueue` | writer thread, queue, bulk rows, exit, faults, death of the process | instantiates `OrderedWrites` |
| `OrderedWrites` | what the save methods promise, with no threads | |
| `ConnectLock` | `_connect_lock`, `_readers_waiting`, sessions and readers | |
| `Branching` | state tree, checkout, replay, resume, over an ordered queue of rows | |
| `Artifacts` | versions, registries, bindings, links, restore | |
| `Statements` | forms of statement, what the tracker is told, bindings | |
| `Sessions` | processes on one database, statement by statement | |
| `Histories` | reads of a tree that grows: review, views, replays, copies | |
| `WriteQueueProofs`, `ConnectLockProofs`, `BranchingProofs`, `SessionsProofs`, `StatementsProofs` | theorems | the modules they are named after |
| `Recursions` | lemmas on numbers, recursive functions and folds | |
| `HistoriesProofs`, `ArtifactsProofs` | theorems | `Histories` and `Artifacts`, with `Recursions` |
| `MC*` | constants of the runs | the modules they are named after |

The modules meet at what one promises and the next takes for granted.  `WriteQueue` is shown
to implement `OrderedWrites`, an ordered store; `Branching`, `Sessions` and `Histories`
have that store for a queue.  `Artifacts` takes the current state for granted, which is
`Branching`'s; `Statements` takes a version for granted, which is what `Artifacts` stores and
restores; `Histories` grows its tree one whole step of `Branching` at a time.  One module with
all of it could not be checked.

### WriteQueue

One step is what a thread does between two points where another thread can see or change
shared state: a section under `_pending_lock`, the test of `_closed`, one put, one get, one
statement of a flush.  So `submit` is two steps (`SubmitCheck`, `SubmitPut`), and `_flush_rows` is
`PopRows` (the section under the lock), `ResubmitCheck`/`ResubmitPut` (the submit of the next
flush, before anything is written) and, for each table, any number of `InsertSome` (a statement
for some of its rows) before the `InsertTable` that stores the rest: `_insert_rows` writes them in
chunks, or one by one after a refusal, and each is committed.  A bulk row is its key and
the position at which it was queued; an ordinary write is its caller and number.  `stored`
and `applied` are the database; `lastQueued` and the `after` field of a write are history
variables, which the properties use and no guard does.

* A sync write waits (`pc = "wait"`) until its future is settled.
* A fault is a write that raises, a session that cannot be opened, or a crash, each bounded by
  `MaxFaults`.  A crash empties memory and resets `lastQueued` to what is stored: nothing lost
  with the process is owed any more.
* DuckDB commits every statement, and that is what is modelled.  SQLite commits after each
  task; the differences are listed as hazards.
* A flush whose statement fails is retried row by row and its errors are swallowed, so what is
  missing in the end is the rows the database rejects (`BadRows`).

### ConnectLock

The work done under the lock is left out; its order is not.  `_acquire_connect_lock` is four
steps (try, announce, acquire, retract), `close` two and a second `close` one more.  A writer
reads the count between two tasks, ends its session if it is positive or its time is over, and
waits after the session until nobody waits or 50 ms have passed; both outcomes of each
timeout are possible.  A reader that tries the lock at a handover is `AcquireInHandover`, which is
all that the fairness of section 4 is about.

### Branching

The operations of `RuntimeTracker` that move through the state tree.  A step is two actions:
`Begin` (the traced function has run and `_resolve_input_state` has chosen the input state:
`Appends`, `Rejoins`, `Diverges`, or `Unresolved` when its read fails) and `Finish` (the rest of
the handler), because cells may run in parallel and because a read between the two may fail
(`Abandon`).  A checkout whose read of the bindings fails has moved the branch and the current state,
but left no replay pending and the active pointer where it was (`CheckoutFails`).  The queue is the ordered store that `WriteQueue` implements, one row at a time
(`Store`); the database takes every row, refusals are `WriteQueue`'s.  `Settled` runs let it drain before every call and before the process ends, which
is how the repository's tests use it; the other runs do not.  `made` keeps states that a crash
lost, so that they keep their numbers; the database variables say what is stored.

### Artifacts

A frame is an object at an address; its content is a token that every change replaces and the
number of row filters behind it, its print what `_fingerprint` sees.  An address is free again
once no name refers to the object, and a new object takes any free one.  `mem` is the tracker's
memory (`_artifact_registry` and `_artifact_state_registry` as `reg`, the latest version of each
artifact, `_bindings`, `_tracked`), `rows` the stored versions with what `load_artifact` returns
for each.  One recorded statement is one action, and any of them that has outputs
may store them or not (the policy): inputs kept, outputs stored or names popped, tracked names
refreshed, untouched artifacts linked, in the order of `trace_step` (`InputsKept`, `OutputKept`, `Popped`, `Refreshed`, `Linked`, `Done`).
Statements the rewriter leaves alone change objects or names behind the tracker's back
(`Rebind`, `Reshape`, `Edit`); `Checkout`, `Restore`, with its checkout or into the notebook alone, and
`Resume` move it.  `HandedBack` is what a restore gives: the bindings of the state, or, when it has none
at all, what the lines say that its artifacts came from (`_restore_legacy`).  History variables say
what every name stands for, and which objects the code has no chance to be right about:
`lost` changed in a way `_fingerprint` does not see, `dirty` changed and not stored since (by a step the
policy left out, or by a statement that is no step), `off` have a version that is another's (section 6).

### Statements

One action, `Run`, takes a statement through `ast_rewriter` (`Rewritten`: which `step_ops`
function it becomes, with which names) and through `trace_step` as far as names go: the outputs
(`Outputs`, from `_split_outputs`), the bindings (`Bindings`), the refresh of other names
(`Refreshed`).  An expression is what the rewriter sees of it: call or not, the name at its
root, `inplace`, a name from the omit lists.  What the call returns, which objects it changes and
whether `_fingerprint` sees that, and whether the policy stores the result, is open.  Objects have the
kinds that `_fingerprint` and the pickling of an artifact tell apart: a frame, a small object, a large one
(no fingerprint, so its name is bound and not tracked), a sealed one (not stored).  The result of a call
with two targets is a tuple or list of two, or something that Python unpacks and `_split_outputs` does not.

### Sessions

Processes with a tracker each.  A call queues its statements (`StepRows`, `NoteRows`, ...) and
the process's writer runs them one at a time (`Write`), so that another process or a death
(`Crash`) may come between any two.  A caller of a sync write goes on when its queue is empty.
The rows are table, key, and the keys they refer to; `find_operation_by_name`,
`_write_tag` and the guards of `resume` are set expressions over them, and `newest` is the history
that `find_latest_history_by_name` returns, the one of the state row stored last.  `tagging` and
`untag` are what two calls with a read and a later write remember in between.

### Histories

The tree of `Branching` with a call (function and parameters) and artifact rows per state,
rows stored in order behind it (`stored` counts them).  The reader actions take what is stored:
`Open`, `Back`, `Forward`, `Goto` and `ReviewerRestore` of the review cursor, `SaveView` with the
operators of `pruning.py` (`Hidden`, `VisibleSteps`, `Edges`), `ReplayState` and `ReplayPipeline`
with `ReplayStep`.  A copy of a finding reads the chain (`ReadChain`, `Chain` is `load_ancestor_chain`) and
then writes statement by statement: the history (`NewHistory`), for each state its rows (`CopyStep`) and its
artifact row (`CopyArtifact`), and the active pointer last (`SetActive`); it may fail between any two
(`CopyFails`), and everything else may go on meanwhile.  A copy keeps the finding it was made for.

## 3. Runs

| Run | Checks | What the bounds reach |
|---|---|---|
| `WriteQueue_callers` | `SingleFlush`, `NoRowLost`, `NewerRowWins`, `ImplementsOrderedWrites`, `SyncReturns`, `ExitCompletes` | two callers, three rows of one key, flushes of one row: two leftovers, concurrent `_queue_rows`, a caller between the flag and the put, shutdown by one caller while the other submits, one fault of any kind anywhere, a session that does not open for a write somebody waits for or for a flush at exit included |
| `WriteQueue_exit` | `AppliedInCallOrder`, `RowsBeforeWrites`, `TablesInOrder`, `ExitKeepsRows` | two tables, two rows, two writes of one caller, a failing write or a crash (also between the two tables of a flush, and between two statements for one), exit in every state of the writer; a flush takes all rows |
| `WriteQueue_drain` | `FlushScheduled`, `RowsDrain` | executor stays open, two callers, flushes of two of three rows, a bad row batched with a good one, failing writes |
| `ConnectLock_sessions` | `OneConnection`, `LockNotLeaked`, `SessionYields`, `ReaderServed`, `WriterServed` | two readers, two backends whose queues are refilled for ever, a failing connect, a second close |
| `Branching_replay` | `BranchesDiverge`, `ReplayShadows` | four states, a call and an interaction, checkouts anywhere: a replay of a rejoined step and a fork at the next |
| `Branching_restart` | `Resumable`, `ChainStored`, `LineageConnected` | three states, the end of the process with any prefix of the rows stored, then more steps; checkouts with a row queued; one failing read |
| `Artifacts_names` | `RestoredAsRecorded`, `ArgumentsAsGiven`, `RegistryIsCurrent` | two names, four addresses, three recorded statements of any kind, each stored or not, with one unrecorded and one checkout, restore (with or without checkout) or restart between them: an object that goes and leaves its address to another, two names of one object, a filter of a filter, a link behind a refresh, a change that is not stored followed by an alias, a filter or a call |
| `Statements_names` | `BoundToCurrent`, `NoneLeft`, `NeverBack` | three statements of any form on two names (assignment to a name, an item, something deeper, two names; calls, aliases, operators, a loop), objects of all four kinds, results that split and that do not, changes seen or hidden or beyond what a fingerprint can be made of, stored or not: an alias made, changed through one name and rebound |
| `Sessions_shared` | `FoundCanResume`, `DetailComplete`, `OneOperationPerName`, `NoOrphans`, `RemovedStaysRemoved`, `UntagRemovesAll` | two processes, five calls between them (two to open, three to race), one death between any two statements, which is enough for each pair of calls of the two with a row of a third |
| `Histories_reads` | `CursorOnPath`, `ViewAccountsForSteps`, `CopiesReplayable`, `LastCallFound` | three states, three calls of two functions, two rows not stored yet, and one replay, review, view or copy at any time of it, the copy interrupted by or failing at any of its statements: a fork below, beside and above what was read |

None of these runs checks a type invariant alone: `TypeOK` of `WriteQueue`, `ConnectLock` and
`Branching` is proved (section 5), where the inductive invariants need it.

Where a caller may be left waiting for a task put behind the stop item
(`WriteQueue_callers`) and where the bounds end every behaviour (`Branching`, `Artifacts`,
`Statements`, `Sessions`, `Histories`), deadlock is not checked; elsewhere it is, and `AtRest`
stands for a system that has nothing to do.  `Sessions_shared` uses that processes are alike
(symmetry; no liveness is checked in it).  The passing instances have between some thousand and
1.4 million states and take under three minutes each.

Two runs find what a document says violated; `PROJECT.json` "findings" quotes the documents.

| Run | What happens |
|---|---|
| `WriteQueue_exit_loss` | more rows wait at exit than one flush takes: the flush cannot submit its successor, and drops the rows it took too |
| `Artifacts_exact` | `x = f(); del x['c']; y = x`: `y` is bound to the version from before the deletion and restored as such; "exactly as they were" (`restore.py` 94) does not hold |

The passing run of `ExitKeepsRows` and `RowsBeforeWrites` assumes that a flush takes all rows, without
which both fail; `RestoredAsRecorded` leaves out what section 6 lists, and `NoneLeft` the names of a result that
is not split.

Limits of single properties:

* The `Branching` runs have one thread.  With two, `BranchesDiverge` and `LineageConnected`
  fail at once: cells that run in parallel both start from the current state, and a checkout
  changes the branch under a step in progress.  No document says what parallel cells are
  recorded as.
* `LineageConnected` is checked with one failing read.  With two it fails: a replay that rejoined
  two steps, the second of them abandoned, leaves the branch of the replay and the current state
  of the tracker apart, and "staying on current branch" (`runtime.py` 712) then records a step
  of the one on the other.
* `BranchesDiverge` is checked without restarts (section 6 says what happens otherwise).
* `ReaderServed` says that some reader is served while one waits: a reader that closes its connection hands
  over to nobody, so that of two readers one may be passed over by the other for as long as the lock lets it.
* `SyncReturns` excuses a caller once the writer has ended: a task put behind the stop item is never run.
* `RowsDrain` and `FlushScheduled` let every session open; `SyncReturns` and `ExitCompletes` do not.
* `LastCallFound` speaks of a tree with every row stored, `DetailComplete` leaves a step whose
  operation row is still to come, or was lost with its process.

## 4. Fairness

`WriteQueue!FairSpec`: the writer thread, a submit that has begun and the join run as long as
they can.  They are ordinary threads with nothing to wait for but each other.  Callers need not call.

`ConnectLock!FairSpec`: threads run, and a session that goes on for ever finds its 250 ms over at some test
(`EndsEarly`).  `threading.Lock` promises no order, and a reader is not assumed to win it from a writer that
asks again at once.  What is assumed for the readers together is strong fairness of `AcquireInHandover`:
the writer sleeps after a session as long as somebody waits, up to 50 ms (188-191), and of those sleeps, again
and again with the lock free, a blocked reader uses one.  So `ReaderServed` rests on the count, on the end of a
session it brings about and on the handover: its mutant takes the handover away.  A writer has no such
help against readers, and `WriterServed` does assume that `BeginSession` is not passed over for ever
(strong fairness): it says that the lock is always free again.

The other modules state safety only and have no fairness: a user may stop at any point.

## 5. Proofs

The theorems hold for every value of the constants that satisfies the named assumption of the
module and what the theorem itself assumes: `WriteQueueAssumption` (bounds are natural numbers, a
flush takes at least one row, a batch is not empty; callers, keys and tables may be any number),
`ConnectLockAssumption` (the readers are finitely many, since the code counts them),
`BranchingAssumption` (bounds are natural numbers; any signatures and threads),
`SessionsAssumption` (bounds are natural numbers, `None` is no id; any processes and functions),
`HistoriesAssumption` (every call has a category, its outputs are own or link rows, bounds are natural
numbers, `None` is no number), `ArtifactsAssumption` (names and addresses are finitely many and
there are two addresses for each name, so that new objects find room; `None` is no name and no number),
`StatementsAssumption` (`None` is no name, number or mark; any names) and `TargetsAssumption` (a left side is
one target, or two names: the forms the model covers).

**`ConnectLockProofs`.**  `Inv` is `TypeOK`, `Holding` (a thread has the lock exactly at the
points of its code between taking and releasing it), `OpenByHolder` (a connection is open only
while its thread uses it), `CountExact` and `SessionCounts` (what a writer knows of
`_readers_waiting` at each point of its session).  None of the first four is inductive alone: the
code subtracts one from the count, so that the count is a natural number already needs that it
is exact, and that two connections are never open needs to know where the holder of the lock
is.  There is one lemma for the steps of a reader and one for those of a writer; the two steps
that change the count use the facts of the library on adding to and removing from a finite set.
Proved: `TypeOK`, `OneConnection`, `LockNotLeaked`, `CountExact`, `SessionYields`.

**`WriteQueueProofs`.**  First lemmas on the operators: what `NewRows`, `LastOf`, `Split` and
`InsertRows` return, for sequences of any length.  `Inv` then has three parts, each kept by every
step on its own.
* `TypeOK` with `HeldTask`: a caller that submits has a task.
* `OneFlush`: a flush held by a caller, queued, or owed by the writer is the only one, *and* then the
  flag is set.  `SingleFlush` says the first half; it is the second that lets `QueueRows` conclude
  from an unset flag that there is no flush, and the one `PopRows` has to keep when it clears the flag.
* `RowInv`: a flush that is not running has no rows (`ChunkInFlush`), so taking rows overwrites
  none; positions increase in the rows of a flush and in those that wait, and every row of the
  first is older than every row of the second (`RowsOrdered`); what the database has is not newer
  than the last row queued (`PosBounds`); each row in memory is newer than what the database has for
  its key (`RowsFresh`); and `Kept`, which is `NoRowLost` with the key of the row that is still in
  memory.  `RowsOrdered` is what makes the last row of a key in a flush the newest, so that
  `InsertRows` stores the row `Kept` speaks of; `RowsFresh` is what makes `NewerRowWins` hold.

Proved: `TypeOK`, `SingleFlush`, `NoRowLost`, and the action property `NewerRowWins`.

**`WriteQueueProofs`, order.**  `OrderInv` holds in every behaviour; it follows tasks where `Inv` follows rows.
* `HeldPlace`, `SyncWaits`, `WriterItem`: a caller that is idle or waits holds nothing, a caller whose sync
  write is queued or running waits for it, and what the writer has fits the point where it is.
* `FlushKnown`: rows wait only with the flag set, and, while sessions open and the executor is open, a
  set flag stands for a flush that will still take rows.  `FlushScheduled` leaves the flag out and is
  not inductive for it.
* `Counted` and `CallOrder`: writes are numbered in the order of the calls, and for each caller what
  is applied is before what the writer has, that before what is queued, and that before what the
  caller holds.  `AppliedInCallOrder` is its first part.  That a caller has no second write on its
  way while it waits (`SyncWaits`) is part of the argument.

Three properties need more than the code guarantees, and their theorems say what, as a hypothesis
about the whole behaviour, in place of a restriction of the constants:
* `PendingFit`: no more rows of a table wait than one flush takes (`_FLUSH_ROWS` is 400).
  Without it a flush leaves rows that the next one writes, after writes that were called later
  (storage.py 490) and after rows of later tables.
* `OneSubmits`: two callers are not between their test of `_closed` and the end of their put at the
  same time.  Without it the flush of one caller's rows may be put behind the write of another.
* `Quiet`: once the executor is closed, the other callers are idle or wait.  Without it a flush may
  be put behind the stop item (storage.py 209).

`TablesInOrder` needs the first alone, whatever faults there are; `RowsBeforeWrites` the first two and
`ExitKeepsRows` the first and the third, both with sessions that open (`"session" \notin Faults`), since
a session that fails drops the flush it was opened for.  The runs have each hypothesis by their
constants.  `FitInv` says that the rows of a flush are all there were, so that the tables it has
written are ahead of those it has not; `WritesBehind` that each write on its way has a flush ahead of
it for the rows queued before it; `ExitInv` the same of the stop item.

Its last part proves the refinement, `Spec => ImplementsOrderedWrites`, without a hypothesis.  Each step
maps to one step of `OrderedWrites` or to none: a put of a write accepts it, a write that runs or fails, or
whose session fails, resolves the oldest, a statement of a flush stores the rows it took, a flush
that cannot submit the next one on a closed executor gives up its rows.  `OrderInv` is needed to
know that the writer has nothing when it takes a task.  `WritesOf` picks the writes out of the
queue by recursion over its positions; as no induction theorem of the library can be used, `UpTo`
does its work: a set that has 0 and with each number the next has them all, shown from the
greatest element of a finite set.

**`BranchingProofs`.**  Two invariants hold for any number of threads, restarts and failing reads.
* `Typed` is `TypeOK` with `Closed`: rows and states name states and branches that were made.
* `Ordered` is about order.  `Needs(row)` is what has to be stored before a row: the state where
  a branch starts before the branch, the branch of a state before the state, a step's two
  states and the step before it before the step, and the step of the active state before the
  pointer.  Everything stored has what it needs stored (`StoredInOrder`), everything queued has it
  stored or ahead of it in the queue (`QueuedInOrder`), and what a thread holds on to is stored or
  queued (`AtKnownState`).  So the writer may take the first row, and a crash may drop all of
  them, without a row left hanging: `Resumable` and `ChainStored` follow.  `Finish`, which queues
  three rows, is where the order of the code is used.

Three properties are about one thread.  `OnLine` (with one failing read at most: `LineageConnected`)
says that the branch of the tracker continues the state a step started from, and the current
state except between the two halves of a step.  `Shadows` (no failing read: `ReplayShadows`) says that a replay
position is the stored step the step in progress repeats.  `Diverging` (no failing read, no
restart: `BranchesDiverge`) adds that, unless a replay is pending, nothing on the tracker's branch
starts from the current state yet.

**`SessionsProofs`.**  The invariant is `Typed`, and three parts that each call keeps by a lemma of its own.
* `Ordered` is about the rows that are never deleted.  `Coming(K, q, i)` are the keys that are there once
  the first `i` statements of a queue have run, if `K` are there now: every queued row has what it
  needs in that set (`InOrder`), every stored one has it stored (`Stored`), and so do the histories that
  processes work on (`Working`).  Other processes only add such keys, so a queue waits for no more
  after their statements than before (`StillWaits`), and for no more after its own first one
  (`RestWaits`).  A tag is left out of `Coming`, because `_write_tag` may skip it: `Tagging` says that
  nothing but the tag stands behind the search for its name.
* `Noted` is about annotations, which are deleted.  A note is queued right before its target and
  deleted right after it (`Paired`), and while a target is still queued nobody deletes its note or has
  removed it (`Coined`), because it can only be found by its target.
* `Rooted` says that a branch and a state numbered like a history in use are its own first ones.

Proved: `NoOrphans`, `RemovedStaysRemoved`, `FoundCanResume`.  The lemmas about queues take the queue and
the keys as parameters; `AddsOrdered`, `AddsNoted`, `AddsRooted` and `AddsRoot` do the work for all calls,
so that a call's lemma only looks at the statements it queues.

**`SessionsProofs`, details.**  A second invariant, `Detail`, on top of the first.  `Owed(p, tab)` are the rows
of a table that a process has queued, `Known(p, tab)` those with the stored ones.
* `Assigning` and `Untagging`: an assignment is queued alone with its caller waiting, it is not stored yet,
  and no untag call has found it; an assignment that an untag call found is stored only as long as its
  deletion is queued.  So no process can bring back what another deletes: `UntagRemovesAll`.
* `Naming`: an operation in the cache of a process is in the database or its queue (`CacheKnown`), and one
  in its queue is in its cache (`QueuedCached`).  The second is what makes a process that mints an
  operation have none of that name queued itself; none is stored, so each that exists is in another
  queue: `MintedFirst`, which is `OneOperationPerName` with the queued operations.  An operation never
  changes its name (`OpNames`), though it is stored again with every step.
* `Stepping`: a process that is up has an environment of its own (`EnvOwn`), its steps name it, and the
  operation of each of its steps is stored or queued by the process itself (`StepOwn`).  With what
  `Stored` says of a step, `DetailComplete` follows.

**`StatementsProofs`.**  `Inv` adds to `BoundToCurrent` and `NoneLeft` what makes them inductive: `Marked` (a
binding is of an object there is, at a version no later than the one stored last, its visible
version is no newer than the object's, and it has one if the object has a fingerprint), `KeptOld` (what was stored last is a version the object had) and `CurrentStorable` (what a name ought to be
bound to can be pickled).  A binding is tracked only if a fingerprint could be made of its object.
The visible version is what lets `_refresh_tracked` notice a change made through another name; the
version stored last is the one an alias binds.  The proof has two stages.
* A statement has one of a few shapes (`Shapes`), the rewriter makes one of five steps of it or none
  (`Steps`), and it is traced exactly if the specification means it to be a step (`TracedIsStep`).  For
  each of the five a lemma shows what the step is told, `Told`: an object for every name that is given
  another value, unless a loop or a deep store leaves it open, for no other name, one each and the one it
  has; and the object of a change that cannot be seen.  The names of a result that is not split are left open
  too, since the step is told of none of them.  Here `_assigned_names`, `_loop_mutations` and
  `_split_outputs` are compared with what the statement does.
* `Effects` says what `trace_step` does with what it is told, for any outputs: `TracedMarked`, `TracedGiven` and
  `TracedOther` use that alone, and so does `TracedOn`, from which `NeverBack` follows.

**`HistoriesProofs`.**  `Path`, `Chain`, `LastParams` and the runs of `Edges` are recursive functions over the
tree.  As no induction theorem of the library can be used, `LeastNumber` of `Recursions` (a nonempty set of
numbers has a least one, from the well-foundedness of finite sets) does its work: a claim about all states is
proved by looking at the least state for which it fails (`Smaller`).  `RecursionExists` shows once that a
recursion whose calls go to a smaller rank defines a function; a state's input is a smaller state, and the next step of
a run a greater one.  From there on the lemmas are about any tree `t`:
* `LineIsWay`: the line to a state ends at it, goes from input to state, and starts where the stored steps do.
  `SameLine`: it stays what it is while the tree grows and rows are stored, if the steps on it were stored.
* `LatestIsLast`: the nearest call on the way back, which `load_last_step_params` finds row by row, is the
  one with the greatest number on the way, which `checkout` takes.
* `BackIsChain`: the chain of `load_ancestor_chain` is the end of the line, and only its first state can have
  an artifact row of its own.
* `RunIsRun`, `EveryStepInRun`, `OneRun`: an edge stands for a line of joined steps up to the last that is
  joined to any, a shown step is in the run of some first step, and two runs that share a step share all
  before it, so they start alike.

`Inv` is `Typed` (the tree is one and the positions in it and in its rows exist), `LastHere` (`last` is what the
tree says, of the current state and of the state the next step starts from, which after a repeated step is
another one), `Reviewed` and `Copied` (what the reviewer and each copy hold, said of the tree as it is now).
A step adds one state at most and changes none, so the last two only need the lemmas on growing trees.
`Copied` follows a copy through its statements.  Of the chain in hand it says that it is a `Stretch` of the
tree: it ends at the finding, is a part of the line to it, and only its first state has a row of its own
(`ChainIsStretch`, from `BackIsChain` and `SuffixIsPart`).  Of a copy in progress it says that its steps are
the first ones of that chain and its rows the rows picked for them.  The active state is set when there is a row
for each step, and the artifact row of a step is its last statement; hence all of the chain is there
(`CopiedAfterActive`), and `CopiesReplayable` is what remains once the chain has been forgotten.
`ViewAccountsForSteps` follows from `Typed` alone: it is true of every tree and of everything a view can hide.

**`ArtifactsProofs`.**  The actions of `Artifacts` fold over the arguments and outputs of a step and over the
tracked names.  Arguments and outputs are at most one and two, so `OneInput`, `OneOutput` and `TwoOutputs` unfold
the definition of the fold.  The refresh is a fold over a set of any size: `FoldExists` (in `Recursions`) shows
that the recursive function behind it exists, and `SmallerSets` that the refreshed part of the names can grow by
one.  What is kept true of it, `RefreshedSome`, does not depend on the order in which the names are taken: the
first name of a changed object stores it and leaves it in `stored`, so that every later one is bound to the same
version.

A step is followed as a work in progress `w`.  `Sound(w, L)`: what its registries, bindings and rows name exists,
and the live objects `L` have an address each.  `CurrentFor(w, L)`: the registered version of an object of `L` is
its content unless it is off, lost or dirty.  Each of `InputsKept`, `OutputsKept`, `Popped`, `Refreshed` and
`Linked` has a lemma about both; `Ready` is what the refresh needs, and `FinishedSound` says what the step ends with.  A step
that is not stored goes through `Popped` in place of `OutputsKept` (`RecordedNone`): what it changed is dirty, and
has lost the tracking of the name it was changed through, but perhaps not that of its other names, which the
refresh brings up to date.

`Inv` adds to `RestoredAsRecorded` and `ArgumentsAsGiven` what makes them inductive; `RegistryIsCurrent` follows
from it.
* `NamedInv`: the versions that a recorded state names are stored, and rows never change, so that what was
  true of a state stays true of it.
* `RegistryInv`: `Sound` and `CurrentFor` between steps.
* `TrackedInv`: the print of a tracked name is one an object had, two names of an object have one print, and an
  object with a change that is not stored (`dirty`) has another print than its names.  This is what makes
  `_refresh_tracked` find it, and with `CurrentFor` it is `RegistryIsCurrent`.
* `ToldInv`: a name the tracker was told of is tracked, its object is registered, and as long as the print is the
  object's it is bound to the object's content.
* `QuietInv`: a name that is tracked without the tracker being told of it (rebound by a statement that is not
  recorded, or by a restore without checkout) stands for nothing definite, so that it does not matter what the
  refresh makes of it.
* `StandInv`: what a name is bound to now loads what it stands for; `RestoredAsRecorded` says it of the states.  It
  is what a new state takes over for the names its step does not touch, and what a move takes back from the state
  it goes to.

`Result` says what a recorded step has to end with, and `ResultInv` that `Inv` holds then; each recorded action has
a lemma that it ends so.  Statements that are not recorded change an object visibly or not (`InPlaceInv`) or rebind
a name (`RebindInv`).  A move (`MoveInv`) gives up the tracked names and stores nothing; `Restore` puts its objects
at addresses that no live object has (`RoomIsFree`), and none of them is one a registry entry was made for.  What it
hands back is a stored version, from the bindings or from the lines (`Handed`, `NewestRow`); without a checkout the
names it rebinds are like those of an unrecorded statement (`SetAsideInv`).
Every property of the passing run of `Artifacts` is proved for any number of names, addresses, statements and moves.

Only model-checked: liveness (`SyncReturns`, `ExitCompletes`, `RowsDrain`, `ReaderServed`, `WriterServed`), which
needs fairness and is out of reach of the prover.  Every safety property of a passing run is a theorem, some with
the hypotheses named above.

## 6. What the properties leave out

Behaviour of the code that was met while modelling, that a property excuses (by a history
variable or an assumption); where a comment of the code says otherwise, its line is given:

* Content that `_fingerprint` does not see (`x['c'] += 1` keeps shape, columns and types) is not
  stored again; `lost` objects.
* A frame whose change is not stored is stored again at the next step only if a name of it is still
  tracked; an alias, a filter or a parameter may name the version before.  The statement may be no step
  (`Artifacts_exact`), or a step that the policy left out: `x = f(); x['c'] = v; y = x` with the second
  not stored pops the binding of `x`, leaves the registry at the version from before it (`runtime.py` 736,
  787), and binds `y` to that; `dirty` and `off` objects.
* The links of one state share a file `<state>.ui_alias.json` (`storage.py` 730): of several untouched artifacts
  the last one linked is what the rows of all of them load, and, after a widget interaction that also links, the
  row of the frame that is shown; `off` objects.
* In `x, y = f()` the second output is stored under an id that is no state and counts as touched, so the state
  has no row of its artifact (`runtime.py` 741, 1212-1213).  What a refresh stores is under such an id too.
* A state at which no variable is bound is taken by `restore_state` for one recorded before there were bindings:
  after `x = f()` stored and `x = f()` not stored, the restore of the second state gives the first `x`, whose
  artifact is linked there (`restore.py` 119-123; `HandedBack`).
* `a, b = f()` with a result that is no tuple or list of two, such as an array: the step has one output without a
  name, so `a` and `b` are neither bound nor popped and keep the versions of their previous values
  (`runtime.py` 1100-1102, against 785-786; `unsplit` in `Stands`).
* A large object, or one that pickle refuses, has no fingerprint: a change of it through another name or a
  later call leaves its binding as it is (`runtime.py` 179-181, 1043-1045; `unknown` in `Stands`).
* An input that has no version is stored after the call that it was passed to, which may have
  changed it.
* A checkout without restore leaves the variables of the notebook as they are.
* `trace_step` returns the receiver of a call with `inplace=True`, so that
  `x = df.sort_values(.., inplace=True)` gives `x` the frame, where Python gives `None`.
* Names that `Statements` holds to nothing (`unknown` in `Stands`): `d` in `d.a['b'] = f()`, which is
  bound to the result of the call; names given a value by a statement that is not recorded, which
  keep the binding they had; the variable of a loop, and names a loop gives something that is no
  frame; an alias of an object that has changed since it was stored.
* The repeats of a step are looked up in the database: a step repeated before its first record is stored
  forks a branch (`runtime.py` 927, against 847-849).
* A checkout that fails when it reads the bindings has moved the tracker: the next step is recorded below the
  state asked for, whether or not it repeats one there (`runtime.py` 866-879).
* A restart between a checkout and the next step forgets that a replay is pending, and a different
  step lands on the old branch (`runtime.py` 466).
* A read that fails in `_get_or_create_operation` (`runtime.py` 717) raises into the cell and the step is
  not recorded; the handler around the rest does not cover it.  `Branching` has it as `Abandon`.
* With more than `_FLUSH_ROWS` rows queued, a write, or a no-op that a caller waits for, is done before the last
  of them is written (`storage.py` 488-490).
* A session that cannot be opened drops the flush it was opened for and leaves `_flush_queued` set
  (`storage.py` 166): no row is written any more.
* A reviewer opened while rows are queued may get a path that does not start at the root, or a
  `ValueError`; last parameters are missing in that window.
* A copy that fails midway, or is still being made, is a history with no active state, which
  `find_latest_history_by_name` can return.

## 7. What is not modelled

* The SQLite session: a result is set before the commit, and a commit that raises ends the writer
  thread.  The end of an idle writer whose backend is collected by the garbage collector: it rests
  on reference counts.
* Figures and pickled objects as artifacts, files that cannot be written, `_is_row_subset`
  (`runtime.py` 152), which compares three rows: contents are tokens, and a filter is one.
* A filter index in a curated copy, which is resolved through the source history
  (`storage.py` 558-560); bindings are not copied.
* `names=` of `restore_state`; frames that cannot be pickled and results that do not split in `Artifacts`, where
  every frame is stored if its step is; `Statements` has both.
* Rows the database refuses in `Branching`, whose queue stores every row; `WriteQueue` has the refusals.
* Lines other than `x = ...` that `_bound_name` reads when `restore.py` falls back to them.
* How a stored parameter is turned back into an argument; the registry of operation types.
* Syntax trees: chained, starred and nested targets, comprehensions, a `Series`.
* `comparison.py`: it formats the differences of two stored states.  Its cache is never invalidated
  (234), and nothing says that it should be.
* Snapshots and deltas, observers, rendering, export, logging, the data classes of `models/`,
  notebooks, scripts and tests: pure functions of data, or no state of their own.

## 8. What could be added

1. The SQLite session, as a second refinement question to `OrderedWrites`.
2. `Branching` over `WriteQueue` instead of its ordered queue.
