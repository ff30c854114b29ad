----------------------------- MODULE WriteQueue -----------------------------
(***************************************************************************)
(* The asynchronous write path of one DuckDBSQLiteBackend                  *)
(* (tracker/storage.py): the threads that call its save methods, the rows  *)
(* of the bulk tables waiting to be written together, the task queue of    *)
(* _WriteExecutor, the single writer thread that runs tasks in sessions,   *)
(* shutdown at interpreter exit, failures and the death of the process.    *)
(*                                                                         *)
(* A task is a write (one row of one of the other tables, or the no-op     *)
(* that callers use to wait for the queue), the flush of the bulk tables,  *)
(* or the stop item.  A bulk row is its primary key and the position at    *)
(* which it was queued, so that two rows of one key can be told apart.     *)
(* One step is what a thread does between two points where another thread  *)
(* can see or change shared state: a section under _pending_lock, one test *)
(* of _closed, one put or get of the queue, one statement of a flush.      *)
(***************************************************************************)
EXTENDS Naturals, Sequences

CONSTANTS
  Callers,      \* threads that call the save methods of the backend
  Main,         \* the caller whose end shuts the executor down, if it is one of Callers
  NumTables,    \* number of bulk tables; table i is written before table i + 1
  Keys,         \* primary keys of the rows of the bulk tables
  FlushRows,    \* _FLUSH_ROWS: most rows of one table that one flush writes
  BadRows,      \* rows, by position, that the database rejects
  Faults,       \* the faults that may happen: subset of {"write", "session", "crash"}
  MaxFaults,    \* bound: number of faults in a behaviour
  BatchSizes,   \* bound: numbers of rows that one call may queue
  MaxRows,      \* bound: bulk rows queued in a behaviour
  MaxWrites     \* bound: writes submitted by each caller

ASSUME WriteQueueAssumption ==
  /\ NumTables \in Nat \ {0}
  /\ FlushRows \in Nat \ {0}
  /\ MaxRows \in Nat /\ MaxWrites \in Nat /\ MaxFaults \in Nat
  /\ BadRows \subseteq Nat
  /\ Faults \subseteq {"write", "session", "crash"}
  /\ BatchSizes \subseteq Nat \ {0}

Tables == 1..NumTables

Row == [key : Keys, pos : 1..MaxRows]

\* n-th write of a caller; "after" is the number of bulk rows queued before the call.
Write == [kind : {"write"}, caller : Callers, n : 1..MaxWrites, sync : BOOLEAN,
          after : 0..MaxRows]
Flush == [kind |-> "flush"]
Stop  == [kind |-> "stop"]
None  == [kind |-> "none"]
Item  == Write \cup {Flush, Stop}

VARIABLES
  pc,           \* pc[c]: where caller c is
  held,         \* held[c]: the task caller c is submitting
  pendingRows,  \* _pending_rows, per table
  flushQueued,  \* _flush_queued
  tasks,        \* _WriteExecutor._tasks
  closed,       \* _WriteExecutor._closed
  wpc,          \* where the writer thread is
  witem,        \* the task the writer thread took
  chunk,        \* rows that the running flush took and has not written, per table
  stored,       \* stored[t][k]: position of the row of key k in table t of the database, 0 if none
  applied,      \* the writes that took effect in the database, in order
  rowCount,     \* bulk rows queued so far
  lastQueued,   \* lastQueued[t][k]: position of the last row queued for key k of table t
  writeCount,   \* writeCount[c]: writes submitted by c so far
  faults        \* faults so far

callerVars == <<pc, held, rowCount, lastQueued, writeCount>>
queueVars  == <<pendingRows, flushQueued, tasks, closed>>
writerVars == <<wpc, witem, chunk>>
dbVars     == <<stored, applied>>
vars == <<callerVars, queueVars, writerVars, dbVars, faults>>

NoRows   == [t \in Tables |-> <<>>]
EmptyTab == [t \in Tables |-> [k \in Keys |-> 0]]

Init ==
  /\ pc = [c \in Callers |-> "idle"]
  /\ held = [c \in Callers |-> None]
  /\ pendingRows = NoRows
  /\ flushQueued = FALSE
  /\ tasks = <<>>
  /\ closed = FALSE
  /\ wpc = "get"
  /\ witem = None
  /\ chunk = NoRows
  /\ stored = EmptyTab
  /\ applied = <<>>
  /\ rowCount = 0
  /\ lastQueued = EmptyTab
  /\ writeCount = [c \in Callers |-> 0]
  /\ faults = 0

-----------------------------------------------------------------------------
(* Caller threads *)

\* The rows for keys ks, queued after the rows there are.
NewRows(ks) == [i \in DOMAIN ks |-> [key |-> ks[i], pos |-> rowCount + i]]

\* Position of the last of rows that has key k, or pos if there is none.
LastOf(rows, k, pos) ==
  LET here == {i \in DOMAIN rows : rows[i].key = k}
  IN  IF here = {} THEN pos
      ELSE rows[CHOOSE i \in here : \A j \in here : j <= i].pos

\* Whether the caller that queued rows submits their flush; mutant: always.
MustSubmitAlways == TRUE
MustSubmit == ~flushQueued

\* _queue_rows: under the lock, add the rows; the caller that finds no flush
\* queued goes on to submit one.
QueueRows(c, t, ks) ==
  /\ pc[c] = "idle"
  /\ rowCount + Len(ks) <= MaxRows
  /\ pendingRows' = [pendingRows EXCEPT ![t] = @ \o NewRows(ks)]
  /\ flushQueued' = TRUE
  /\ IF MustSubmit
       THEN /\ pc' = [pc EXCEPT ![c] = "submit"]
            /\ held' = [held EXCEPT ![c] = Flush]
       ELSE UNCHANGED <<pc, held>>
  /\ rowCount' = rowCount + Len(ks)
  /\ lastQueued' = [lastQueued EXCEPT ![t] =
                      [k \in Keys |-> LastOf(NewRows(ks), k, @[k])]]
  /\ UNCHANGED <<tasks, closed, writeCount, writerVars, dbVars, faults>>

\* save_..._async and save_..._sync: a sync write waits for its future.
Save(c, sync) ==
  /\ pc[c] = "idle"
  /\ writeCount[c] < MaxWrites
  /\ pc' = [pc EXCEPT ![c] = "submit"]
  /\ held' = [held EXCEPT ![c] =
                [kind |-> "write", caller |-> c, n |-> writeCount[c] + 1,
                 sync |-> sync, after |-> rowCount]]
  /\ writeCount' = [writeCount EXCEPT ![c] = @ + 1]
  /\ UNCHANGED <<rowCount, lastQueued, queueVars, writerVars, dbVars, faults>>

\* submit, its test of _closed: a closed executor raises to the caller.
SubmitCheck(c) ==
  /\ pc[c] = "submit"
  /\ IF closed
       THEN /\ pc' = [pc EXCEPT ![c] = "idle"]
            /\ held' = [held EXCEPT ![c] = None]
       ELSE /\ pc' = [pc EXCEPT ![c] = "put"]
            /\ UNCHANGED held
  /\ UNCHANGED <<rowCount, lastQueued, writeCount, queueVars, writerVars, dbVars, faults>>

\* Where a caller goes once its task is in the queue.
AfterPut(item) ==
  CASE item.kind = "stop"  -> "join"
    [] item.kind = "flush" -> "idle"
    [] item.kind = "write" -> IF item.sync THEN "wait" ELSE "idle"

\* The queue with one more task.  Mutants: the newest task is taken first; the
\* stop item overtakes the tasks that are queued.
PutFront(item) == <<item>> \o tasks
PutStopFirst(item) == IF item = Stop THEN <<Stop>> \o tasks ELSE Append(tasks, item)
Put(item) == Append(tasks, item)

\* submit and shutdown, the put of the task.
SubmitPut(c) ==
  /\ pc[c] = "put"
  /\ tasks' = Put(held[c])
  /\ pc' = [pc EXCEPT ![c] = AfterPut(held[c])]
  /\ held' = [held EXCEPT ![c] = None]
  /\ UNCHANGED <<rowCount, lastQueued, writeCount, pendingRows, flushQueued, closed,
                 writerVars, dbVars, faults>>

\* shutdown, called at interpreter exit: close, put the stop item (SubmitPut), join.
Shutdown ==
  /\ Main \in Callers
  /\ pc[Main] = "idle"
  /\ ~closed
  /\ closed' = TRUE
  /\ pc' = [pc EXCEPT ![Main] = "put"]
  /\ held' = [held EXCEPT ![Main] = Stop]
  /\ UNCHANGED <<rowCount, lastQueued, writeCount, pendingRows, flushQueued, tasks,
                 writerVars, dbVars, faults>>

Join ==
  /\ Main \in Callers
  /\ pc[Main] = "join"
  /\ wpc = "exited"
  /\ pc' = [pc EXCEPT ![Main] = "gone"]
  /\ UNCHANGED <<held, rowCount, lastQueued, writeCount, queueVars, writerVars, dbVars, faults>>

-----------------------------------------------------------------------------
(* The writer thread *)

MayFault(kind) == kind \in Faults /\ faults < MaxFaults

\* Mutant of Settle: the future of a task whose session did not open is left as it is.
SettleUnopened(item) ==
  IF wpc # "begin" /\ item.kind = "write" /\ item.sync
    THEN [pc EXCEPT ![item.caller] = "idle"]
    ELSE pc

\* The callers once the future of item has its result or exception.
Settle(item) ==
  IF item.kind = "write" /\ item.sync
    THEN [pc EXCEPT ![item.caller] = "idle"]
    ELSE pc

\* _writer_main: the blocking get.
Get ==
  /\ wpc = "get"
  /\ tasks # <<>>
  /\ tasks' = Tail(tasks)
  /\ IF Head(tasks) = Stop
       THEN wpc' = "exited" /\ witem' = None
       ELSE wpc' = "begin" /\ witem' = Head(tasks)
  /\ UNCHANGED <<pendingRows, flushQueued, closed, chunk, callerVars, dbVars, faults>>

BeginSession ==
  /\ wpc = "begin"
  /\ wpc' = "run"
  /\ UNCHANGED <<witem, chunk, callerVars, queueVars, dbVars, faults>>

\* _begin_session raises: the task it was begun for fails and is dropped.
SessionFails ==
  /\ wpc = "begin"
  /\ MayFault("session")
  /\ wpc' = "get"
  /\ witem' = None
  /\ pc' = Settle(witem)
  /\ faults' = faults + 1
  /\ UNCHANGED <<held, rowCount, lastQueued, writeCount, queueVars, chunk, dbVars>>

\* _run_task of a write that succeeds.
RunWrite ==
  /\ wpc = "run"
  /\ witem.kind = "write"
  /\ wpc' = "after"
  /\ witem' = None
  /\ applied' = Append(applied, witem)
  /\ pc' = Settle(witem)
  /\ UNCHANGED <<held, rowCount, lastQueued, writeCount, queueVars, chunk, stored, faults>>

\* _run_task of a write that raises: its future gets the exception.
WriteFails ==
  /\ wpc = "run"
  /\ witem.kind = "write"
  /\ MayFault("write")
  /\ wpc' = "after"
  /\ witem' = None
  /\ pc' = Settle(witem)
  /\ faults' = faults + 1
  /\ UNCHANGED <<held, rowCount, lastQueued, writeCount, queueVars, chunk, dbVars>>

Least(m, n) == IF m <= n THEN m ELSE n

\* Mutants of Split: the newest rows first; the row after the taken ones skipped.
SplitNewestFirst(rows) ==
  LET n == Len(rows) - Least(FlushRows, Len(rows))
  IN  [taken |-> SubSeq(rows, n + 1, Len(rows)), rest |-> SubSeq(rows, 1, n)]
SplitSkippingOne(rows) ==
  LET n == Least(FlushRows, Len(rows))
  IN  [taken |-> SubSeq(rows, 1, n), rest |-> SubSeq(rows, n + 2, Len(rows))]

\* What a flush takes of the rows that wait, and what it leaves.
Split(rows) ==
  LET n == Least(FlushRows, Len(rows))
  IN  [taken |-> SubSeq(rows, 1, n), rest |-> SubSeq(rows, n + 1, Len(rows))]

\* Whether a flush that leaves rest submits another; mutant: never.
MoreNever(rest) == FALSE
More(rest) == rest # NoRows

\* _flush_rows, the section under the lock.
PopRows ==
  /\ wpc = "run"
  /\ witem = Flush
  /\ chunk' = [t \in Tables |-> Split(pendingRows[t]).taken]
  /\ pendingRows' = [t \in Tables |-> Split(pendingRows[t]).rest]
  /\ flushQueued' = More(pendingRows')
  /\ IF chunk' = NoRows
       THEN wpc' = "after" /\ witem' = None
       ELSE /\ wpc' = IF More(pendingRows') THEN "resubmit" ELSE "insert"
            /\ UNCHANGED witem
  /\ UNCHANGED <<tasks, closed, callerVars, dbVars, faults>>

\* _flush_rows submits the next flush before it writes anything; on a closed
\* executor the submit raises and the rows it took go with the failed task.
ResubmitCheck ==
  /\ wpc = "resubmit"
  /\ IF closed
       THEN /\ wpc' = "after"
            /\ witem' = None
            /\ chunk' = NoRows
       ELSE /\ wpc' = "reput"
            /\ UNCHANGED <<witem, chunk>>
  /\ UNCHANGED <<callerVars, queueVars, dbVars, faults>>

ResubmitPut ==
  /\ wpc = "reput"
  /\ tasks' = Put(Flush)
  /\ wpc' = "insert"
  /\ UNCHANGED <<witem, chunk, pendingRows, flushQueued, closed, callerVars, dbVars, faults>>

\* The rows a flush gives to the database: of the rows of one key, the last.
Unique(rows) ==
  {rows[i] : i \in {j \in DOMAIN rows : \A l \in DOMAIN rows :
                      rows[l].key = rows[j].key => l <= j}}

\* Mutant of InsertRows: one bad row loses the rows it was batched with.
InsertRowsTogether(table, rows) ==
  [k \in Keys |->
     IF (\E r \in Unique(rows) : r.key = k) /\ \A r \in Unique(rows) : r.pos \notin BadRows
       THEN (CHOOSE r \in Unique(rows) : r.key = k).pos
       ELSE table[k]]

\* _insert_rows: a statement that fails is retried row by row, so that all
\* that is missing in the end is the rows the database rejects.
InsertRows(table, rows) ==
  [k \in Keys |->
     IF \E r \in Unique(rows) : r.key = k /\ r.pos \notin BadRows
       THEN (CHOOSE r \in Unique(rows) : r.key = k).pos
       ELSE table[k]]

\* Tables a flush writes before t; mutant: last to first.
After(t) == (t + 1)..NumTables
Before(t) == 1..(t - 1)

\* _flush_rows writes the tables in order, a table in several statements that
\* DuckDB commits one by one: the rows of some keys are there before the others.
InsertSome(t) ==
  /\ wpc = "insert"
  /\ chunk[t] # <<>>
  /\ \A u \in Before(t) : chunk[u] = <<>>
  /\ \E ks \in SUBSET Keys :
       stored' = [stored EXCEPT ![t] =
                    [k \in Keys |-> IF k \in ks THEN InsertRows(@, chunk[t])[k] ELSE @[k]]]
  /\ UNCHANGED <<applied, wpc, witem, chunk, callerVars, queueVars, faults>>

\* The statement that completes a table.
InsertTable(t) ==
  /\ wpc = "insert"
  /\ chunk[t] # <<>>
  /\ \A u \in Before(t) : chunk[u] = <<>>
  /\ stored' = [stored EXCEPT ![t] = InsertRows(@, chunk[t])]
  /\ chunk' = [chunk EXCEPT ![t] = <<>>]
  /\ IF chunk' = NoRows
       THEN wpc' = "after" /\ witem' = None
       ELSE UNCHANGED <<wpc, witem>>
  /\ UNCHANGED <<applied, callerVars, queueVars, faults>>

\* The session goes on with the next task that is already queued.
NextTask ==
  /\ wpc = "after"
  /\ tasks # <<>>
  /\ Head(tasks) # Stop
  /\ tasks' = Tail(tasks)
  /\ wpc' = "run"
  /\ witem' = Head(tasks)
  /\ UNCHANGED <<pendingRows, flushQueued, closed, chunk, callerVars, dbVars, faults>>

\* The session ends: no task is queued, or a reader waits, or its time is over.
EndSession ==
  /\ wpc = "after"
  /\ wpc' = "get"
  /\ UNCHANGED <<witem, chunk, callerVars, queueVars, dbVars, faults>>

\* Where the stop item sends the writer; mutant: it ends the session alone.
BackToGet == "get"
AfterStop == "exited"

\* The session meets the stop item.
StopSession ==
  /\ wpc = "after"
  /\ tasks # <<>>
  /\ Head(tasks) = Stop
  /\ tasks' = Tail(tasks)
  /\ wpc' = AfterStop
  /\ UNCHANGED <<witem, chunk, pendingRows, flushQueued, closed, callerVars, dbVars, faults>>

-----------------------------------------------------------------------------
\* The process dies and a new one opens the database: what was only in memory
\* is gone, and nothing that was lost with it is owed any more.
Crash ==
  /\ MayFault("crash")
  /\ faults' = faults + 1
  /\ pc' = [c \in Callers |-> "idle"]
  /\ held' = [c \in Callers |-> None]
  /\ pendingRows' = NoRows
  /\ flushQueued' = FALSE
  /\ tasks' = <<>>
  /\ closed' = FALSE
  /\ wpc' = "get"
  /\ witem' = None
  /\ chunk' = NoRows
  /\ lastQueued' = stored
  /\ UNCHANGED <<rowCount, writeCount, dbVars>>

\* Nothing is left to do until a caller does something: not a deadlock.
AtRest ==
  /\ \A c \in Callers : pc[c] \in {"idle", "gone"}
  /\ wpc = "exited" \/ (wpc = "get" /\ tasks = <<>>)
  /\ UNCHANGED vars

Batches == UNION {[1..n -> Keys] : n \in BatchSizes}

SubmitStep(c) == SubmitCheck(c) \/ SubmitPut(c)

CallerStep(c) ==
  \/ \E t \in Tables, ks \in Batches : QueueRows(c, t, ks)
  \/ \E sync \in BOOLEAN : Save(c, sync)
  \/ SubmitStep(c)

\* The writer's steps that are no faults.
WriterStep ==
  \/ Get \/ BeginSession \/ RunWrite
  \/ PopRows \/ ResubmitCheck \/ ResubmitPut
  \/ \E t \in Tables : InsertSome(t) \/ InsertTable(t)
  \/ NextTask \/ EndSession \/ StopSession

Next ==
  \/ \E c \in Callers : CallerStep(c)
  \/ Shutdown \/ Join
  \/ WriterStep
  \/ SessionFails \/ WriteFails
  \/ Crash
  \/ AtRest

Spec == Init /\ [][Next]_vars

\* Threads that can run do run: a submit once begun, the writer, the join.
\* Nobody has to call a save method and nothing has to fail.
Fairness ==
  /\ WF_vars(WriterStep)
  /\ WF_vars(Join)
  /\ \A c \in Callers : WF_vars(SubmitStep(c))

FairSpec == Spec /\ Fairness

-----------------------------------------------------------------------------
(* Properties *)

TypeOK ==
  /\ pc \in [Callers -> {"idle", "submit", "put", "wait", "join", "gone"}]
  /\ held \in [Callers -> Item \cup {None}]
  /\ pendingRows \in [Tables -> Seq(Row)]
  /\ flushQueued \in BOOLEAN
  /\ tasks \in Seq(Item)
  /\ closed \in BOOLEAN
  /\ wpc \in {"get", "begin", "run", "resubmit", "reput", "insert", "after", "exited"}
  /\ witem \in Item \cup {None}
  /\ chunk \in [Tables -> Seq(Row)]
  /\ stored \in [Tables -> [Keys -> 0..MaxRows]]
  /\ applied \in Seq(Write)
  /\ rowCount \in 0..MaxRows
  /\ lastQueued \in [Tables -> [Keys -> 0..MaxRows]]
  /\ writeCount \in [Callers -> 0..MaxWrites]
  /\ faults \in 0..MaxFaults

\* The writer has a flush it has not begun, or one it is about to submit.
WriterOwesFlush ==
  \/ wpc \in {"begin", "run"} /\ witem = Flush
  \/ wpc \in {"resubmit", "reput"}

\* Every place where a flush that will still take rows can be.
OutstandingFlushes ==
  {<<"held", c>> : c \in {d \in Callers : held[d] = Flush}}
    \cup {<<"queued", i>> : i \in {j \in DOMAIN tasks : tasks[j] = Flush}}
    \cup {<<"writer", 0>> : x \in {y \in {0} : WriterOwesFlush}}

\* _flush_queued keeps the flushes of all threads, and the flush a flush
\* submits, from piling up: there is never more than one (storage.py:461-490).
SingleFlush == \A f, g \in OutstandingFlushes : f = g

\* Rows that wait have a flush that will take them (storage.py:469-472, 474-490):
\* the flag and the queue cannot get out of step while sessions open and the
\* executor is open.
FlushScheduled ==
  "session" \notin Faults /\ ~closed /\ pendingRows # NoRows => OutstandingFlushes # {}

\* The row at position p is in rows.
Holds(rows, p) == \E i \in DOMAIN rows : rows[i].pos = p

\* The last row queued for key k of table t is in the database, or rejected by it.
Arrived(t, k) == lastQueued[t][k] \in BadRows \cup {stored[t][k]}

\* As long as the executor is open, the last row queued for a key is in the
\* database, or rejected by it, or in the memory of the flush or of the queue:
\* no interleaving of callers and flushes drops a row or lets an older row of
\* the key win (storage.py:461-507).
NoRowLost ==
  ~closed =>
    \A t \in Tables, k \in Keys :
      \/ Arrived(t, k)
      \/ Holds(chunk[t], lastQueued[t][k])
      \/ Holds(pendingRows[t], lastQueued[t][k])

\* The row in the database is never replaced by one queued before it, whichever
\* flush writes it (storage.py:499, "the last row queued for a key wins").
NewerRowWins ==
  [][\A t \in Tables, k \in Keys : stored'[t][k] >= stored[t][k]]_stored

\* Writes of one caller take effect in the order of the calls, each at most
\* once: a step is never in the database before the states it joins
\* (storage.py:430-449, one queue and one writer).
AppliedInCallOrder ==
  \A i, j \in DOMAIN applied :
    i < j /\ applied[i].caller = applied[j].caller => applied[i].n < applied[j].n

\* What was queued before a write is in the database when the write is: the
\* callers' way to wait for the queue, and what makes the active state of a
\* history imply the rows of that state (tests/tracker/
\* test_storage_batched_writes.py:80, storage.py:461-528).  As long as a flush takes
\* all that waits: a row it leaves behind is stored after the write.
RowsBeforeWrites ==
  \A i \in DOMAIN applied, t \in Tables, k \in Keys :
    lastQueued[t][k] <= applied[i].after => Arrived(t, k)

\* A row of a later bulk table is in the database only with the rows of the
\* earlier tables queued before it: a stored binding names a stored artifact
\* state, whenever the process dies (storage.py:459, 495-503).
TablesInOrder ==
  \A t, u \in Tables, k, l \in Keys :
    t < u /\ lastQueued[t][k] < stored[u][l] => Arrived(t, k)

\* Once the writer thread is gone, nothing queued before the exit is missing
\* (storage.py:204, tests/tracker/test_storage_batched_writes.py:160).
ExitKeepsRows ==
  wpc = "exited" => \A t \in Tables, k \in Keys : Arrived(t, k)

\* Every row queued while the executor is open reaches the database, or is
\* replaced by a newer one that does (storage.py:474-490, "what is left is
\* written by the next flush").
RowsDrain ==
  \A t \in Tables, k \in Keys : ~Arrived(t, k) ~> Arrived(t, k)

\* A caller that waits for a future gets its result or its exception, also when
\* the session for its task does not open and the task is dropped, while flushes
\* resubmit themselves or the process dies (storage.py:140-150, 164-169): as long as
\* there is a writer, which a task put behind the stop item does not meet.
SyncReturns == \A c \in Callers : pc[c] = "wait" ~> pc[c] # "wait" \/ wpc = "exited"

\* The interpreter's exit does not hang on the writer, unless the process dies
\* first (storage.py:215-220).
ExitCompletes == closed ~> (~closed \/ pc[Main] = "gone")
-----------------------------------------------------------------------------
(* The abstract specification *)

IsWrite(item) == item.kind = "write"

\* The writes among items, in their order; a function where SelectSeq would do,
\* because the provers know nothing of SelectSeq.
WritesOf(items) ==
  LET first[n \in 0..Len(items)] ==
        IF n = 0 THEN <<>>
        ELSE IF IsWrite(items[n]) THEN Append(first[n - 1], items[n]) ELSE first[n - 1]
  IN  first[Len(items)]

\* Accepted writes: the one the writer holds, then those in the queue.
Waiting == WritesOf(<<witem>>) \o WritesOf(tasks)

Ordered == INSTANCE OrderedWrites WITH
  Writes <- Write,
  waiting <- Waiting,
  rows <- [t \in Tables |-> chunk[t] \o pendingRows[t]],
  ending <- closed

\* Threads, sessions, chunks and the flush flag are invisible: seen from the
\* save methods and the database the writer is the ordered store OrderedWrites
\* describes, and nothing but a shutdown or a crash loses what it accepted
\* (storage.py:140-220, 461-507).
ImplementsOrderedWrites == Ordered!Spec
=============================================================================
