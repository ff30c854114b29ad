----------------------------- MODULE ConnectLock -----------------------------
(***************************************************************************)
(* The process-wide _connect_lock of tracker/storage.py: only one DuckDB   *)
(* connection is open at a time, whichever backend instance opens it.      *)
(* Readers are threads that open a connection of their own (_connect);     *)
(* writers are the writer threads of the backends, which hold the lock for *)
(* a session of several tasks, look between tasks whether somebody waits,  *)
(* and step aside after a session in which somebody did.                   *)
(***************************************************************************)
EXTENDS Naturals, FiniteSets

CONSTANTS
  Readers,       \* threads that read, or write, outside the writer threads
  Writers,       \* writer threads, one for each backend of the process
  Nobody,        \* no thread: the lock is free
  MaxTasks,      \* bound: tasks in the queue of one writer
  MaxFailures    \* bound: connects that fail in a behaviour

ASSUME ConnectLockAssumption ==
  /\ Readers \cap Writers = {}
  /\ Nobody \notin Readers \cup Writers
  /\ IsFiniteSet(Readers)
  /\ MaxTasks \in Nat /\ MaxFailures \in Nat

Threads == Readers \cup Writers

VARIABLES
  lock,      \* the thread that holds _connect_lock, or Nobody
  open,      \* threads whose connection is open
  waiting,   \* _readers_waiting
  rpc,       \* where each reader is
  wpc,       \* where each writer is
  queue,     \* queue[w]: tasks queued for writer w
  late,      \* late[w]: tasks w took in this session since a reader waits
  failures   \* connects that failed so far

vars == <<lock, open, waiting, rpc, wpc, queue, late, failures>>

Init ==
  /\ lock = Nobody
  /\ open = {}
  /\ waiting = 0
  /\ rpc = [r \in Readers |-> "idle"]
  /\ wpc = [w \in Writers |-> "get"]
  /\ queue = [w \in Writers |-> 0]
  /\ late = [w \in Writers |-> 0]
  /\ failures = 0

MayFail == failures < MaxFailures

-----------------------------------------------------------------------------
(* Readers: _acquire_connect_lock, _connect, _LockedConnection.close *)

\* The acquire that does not block.
TryAcquire(r) ==
  /\ rpc[r] = "idle"
  /\ IF lock = Nobody
       THEN lock' = r /\ rpc' = [rpc EXCEPT ![r] = "connect"]
       ELSE rpc' = [rpc EXCEPT ![r] = "announce"] /\ UNCHANGED lock
  /\ UNCHANGED <<open, waiting, wpc, queue, late, failures>>

Announce(r) ==
  /\ rpc[r] = "announce"
  /\ waiting' = waiting + 1
  /\ rpc' = [rpc EXCEPT ![r] = "blocked"]
  /\ UNCHANGED <<lock, open, wpc, queue, late, failures>>

Acquire(r) ==
  /\ rpc[r] = "blocked"
  /\ lock = Nobody
  /\ lock' = r
  /\ rpc' = [rpc EXCEPT ![r] = "acquired"]
  /\ UNCHANGED <<open, waiting, wpc, queue, late, failures>>

\* The count without one reader.
LessOne(n) == n - 1

Retract(r) ==
  /\ rpc[r] = "acquired"
  /\ waiting' = LessOne(waiting)
  /\ rpc' = [rpc EXCEPT ![r] = "connect"]
  /\ UNCHANGED <<lock, open, wpc, queue, late, failures>>

Connect(r) ==
  /\ rpc[r] = "connect"
  /\ open' = open \cup {r}
  /\ rpc' = [rpc EXCEPT ![r] = "reading"]
  /\ UNCHANGED <<lock, waiting, wpc, queue, late, failures>>

\* What a failed connect leaves of the lock; mutant: it stays held.
LockLeaked(holder) == holder
LockAfterFailure(holder) == Nobody

ConnectFails(r) ==
  /\ rpc[r] = "connect"
  /\ MayFail
  /\ failures' = failures + 1
  /\ lock' = LockAfterFailure(lock)
  /\ rpc' = [rpc EXCEPT ![r] = "idle"]
  /\ UNCHANGED <<open, waiting, wpc, queue, late>>

\* close: the connection first, then the lock, and only the first time.
CloseConnection(r) ==
  /\ rpc[r] = "reading"
  /\ open' = open \ {r}
  /\ rpc' = [rpc EXCEPT ![r] = "closing"]
  /\ UNCHANGED <<lock, waiting, wpc, queue, late, failures>>

ReleaseLock(r) ==
  /\ rpc[r] = "closing"
  /\ lock' = Nobody
  /\ rpc' = [rpc EXCEPT ![r] = "closed"]
  /\ UNCHANGED <<open, waiting, wpc, queue, late, failures>>

\* The lock after a second close; mutant: without _released it is released again.
LockReleasedAgain == Nobody
LockAfterSecondClose == lock

CloseAgain(r) ==
  /\ rpc[r] = "closed"
  /\ lock' = LockAfterSecondClose
  /\ rpc' = [rpc EXCEPT ![r] = "idle"]
  /\ UNCHANGED <<open, waiting, wpc, queue, late, failures>>

Done(r) ==
  /\ rpc[r] = "closed"
  /\ rpc' = [rpc EXCEPT ![r] = "idle"]
  /\ UNCHANGED <<lock, open, waiting, wpc, queue, late, failures>>

-----------------------------------------------------------------------------
(* Writers: _begin_session, the session loop of _writer_main, _end_session *)

\* Somebody queues a task for w.
Submit(w) ==
  /\ queue[w] < MaxTasks
  /\ queue' = [queue EXCEPT ![w] = @ + 1]
  /\ UNCHANGED <<lock, open, waiting, rpc, wpc, late, failures>>

Get(w) ==
  /\ wpc[w] = "get"
  /\ queue[w] > 0
  /\ queue' = [queue EXCEPT ![w] = @ - 1]
  /\ wpc' = [wpc EXCEPT ![w] = "begin"]
  /\ UNCHANGED <<lock, open, waiting, rpc, late, failures>>

BeginSession(w) ==
  /\ wpc[w] = "begin"
  /\ lock = Nobody
  /\ lock' = w
  /\ wpc' = [wpc EXCEPT ![w] = "connect"]
  /\ UNCHANGED <<open, waiting, rpc, queue, late, failures>>

SessionConnects(w) ==
  /\ wpc[w] = "connect"
  /\ open' = open \cup {w}
  /\ wpc' = [wpc EXCEPT ![w] = "run"]
  /\ late' = [late EXCEPT ![w] = 0]
  /\ UNCHANGED <<lock, waiting, rpc, queue, failures>>

SessionFails(w) ==
  /\ wpc[w] = "connect"
  /\ MayFail
  /\ failures' = failures + 1
  /\ lock' = LockAfterFailure(lock)
  /\ wpc' = [wpc EXCEPT ![w] = "get"]
  /\ UNCHANGED <<open, waiting, rpc, queue, late>>

\* The task in hand; what it does to the database is the subject of WriteQueue.
RunTask(w) ==
  /\ wpc[w] = "run"
  /\ wpc' = [wpc EXCEPT ![w] = "check"]
  /\ UNCHANGED <<lock, open, waiting, rpc, queue, late, failures>>

\* What makes a writer end its session early; mutant: it never looks.
LooksAway == FALSE
ReaderWaits == waiting > 0

\* The test between two tasks: a reader waits, or _SESSION_SECONDS are over.
EndsEarly(w) ==
  /\ wpc[w] = "check"
  /\ wpc' = [wpc EXCEPT ![w] = "end"]
  /\ UNCHANGED <<lock, open, waiting, rpc, queue, late, failures>>

GoesOn(w) ==
  /\ wpc[w] = "check"
  /\ ~ReaderWaits
  /\ wpc' = [wpc EXCEPT ![w] = "next"]
  /\ UNCHANGED <<lock, open, waiting, rpc, queue, late, failures>>

NextTask(w) ==
  /\ wpc[w] = "next"
  /\ IF queue[w] > 0
       THEN /\ queue' = [queue EXCEPT ![w] = @ - 1]
            /\ late' = [late EXCEPT ![w] = IF waiting > 0 THEN @ + 1 ELSE @]
            /\ wpc' = [wpc EXCEPT ![w] = "run"]
       ELSE wpc' = [wpc EXCEPT ![w] = "end"] /\ UNCHANGED <<queue, late>>
  /\ UNCHANGED <<lock, open, waiting, rpc, failures>>

\* _end_session closes the connection, then releases the lock.
SessionCloses(w) ==
  /\ wpc[w] = "end"
  /\ open' = open \ {w}
  /\ wpc' = [wpc EXCEPT ![w] = "release"]
  /\ UNCHANGED <<lock, waiting, rpc, queue, late, failures>>

\* Where a session leaves the writer; mutant: it is back for the next task at once.
NoHandover == "get"
AfterSession == "handover"

EndSession(w) ==
  /\ wpc[w] = "release"
  /\ lock' = Nobody
  /\ wpc' = [wpc EXCEPT ![w] = AfterSession]
  /\ UNCHANGED <<open, waiting, rpc, queue, late, failures>>

\* The writer sleeps while somebody waits; its deadline is 50 ms away.
HandoverDone(w) ==
  /\ wpc[w] = "handover"
  /\ waiting = 0
  /\ wpc' = [wpc EXCEPT ![w] = "get"]
  /\ UNCHANGED <<lock, open, waiting, rpc, queue, late, failures>>

HandoverDeadline(w) ==
  /\ wpc[w] = "handover"
  /\ waiting > 0
  /\ wpc' = [wpc EXCEPT ![w] = "get"]
  /\ UNCHANGED <<lock, open, waiting, rpc, queue, late, failures>>

-----------------------------------------------------------------------------
ReaderStep(r) ==
  \/ TryAcquire(r) \/ Announce(r) \/ Acquire(r) \/ Retract(r)
  \/ Connect(r) \/ ConnectFails(r)
  \/ CloseConnection(r) \/ ReleaseLock(r) \/ CloseAgain(r) \/ Done(r)

WriterStep(w) ==
  \/ Get(w) \/ BeginSession(w) \/ SessionConnects(w) \/ SessionFails(w)
  \/ RunTask(w) \/ EndsEarly(w) \/ GoesOn(w) \/ NextTask(w)
  \/ SessionCloses(w) \/ EndSession(w)
  \/ HandoverDone(w) \/ HandoverDeadline(w)

Next ==
  \/ \E r \in Readers : ReaderStep(r)
  \/ \E w \in Writers : WriterStep(w) \/ Submit(w)

Spec == Init /\ [][Next]_vars

\* A thread that can run does run; nobody has to begin to read.  A session that
\* goes on and on finds its time over at some test.  A threading.Lock is not
\* fair, and a reader is not assumed to win it from a writer that asks again at
\* once.  What is assumed is that the free lock of a handover is seen: readers that
\* are blocked while writers hand over, again and again, get it in one of them,
\* since each leaves the lock free for up to 50 ms.  A writer has nothing like it
\* against readers: that it is not passed over for ever is an assumption.
AcquireInHandover(r) == Acquire(r) /\ \E w \in Writers : wpc[w] = "handover"

Fairness ==
  /\ \A r \in Readers : WF_vars(ReaderStep(r) /\ rpc[r] # "idle")
  /\ SF_vars(\E r \in Readers : AcquireInHandover(r))
  /\ \A w \in Writers : WF_vars(WriterStep(w)) /\ SF_vars(BeginSession(w)) /\ SF_vars(EndsEarly(w))

FairSpec == Spec /\ Fairness

-----------------------------------------------------------------------------
(* Properties *)

ReaderHolds == {"acquired", "connect", "reading", "closing"}
WriterHolds == {"connect", "run", "check", "next", "end", "release"}

TypeOK ==
  /\ lock \in Threads \cup {Nobody}
  /\ open \subseteq Threads
  /\ waiting \in Nat
  /\ rpc \in [Readers -> {"idle", "announce", "blocked", "closed"} \cup ReaderHolds]
  /\ wpc \in [Writers -> {"get", "begin", "handover"} \cup WriterHolds]
  /\ queue \in [Writers -> 0..MaxTasks]
  /\ late \in [Writers -> Nat]
  /\ failures \in 0..MaxFailures

\* Two connections are never open at once, whatever fails and however often a
\* connection is closed (storage.py:33-45, 58-82, 329-343, 350-376).
OneConnection ==
  /\ \A s, t \in open : s = t
  /\ \A t \in open : lock = t

\* The lock is held only by a thread that will release it: a connect that fails
\* does not leave it behind (storage.py:334-342, 353-358).
LockNotLeaked ==
  /\ \A r \in Readers : lock = r => rpc[r] \in ReaderHolds
  /\ \A w \in Writers : lock = w => wpc[w] \in WriterHolds

\* _readers_waiting counts the threads that wait for the lock or just got it:
\* it neither drifts up, which would end every session after one task, nor down
\* (storage.py:87-101).
Announced == {r \in Readers : rpc[r] \in {"blocked", "acquired"}}
CountExact == waiting = Cardinality(Announced)

\* Once a reader is counted, a session takes at most one more task: a read is
\* never stuck behind a whole backlog of writes (storage.py:85-86, 174-177).
SessionYields == \A w \in Writers : late[w] <= 1

\* While a reader waits, a reader gets the lock, however many tasks the writers have
\* and although the lock itself favours nobody: it is the count that ends their
\* sessions and the handover after a session that lets a reader in (storage.py:85-86,
\* 174-177, 188-191).  Which of several readers it is, is the lock's choice.
ReaderServed ==
  \A r \in Readers : rpc[r] = "blocked" ~> \E q \in Readers : rpc[q] \in ReaderHolds

\* A writer with a task in hand gets its session, or fails the task (storage.py:163-169).
WriterServed == \A w \in Writers : wpc[w] = "begin" ~> wpc[w] \in {"run", "get"}
=============================================================================
