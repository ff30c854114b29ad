-------------------------- MODULE ConnectLockProofs --------------------------
(***************************************************************************)
(* Theorems about ConnectLock, for any number of readers, writers, tasks   *)
(* and failed connects.  The inductive invariant Inv says where the holder *)
(* of the lock can be (Holding), which threads have a connection open      *)
(* (OpenByHolder), that the count of waiting readers is exact (CountExact) *)
(* and what a writer knows of that count at each point of its session      *)
(* (SessionCounts).                                                        *)
(***************************************************************************)
EXTENDS ConnectLock, FiniteSetTheorems, TLAPS

\* A thread holds the lock exactly at the points between taking and releasing it.
Holding ==
  /\ \A r \in Readers : lock = r <=> rpc[r] \in ReaderHolds
  /\ \A w \in Writers : lock = w <=> wpc[w] \in WriterHolds

\* A connection is open only while its thread uses it.
OpenByHolder ==
  \A t \in open :
    \/ t \in Readers /\ rpc[t] = "reading"
    \/ t \in Writers /\ wpc[t] \in {"run", "check", "next", "end"}

\* A task taken late is the last of its session: a reader still waits.
SessionCounts ==
  \A w \in Writers :
    /\ late[w] <= 1
    /\ wpc[w] \in {"run", "check"} /\ late[w] = 1 => waiting > 0
    /\ wpc[w] = "next" => late[w] = 0

Inv == TypeOK /\ Holding /\ OpenByHolder /\ CountExact /\ SessionCounts

-----------------------------------------------------------------------------
(* The count of readers *)

\* The readers that are counted are finitely many.
LEMMA AnnouncedFinite == IsFiniteSet(Announced) /\ Cardinality(Announced) \in Nat
  BY ConnectLockAssumption, FS_Subset, FS_CardinalityType DEF Announced

\* A reader that announces itself adds one to the counted readers.
LEMMA AnnounceCounts ==
  ASSUME TypeOK, NEW r \in Readers, rpc[r] = "announce",
         rpc' = [rpc EXCEPT ![r] = "blocked"]
  PROVE  Cardinality(Announced') = Cardinality(Announced) + 1
<1>1. Announced' = Announced \cup {r} /\ r \notin Announced
  BY DEF Announced, TypeOK
<1> QED
  BY <1>1, AnnouncedFinite, FS_AddElement

\* A reader that got the lock takes one from the counted readers, of which it was one.
LEMMA RetractCounts ==
  ASSUME TypeOK, NEW r \in Readers, rpc[r] = "acquired",
         rpc' = [rpc EXCEPT ![r] = "connect"]
  PROVE  /\ Cardinality(Announced') = Cardinality(Announced) - 1
         /\ Cardinality(Announced) > 0
<1>1. Announced' = Announced \ {r} /\ r \in Announced
  BY DEF Announced, TypeOK
<1>2. Cardinality(Announced) # 0
  BY <1>1, AnnouncedFinite, FS_EmptySet
<1> QED
  BY <1>1, <1>2, AnnouncedFinite, FS_RemoveElement

-----------------------------------------------------------------------------
(* The invariant *)

\* The invariant holds at first: the lock is free and nobody waits.
LEMMA InitInv == Init => Inv
<1> SUFFICES ASSUME Init PROVE Inv
  OBVIOUS
<1> USE ConnectLockAssumption DEF Init, ReaderHolds, WriterHolds
<1>1. TypeOK
  BY DEF TypeOK, Threads
<1>2. Holding /\ OpenByHolder /\ SessionCounts
  BY DEF Holding, OpenByHolder, SessionCounts
<1>3. CountExact
  <2>1. Announced = {}
    BY DEF Announced
  <2> QED
    BY <2>1, FS_EmptySet DEF CountExact
<1> QED
  BY <1>1, <1>2, <1>3 DEF Inv

\* No step of a reader breaks the invariant.
LEMMA ReaderInv ==
  ASSUME Inv, NEW r \in Readers, ReaderStep(r)
  PROVE  Inv'
<1> USE ConnectLockAssumption DEF Inv, ReaderHolds, WriterHolds
<1>a. CASE Announce(r)
  <2>1. CountExact'
    BY <1>a, AnnounceCounts DEF Announce, CountExact
  <2> QED
    BY <1>a, <2>1 DEF Announce, TypeOK, Threads, Holding, OpenByHolder, SessionCounts
<1>b. CASE Retract(r)
  <2>1. waiting > 0 /\ waiting' = Cardinality(Announced')
    BY <1>b, RetractCounts, AnnouncedFinite DEF Retract, CountExact, LessOne
  <2>2. \A w \in Writers : wpc[w] \notin WriterHolds
    BY <1>b DEF Retract, Holding
  <2>3. TypeOK'
    BY <1>b, <2>1 DEF Retract, TypeOK, Threads, LessOne
  <2> QED
    BY <1>b, <2>1, <2>2, <2>3
    DEF Retract, TypeOK, Holding, OpenByHolder, SessionCounts, CountExact
<1>c. CASE TryAcquire(r) \/ Acquire(r) \/ Connect(r) \/ ConnectFails(r)
             \/ CloseConnection(r) \/ ReleaseLock(r) \/ CloseAgain(r) \/ Done(r)
  <2> USE DEF TryAcquire, Acquire, Connect, ConnectFails, CloseConnection, ReleaseLock,
              CloseAgain, Done, MayFail, LockAfterFailure, LockAfterSecondClose
  <2>1. TypeOK'
    BY <1>c DEF TypeOK, Threads
  <2>2. Holding'
    BY <1>c DEF TypeOK, Threads, Holding
  <2>3. OpenByHolder'
    BY <1>c DEF TypeOK, Threads, Holding, OpenByHolder
  <2>4. SessionCounts'
    BY <1>c DEF SessionCounts
  <2>5. CountExact'
    <3>1. Announced' = Announced
      BY <1>c DEF TypeOK, Announced
    <3> QED
      BY <1>c, <3>1 DEF CountExact
  <2> QED
    BY <2>1, <2>2, <2>3, <2>4, <2>5
<1> QED
  BY <1>a, <1>b, <1>c DEF ReaderStep

\* No step of a writer, and no task queued for it, breaks the invariant.
LEMMA WriterInv ==
  ASSUME Inv, NEW w \in Writers, WriterStep(w) \/ Submit(w)
  PROVE  Inv'
<1> USE ConnectLockAssumption DEF Inv, ReaderHolds, WriterHolds
<1>1. CASE Submit(w) \/ Get(w) \/ BeginSession(w) \/ SessionConnects(w) \/ SessionFails(w)
             \/ RunTask(w) \/ EndsEarly(w)
  <2> USE DEF Submit, Get, BeginSession, SessionConnects, SessionFails, RunTask,
              EndsEarly, MayFail, LockAfterFailure
  <2>1. TypeOK'
    BY <1>1 DEF TypeOK, Threads
  <2>2. Holding'
    BY <1>1 DEF TypeOK, Threads, Holding
  <2>3. OpenByHolder'
    BY <1>1 DEF TypeOK, Threads, Holding, OpenByHolder
  <2>4. SessionCounts'
    BY <1>1 DEF TypeOK, SessionCounts
  <2>5. CountExact'
    BY <1>1 DEF CountExact, Announced
  <2> QED
    BY <2>1, <2>2, <2>3, <2>4, <2>5
<1>2. CASE GoesOn(w) \/ NextTask(w) \/ SessionCloses(w) \/ EndSession(w)
             \/ HandoverDone(w) \/ HandoverDeadline(w)
  <2> USE DEF GoesOn, ReaderWaits, NextTask, SessionCloses, EndSession, HandoverDone,
              HandoverDeadline
  <2>1. TypeOK'
    BY <1>2 DEF TypeOK, Threads, AfterSession
  <2>2. Holding'
    BY <1>2 DEF TypeOK, Threads, Holding, AfterSession
  <2>3. OpenByHolder'
    BY <1>2 DEF TypeOK, Threads, Holding, OpenByHolder, AfterSession
  <2>4. SessionCounts'
    BY <1>2 DEF TypeOK, SessionCounts, AfterSession
  <2>5. CountExact'
    BY <1>2 DEF CountExact, Announced, AfterSession
  <2> QED
    BY <2>1, <2>2, <2>3, <2>4, <2>5
<1> QED
  BY <1>1, <1>2 DEF WriterStep

\* No step of any thread breaks the invariant.
LEMMA NextInv == Inv /\ [Next]_vars => Inv'
<1> SUFFICES ASSUME Inv, [Next]_vars PROVE Inv'
  OBVIOUS
<1>1. CASE \E r \in Readers : ReaderStep(r)
  BY <1>1, ReaderInv
<1>2. CASE \E w \in Writers : WriterStep(w) \/ Submit(w)
  BY <1>2, WriterInv
<1>3. CASE UNCHANGED vars
  BY <1>3 DEF vars, Inv, TypeOK, Holding, OpenByHolder, CountExact, Announced, SessionCounts
<1> QED
  BY <1>1, <1>2, <1>3 DEF Next

\* Inv holds in every state of every behaviour of the specification.
THEOREM Invariance == Spec => []Inv
  BY InitInv, NextInv, PTL DEF Spec

-----------------------------------------------------------------------------
(* What follows from it *)

\* Every variable keeps its type.
THEOREM TypeCorrect == Spec => []TypeOK
<1>1. Inv => TypeOK
  BY DEF Inv
<1> QED
  BY <1>1, Invariance, PTL

\* Two connections to the database are never open at once (storage.py:33-45).
THEOREM OneConnectionHolds == Spec => []OneConnection
<1>1. Inv => OneConnection
  BY ConnectLockAssumption
  DEF Inv, Holding, OpenByHolder, OneConnection, ReaderHolds, WriterHolds
<1> QED
  BY <1>1, Invariance, PTL

\* The lock is never left with a thread that will not release it (storage.py:334-342).
THEOREM LockNotLeakedHolds == Spec => []LockNotLeaked
<1>1. Inv => LockNotLeaked
  BY DEF Inv, Holding, LockNotLeaked
<1> QED
  BY <1>1, Invariance, PTL

\* _readers_waiting neither drifts up nor down (storage.py:87-101).
THEOREM CountExactHolds == Spec => []CountExact
<1>1. Inv => CountExact
  BY DEF Inv
<1> QED
  BY <1>1, Invariance, PTL

\* A session takes at most one task after a reader began to wait (storage.py:174-177).
THEOREM SessionYieldsHolds == Spec => []SessionYields
<1>1. Inv => SessionYields
  BY DEF Inv, SessionCounts, SessionYields
<1> QED
  BY <1>1, Invariance, PTL
=============================================================================
