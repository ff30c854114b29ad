-------------------------- MODULE WriteQueueProofs --------------------------
(***************************************************************************)
(* Theorems about WriteQueue, for any number of callers, tables, keys,     *)
(* rows, faults and any flush size.  The inductive invariant Inv says      *)
(* where a caller's task can be (HeldTask), that a flush is nowhere twice  *)
(* and that the flag knows of it (OneFlush), when a flush holds rows       *)
(* (ChunkInFlush), how the positions of the rows in memory, in the         *)
(* database and last queued relate (RowsOrdered, RowsBetween, PosBounds),  *)
(* and where the last row of each key is (Kept).                           *)
(*                                                                         *)
(* The second part is about the order in which things reach the database:  *)
(* a flush is always on its way to the rows that wait (FlushKnown), the    *)
(* writes of one caller stay in the order of its calls wherever they are   *)
(* (CallOrder), and, when a flush takes all the rows that wait, no row is  *)
(* overtaken by a later table, a later write or the end of the writer      *)
(* thread.  The third is the refinement of OrderedWrites.                  *)
(***************************************************************************)
EXTENDS WriteQueue, Integers, SequenceTheorems, FiniteSetTheorems,
        WellFoundedInduction, TLAPS

-----------------------------------------------------------------------------
(* The operators of the model *)

\* A nonempty set of indices has a greatest one.
LEMMA GreatestIndex ==
  ASSUME NEW n \in Nat, NEW S \in SUBSET (1..n), S # {}
  PROVE  \E i \in S : \A j \in S : j <= i
<1> DEFINE T == {(i+1)..n : i \in S}
           R == StrictSubsetOrdering(1..n)
<1>1. T \subseteq SUBSET (1..n)
  BY DEF T
<1>1a. T # {}
  BY DEF T
<1>2. IsWellFoundedOn(R, SUBSET (1..n))
  <2>1. IsFiniteSet(1..n)
    BY FS_Interval
  <2>2. FiniteSubsetsOf(1..n) = SUBSET (1..n)
    BY <2>1, FS_FiniteSubsetsOfFinite
  <2> QED
    BY <2>2, FS_StrictSubsetOrderingWellFounded
<1>3. PICK x \in T : \A y \in T : <<y, x>> \notin R
  <2> HIDE DEF T, R
  <2> QED
    BY <1>1, <1>1a, <1>2, WFMin
<1>4. PICK i \in S : x = (i+1)..n
  BY DEF T
<1>5. ASSUME NEW j \in S, j > i
      PROVE  FALSE
  <2>1. (j+1)..n \in T
    BY DEF T
  <2>2. (j+1)..n \subseteq x /\ j \in x /\ j \notin (j+1)..n
    BY <1>4, <1>5
  <2>3. <<(j+1)..n, x>> \in R
    BY <2>1, <2>2, <1>1 DEF R, StrictSubsetOrdering
  <2> QED
    BY <2>1, <2>3, <1>3
<1> QED
  BY <1>5

\* The kinds of tasks are apart, and a task of kind "write" is a write.
LEMMA ItemKinds ==
  /\ Flush # Stop /\ Flush # None /\ Stop # None
  /\ \A w \in Write : w # Flush /\ w # Stop /\ w # None
  /\ \A item \in Item \cup {None} : item.kind = "write" <=> item \in Write
  /\ \A w \in Write : w.caller \in Callers
<1>1. Flush.kind = "flush" /\ Stop.kind = "stop" /\ None.kind = "none"
  BY DEF Flush, Stop, None
<1>2. \A w \in Write : w.kind = "write" /\ w.caller \in Callers
  BY DEF Write
<1> QED
  BY <1>1, <1>2 DEF Item

\* A batch is a nonempty sequence of keys.
LEMMA BatchIsSeq ==
  ASSUME NEW ks \in Batches
  PROVE  ks \in Seq(Keys) /\ Len(ks) \in Nat /\ Len(ks) >= 1 /\ DOMAIN ks = 1..Len(ks)
<1>1. PICK n \in BatchSizes : ks \in [1..n -> Keys]
  BY DEF Batches
<1>2. n \in Nat /\ n >= 1
  BY WriteQueueAssumption
<1> QED
  BY <1>1, <1>2

\* The rows of a batch are at the positions after those there are.
LEMMA NewRowsPositions ==
  ASSUME NEW ks \in Batches, rowCount \in Nat, rowCount + Len(ks) <= MaxRows
  PROVE  /\ NewRows(ks) \in Seq(Row)
         /\ Len(NewRows(ks)) = Len(ks)
         /\ \A i \in 1..Len(ks) : NewRows(ks)[i] = [key |-> ks[i], pos |-> rowCount + i]
<1>1. ks \in Seq(Keys) /\ Len(ks) \in Nat /\ DOMAIN ks = 1..Len(ks)
  BY BatchIsSeq
<1>2. NewRows(ks) = [i \in 1..Len(ks) |-> [key |-> ks[i], pos |-> rowCount + i]]
  BY <1>1 DEF NewRows
<1>3. \A i \in 1..Len(ks) : [key |-> ks[i], pos |-> rowCount + i] \in Row
  BY <1>1, WriteQueueAssumption DEF Row
<1> QED
  BY <1>1, <1>2, <1>3

\* LastOf is the position of the last row of the key, if there is one.
LEMMA LastOfIs ==
  ASSUME NEW rows \in Seq(Row), NEW k, NEW pos
  PROVE  \/ /\ \A i \in DOMAIN rows : rows[i].key # k
            /\ LastOf(rows, k, pos) = pos
         \/ \E i \in DOMAIN rows :
              /\ rows[i].key = k
              /\ \A j \in DOMAIN rows : rows[j].key = k => j <= i
              /\ LastOf(rows, k, pos) = rows[i].pos
<1> DEFINE here == {i \in DOMAIN rows : rows[i].key = k}
<1>1. CASE here = {}
  BY <1>1 DEF LastOf
<1>2. CASE here # {}
  <2>1. here \in SUBSET (1..Len(rows)) /\ Len(rows) \in Nat
    OBVIOUS
  <2>2. \E i \in here : \A j \in here : j <= i
    BY <2>1, <1>2, GreatestIndex
  <2>3. LastOf(rows, k, pos) = rows[CHOOSE i \in here : \A j \in here : j <= i].pos
    BY <1>2 DEF LastOf
  <2> QED
    BY <2>2, <2>3
<1> QED
  BY <1>1, <1>2

\* A flush takes the oldest rows and leaves the others in their order.
LEMMA SplitTakesOldest ==
  ASSUME NEW rows \in Seq(Row)
  PROVE  \E n \in 0..Len(rows) :
           /\ Split(rows).taken \in Seq(Row) /\ Len(Split(rows).taken) = n
           /\ \A i \in 1..n : Split(rows).taken[i] = rows[i]
           /\ Split(rows).rest \in Seq(Row) /\ Len(Split(rows).rest) = Len(rows) - n
           /\ \A i \in 1..(Len(rows) - n) : Split(rows).rest[i] = rows[n + i]
<1> DEFINE n == Least(FlushRows, Len(rows))
<1>1. n \in 0..Len(rows) /\ Len(rows) \in Nat
  BY WriteQueueAssumption DEF Least
<1>2. /\ Split(rows).taken = SubSeq(rows, 1, n)
      /\ Split(rows).rest = SubSeq(rows, n + 1, Len(rows))
  BY DEF Split
<1> HIDE DEF n
<1>3. /\ SubSeq(rows, 1, n) \in Seq(Row) /\ Len(SubSeq(rows, 1, n)) = n
      /\ \A i \in 1..n : SubSeq(rows, 1, n)[i] = rows[i]
  BY <1>1
<1>4. /\ SubSeq(rows, n + 1, Len(rows)) \in Seq(Row)
      /\ Len(SubSeq(rows, n + 1, Len(rows))) = Len(rows) - n
      /\ \A i \in 1..(Len(rows) - n) : SubSeq(rows, n + 1, Len(rows))[i] = rows[n + i]
  BY <1>1
<1> QED
  BY <1>1, <1>2, <1>3, <1>4

\* What a flush gives to the database are rows of the tables it took.
LEMMA InsertRowsIs ==
  ASSUME NEW rows \in Seq(Row), NEW table \in [Keys -> 0..MaxRows], NEW k \in Keys
  PROVE  \/ /\ InsertRows(table, rows)[k] = table[k]
            /\ \A r \in Unique(rows) : r.key = k => r.pos \in BadRows
         \/ \E i \in DOMAIN rows :
              /\ rows[i].key = k
              /\ \A j \in DOMAIN rows : rows[j].key = k => j <= i
              /\ InsertRows(table, rows)[k] = rows[i].pos
<1>1. CASE \A r \in Unique(rows) : r.key = k => r.pos \in BadRows
  BY <1>1 DEF InsertRows
<1>2. CASE \E r \in Unique(rows) : r.key = k /\ r.pos \notin BadRows
  <2>1. PICK r \in Unique(rows) : r = CHOOSE q \in Unique(rows) : q.key = k
    BY <1>2
  <2>2. r.key = k
    BY <1>2, <2>1
  <2>3. InsertRows(table, rows)[k] = r.pos
    BY <1>2, <2>1 DEF InsertRows
  <2>4. PICK i \in DOMAIN rows : /\ \A l \in DOMAIN rows : rows[l].key = rows[i].key => l <= i
                                 /\ r = rows[i]
    BY DEF Unique
  <2> QED
    BY <2>2, <2>3, <2>4
<1> QED
  BY <1>1, <1>2

\* The rows of a sequence have a position and a key.
LEMMA RowsHavePositions ==
  ASSUME NEW rows \in Seq(Row), NEW i \in DOMAIN rows
  PROVE  rows[i].pos \in 1..MaxRows /\ rows[i].key \in Keys
<1>1. rows[i] \in Row
  OBVIOUS
<1> QED
  BY <1>1 DEF Row

\* The tables of the database keep their type.
LEMMA InsertRowsType ==
  ASSUME NEW rows \in Seq(Row), NEW table \in [Keys -> 0..MaxRows]
  PROVE  InsertRows(table, rows) \in [Keys -> 0..MaxRows]
<1>1. InsertRows(table, rows) = [k \in Keys |-> InsertRows(table, rows)[k]]
  BY DEF InsertRows
<1>2. \A k \in Keys : InsertRows(table, rows)[k] \in 0..MaxRows
  <2> TAKE k \in Keys
  <2>1. \A i \in DOMAIN rows : rows[i].pos \in 0..MaxRows
    BY RowsHavePositions, WriteQueueAssumption
  <2> QED
    BY <2>1, InsertRowsIs
<1> QED
  BY <1>1, <1>2

-----------------------------------------------------------------------------
(* Types, and where a caller's task is *)

\* A caller that submits has a task to submit.
HeldTask == \A c \in Callers : pc[c] \in {"submit", "put"} => held[c] # None

Places == {"idle", "submit", "put", "wait", "join", "gone"}

\* A task that is put sends its caller to a place of the program.
LEMMA AfterPutPlace ==
  ASSUME NEW item \in Item
  PROVE  AfterPut(item) \in {"idle", "wait", "join"}
<1>1. item \in Write \/ item = Flush \/ item = Stop
  BY DEF Item
<1>2. item.kind \in {"write", "flush", "stop"}
  BY <1>1 DEF Write, Flush, Stop
<1> QED
  BY <1>2 DEF AfterPut

\* Settling a task only moves callers to "idle".
LEMMA SettleType ==
  ASSUME TypeOK, HeldTask, NEW item \in Item \cup {None}, pc' = Settle(item), held' = held
  PROVE  pc' \in [Callers -> Places] /\ HeldTask'
BY DEF Settle, TypeOK, HeldTask, Places

\* The first state is of the type.
LEMMA InitType == Init => TypeOK /\ HeldTask
<1> SUFFICES ASSUME Init PROVE TypeOK /\ HeldTask
  OBVIOUS
<1>1. NoRows \in [Tables -> Seq(Row)] /\ EmptyTab \in [Tables -> [Keys -> 0..MaxRows]]
  BY WriteQueueAssumption DEF NoRows, EmptyTab
<1> QED
  <2>1. 0 \in 0..MaxRows /\ 0 \in 0..MaxWrites /\ 0 \in 0..MaxFaults
    BY WriteQueueAssumption
  <2>2. <<>> \in Seq(Item) /\ <<>> \in Seq(Write)
    OBVIOUS
  <2>3. pc \in [Callers -> Places] /\ held \in [Callers -> Item \cup {None}] /\ HeldTask
    BY DEF Init, HeldTask, Places
  <2> QED
    BY <1>1, <2>1, <2>2, <2>3 DEF Init, TypeOK, Places

\* Every step keeps the types.
LEMMA NextType ==
  ASSUME TypeOK, HeldTask, Next
  PROVE  TypeOK' /\ HeldTask'
<1> USE WriteQueueAssumption DEF queueVars, writerVars, dbVars, callerVars
<1>1. ASSUME NEW c \in Callers, NEW t \in Tables, NEW ks \in Batches, QueueRows(c, t, ks)
      PROVE  TypeOK' /\ HeldTask'
  <2>1. /\ rowCount + Len(ks) \in 0..MaxRows
        /\ NewRows(ks) \in Seq(Row)
    <3>1. ks \in Seq(Keys) /\ Len(ks) \in Nat
      BY BatchIsSeq
    <3>2. rowCount \in 0..MaxRows /\ rowCount + Len(ks) <= MaxRows
      BY <1>1 DEF QueueRows, TypeOK
    <3>3. rowCount + Len(ks) \in 0..MaxRows
      BY <3>1, <3>2
    <3>4. NewRows(ks) \in Seq(Row)
      BY <3>2, <3>3, NewRowsPositions
    <3> QED
      BY <3>3, <3>4
  <2>2. pendingRows' \in [Tables -> Seq(Row)]
    BY <1>1, <2>1 DEF QueueRows, TypeOK
  <2>3. lastQueued' \in [Tables -> [Keys -> 0..MaxRows]]
    <3>1. \A k \in Keys : LastOf(NewRows(ks), k, lastQueued[t][k]) \in 0..MaxRows
      <4> TAKE k \in Keys
      <4>1. lastQueued[t][k] \in 0..MaxRows
        BY DEF TypeOK
      <4>2. \A i \in DOMAIN NewRows(ks) : NewRows(ks)[i].pos \in 0..MaxRows
        BY <2>1, RowsHavePositions
      <4> QED
        BY <2>1, <4>1, <4>2, LastOfIs
    <3> QED
      BY <1>1, <3>1 DEF QueueRows, TypeOK
  <2>4. pc' \in [Callers -> Places] /\ held' \in [Callers -> Item \cup {None}] /\ HeldTask'
    <3>1. \/ pc' = [pc EXCEPT ![c] = "submit"] /\ held' = [held EXCEPT ![c] = Flush]
          \/ pc' = pc /\ held' = held
      BY <1>1 DEF QueueRows
    <3>2. Flush \in Item /\ Flush # None
      BY ItemKinds DEF Item
    <3>3. pc \in [Callers -> Places] /\ held \in [Callers -> Item \cup {None}]
      BY DEF TypeOK, Places
    <3>4. pc' \in [Callers -> Places]
      BY <3>1, <3>3 DEF Places
    <3>5. held' \in [Callers -> Item \cup {None}]
      BY <3>1, <3>2, <3>3
    <3>6. HeldTask'
      BY <3>1, <3>2, <3>3 DEF HeldTask
    <3> QED
      BY <3>4, <3>5, <3>6
  <2> QED
    BY <1>1, <2>1, <2>2, <2>3, <2>4 DEF QueueRows, TypeOK, Places
<1>2. ASSUME NEW c \in Callers, NEW sync \in BOOLEAN, Save(c, sync)
      PROVE  TypeOK' /\ HeldTask'
  <2>1. [kind |-> "write", caller |-> c, n |-> writeCount[c] + 1,
         sync |-> sync, after |-> rowCount] \in Write
    BY <1>2 DEF Save, TypeOK, Write
  <2> QED
    BY <1>2, <2>1, ItemKinds DEF Save, TypeOK, HeldTask, Item
<1>3. ASSUME NEW c \in Callers, SubmitCheck(c)
      PROVE  TypeOK' /\ HeldTask'
  BY <1>3 DEF SubmitCheck, TypeOK, HeldTask
<1>4. ASSUME NEW c \in Callers, SubmitPut(c)
      PROVE  TypeOK' /\ HeldTask'
  <2>1. held[c] \in Item
    BY <1>4 DEF SubmitPut, TypeOK, HeldTask
  <2>2. tasks' \in Seq(Item)
    BY <1>4, <2>1 DEF SubmitPut, Put, TypeOK
  <2> QED
    BY <1>4, <2>1, <2>2, AfterPutPlace DEF SubmitPut, TypeOK, HeldTask
<1>5. CASE Shutdown \/ Join
  <2>1. CASE Shutdown
    <3>1. Stop \in Item /\ Stop # None
      BY ItemKinds DEF Item
    <3>2. pc' \in [Callers -> Places] /\ held' \in [Callers -> Item \cup {None}]
      BY <2>1, <3>1 DEF Shutdown, TypeOK, Places
    <3>3. HeldTask'
      BY <2>1, <3>1 DEF Shutdown, TypeOK, HeldTask
    <3> QED
      BY <2>1, <3>2, <3>3 DEF Shutdown, TypeOK, Places
  <2>2. CASE Join
    BY <2>2 DEF Join, TypeOK, HeldTask
  <2> QED
    BY <1>5, <2>1, <2>2
<1>6. CASE Get \/ BeginSession \/ NextTask \/ EndSession \/ StopSession
  <2>1. tasks # <<>> => Head(tasks) \in Item /\ Tail(tasks) \in Seq(Item)
    BY DEF TypeOK
  <2>2. tasks' \in Seq(Item) /\ witem' \in Item \cup {None}
    BY <1>6, <2>1 DEF Get, BeginSession, NextTask, EndSession, StopSession, TypeOK
  <2> QED
    BY <1>6, <2>2
    DEF Get, BeginSession, NextTask, EndSession, StopSession, AfterStop, TypeOK, HeldTask
<1>7. CASE SessionFails \/ WriteFails \/ RunWrite
  <2>1. pc' \in [Callers -> Places] /\ HeldTask'
    BY <1>7, SettleType DEF SessionFails, WriteFails, RunWrite, TypeOK
  <2>2. applied' \in Seq(Write)
    <3>1. CASE RunWrite
      <4>1. witem \in Write /\ applied \in Seq(Write)
        BY <3>1, ItemKinds DEF RunWrite, TypeOK
      <4> QED
        BY <3>1, <4>1 DEF RunWrite
    <3> QED
      BY <1>7, <3>1 DEF SessionFails, WriteFails, TypeOK
  <2> QED
    BY <1>7, <2>1, <2>2 DEF SessionFails, WriteFails, RunWrite, MayFault, TypeOK, Places
<1>8. CASE PopRows
  <2>1. \A t \in Tables : /\ Split(pendingRows[t]).taken \in Seq(Row)
                          /\ Split(pendingRows[t]).rest \in Seq(Row)
    BY SplitTakesOldest DEF TypeOK
  <2>2. chunk' \in [Tables -> Seq(Row)] /\ pendingRows' \in [Tables -> Seq(Row)]
    BY <1>8, <2>1 DEF PopRows
  <2>3. wpc' \in {"after", "resubmit", "insert"} /\ witem' \in {witem, None}
    BY <1>8 DEF PopRows
  <2>4. flushQueued' \in BOOLEAN
    BY <1>8 DEF PopRows, More
  <2> QED
    BY <1>8, <2>2, <2>3, <2>4 DEF PopRows, TypeOK, HeldTask
<1>9. CASE ResubmitCheck \/ ResubmitPut
  <2>1. NoRows \in [Tables -> Seq(Row)] /\ Flush \in Item
    BY DEF NoRows, Item
  <2>2. tasks' \in Seq(Item)
    <3>1. tasks \in Seq(Item) /\ Append(tasks, Flush) \in Seq(Item)
      BY <2>1 DEF TypeOK
    <3> QED
      BY <1>9, <3>1 DEF ResubmitCheck, ResubmitPut, Put
  <2> QED
    BY <1>9, <2>1, <2>2 DEF ResubmitCheck, ResubmitPut, TypeOK, HeldTask
<1>10. ASSUME NEW t \in Tables, InsertTable(t)
       PROVE  TypeOK' /\ HeldTask'
  <2>1. stored' \in [Tables -> [Keys -> 0..MaxRows]]
    BY <1>10, InsertRowsType DEF InsertTable, TypeOK
  <2>2. chunk' \in [Tables -> Seq(Row)] /\ wpc' \in {"after", wpc} /\ witem' \in {witem, None}
    BY <1>10 DEF InsertTable, TypeOK
  <2> QED
    BY <1>10, <2>1, <2>2 DEF InsertTable, TypeOK, HeldTask
<1>13. ASSUME NEW t \in Tables, InsertSome(t)
       PROVE  TypeOK' /\ HeldTask'
  <2>1. stored' \in [Tables -> [Keys -> 0..MaxRows]]
    <3>1. /\ InsertRows(stored[t], chunk[t]) \in [Keys -> 0..MaxRows]
          /\ stored \in [Tables -> [Keys -> 0..MaxRows]]
      BY InsertRowsType DEF TypeOK
    <3>2. PICK ks \in SUBSET Keys :
            stored' = [stored EXCEPT ![t] =
              [k \in Keys |-> IF k \in ks THEN InsertRows(stored[t], chunk[t])[k] ELSE stored[t][k]]]
      BY <1>13 DEF InsertSome
    <3>3. [k \in Keys |-> IF k \in ks THEN InsertRows(stored[t], chunk[t])[k] ELSE stored[t][k]]
            \in [Keys -> 0..MaxRows]
      BY <3>1
    <3> QED
      BY <3>1, <3>2, <3>3
  <2> QED
    BY <1>13, <2>1 DEF InsertSome, TypeOK, HeldTask
<1>11. CASE Crash
  <2>1. NoRows \in [Tables -> Seq(Row)] /\ <<>> \in Seq(Item)
    BY DEF NoRows
  <2>2. pc' \in [Callers -> Places] /\ held' \in [Callers -> Item \cup {None}] /\ HeldTask'
    BY <1>11 DEF Crash, HeldTask, Places
  <2>3. faults' \in 0..MaxFaults
    BY <1>11 DEF Crash, MayFault, TypeOK
  <2>4. /\ wpc' = "get" /\ witem' = None /\ flushQueued' = FALSE /\ closed' = FALSE
        /\ tasks' = <<>> /\ pendingRows' = NoRows /\ chunk' = NoRows /\ lastQueued' = stored
        /\ UNCHANGED <<rowCount, writeCount, stored, applied>>
    BY <1>11 DEF Crash
  <2> QED
    BY <2>1, <2>2, <2>3, <2>4 DEF TypeOK, Places
<1>12. CASE AtRest
  BY <1>12 DEF AtRest, vars, TypeOK, HeldTask
<1> QED
  BY <1>1, <1>2, <1>3, <1>4, <1>5, <1>6, <1>7, <1>8, <1>9, <1>10, <1>11, <1>12, <1>13
  DEF Next, CallerStep, SubmitStep, WriterStep

-----------------------------------------------------------------------------
(* One flush *)

\* A flush that a caller holds, or that is queued, or that the writer owes, is
\* the only one, and the flag is set.
OneFlush ==
  /\ \A c \in Callers : held[c] = Flush =>
       /\ flushQueued /\ ~WriterOwesFlush
       /\ \A i \in DOMAIN tasks : tasks[i] # Flush
       /\ \A d \in Callers : held[d] = Flush => d = c
  /\ \A i \in DOMAIN tasks : tasks[i] = Flush =>
       /\ flushQueued /\ ~WriterOwesFlush
       /\ \A j \in DOMAIN tasks : tasks[j] = Flush => j = i
  /\ WriterOwesFlush => flushQueued

\* OneFlush is stronger than SingleFlush.
LEMMA OneFlushIsSingle == OneFlush => SingleFlush
BY DEF OneFlush, SingleFlush, OutstandingFlushes

\* There is no flush at first.
LEMMA InitOneFlush == Init => OneFlush
BY ItemKinds DEF Init, OneFlush, WriterOwesFlush

\* A task that is put goes behind the others.
LEMMA PutIsLast ==
  ASSUME tasks \in Seq(Item), NEW item \in Item
  PROVE  /\ DOMAIN Put(item) = DOMAIN tasks \cup {Len(tasks) + 1}
         /\ \A i \in DOMAIN tasks : Put(item)[i] = tasks[i]
         /\ Put(item)[Len(tasks) + 1] = item
BY DEF Put

\* The task taken is the first, and the others move up.
LEMMA TakeFirst ==
  ASSUME tasks \in Seq(Item), tasks # <<>>
  PROVE  /\ 1 \in DOMAIN tasks /\ Head(tasks) = tasks[1]
         /\ \A i \in DOMAIN Tail(tasks) :
              /\ i \in Nat /\ i + 1 \in DOMAIN tasks /\ i + 1 # 1
              /\ Tail(tasks)[i] = tasks[i + 1]
OBVIOUS

\* No step makes a second flush.
LEMMA NextOneFlush ==
  ASSUME TypeOK, HeldTask, OneFlush, Next
  PROVE  OneFlush'
<1> USE ItemKinds DEF queueVars, writerVars, dbVars, callerVars
<1>1. ASSUME NEW c \in Callers, NEW t \in Tables, NEW ks \in Batches, QueueRows(c, t, ks)
      PROVE  OneFlush'
  BY <1>1 DEF QueueRows, MustSubmit, TypeOK, OneFlush, WriterOwesFlush
<1>2. ASSUME NEW c \in Callers, NEW sync \in BOOLEAN, Save(c, sync)
      PROVE  OneFlush'
  <2>1. [kind |-> "write", caller |-> c, n |-> writeCount[c] + 1,
         sync |-> sync, after |-> rowCount] # Flush
    BY DEF Flush
  <2> QED
    BY <1>2, <2>1 DEF Save, TypeOK, OneFlush, WriterOwesFlush
<1>3. ASSUME NEW c \in Callers, SubmitCheck(c)
      PROVE  OneFlush'
  BY <1>3 DEF SubmitCheck, TypeOK, OneFlush, WriterOwesFlush
<1>4. ASSUME NEW c \in Callers, SubmitPut(c)
      PROVE  OneFlush'
  <2>1. held[c] \in Item
    BY <1>4 DEF SubmitPut, TypeOK, HeldTask
  <2>2. Len(tasks) + 1 \notin DOMAIN tasks
    BY DEF TypeOK
  <2>3. /\ DOMAIN tasks' = DOMAIN tasks \cup {Len(tasks) + 1}
        /\ \A i \in DOMAIN tasks : tasks'[i] = tasks[i]
        /\ tasks'[Len(tasks) + 1] = held[c]
    BY <1>4, <2>1, PutIsLast DEF SubmitPut, TypeOK
  <2>4. /\ held' = [held EXCEPT ![c] = None]
        /\ flushQueued' = flushQueued
        /\ WriterOwesFlush' <=> WriterOwesFlush
    BY <1>4 DEF SubmitPut, WriterOwesFlush
  <2> QED
    BY <2>2, <2>3, <2>4 DEF TypeOK, OneFlush
<1>5. CASE Shutdown \/ Join
  BY <1>5 DEF Shutdown, Join, TypeOK, OneFlush, WriterOwesFlush
<1>6. CASE Get \/ NextTask \/ StopSession
  <2>1. tasks # <<>> /\ tasks' = Tail(tasks) /\ ~WriterOwesFlush
    BY <1>6 DEF Get, NextTask, StopSession, WriterOwesFlush
  <2>2. WriterOwesFlush' => Head(tasks) = Flush
    BY <1>6 DEF Get, NextTask, StopSession, AfterStop, WriterOwesFlush
  <2>3. UNCHANGED <<held, flushQueued>>
    BY <1>6 DEF Get, NextTask, StopSession
  <2> QED
    BY <2>1, <2>2, <2>3, TakeFirst DEF TypeOK, OneFlush
<1>7. CASE BeginSession \/ SessionFails \/ RunWrite \/ WriteFails \/ EndSession
             \/ ResubmitCheck \/ (\E t \in Tables : InsertSome(t) \/ InsertTable(t))
  <2>1. WriterOwesFlush' => WriterOwesFlush
    BY <1>7 DEF BeginSession, SessionFails, RunWrite, WriteFails, EndSession, ResubmitCheck,
                InsertSome, InsertTable, WriterOwesFlush
  <2>2. UNCHANGED <<held, tasks, flushQueued>>
    BY <1>7 DEF BeginSession, SessionFails, RunWrite, WriteFails, EndSession, ResubmitCheck,
                InsertSome, InsertTable
  <2> QED
    BY <2>1, <2>2 DEF OneFlush
<1>8. CASE PopRows
  <2>1. WriterOwesFlush /\ UNCHANGED <<held, tasks>>
    BY <1>8 DEF PopRows, WriterOwesFlush
  <2>2. WriterOwesFlush' => flushQueued'
    BY <1>8 DEF PopRows, WriterOwesFlush
  <2> QED
    BY <2>1, <2>2 DEF OneFlush
<1>9. CASE ResubmitPut
  <2>1. WriterOwesFlush /\ ~WriterOwesFlush' /\ UNCHANGED <<held, flushQueued>>
    BY <1>9 DEF ResubmitPut, WriterOwesFlush
  <2>2. Len(tasks) + 1 \notin DOMAIN tasks
    BY DEF TypeOK
  <2>3. /\ DOMAIN tasks' = DOMAIN tasks \cup {Len(tasks) + 1}
        /\ \A i \in DOMAIN tasks : tasks'[i] = tasks[i]
        /\ tasks'[Len(tasks) + 1] = Flush
    <3>1. Flush \in Item
      BY DEF Item
    <3> QED
      BY <1>9, <3>1, PutIsLast DEF ResubmitPut, TypeOK
  <2> QED
    BY <2>1, <2>2, <2>3 DEF OneFlush
<1>10. CASE Crash
  BY <1>10 DEF Crash, OneFlush, WriterOwesFlush
<1>11. CASE AtRest
  BY <1>11 DEF AtRest, vars, OneFlush, WriterOwesFlush
<1> QED
  BY <1>1, <1>2, <1>3, <1>4, <1>5, <1>6, <1>7, <1>8, <1>9, <1>10, <1>11
  DEF Next, CallerStep, SubmitStep, WriterStep

-----------------------------------------------------------------------------
(* The rows on their way *)

\* Outside a flush no rows are out of the queue.
ChunkInFlush == wpc \in {"get", "begin", "run", "after", "exited"} => chunk = NoRows

Increasing(rows) == \A i, j \in DOMAIN rows : i < j => rows[i].pos < rows[j].pos

\* The rows of a flush were queued before those that wait, and both are in order.
RowsOrdered ==
  \A t \in Tables :
    /\ Increasing(chunk[t]) /\ Increasing(pendingRows[t])
    /\ \A i \in DOMAIN chunk[t], j \in DOMAIN pendingRows[t] :
         chunk[t][i].pos < pendingRows[t][j].pos

\* The database has no row that was queued after the last.
PosBounds ==
  \A t \in Tables, k \in Keys :
    stored[t][k] <= lastQueued[t][k] /\ lastQueued[t][k] <= rowCount

\* Rows for table t that are newer than what the database has for their keys.
Fresh(rows, t) ==
  \A i \in DOMAIN rows :
    /\ stored[t][rows[i].key] < rows[i].pos
    /\ rows[i].pos <= lastQueued[t][rows[i].key]

\* Rows for table t that the database may have got: nothing newer than the last of a key.
NotOlder(rows, t) ==
  \A i \in DOMAIN rows :
    /\ \E j \in DOMAIN rows : rows[j].key = rows[i].key /\ stored[t][rows[i].key] <= rows[j].pos
    /\ rows[i].pos <= lastQueued[t][rows[i].key]

RowsFresh == \A t \in Tables : NotOlder(chunk[t], t) /\ Fresh(pendingRows[t], t)

HasRow(rows, k, p) == \E i \in DOMAIN rows : rows[i].key = k /\ rows[i].pos = p

\* The last row of a key is in the database, rejected by it, or in memory.
InSight(t, k) ==
  \/ Arrived(t, k)
  \/ HasRow(chunk[t], k, lastQueued[t][k])
  \/ HasRow(pendingRows[t], k, lastQueued[t][k])

\* NoRowLost, with the key of the row that is still in memory.
Kept == ~closed => \A t \in Tables, k \in Keys : InSight(t, k)

RowInv == ChunkInFlush /\ RowsOrdered /\ PosBounds /\ RowsFresh /\ Kept

\* There are no rows at first.
LEMMA InitRowInv == Init => RowInv
<1> SUFFICES ASSUME Init PROVE RowInv
  OBVIOUS
<1>1. \A t \in Tables : chunk[t] = <<>> /\ pendingRows[t] = <<>>
  BY DEF Init, NoRows
<1>2. \A t \in Tables, k \in Keys : stored[t][k] = 0 /\ lastQueued[t][k] = 0
  BY DEF Init, EmptyTab
<1>3. ChunkInFlush /\ PosBounds /\ Kept
  BY <1>2 DEF Init, ChunkInFlush, PosBounds, Kept, InSight, Arrived
<1>4. RowsOrdered /\ RowsFresh
  BY <1>1 DEF RowsOrdered, RowsFresh, Increasing, Fresh, NotOlder
<1> QED
  BY <1>3, <1>4 DEF RowInv

\* The positions that the database and the queue know of are numbers.
LEMMA PosTypes ==
  ASSUME TypeOK, PosBounds, NEW t \in Tables, NEW k \in Keys
  PROVE  /\ stored[t][k] \in Nat /\ lastQueued[t][k] \in Nat /\ rowCount \in Nat
         /\ stored[t][k] <= lastQueued[t][k] /\ lastQueued[t][k] <= rowCount
         /\ stored[t][k] <= rowCount
<1>1. stored[t][k] \in Nat /\ lastQueued[t][k] \in Nat /\ rowCount \in Nat
  BY WriteQueueAssumption DEF TypeOK
<1>2. stored[t][k] <= lastQueued[t][k] /\ lastQueued[t][k] <= rowCount
  BY DEF PosBounds
<1> QED
  BY <1>1, <1>2

\* What Fresh says of one row.
LEMMA FreshRow ==
  ASSUME TypeOK, PosBounds, NEW t \in Tables, NEW rows \in Seq(Row), Fresh(rows, t),
         NEW i \in DOMAIN rows
  PROVE  /\ i \in Nat /\ i >= 1 /\ rows[i].pos \in Nat /\ rows[i].key \in Keys
         /\ stored[t][rows[i].key] < rows[i].pos
         /\ rows[i].pos <= lastQueued[t][rows[i].key]
         /\ rows[i].pos <= rowCount
<1>1. i \in Nat /\ i >= 1 /\ rows[i].pos \in Nat /\ rows[i].key \in Keys
  BY RowsHavePositions, WriteQueueAssumption
<1>2. /\ stored[t][rows[i].key] < rows[i].pos
      /\ rows[i].pos <= lastQueued[t][rows[i].key]
  BY DEF Fresh
<1>3. /\ lastQueued[t][rows[i].key] \in Nat /\ rowCount \in Nat
      /\ lastQueued[t][rows[i].key] <= rowCount
  BY <1>1, PosTypes
<1>4. rows[i].pos <= rowCount
  BY <1>1, <1>2, <1>3
<1> QED
  BY <1>1, <1>2, <1>4

\* What NotOlder says of one row.
LEMMA NotOlderRow ==
  ASSUME TypeOK, PosBounds, NEW t \in Tables, NEW rows \in Seq(Row), NotOlder(rows, t),
         NEW i \in DOMAIN rows
  PROVE  /\ i \in Nat /\ i >= 1 /\ rows[i].pos \in Nat /\ rows[i].key \in Keys
         /\ rows[i].pos <= lastQueued[t][rows[i].key]
         /\ rows[i].pos <= rowCount
<1>1. i \in Nat /\ i >= 1 /\ rows[i].pos \in Nat /\ rows[i].key \in Keys
  BY RowsHavePositions, WriteQueueAssumption
<1>2. rows[i].pos <= lastQueued[t][rows[i].key]
  BY DEF NotOlder
<1>3. lastQueued[t][rows[i].key] \in Nat /\ lastQueued[t][rows[i].key] <= rowCount /\ rowCount \in Nat
  BY <1>1, PosTypes
<1> QED
  BY <1>1, <1>2, <1>3

\* The last row of a key among them is not older than what the database has.
LEMMA LastNotOlder ==
  ASSUME TypeOK, PosBounds, NEW t \in Tables, NEW rows \in Seq(Row), NotOlder(rows, t), Increasing(rows),
         NEW k \in Keys, NEW i \in DOMAIN rows, rows[i].key = k,
         \A j \in DOMAIN rows : rows[j].key = k => j <= i
  PROVE  stored[t][k] <= rows[i].pos
<1>1. PICK j \in DOMAIN rows : rows[j].key = k /\ stored[t][k] <= rows[j].pos
  BY DEF NotOlder
<1>2. stored[t][k] \in Nat /\ rows[j].pos \in Nat /\ rows[i].pos \in Nat /\ i \in Nat /\ j \in Nat /\ j <= i
  BY <1>1, PosTypes, NotOlderRow
<1>3. j = i \/ rows[j].pos < rows[i].pos
  BY <1>2 DEF Increasing
<1> QED
  BY <1>1, <1>2, <1>3

\* The rows of a concatenation are those of the parts, in place.
LEMMA Concatenated ==
  ASSUME NEW P \in Seq(Row), NEW N \in Seq(Row)
  PROVE  /\ DOMAIN (P \o N) = 1..(Len(P) + Len(N))
         /\ \A i \in DOMAIN P : (P \o N)[i] = P[i] /\ i \in DOMAIN (P \o N)
         /\ \A i \in DOMAIN N : (P \o N)[Len(P) + i] = N[i] /\ Len(P) + i \in DOMAIN (P \o N)
         /\ \A i \in DOMAIN (P \o N) : i \in DOMAIN P \/ i - Len(P) \in DOMAIN N
<1>1. /\ Len(P) \in Nat /\ Len(N) \in Nat /\ Len(P \o N) = Len(P) + Len(N)
      /\ DOMAIN P = 1..Len(P) /\ DOMAIN N = 1..Len(N)
      /\ P \o N \in Seq(Row)
  OBVIOUS
<1>2. \A i \in 1..(Len(P) + Len(N)) :
        (P \o N)[i] = IF i <= Len(P) THEN P[i] ELSE N[i - Len(P)]
  BY ConcatProperties
<1>3. DOMAIN (P \o N) = 1..(Len(P) + Len(N))
  BY <1>1
<1> QED
  BY <1>1, <1>2, <1>3

\* A batch is newer than every row there is, and becomes the last of its keys.
LEMMA QueueRowsInv ==
  ASSUME TypeOK, RowInv,
         NEW c \in Callers, NEW t \in Tables, NEW ks \in Batches, QueueRows(c, t, ks)
  PROVE  /\ RowInv'
         /\ \A u \in Tables, k \in Keys : InSight(u, k) => InSight(u, k)'
<1> DEFINE N == NewRows(ks)
           P == pendingRows[t]
<1>0. ChunkInFlush /\ RowsOrdered /\ PosBounds /\ RowsFresh /\ Kept
  BY DEF RowInv
<1>1. /\ N \in Seq(Row) /\ Len(N) \in Nat /\ Len(N) = Len(ks) /\ DOMAIN N = 1..Len(N)
      /\ rowCount \in Nat
      /\ \A i \in DOMAIN N : N[i].pos = rowCount + i /\ N[i].key \in Keys
  <2>1. /\ N \in Seq(Row) /\ Len(N) = Len(ks) /\ rowCount \in Nat
        /\ \A i \in 1..Len(ks) : N[i] = [key |-> ks[i], pos |-> rowCount + i]
    BY NewRowsPositions DEF QueueRows, TypeOK
  <2> HIDE DEF N
  <2>2. Len(N) \in Nat /\ DOMAIN N = 1..Len(N)
    BY <2>1
  <2>3. \A i \in DOMAIN N : N[i].key \in Keys
    BY <2>1, RowsHavePositions
  <2>4. \A i \in 1..Len(ks) : [key |-> ks[i], pos |-> rowCount + i].pos = rowCount + i
    OBVIOUS
  <2> QED
    BY <2>1, <2>2, <2>3, <2>4
<1>2. P \in Seq(Row) /\ Len(P) \in Nat /\ DOMAIN P = 1..Len(P)
  BY DEF TypeOK
<1>3. /\ pendingRows'[t] = P \o N
      /\ \A u \in Tables \ {t} : pendingRows'[u] = pendingRows[u] /\ lastQueued'[u] = lastQueued[u]
      /\ \A k \in Keys : lastQueued'[t][k] = LastOf(N, k, lastQueued[t][k])
      /\ UNCHANGED <<chunk, stored, closed, wpc>>
      /\ rowCount' = rowCount + Len(N)
  BY <1>1 DEF QueueRows, TypeOK, writerVars, dbVars
<1>4. /\ \A i \in DOMAIN P : /\ P[i].pos \in Nat /\ P[i].key \in Keys
                             /\ stored[t][P[i].key] < P[i].pos
                             /\ P[i].pos <= lastQueued[t][P[i].key]
                             /\ P[i].pos <= rowCount
      /\ \A i \in DOMAIN chunk[t] : /\ chunk[t][i].pos \in Nat /\ chunk[t][i].key \in Keys
                                    /\ chunk[t][i].pos <= lastQueued[t][chunk[t][i].key]
                                    /\ chunk[t][i].pos <= rowCount
  <2>1. Fresh(P, t) /\ NotOlder(chunk[t], t) /\ chunk[t] \in Seq(Row)
    BY <1>0 DEF RowsFresh, TypeOK
  <2> HIDE DEF P
  <2> QED
    BY <2>1, <1>0, <1>2, FreshRow, NotOlderRow
<1> HIDE DEF N
<1>5. /\ DOMAIN (P \o N) = 1..(Len(P) + Len(N))
      /\ \A i \in DOMAIN P : (P \o N)[i] = P[i] /\ i \in DOMAIN (P \o N)
      /\ \A i \in DOMAIN N : (P \o N)[Len(P) + i] = N[i] /\ Len(P) + i \in DOMAIN (P \o N)
      /\ \A i \in DOMAIN (P \o N) : i \in DOMAIN P \/ i - Len(P) \in DOMAIN N
  BY <1>1, <1>2, Concatenated
<1>6. \A k \in Keys :
        /\ lastQueued'[t][k] \in Nat
        /\ lastQueued[t][k] <= lastQueued'[t][k] /\ lastQueued'[t][k] <= rowCount + Len(N)
        /\ \A i \in DOMAIN N : N[i].key = k => N[i].pos <= lastQueued'[t][k]
        /\ lastQueued'[t][k] = lastQueued[t][k] \/ HasRow(N, k, lastQueued'[t][k])
  <2> TAKE k \in Keys
  <2>1. lastQueued[t][k] \in Nat /\ lastQueued[t][k] <= rowCount
    BY <1>0, PosTypes
  <2>2. CASE lastQueued'[t][k] = lastQueued[t][k] /\ \A i \in DOMAIN N : N[i].key # k
    BY <2>1, <2>2, <1>1
  <2>3. CASE \E i \in DOMAIN N :
               /\ N[i].key = k /\ \A j \in DOMAIN N : N[j].key = k => j <= i
               /\ lastQueued'[t][k] = N[i].pos
    <3>1. PICK i \in DOMAIN N : /\ N[i].key = k /\ \A j \in DOMAIN N : N[j].key = k => j <= i
                                /\ lastQueued'[t][k] = N[i].pos
      BY <2>3
    <3>2. lastQueued'[t][k] = rowCount + i /\ i \in 1..Len(N)
      BY <3>1, <1>1
    <3>3. \A j \in DOMAIN N : N[j].key = k => N[j].pos <= lastQueued'[t][k]
      BY <3>1, <3>2, <1>1
    <3>4. HasRow(N, k, lastQueued'[t][k])
      BY <3>1 DEF HasRow
    <3> QED
      BY <2>1, <3>2, <3>3, <3>4, <1>1
  <2>4. N \in Seq(Row) /\ lastQueued'[t][k] = LastOf(N, k, lastQueued[t][k])
    BY <1>1, <1>3
  <2> HIDE DEF N
  <2>5. \/ /\ \A i \in DOMAIN N : N[i].key # k
           /\ LastOf(N, k, lastQueued[t][k]) = lastQueued[t][k]
        \/ \E i \in DOMAIN N :
             /\ N[i].key = k
             /\ \A j \in DOMAIN N : N[j].key = k => j <= i
             /\ LastOf(N, k, lastQueued[t][k]) = N[i].pos
    BY <2>4, LastOfIs
  <2> QED
    BY <2>2, <2>3, <2>4, <2>5
<1>7. \A j \in DOMAIN (P \o N) :
        \/ /\ j \in DOMAIN P /\ (P \o N)[j] = P[j] 
           /\ P[j].pos \in Nat /\ P[j].pos <= rowCount
        \/ /\ j - Len(P) \in DOMAIN N /\ (P \o N)[j] = N[j - Len(P)]
           /\ (P \o N)[j].pos = rowCount + (j - Len(P)) /\ (P \o N)[j].pos > rowCount
  <2> TAKE j \in DOMAIN (P \o N)
  <2>1. CASE j - Len(P) \in DOMAIN N
    <3>1. j \in Nat /\ (P \o N)[Len(P) + (j - Len(P))] = N[j - Len(P)]
      BY <2>1, <1>1, <1>2, <1>5, SMTT(20)
    <3>2. N[j - Len(P)].pos = rowCount + (j - Len(P)) /\ j - Len(P) >= 1
      BY <2>1, <1>1
    <3>3. Len(P) + (j - Len(P)) = j
      BY <3>1, <1>2
    <3>4. (P \o N)[j] = N[j - Len(P)]
      BY <3>1, <3>3
    <3>5. rowCount \in Nat /\ j - Len(P) \in Nat
      BY <2>1, <1>1
    <3>6. rowCount + (j - Len(P)) > rowCount
      BY <3>2, <3>5
    <3>7. (P \o N)[j].pos = rowCount + (j - Len(P)) /\ (P \o N)[j].pos > rowCount
      BY <3>2, <3>4, <3>6
    <3> HIDE DEF P, N
    <3> QED
      BY <2>1, <3>4, <3>7
  <2> QED
    BY <2>1, <1>4, <1>5
<1> HIDE DEF P
<1>8. ChunkInFlush' /\ PosBounds'
  <2>1. ChunkInFlush'
    BY <1>0, <1>3 DEF ChunkInFlush
  <2>2. ASSUME NEW u \in Tables, NEW k \in Keys
        PROVE  stored'[u][k] <= lastQueued'[u][k] /\ lastQueued'[u][k] <= rowCount'
    <3>1. /\ stored[u][k] \in Nat /\ lastQueued[u][k] \in Nat
          /\ stored[u][k] <= lastQueued[u][k] /\ lastQueued[u][k] <= rowCount
      BY <1>0, PosTypes
    <3> QED
      BY <3>1, <1>1, <1>3, <1>6
  <2> QED
    BY <2>1, <2>2 DEF PosBounds
<1>9. RowsOrdered'
  <2>1. Increasing(P \o N)
    <3> SUFFICES ASSUME NEW i \in DOMAIN (P \o N), NEW j \in DOMAIN (P \o N), i < j
                 PROVE  (P \o N)[i].pos < (P \o N)[j].pos
      BY DEF Increasing
    <3>1. i \in Nat /\ j \in Nat
      BY <1>1, <1>2, <1>5
    <3>2. CASE i \in DOMAIN P /\ j \in DOMAIN P
      BY <3>2, <1>0, <1>5 DEF RowsOrdered, Increasing, P
    <3>3. CASE i \in DOMAIN P /\ j \notin DOMAIN P
      <4>1. (P \o N)[i].pos \in Nat /\ (P \o N)[i].pos <= rowCount
        BY <3>3, <1>4, <1>5
      <4>2. (P \o N)[j].pos > rowCount /\ (P \o N)[j].pos \in Nat
        BY <3>3, <1>1, <1>2, <1>7
      <4>3. rowCount \in Nat /\ \A a, b, d \in Nat : a <= d /\ b > d => a < b
        BY <1>1
      <4> QED
        BY <4>1, <4>2, <4>3, Zenon
    <3>4. CASE i \notin DOMAIN P
      <4>1. j \notin DOMAIN P
        BY <3>1, <3>4, <1>1, <1>2, <1>7
      <4>2. /\ (P \o N)[i].pos = rowCount + (i - Len(P))
            /\ (P \o N)[j].pos = rowCount + (j - Len(P))
        BY <3>4, <4>1, <1>7
      <4>3. rowCount \in Nat /\ Len(P) \in Nat
        BY <1>1, <1>2
      <4>4. rowCount + (i - Len(P)) < rowCount + (j - Len(P))
        BY <3>1, <4>3
      <4> QED
        BY <4>2, <4>4
    <3> QED
      BY <3>2, <3>3, <3>4
  <2>2. ASSUME NEW i \in DOMAIN chunk[t], NEW j \in DOMAIN (P \o N)
        PROVE  chunk[t][i].pos < (P \o N)[j].pos
    <3>1. CASE j \in DOMAIN P
      BY <3>1, <1>0, <1>5 DEF RowsOrdered, P
    <3>2. CASE j \notin DOMAIN P
      <4>1. chunk[t][i].pos \in Nat /\ chunk[t][i].pos <= rowCount
        BY <1>4
      <4>2. (P \o N)[j].pos > rowCount /\ (P \o N)[j].pos \in Nat
        BY <3>2, <1>1, <1>2, <1>7
      <4> QED
        BY <4>1, <4>2, <1>1
    <3> QED
      BY <3>1, <3>2
  <2> QED
    <3> SUFFICES ASSUME NEW u \in Tables
                 PROVE  /\ Increasing(chunk'[u]) /\ Increasing(pendingRows'[u])
                        /\ \A i \in DOMAIN chunk'[u], j \in DOMAIN pendingRows'[u] :
                             chunk'[u][i].pos < pendingRows'[u][j].pos
      BY DEF RowsOrdered, Increasing
    <3>1. CASE u = t
      BY <3>1, <1>0, <1>3, <2>1, <2>2 DEF RowsOrdered
    <3>2. CASE u # t
      BY <3>2, <1>0, <1>3 DEF RowsOrdered
    <3> QED
      BY <3>1, <3>2
<1>10. RowsFresh'
  <2>1. ASSUME NEW i \in DOMAIN (P \o N)
        PROVE  /\ stored[t][(P \o N)[i].key] < (P \o N)[i].pos
               /\ (P \o N)[i].pos <= lastQueued'[t][(P \o N)[i].key]
    <3>1. CASE i \in DOMAIN P
      <4>1. (P \o N)[i] = P[i] /\ P[i].key \in Keys
        BY <3>1, <1>4, <1>5
      <4>2. lastQueued[t][P[i].key] \in Nat
        BY <4>1, <1>0, PosTypes
      <4> QED
        BY <3>1, <4>1, <4>2, <1>4, <1>6
    <3>2. CASE i \notin DOMAIN P
      <4>1. /\ i - Len(P) \in DOMAIN N /\ (P \o N)[i] = N[i - Len(P)]
            /\ (P \o N)[i].pos > rowCount /\ (P \o N)[i].pos \in Nat
        BY <3>2, <1>1, <1>2, <1>7
      <4>2. stored[t][N[i - Len(P)].key] \in Nat /\ stored[t][N[i - Len(P)].key] <= rowCount
        BY <4>1, <1>0, <1>1, PosTypes
      <4> QED
        BY <4>1, <4>2, <1>1, <1>6, SMTT(20)
    <3> QED
      BY <3>1, <3>2
  <2>2. ASSUME NEW i \in DOMAIN chunk[t]
        PROVE  /\ \E j \in DOMAIN chunk[t] : chunk[t][j].key = chunk[t][i].key
                                               /\ stored[t][chunk[t][i].key] <= chunk[t][j].pos
               /\ chunk[t][i].pos <= lastQueued'[t][chunk[t][i].key]
    <3>1. chunk[t][i].key \in Keys /\ lastQueued[t][chunk[t][i].key] \in Nat
      BY <1>0, <1>4, PosTypes
    <3>2. \E j \in DOMAIN chunk[t] : chunk[t][j].key = chunk[t][i].key
                                     /\ stored[t][chunk[t][i].key] <= chunk[t][j].pos
      BY <1>0 DEF RowsFresh, NotOlder
    <3>3. chunk[t][i].pos <= lastQueued'[t][chunk[t][i].key]
      BY <3>1, <1>4, <1>6
    <3> QED
      BY <3>2, <3>3
  <2> QED
    <3> SUFFICES ASSUME NEW u \in Tables
                 PROVE  NotOlder(chunk[u], u)' /\ Fresh(pendingRows[u], u)'
      BY DEF RowsFresh
    <3>1. CASE u = t
      BY <3>1, <1>3, <2>1, <2>2 DEF Fresh, NotOlder
    <3>2. CASE u # t
      BY <3>2, <1>0, <1>3 DEF RowsFresh, Fresh, NotOlder
    <3> QED
      BY <3>1, <3>2
<1>11. ASSUME NEW u \in Tables, NEW k \in Keys, InSight(u, k)
       PROVE  InSight(u, k)'
  <2> SUFFICES \/ Arrived(u, k)'
               \/ HasRow(chunk'[u], k, lastQueued'[u][k])
               \/ HasRow(pendingRows'[u], k, lastQueued'[u][k])
    BY DEF InSight
  <2>1. \/ Arrived(u, k)
        \/ HasRow(chunk[u], k, lastQueued[u][k])
        \/ HasRow(pendingRows[u], k, lastQueued[u][k])
    BY <1>11 DEF InSight
  <2>2. CASE u # t
    BY <2>1, <2>2, <1>3 DEF Arrived
  <2>3. CASE u = t /\ lastQueued'[t][k] = lastQueued[t][k]
    <3>1. HasRow(P, k, lastQueued[t][k]) => HasRow(P \o N, k, lastQueued[t][k])
      BY <1>5 DEF HasRow
    <3> QED
      BY <2>1, <2>3, <3>1, <1>3 DEF Arrived, P
  <2>4. CASE u = t /\ HasRow(N, k, lastQueued'[t][k])
    <3>1. HasRow(P \o N, k, lastQueued'[t][k])
      BY <2>4, <1>5 DEF HasRow
    <3> QED
      BY <2>4, <3>1, <1>3
  <2> QED
    BY <2>2, <2>3, <2>4, <1>6
<1> QED
  BY <1>0, <1>3, <1>8, <1>9, <1>10, <1>11 DEF RowInv, Kept

\* Rows that go from the queue to a flush stay in order and are all there.
LEMMA PopRowsInv ==
  ASSUME TypeOK, RowInv, PopRows
  PROVE  /\ RowInv'
         /\ \A u \in Tables, k \in Keys : InSight(u, k) => InSight(u, k)'
<1>0. ChunkInFlush /\ RowsOrdered /\ PosBounds /\ RowsFresh /\ Kept
  BY DEF RowInv
<1>1. /\ UNCHANGED <<stored, lastQueued, rowCount, closed>>
      /\ \A t \in Tables : /\ chunk'[t] = Split(pendingRows[t]).taken
                           /\ pendingRows'[t] = Split(pendingRows[t]).rest
  BY DEF PopRows, dbVars, callerVars
<1>2. \A t \in Tables :
        /\ pendingRows[t] \in Seq(Row)
        /\ Increasing(pendingRows[t]) /\ Fresh(pendingRows[t], t)
  BY <1>0 DEF TypeOK, RowsOrdered, RowsFresh
<1>3. \A t \in Tables : chunk[t] = <<>>
  BY <1>0 DEF PopRows, ChunkInFlush, NoRows
<1>4. ASSUME NEW t \in Tables
      PROVE  /\ Increasing(chunk'[t]) /\ Increasing(pendingRows'[t])
             /\ \A i \in DOMAIN chunk'[t], j \in DOMAIN pendingRows'[t] :
                  chunk'[t][i].pos < pendingRows'[t][j].pos
             /\ NotOlder(chunk'[t], t) /\ Fresh(pendingRows'[t], t)
             /\ \A k, p : HasRow(pendingRows[t], k, p) =>
                            HasRow(chunk'[t], k, p) \/ HasRow(pendingRows'[t], k, p)
  <2> DEFINE P == pendingRows[t]
             C == chunk'[t]
             R == pendingRows'[t]
  <2>1. P \in Seq(Row) /\ Increasing(P) /\ Fresh(P, t) /\ Len(P) \in Nat /\ DOMAIN P = 1..Len(P)
    BY <1>2
  <2>2. C = Split(P).taken /\ R = Split(P).rest
    BY <1>1
  <2> HIDE DEF P, C, R
  <2>3. PICK n \in 0..Len(P) :
          /\ C \in Seq(Row) /\ Len(C) = n
          /\ \A i \in 1..n : C[i] = P[i]
          /\ R \in Seq(Row) /\ Len(R) = Len(P) - n
          /\ \A i \in 1..(Len(P) - n) : R[i] = P[n + i]
    BY <2>1, <2>2, SplitTakesOldest
  <2>4. /\ DOMAIN C = 1..n /\ DOMAIN R = 1..(Len(P) - n)
        /\ \A i \in DOMAIN C : C[i] = P[i] /\ i \in DOMAIN P
        /\ \A i \in DOMAIN R : R[i] = P[n + i] /\ n + i \in DOMAIN P
        /\ \A i \in DOMAIN P : i \in DOMAIN C \/ i - n \in DOMAIN R
    BY <2>1, <2>3
  <2>5. \A i, j \in DOMAIN P : i < j => P[i].pos < P[j].pos
    BY <2>1 DEF Increasing
  <2>5a. Increasing(C)
    <3> SUFFICES ASSUME NEW i \in DOMAIN C, NEW j \in DOMAIN C, i < j
                 PROVE  C[i].pos < C[j].pos
      BY DEF Increasing
    <3>1. C[i] = P[i] /\ C[j] = P[j] /\ i \in DOMAIN P /\ j \in DOMAIN P
      BY <2>4
    <3> QED
      BY <2>5, <3>1
  <2>5b. Increasing(R)
    <3> SUFFICES ASSUME NEW i \in DOMAIN R, NEW j \in DOMAIN R, i < j
                 PROVE  R[i].pos < R[j].pos
      BY DEF Increasing
    <3>1. R[i] = P[n + i] /\ R[j] = P[n + j] /\ n + i \in DOMAIN P /\ n + j \in DOMAIN P
      BY <2>4
    <3>2. n + i < n + j
      BY <2>1, <2>4
    <3> QED
      BY <2>5, <3>1, <3>2
  <2>6. ASSUME NEW i \in DOMAIN C, NEW j \in DOMAIN R
        PROVE  C[i].pos < R[j].pos
    <3>1. C[i] = P[i] /\ R[j] = P[n + j] /\ i \in DOMAIN P /\ n + j \in DOMAIN P
      BY <2>4
    <3>2. i < n + j
      BY <2>1, <2>4
    <3> QED
      BY <2>5, <3>1, <3>2
  <2>7. NotOlder(C, t) /\ Fresh(R, t)
    <3>1. Fresh(C, t) /\ Fresh(R, t)
      BY <2>1, <2>4 DEF Fresh
    <3>2. NotOlder(C, t)
      <4> SUFFICES ASSUME NEW i \in DOMAIN C
                   PROVE  stored[t][C[i].key] <= C[i].pos /\ C[i].pos <= lastQueued[t][C[i].key]
        BY DEF NotOlder
      <4>1. /\ stored[t][C[i].key] < C[i].pos /\ C[i].pos <= lastQueued[t][C[i].key]
            /\ C[i].pos \in Nat /\ C[i].key \in Keys
        BY <1>0, <2>3, <3>1, FreshRow
      <4>2. stored[t][C[i].key] \in Nat
        BY <1>0, <4>1, PosTypes
      <4> QED
        BY <4>1, <4>2
    <3> QED
      BY <3>1, <3>2
  <2>8. ASSUME NEW k, NEW p, HasRow(P, k, p)
        PROVE  HasRow(C, k, p) \/ HasRow(R, k, p)
    <3>1. PICK i \in DOMAIN P : P[i].key = k /\ P[i].pos = p
      BY <2>8 DEF HasRow
    <3>2. CASE i \in DOMAIN C
      BY <3>1, <3>2, <2>4 DEF HasRow
    <3>3. CASE i - n \in DOMAIN R
      <4>1. R[i - n] = P[n + (i - n)] /\ n + (i - n) = i
        BY <3>3, <2>1, <2>4
      <4> QED
        BY <3>1, <3>3, <4>1 DEF HasRow
    <3> QED
      BY <3>2, <3>3, <2>4
  <2> QED
    BY <2>5a, <2>5b, <2>6, <2>7, <2>8 DEF P, C, R
<1>5. ChunkInFlush'
  BY DEF PopRows, ChunkInFlush
<1>6. RowsOrdered' /\ PosBounds' /\ RowsFresh'
  BY <1>0, <1>1, <1>4 DEF RowsOrdered, PosBounds, RowsFresh, Increasing, Fresh, NotOlder
<1>7. ASSUME NEW t \in Tables, NEW k \in Keys, InSight(t, k)
      PROVE  InSight(t, k)'
  <2> SUFFICES \/ Arrived(t, k)
               \/ HasRow(chunk'[t], k, lastQueued[t][k])
               \/ HasRow(pendingRows'[t], k, lastQueued[t][k])
    BY <1>1 DEF InSight, Arrived
  <2>1. ~HasRow(chunk[t], k, lastQueued[t][k])
    BY <1>3 DEF HasRow
  <2> QED
    BY <2>1, <1>4, <1>7 DEF InSight
<1> QED
  BY <1>0, <1>1, <1>5, <1>6, <1>7 DEF RowInv, Kept

\* What the database gets for a key is newer than what it had, and older than
\* the rows of the key that still wait; the last row of a key arrives.
LEMMA InsertTableInv ==
  ASSUME TypeOK, RowInv, NEW t \in Tables, InsertTable(t)
  PROVE  /\ RowInv'
         /\ \A u \in Tables, k \in Keys :
              stored[u][k] <= stored'[u][k] /\ (InSight(u, k) => InSight(u, k)')
<1> DEFINE C == chunk[t]
<1>0. ChunkInFlush /\ RowsOrdered /\ PosBounds /\ RowsFresh /\ Kept
  BY DEF RowInv
<1>1. /\ UNCHANGED <<pendingRows, lastQueued, rowCount, closed>>
      /\ chunk'[t] = <<>>
      /\ stored'[t] = InsertRows(stored[t], C)
      /\ \A u \in Tables \ {t} : chunk'[u] = chunk[u] /\ stored'[u] = stored[u]
  BY DEF InsertTable, queueVars, callerVars, TypeOK
<1>2. C \in Seq(Row) /\ stored[t] \in [Keys -> 0..MaxRows]
  BY DEF TypeOK
<1>3. Increasing(C) /\ NotOlder(C, t)
  BY <1>0 DEF RowsOrdered, RowsFresh
<1> HIDE DEF C
<1>4. ASSUME NEW k \in Keys
      PROVE  \/ /\ stored'[t][k] = stored[t][k]
                /\ \A r \in Unique(C) : r.key = k => r.pos \in BadRows
             \/ \E i \in DOMAIN C :
                  /\ C[i].key = k
                  /\ \A j \in DOMAIN C : C[j].key = k => j <= i
                  /\ stored'[t][k] = C[i].pos
  BY <1>1, <1>2, InsertRowsIs
<1>5. ASSUME NEW k \in Keys
      PROVE  /\ stored[t][k] <= stored'[t][k]
             /\ stored'[t][k] <= lastQueued[t][k]
             /\ stored'[t][k] \in Nat
             /\ \A j \in DOMAIN pendingRows[t] :
                  pendingRows[t][j].key = k => stored'[t][k] < pendingRows[t][j].pos
  <2>1. stored[t][k] \in Nat /\ lastQueued[t][k] \in Nat /\ stored[t][k] <= lastQueued[t][k]
    BY <1>0, PosTypes
  <2>2. CASE stored'[t][k] = stored[t][k]
    BY <2>1, <2>2, <1>0 DEF RowsFresh, Fresh
  <2>3. CASE \E i \in DOMAIN C : /\ C[i].key = k /\ stored'[t][k] = C[i].pos
                                 /\ \A j \in DOMAIN C : C[j].key = k => j <= i
    <3>1. PICK i \in DOMAIN C : /\ C[i].key = k /\ stored'[t][k] = C[i].pos
                                /\ \A j \in DOMAIN C : C[j].key = k => j <= i
      BY <2>3
    <3>2. C[i].pos \in Nat /\ stored[t][k] <= C[i].pos /\ C[i].pos <= lastQueued[t][k]
      BY <3>1, <1>0, <1>2, <1>3, NotOlderRow, LastNotOlder
    <3>3. \A j \in DOMAIN pendingRows[t] : C[i].pos < pendingRows[t][j].pos
      BY <1>0 DEF RowsOrdered, C
    <3> QED
      BY <2>1, <3>1, <3>2, <3>3
  <2> QED
    BY <2>2, <2>3, <1>4
<1>6. ChunkInFlush'
  BY <1>0 DEF InsertTable, ChunkInFlush
<1>7. RowsOrdered'
  BY <1>0, <1>1 DEF RowsOrdered, Increasing
<1>8. PosBounds'
  BY <1>0, <1>1, <1>5 DEF PosBounds
<1>9. RowsFresh'
  <2>1. \A j \in DOMAIN pendingRows[t] : pendingRows[t][j].key \in Keys
    BY RowsHavePositions DEF TypeOK
  <2>2. Fresh(pendingRows[t], t)'
    BY <2>1, <1>0, <1>1, <1>5 DEF RowsFresh, Fresh
  <2> QED
    BY <2>2, <1>0, <1>1 DEF RowsFresh, Fresh, NotOlder
<1>10. ASSUME NEW u \in Tables, NEW k \in Keys, InSight(u, k)
       PROVE  InSight(u, k)'
  <2> SUFFICES ASSUME u = t
               PROVE  \/ Arrived(t, k)'
                      \/ HasRow(pendingRows[t], k, lastQueued[t][k])
    BY <1>1, <1>10 DEF InSight, Arrived
  <2>1. lastQueued[t][k] \in Nat /\ stored[t][k] \in Nat
    BY <1>0, PosTypes
  <2>2. CASE lastQueued[t][k] \in BadRows
    BY <2>2, <1>1 DEF Arrived
  <2>3. CASE stored[t][k] = lastQueued[t][k]
    <3>1. ASSUME NEW i \in DOMAIN C, C[i].key = k, \A j \in DOMAIN C : C[j].key = k => j <= i
          PROVE  C[i].pos = lastQueued[t][k]
      <4>1. C[i].pos \in Nat /\ C[i].pos <= lastQueued[t][k]
        BY <3>1, <1>0, <1>2, <1>3, NotOlderRow
      <4>2. stored[t][k] <= C[i].pos
        BY <3>1, <1>0, <1>2, <1>3, LastNotOlder
      <4> QED
        BY <2>1, <2>3, <4>1, <4>2
    <3> QED
      BY <2>3, <3>1, <1>1, <1>4 DEF Arrived
  <2>4. CASE HasRow(C, k, lastQueued[t][k]) /\ lastQueued[t][k] \notin BadRows
    <3>1. PICK i \in DOMAIN C : C[i].key = k /\ C[i].pos = lastQueued[t][k]
      BY <2>4 DEF HasRow
    <3>2. \A j \in DOMAIN C : C[j].key = k => j <= i
      <4> SUFFICES ASSUME NEW j \in DOMAIN C, C[j].key = k, ~(j <= i)
                   PROVE  FALSE
        OBVIOUS
      <4>1. i \in Nat /\ j \in Nat /\ C[j].pos \in Nat /\ C[j].pos <= lastQueued[t][k]
        BY <1>0, <1>2, <1>3, NotOlderRow
      <4>2. C[i].pos < C[j].pos
        BY <4>1, <1>3 DEF Increasing
      <4> QED
        BY <2>1, <3>1, <4>1, <4>2
    <3>3. C[i] \in Unique(C)
      BY <3>1, <3>2 DEF Unique
    <3>4. PICK m \in DOMAIN C : /\ C[m].key = k /\ stored'[t][k] = C[m].pos
                                /\ \A j \in DOMAIN C : C[j].key = k => j <= m
      BY <2>4, <3>1, <3>3, <1>4
    <3>5. m = i
      BY <3>1, <3>2, <3>4, <1>2
    <3> QED
      BY <3>1, <3>4, <3>5, <1>1 DEF Arrived
  <2> QED
    BY <2>2, <2>3, <2>4, <1>10 DEF InSight, Arrived, C
<1> QED
  <2>1. \A u \in Tables, k \in Keys : stored[u][k] <= stored'[u][k]
    <3> TAKE u \in Tables, k \in Keys
    <3>1. stored[u][k] \in Nat
      BY <1>0, PosTypes
    <3> QED
      BY <3>1, <1>1, <1>5
  <2> QED
    BY <2>1, <1>0, <1>1, <1>6, <1>7, <1>8, <1>9, <1>10 DEF RowInv, Kept

\* While the statements of a table run, the same holds, and the rows are still there.
LEMMA InsertSomeInv ==
  ASSUME TypeOK, RowInv, NEW t \in Tables, InsertSome(t)
  PROVE  /\ RowInv'
         /\ \A u \in Tables, k \in Keys :
              stored[u][k] <= stored'[u][k] /\ (InSight(u, k) => InSight(u, k)')
<1> DEFINE C == chunk[t]
<1>0. ChunkInFlush /\ RowsOrdered /\ PosBounds /\ RowsFresh /\ Kept
  BY DEF RowInv
<1>1. /\ UNCHANGED <<chunk, pendingRows, lastQueued, rowCount, closed>>
      /\ \A k \in Keys : stored'[t][k] \in {stored[t][k], InsertRows(stored[t], C)[k]}
      /\ \A u \in Tables \ {t} : stored'[u] = stored[u]
  BY DEF InsertSome, queueVars, callerVars, TypeOK
<1>2. C \in Seq(Row) /\ stored[t] \in [Keys -> 0..MaxRows]
  BY DEF TypeOK
<1>3. Increasing(C) /\ NotOlder(C, t)
  BY <1>0 DEF RowsOrdered, RowsFresh
<1> HIDE DEF C
<1>4. ASSUME NEW k \in Keys
      PROVE  \/ stored'[t][k] = stored[t][k]
             \/ \E i \in DOMAIN C :
                  /\ C[i].key = k /\ C[i].pos \notin BadRows
                  /\ \A j \in DOMAIN C : C[j].key = k => j <= i
                  /\ stored'[t][k] = C[i].pos
  <2>1. CASE stored'[t][k] = stored[t][k]
    BY <2>1
  <2>2. CASE InsertRows(stored[t], C)[k] = stored[t][k]
    BY <2>1, <2>2, <1>1
  <2>3. CASE InsertRows(stored[t], C)[k] # stored[t][k]
    <3>1. \E r \in Unique(C) : r.key = k /\ r.pos \notin BadRows
      BY <2>3 DEF InsertRows
    <3>2. InsertRows(stored[t], C)[k] = (CHOOSE r \in Unique(C) : r.key = k).pos
      BY <3>1 DEF InsertRows
    <3>3. PICK i \in DOMAIN C : /\ C[i].key = k /\ C[i].pos \notin BadRows
                                /\ \A j \in DOMAIN C : C[j].key = k => j <= i
      BY <3>1 DEF Unique
    <3>4. \A j \in DOMAIN C : C[j].key = k /\ (\A l \in DOMAIN C : C[l].key = k => l <= j) => j = i
      BY <3>3, <1>2
    <3>5. \A r \in Unique(C) : r.key = k => r = C[i]
      BY <3>4 DEF Unique
    <3>6. C[i] \in Unique(C)
      BY <3>3 DEF Unique
    <3>7. InsertRows(stored[t], C)[k] = C[i].pos
      BY <3>2, <3>3, <3>5, <3>6
    <3> QED
      BY <2>1, <3>3, <3>7, <1>1
  <2> QED
    BY <2>2, <2>3
<1>5. ASSUME NEW k \in Keys
      PROVE  /\ stored[t][k] <= stored'[t][k]
             /\ stored'[t][k] <= lastQueued[t][k]
             /\ \A j \in DOMAIN pendingRows[t] :
                  pendingRows[t][j].key = k => stored'[t][k] < pendingRows[t][j].pos
             /\ \A i \in DOMAIN C : C[i].key = k =>
                  \E j \in DOMAIN C : C[j].key = k /\ stored'[t][k] <= C[j].pos
  <2>1. stored[t][k] \in Nat /\ lastQueued[t][k] \in Nat /\ stored[t][k] <= lastQueued[t][k]
    BY <1>0, PosTypes
  <2>2. CASE stored'[t][k] = stored[t][k]
    BY <2>1, <2>2, <1>0, <1>3 DEF RowsFresh, Fresh, NotOlder
  <2>3. CASE stored'[t][k] # stored[t][k]
    <3>1. PICK i \in DOMAIN C : /\ C[i].key = k /\ stored'[t][k] = C[i].pos
                                /\ \A j \in DOMAIN C : C[j].key = k => j <= i
      BY <2>3, <1>4
    <3>2. C[i].pos \in Nat /\ C[i].pos <= lastQueued[t][k] /\ stored[t][k] <= C[i].pos
      BY <3>1, <1>0, <1>2, <1>3, NotOlderRow, LastNotOlder
    <3>3. \A j \in DOMAIN pendingRows[t] : C[i].pos < pendingRows[t][j].pos
      BY <1>0 DEF RowsOrdered, C
    <3> QED
      BY <2>1, <3>1, <3>2, <3>3
  <2> QED
    BY <2>2, <2>3
<1>6. ChunkInFlush'
  BY <1>0, <1>1 DEF InsertSome, ChunkInFlush
<1>7. RowsOrdered'
  BY <1>0, <1>1 DEF RowsOrdered, Increasing
<1>8. PosBounds'
  BY <1>0, <1>1, <1>5 DEF PosBounds
<1>9. RowsFresh'
  <2>1. /\ \A j \in DOMAIN pendingRows[t] : pendingRows[t][j].key \in Keys
        /\ \A j \in DOMAIN C : C[j].key \in Keys
    BY <1>2, RowsHavePositions DEF TypeOK
  <2>2. Fresh(pendingRows[t], t)'
    BY <2>1, <1>0, <1>1, <1>5 DEF RowsFresh, Fresh
  <2>3. NotOlder(chunk[t], t)'
    <3> SUFFICES ASSUME NEW i \in DOMAIN C
                 PROVE  /\ \E j \in DOMAIN C : C[j].key = C[i].key /\ stored'[t][C[i].key] <= C[j].pos
                        /\ C[i].pos <= lastQueued[t][C[i].key]
      BY <1>1 DEF NotOlder, C
    <3>1. C[i].key \in Keys
      BY <2>1
    <3>2. C[i].pos <= lastQueued[t][C[i].key]
      BY <1>3 DEF NotOlder
    <3> QED
      BY <3>1, <3>2, <1>5
  <2> QED
    <3> SUFFICES ASSUME NEW u \in Tables
                 PROVE  NotOlder(chunk[u], u)' /\ Fresh(pendingRows[u], u)'
      BY DEF RowsFresh
    <3>1. CASE u = t
      BY <3>1, <2>2, <2>3 DEF Fresh, NotOlder
    <3>2. CASE u # t
      <4>1. NotOlder(chunk[u], u) /\ Fresh(pendingRows[u], u)
        BY <1>0 DEF RowsFresh
      <4>2. UNCHANGED <<chunk, pendingRows, lastQueued>> /\ stored'[u] = stored[u]
        BY <3>2, <1>1
      <4> QED
        BY <4>1, <4>2 DEF Fresh, NotOlder
    <3> QED
      BY <3>1, <3>2
<1>10. ASSUME NEW u \in Tables, NEW k \in Keys, InSight(u, k)
       PROVE  InSight(u, k)'
  <2>1. lastQueued[u][k] \in Nat /\ stored[u][k] \in Nat
    BY <1>0, PosTypes
  <2>2. CASE ~Arrived(u, k) \/ lastQueued[u][k] \in BadRows
    BY <2>2, <1>1, <1>10 DEF InSight, Arrived
  <2>3. CASE stored[u][k] = lastQueued[u][k]
    <3>1. CASE u # t
      BY <2>3, <3>1, <1>1 DEF InSight, Arrived
    <3>2. CASE u = t
      <4>1. stored'[t][k] = lastQueued[t][k]
        <5>1. stored[t][k] <= stored'[t][k] /\ stored'[t][k] <= lastQueued[t][k] /\ stored'[t][k] \in Nat
          BY <1>2, <1>4, <1>5, <1>0, <1>3, NotOlderRow, <2>1, <3>2
        <5> QED
          BY <2>1, <2>3, <3>2, <5>1
      <4> QED
        BY <3>2, <4>1, <1>1 DEF InSight, Arrived
    <3> QED
      BY <3>1, <3>2
  <2> QED
    BY <2>2, <2>3 DEF Arrived
<1> QED
  <2>1. \A u \in Tables, k \in Keys : stored[u][k] <= stored'[u][k]
    <3> TAKE u \in Tables, k \in Keys
    <3>1. stored[u][k] \in Nat
      BY <1>0, PosTypes
    <3> QED
      BY <3>1, <1>1, <1>5
  <2> QED
    BY <2>1, <1>0, <1>1, <1>6, <1>7, <1>8, <1>9, <1>10 DEF RowInv, Kept

\* A crash takes the rows in memory, and with them the debt.
LEMMA CrashInv ==
  ASSUME TypeOK, RowInv, Crash
  PROVE  RowInv'
<1>1. /\ \A t \in Tables : chunk'[t] = <<>> /\ pendingRows'[t] = <<>>
      /\ chunk' = NoRows /\ lastQueued' = stored /\ UNCHANGED <<stored, rowCount>>
  BY DEF Crash, dbVars, NoRows
<1>2. ChunkInFlush' /\ Kept'
  BY <1>1 DEF ChunkInFlush, Kept, InSight, Arrived
<1>3. RowsOrdered' /\ RowsFresh'
  BY <1>1 DEF RowsOrdered, RowsFresh, Increasing, Fresh, NotOlder
<1>4. PosBounds'
  <2> SUFFICES ASSUME NEW t \in Tables, NEW k \in Keys
               PROVE  stored[t][k] <= stored[t][k] /\ stored[t][k] <= rowCount
    BY <1>1 DEF PosBounds
  <2> QED
    BY PosTypes DEF RowInv
<1> QED
  BY <1>2, <1>3, <1>4 DEF RowInv

\* The steps that leave the rows where they are, or drop those of a flush on a
\* closed executor.
LEMMA RowsUntouchedInv ==
  ASSUME TypeOK, RowInv,
         UNCHANGED <<pendingRows, stored, rowCount, lastQueued>>,
         closed => closed',
         \/ chunk' = chunk /\ ChunkInFlush'
         \/ chunk' = NoRows /\ closed'
  PROVE  RowInv'
<1>0. ChunkInFlush /\ RowsOrdered /\ PosBounds /\ RowsFresh /\ Kept
  BY DEF RowInv
<1>1. CASE chunk' = chunk /\ ChunkInFlush'
  BY <1>0, <1>1 DEF RowInv, RowsOrdered, PosBounds, RowsFresh, Increasing, Fresh, NotOlder, Kept,
                    InSight, Arrived, HasRow
<1>2. CASE chunk' = NoRows /\ closed'
  <2>1. \A t \in Tables : chunk'[t] = <<>>
    BY <1>2 DEF NoRows
  <2> QED
    BY <1>0, <1>2, <2>1 DEF RowInv, ChunkInFlush, RowsOrdered, PosBounds, RowsFresh,
                            Increasing, Fresh, NotOlder, Kept
<1> QED
  BY <1>1, <1>2

\* Every step keeps the rows in order and loses none.
LEMMA NextRowInv ==
  ASSUME TypeOK, RowInv, Next
  PROVE  RowInv'
<1> USE DEF queueVars, writerVars, dbVars, callerVars
<1>0. ChunkInFlush
  BY DEF RowInv
<1>1. ASSUME NEW c \in Callers, NEW sync \in BOOLEAN, Save(c, sync)
      PROVE  RowInv'
  BY <1>1, <1>0, RowsUntouchedInv DEF Save, ChunkInFlush
<1>2. ASSUME NEW c \in Callers, SubmitStep(c)
      PROVE  RowInv'
  BY <1>2, <1>0, RowsUntouchedInv DEF SubmitStep, SubmitCheck, SubmitPut, ChunkInFlush
<1>3. CASE Shutdown \/ Join
  BY <1>3, <1>0, RowsUntouchedInv DEF Shutdown, Join, ChunkInFlush
<1>4. CASE Get \/ BeginSession \/ SessionFails \/ RunWrite \/ WriteFails
             \/ NextTask \/ EndSession \/ StopSession
  BY <1>4, <1>0, RowsUntouchedInv
  DEF Get, BeginSession, SessionFails, RunWrite, WriteFails, NextTask, EndSession,
      StopSession, AfterStop, ChunkInFlush
<1>5. CASE ResubmitCheck \/ ResubmitPut
  BY <1>5, <1>0, RowsUntouchedInv DEF ResubmitCheck, ResubmitPut, ChunkInFlush
<1>6. CASE AtRest
  BY <1>6, <1>0, RowsUntouchedInv DEF AtRest, vars, ChunkInFlush
<1> QED
  BY <1>1, <1>2, <1>3, <1>4, <1>5, <1>6, QueueRowsInv, PopRowsInv, InsertSomeInv, InsertTableInv, CrashInv
  DEF Next, CallerStep, WriterStep

-----------------------------------------------------------------------------
(* The theorems *)

Inv == TypeOK /\ HeldTask /\ OneFlush /\ RowInv

\* A stuttering step keeps the invariant.
LEMMA StutterInv == Inv /\ UNCHANGED vars => Inv'
<1> SUFFICES ASSUME Inv, UNCHANGED vars
             PROVE  Inv'
  OBVIOUS
<1> USE DEF vars, queueVars, writerVars, dbVars, callerVars
<1>1. TypeOK' /\ HeldTask' /\ OneFlush'
  BY DEF Inv, TypeOK, HeldTask, OneFlush, WriterOwesFlush
<1>2. RowInv'
  BY RowsUntouchedInv DEF Inv, RowInv, ChunkInFlush
<1> QED
  BY <1>1, <1>2 DEF Inv

\* Inv holds throughout every behaviour of the write path.
THEOREM Invariance == Spec => []Inv
<1>1. Init => Inv
  BY InitType, InitOneFlush, InitRowInv DEF Inv
<1>2. Inv /\ [Next]_vars => Inv'
  BY NextType, NextOneFlush, NextRowInv, StutterInv DEF Inv
<1> QED
  BY <1>1, <1>2, PTL DEF Spec

\* Every variable of the write path keeps its type (storage.py:127-220, 430-528).
THEOREM TypeCorrect == Spec => []TypeOK
<1>1. Inv => TypeOK
  BY DEF Inv
<1> QED
  BY <1>1, Invariance, PTL

\* However many threads queue rows, there is never more than one flush held,
\* queued or owed (storage.py:461-490).
THEOREM SingleFlushHolds == Spec => []SingleFlush
<1>1. Inv => SingleFlush
  BY OneFlushIsSingle DEF Inv
<1> QED
  BY <1>1, Invariance, PTL

\* While the executor is open the last row of a key is in the database, rejected
\* by it, or still in memory, for any number of callers, tables and rows and any
\* flush size (storage.py:461-507).
THEOREM NoRowLostHolds == Spec => []NoRowLost
<1>1. Inv => NoRowLost
  BY DEF Inv, RowInv, Kept, InSight, HasRow, NoRowLost, Holds
<1> QED
  BY <1>1, Invariance, PTL

\* No flush, and no crash between two flushes, puts an older row of a key over a
\* newer one (storage.py:495-507).
THEOREM NewerRowWinsHolds == Spec => NewerRowWins
<1>1. Inv /\ [Next]_vars => [\A t \in Tables, k \in Keys : stored'[t][k] >= stored[t][k]]_stored
  <2> SUFFICES ASSUME Inv, Next, stored' # stored
               PROVE  \A t \in Tables, k \in Keys : stored'[t][k] >= stored[t][k]
    BY DEF vars, dbVars
  <2>1. PICK t \in Tables : InsertSome(t) \/ InsertTable(t)
    BY DEF Next, CallerStep, SubmitStep, WriterStep, QueueRows, Save, SubmitCheck, SubmitPut,
           Shutdown, Join, Get, BeginSession, SessionFails, RunWrite, WriteFails, PopRows,
           ResubmitCheck, ResubmitPut, NextTask, EndSession, StopSession, Crash, AtRest,
           vars, dbVars
  <2>2. \A u \in Tables, k \in Keys : stored[u][k] <= stored'[u][k]
    BY <2>1, InsertSomeInv, InsertTableInv DEF Inv
  <2> QED
    BY <2>2
<1> QED
  BY <1>1, Invariance, PTL DEF Spec, NewerRowWins

-----------------------------------------------------------------------------
(* A flush for the rows that wait *)

\* Somebody will still run the flush.
FlushExists ==
  \/ \E c \in Callers : held[c] = Flush
  \/ \E i \in DOMAIN tasks : tasks[i] = Flush
  \/ WriterOwesFlush

\* Rows wait only with the flag set, and the flag is set only for a flush that
\* is on its way.
FlushKnown ==
  /\ pendingRows # NoRows => flushQueued
  /\ "session" \notin Faults /\ ~closed /\ flushQueued => FlushExists

\* A flush that leaves rows has taken some.
LEMMA SplitTakesSome ==
  ASSUME NEW rows \in Seq(Row), Split(rows).rest # <<>>
  PROVE  Split(rows).taken # <<>>
<1> DEFINE n == Least(FlushRows, Len(rows))
<1>1. n \in 0..Len(rows) /\ Len(rows) \in Nat /\ (n = 0 => Len(rows) = 0)
  BY WriteQueueAssumption DEF Least
<1>2. /\ Split(rows).taken = SubSeq(rows, 1, n)
      /\ Split(rows).rest = SubSeq(rows, n + 1, Len(rows))
  BY DEF Split
<1> HIDE DEF n
<1>3. CASE n = 0
  <2>1. rows = <<>>
    BY <1>1, <1>3
  <2>2. Split(rows).rest = <<>>
    BY <1>1, <1>2, <1>3, <2>1
  <2> QED
    BY <2>2
<1>4. CASE n # 0
  <2>1. Len(SubSeq(rows, 1, n)) = n /\ Len(<<>>) = 0
    BY <1>1
  <2> QED
    BY <1>2, <1>4, <2>1
<1> QED
  BY <1>3, <1>4

\* What a step does to the tasks: nothing, a put behind the others, or a take.
LEMMA FlushStays ==
  ASSUME TypeOK
  PROVE  /\ \A item \in Item : tasks' = Put(item) =>
              /\ \A i \in DOMAIN tasks : i \in DOMAIN tasks' /\ tasks'[i] = tasks[i]
              /\ \E i \in DOMAIN tasks' : tasks'[i] = item
         /\ tasks # <<>> /\ tasks' = Tail(tasks) =>
              \A i \in DOMAIN tasks : tasks[i] # Head(tasks) =>
                i - 1 \in DOMAIN tasks' /\ tasks'[i - 1] = tasks[i]
<1>1. ASSUME NEW item \in Item, tasks' = Put(item)
      PROVE  /\ \A i \in DOMAIN tasks : i \in DOMAIN tasks' /\ tasks'[i] = tasks[i]
             /\ \E i \in DOMAIN tasks' : tasks'[i] = item
  BY <1>1, PutIsLast DEF TypeOK
<1>2. ASSUME tasks # <<>>, tasks' = Tail(tasks), NEW i \in DOMAIN tasks, tasks[i] # Head(tasks)
      PROVE  i - 1 \in DOMAIN tasks' /\ tasks'[i - 1] = tasks[i]
  <2>1. tasks \in Seq(Item) /\ Len(tasks) \in Nat /\ DOMAIN tasks = 1..Len(tasks) /\ i # 1
    BY <1>2 DEF TypeOK
  <2>2. Len(Tail(tasks)) = Len(tasks) - 1 /\ DOMAIN Tail(tasks) = 1..(Len(tasks) - 1)
    BY <1>2, <2>1
  <2>3. i - 1 \in 1..(Len(tasks) - 1)
    BY <1>2, <2>1
  <2>4. Tail(tasks)[i - 1] = tasks[(i - 1) + 1] /\ (i - 1) + 1 = i
    BY <1>2, <2>1, <2>2, <2>3
  <2> QED
    BY <1>2, <2>2, <2>3, <2>4
<1> QED
  BY <1>1, <1>2

\* A caller has a task only while it submits it.
HeldPlace == \A c \in Callers : held[c] # None => pc[c] \in {"submit", "put"}

IsSync(item) == IsWrite(item) /\ item.sync

\* A caller holds its own writes, and it waits for the one sync write it has
\* with the writer.
SyncWaits ==
  /\ \A c \in Callers : IsWrite(held[c]) => held[c].caller = c
  /\ IsSync(witem) => pc[witem.caller] = "wait"
  /\ \A i \in DOMAIN tasks : IsSync(tasks[i]) =>
       /\ pc[tasks[i].caller] = "wait"
       /\ IsSync(witem) => tasks[i].caller # witem.caller
       /\ \A j \in DOMAIN tasks : IsSync(tasks[j]) /\ tasks[i].caller = tasks[j].caller => i = j

\* Flush, stop and no task are no writes.
LEMMA NotWrites == ~IsWrite(Flush) /\ ~IsWrite(Stop) /\ ~IsWrite(None)
BY DEF IsWrite, Flush, Stop, None

\* The tasks there are have the fields of their kind.
LEMMA WriteFields ==
  ASSUME TypeOK
  PROVE  /\ IsWrite(witem) => witem \in Write /\ witem.caller \in Callers
         /\ \A i \in DOMAIN tasks : IsWrite(tasks[i]) => tasks[i] \in Write /\ tasks[i].caller \in Callers
         /\ \A c \in Callers : IsWrite(held[c]) => held[c] \in Write /\ held[c].caller \in Callers
<1>1. \A item \in Item \cup {None} : IsWrite(item) => item \in Write /\ item.caller \in Callers
  BY ItemKinds DEF IsWrite
<1> QED
  BY <1>1 DEF TypeOK

\* A step that only wakes the caller of the task the writer is done with.
LEMMA SettledPlaces ==
  ASSUME TypeOK, HeldPlace, SyncWaits,
         pc' = Settle(witem), witem' = None, UNCHANGED <<held, tasks>>
  PROVE  HeldPlace' /\ SyncWaits'
<1>1. CASE IsSync(witem)
  <2>1. witem.caller \in Callers /\ pc[witem.caller] = "wait"
    BY <1>1, WriteFields DEF SyncWaits, IsSync
  <2>2. pc' = [pc EXCEPT ![witem.caller] = "idle"]
    BY <1>1 DEF Settle, IsSync, IsWrite
  <2>3. HeldPlace'
    BY <2>1, <2>2 DEF HeldPlace, TypeOK
  <2>4. \A i \in DOMAIN tasks : IsSync(tasks[i]) => pc'[tasks[i].caller] = pc[tasks[i].caller]
    BY <1>1, <2>1, <2>2, WriteFields DEF SyncWaits, TypeOK, IsSync
  <2> QED
    BY <2>3, <2>4, NotWrites DEF SyncWaits, IsSync
<1>2. CASE ~IsSync(witem)
  <2>1. pc' = pc
    BY <1>2 DEF Settle, IsSync, IsWrite
  <2> QED
    BY <2>1, NotWrites DEF HeldPlace, SyncWaits, IsSync
<1> QED
  BY <1>1, <1>2

\* Every step keeps the tasks of the callers where they belong.
LEMMA NextPlaces ==
  ASSUME TypeOK, HeldTask, HeldPlace, SyncWaits, Next
  PROVE  HeldPlace' /\ SyncWaits'
<1> USE NotWrites DEF queueVars, writerVars, dbVars, callerVars
<1>1. ASSUME NEW c \in Callers, NEW t \in Tables, NEW ks \in Batches, QueueRows(c, t, ks)
      PROVE  HeldPlace' /\ SyncWaits'
  <2>1. HeldPlace'
    BY <1>1 DEF QueueRows, TypeOK, HeldPlace
  <2>2. \A d \in Callers : pc[d] = "wait" => pc'[d] = "wait"
    BY <1>1 DEF QueueRows, TypeOK
  <2>3. \A d \in Callers : held'[d] = held[d] \/ held'[d] = Flush
    BY <1>1 DEF QueueRows, TypeOK
  <2>4. UNCHANGED <<tasks, witem>>
    BY <1>1 DEF QueueRows
  <2> QED
    BY <2>1, <2>2, <2>3, <2>4, WriteFields DEF SyncWaits, IsSync
<1>2. ASSUME NEW c \in Callers, NEW sync \in BOOLEAN, Save(c, sync)
      PROVE  HeldPlace' /\ SyncWaits'
  <2>1. HeldPlace'
    BY <1>2 DEF Save, TypeOK, HeldPlace
  <2>2. \A d \in Callers : pc[d] = "wait" => pc'[d] = "wait"
    BY <1>2 DEF Save, TypeOK
  <2>3. \A d \in Callers : held'[d] = held[d] \/ (d = c /\ held'[d].caller = c)
    BY <1>2 DEF Save, TypeOK
  <2>4. UNCHANGED <<tasks, witem>>
    BY <1>2 DEF Save
  <2> QED
    BY <2>1, <2>2, <2>3, <2>4, WriteFields DEF SyncWaits, IsSync
<1>3. ASSUME NEW c \in Callers, SubmitCheck(c)
      PROVE  HeldPlace' /\ SyncWaits'
  <2>1. HeldPlace'
    BY <1>3 DEF SubmitCheck, TypeOK, HeldPlace
  <2>2. \A d \in Callers : pc[d] = "wait" => pc'[d] = "wait"
    BY <1>3 DEF SubmitCheck, TypeOK
  <2>3. \A d \in Callers : held'[d] = held[d] \/ held'[d] = None
    BY <1>3 DEF SubmitCheck, TypeOK
  <2>4. UNCHANGED <<tasks, witem>>
    BY <1>3 DEF SubmitCheck
  <2> QED
    BY <2>1, <2>2, <2>3, <2>4, WriteFields DEF SyncWaits, IsSync
<1>4. ASSUME NEW c \in Callers, SubmitPut(c)
      PROVE  HeldPlace' /\ SyncWaits'
  <2>1. HeldPlace'
    BY <1>4 DEF SubmitPut, TypeOK, HeldPlace
  <2>2. held[c] \in Item /\ pc[c] = "put"
    BY <1>4 DEF SubmitPut, TypeOK, HeldTask
  <2>3. /\ \A d \in Callers : pc[d] = "wait" => pc'[d] = "wait"
        /\ IsSync(held[c]) => pc'[c] = "wait" /\ held[c].caller = c
    BY <1>4, <2>2 DEF SubmitPut, AfterPut, TypeOK, IsSync, IsWrite, SyncWaits
  <2>4. \A d \in Callers : held'[d] = held[d] \/ held'[d] = None
    BY <1>4 DEF SubmitPut, TypeOK
  <2>5. witem' = witem
    BY <1>4 DEF SubmitPut
  <2>6. /\ DOMAIN tasks' = DOMAIN tasks \cup {Len(tasks) + 1}
        /\ \A i \in DOMAIN tasks : tasks'[i] = tasks[i]
        /\ tasks'[Len(tasks) + 1] = held[c]
    BY <1>4, <2>2, PutIsLast DEF SubmitPut, TypeOK
  <2>7. SyncWaits'
    <3>1. /\ \A d \in Callers : IsWrite(held'[d]) => held'[d].caller = d
          /\ IsSync(witem') => pc'[witem'.caller] = "wait"
      BY <2>3, <2>4, <2>5, WriteFields DEF SyncWaits, IsSync
    <3>2. /\ \A i \in DOMAIN tasks : IsSync(tasks[i]) => tasks[i].caller # c
          /\ IsSync(witem) => witem.caller # c
      BY <2>2 DEF SyncWaits
    <3>3. ASSUME NEW i \in DOMAIN tasks', IsSync(tasks'[i])
          PROVE  /\ pc'[tasks'[i].caller] = "wait"
                 /\ IsSync(witem') => tasks'[i].caller # witem'.caller
                 /\ \A j \in DOMAIN tasks' :
                      IsSync(tasks'[j]) /\ tasks'[i].caller = tasks'[j].caller => i = j
      <4>1. CASE i \in DOMAIN tasks
        <5>1. /\ tasks'[i] = tasks[i] /\ tasks[i].caller \in Callers
              /\ pc[tasks[i].caller] = "wait"
              /\ IsSync(witem) => tasks[i].caller # witem.caller
              /\ \A j \in DOMAIN tasks :
                   IsSync(tasks[j]) /\ tasks[i].caller = tasks[j].caller => i = j
          BY <3>3, <4>1, <2>6, WriteFields DEF SyncWaits, IsSync
        <5> QED
          BY <5>1, <4>1, <3>2, <3>3, <2>3, <2>5, <2>6
      <4>2. CASE i = Len(tasks) + 1
        BY <4>2, <3>2, <3>3, <2>3, <2>5, <2>6
      <4> QED
        BY <4>1, <4>2, <2>6
    <3> QED
      BY <3>1, <3>3 DEF SyncWaits
  <2> QED
    BY <2>1, <2>7
<1>5. CASE Shutdown \/ Join
  <2>1. HeldPlace'
    BY <1>5 DEF Shutdown, Join, TypeOK, HeldPlace
  <2>2. \A d \in Callers : pc[d] = "wait" => pc'[d] = "wait"
    BY <1>5 DEF Shutdown, Join, TypeOK
  <2>3. \A d \in Callers : held'[d] = held[d] \/ held'[d] = Stop
    BY <1>5 DEF Shutdown, Join, TypeOK
  <2>4. UNCHANGED <<tasks, witem>>
    BY <1>5 DEF Shutdown, Join
  <2> QED
    BY <2>1, <2>2, <2>3, <2>4, WriteFields DEF SyncWaits, IsSync
<1>6. CASE Get \/ NextTask \/ StopSession
  <2>1. /\ tasks # <<>> /\ tasks' = Tail(tasks) /\ UNCHANGED <<pc, held>>
        /\ witem' = Head(tasks) \/ ~IsSync(witem') \/ witem' = witem
    BY <1>6 DEF Get, NextTask, StopSession, IsSync
  <2>2. /\ 1 \in DOMAIN tasks /\ Head(tasks) = tasks[1]
        /\ \A i \in DOMAIN Tail(tasks) :
              /\ i \in Nat /\ i + 1 \in DOMAIN tasks /\ i + 1 # 1
              /\ Tail(tasks)[i] = tasks[i + 1]
    BY <2>1, TakeFirst DEF TypeOK
  <2>3. ASSUME NEW i \in DOMAIN tasks', IsSync(tasks'[i])
        PROVE  /\ pc'[tasks'[i].caller] = "wait"
               /\ IsSync(witem') => tasks'[i].caller # witem'.caller
               /\ \A j \in DOMAIN tasks' :
                    IsSync(tasks'[j]) /\ tasks'[i].caller = tasks'[j].caller => i = j
    <3>1. /\ tasks'[i] = tasks[i + 1] /\ i + 1 \in DOMAIN tasks /\ i \in Nat
          /\ pc[tasks[i + 1].caller] = "wait"
          /\ IsSync(witem) => tasks[i + 1].caller # witem.caller
          /\ \A j \in DOMAIN tasks :
               IsSync(tasks[j]) /\ tasks[i + 1].caller = tasks[j].caller => i + 1 = j
      BY <2>1, <2>2, <2>3 DEF SyncWaits
    <3>2. IsSync(Head(tasks)) => tasks[i + 1].caller # Head(tasks).caller
      BY <2>2, <2>1, <3>1
    <3>3. ASSUME NEW j \in DOMAIN tasks', IsSync(tasks'[j]), tasks'[i].caller = tasks'[j].caller
          PROVE  i = j
      <4>1. tasks'[j] = tasks[j + 1] /\ j + 1 \in DOMAIN tasks /\ j \in Nat
        BY <2>1, <2>2
      <4>2. i + 1 = j + 1
        BY <4>1, <3>1, <3>3
      <4> QED
        BY <4>1, <4>2, <3>1
    <3> QED
      BY <2>1, <3>1, <3>2, <3>3
  <2>4. IsSync(witem') => pc'[witem'.caller] = "wait"
    BY <2>1, <2>2 DEF SyncWaits
  <2> QED
    BY <2>1, <2>3, <2>4 DEF HeldPlace, SyncWaits
<1>7. CASE SessionFails \/ RunWrite \/ WriteFails
  BY <1>7, SettledPlaces DEF SessionFails, RunWrite, WriteFails
<1>8. CASE BeginSession \/ EndSession \/ PopRows \/ ResubmitCheck \/ (\E t \in Tables : InsertSome(t) \/ InsertTable(t))
  <2>1. UNCHANGED <<pc, held, tasks>> /\ witem' \in {witem, None}
    BY <1>8 DEF BeginSession, EndSession, PopRows, ResubmitCheck, InsertSome, InsertTable
  <2> QED
    BY <2>1 DEF HeldPlace, SyncWaits, IsSync
<1>9. CASE ResubmitPut
  <2>1. Flush \in Item /\ tasks' = Put(Flush) /\ UNCHANGED <<pc, held, witem>>
    BY <1>9 DEF ResubmitPut, Item
  <2>2. /\ DOMAIN tasks' = DOMAIN tasks \cup {Len(tasks) + 1}
        /\ \A i \in DOMAIN tasks : tasks'[i] = tasks[i]
        /\ tasks'[Len(tasks) + 1] = Flush
    BY <2>1, PutIsLast DEF TypeOK
  <2> QED
    BY <2>1, <2>2 DEF HeldPlace, SyncWaits, IsSync
<1>10. CASE Crash
  BY <1>10 DEF Crash, HeldPlace, SyncWaits, IsSync
<1>11. CASE AtRest
  BY <1>11 DEF AtRest, vars, HeldPlace, SyncWaits, IsSync
<1> QED
  BY <1>1, <1>2, <1>3, <1>4, <1>5, <1>6, <1>7, <1>8, <1>9, <1>10, <1>11
  DEF Next, CallerStep, SubmitStep, WriterStep

\* What the writer has in hand where it is.
WriterItem ==
  /\ wpc \in {"get", "after", "exited"} => witem = None
  /\ wpc \in {"begin", "run"} => witem \in Write \cup {Flush}
  /\ wpc \in {"resubmit", "reput", "insert"} => witem = Flush

\* Every step keeps the task of the writer.
LEMMA NextWriterItem ==
  ASSUME TypeOK, WriterItem, Next
  PROVE  WriterItem'
<1> USE DEF queueVars, writerVars, dbVars, callerVars
<1>1. CASE Get \/ NextTask
  <2>1. tasks # <<>> => Head(tasks) \in Item
    BY DEF TypeOK
  <2> QED
    BY <1>1, <2>1 DEF Get, NextTask, WriterItem, Item
<1>2. CASE \/ BeginSession \/ RunWrite \/ PopRows \/ ResubmitCheck \/ ResubmitPut
           \/ EndSession \/ StopSession \/ SessionFails \/ WriteFails \/ Crash
           \/ \E t \in Tables : InsertSome(t) \/ InsertTable(t)
  BY <1>2 DEF BeginSession, RunWrite, PopRows, ResubmitCheck, ResubmitPut, EndSession,
              StopSession, AfterStop, SessionFails, WriteFails, Crash, InsertSome, InsertTable, WriterItem
<1>3. ASSUME UNCHANGED <<wpc, witem>>
      PROVE  WriterItem'
  BY <1>3 DEF WriterItem
<1> QED
  BY <1>1, <1>2, <1>3
  DEF Next, CallerStep, SubmitStep, WriterStep, QueueRows, Save, SubmitCheck, SubmitPut,
      Shutdown, Join, AtRest, vars

\* There is nothing to flush at first.
LEMMA InitFlushKnown == Init => FlushKnown
BY DEF Init, FlushKnown

\* No step leaves rows without a flush.
LEMMA NextFlushKnown ==
  ASSUME TypeOK, HeldTask, HeldPlace, FlushKnown, Next
  PROVE  FlushKnown'
<1> USE ItemKinds DEF queueVars, writerVars, dbVars, callerVars
<1>1. ASSUME NEW c \in Callers, NEW t \in Tables, NEW ks \in Batches, QueueRows(c, t, ks)
      PROVE  FlushKnown'
  <2>1. flushQueued' /\ UNCHANGED <<tasks, wpc, witem, closed>>
    BY <1>1 DEF QueueRows
  <2>2. CASE flushQueued
    <3>1. held' = held
      BY <1>1, <2>2 DEF QueueRows, MustSubmit
    <3> QED
      BY <2>1, <2>2, <3>1 DEF FlushKnown, FlushExists, WriterOwesFlush
  <2>3. CASE ~flushQueued
    <3>1. held'[c] = Flush
      BY <1>1, <2>3 DEF QueueRows, MustSubmit, TypeOK
    <3> QED
      BY <2>1, <3>1 DEF FlushKnown, FlushExists
  <2> QED
    BY <2>2, <2>3 DEF TypeOK
<1>2. ASSUME NEW c \in Callers, NEW sync \in BOOLEAN, Save(c, sync)
      PROVE  FlushKnown'
  <2>1. UNCHANGED <<pendingRows, flushQueued, tasks, closed, wpc, witem>>
    BY <1>2 DEF Save
  <2>2. held[c] # Flush
    BY <1>2 DEF Save, HeldPlace
  <2>3. \A d \in Callers : held[d] = Flush => held'[d] = Flush
    BY <1>2, <2>2 DEF Save, TypeOK
  <2> QED
    BY <2>1, <2>3 DEF FlushKnown, FlushExists, WriterOwesFlush
<1>3. ASSUME NEW c \in Callers, SubmitCheck(c)
      PROVE  FlushKnown'
  BY <1>3 DEF SubmitCheck, FlushKnown, FlushExists, WriterOwesFlush
<1>4. ASSUME NEW c \in Callers, SubmitPut(c)
      PROVE  FlushKnown'
  <2>1. held[c] \in Item /\ tasks' = Put(held[c])
    BY <1>4 DEF SubmitPut, TypeOK, HeldTask
  <2>2. /\ \A i \in DOMAIN tasks : i \in DOMAIN tasks' /\ tasks'[i] = tasks[i]
        /\ \E i \in DOMAIN tasks' : tasks'[i] = held[c]
    BY <2>1, FlushStays
  <2>3. \A d \in Callers \ {c} : held'[d] = held[d]
    BY <1>4 DEF SubmitPut, TypeOK
  <2>4. FlushExists => FlushExists'
    BY <1>4, <2>2, <2>3 DEF SubmitPut, FlushExists, WriterOwesFlush
  <2> QED
    BY <1>4, <2>4 DEF SubmitPut, FlushKnown
<1>5. CASE Shutdown \/ Join
  <2>1. Shutdown => closed'
    BY DEF Shutdown
  <2>2. Join /\ FlushExists => FlushExists'
    BY DEF Join, FlushExists, WriterOwesFlush
  <2> QED
    BY <1>5, <2>1, <2>2 DEF Shutdown, Join, FlushKnown
<1>6. CASE Get \/ NextTask \/ StopSession
  <2>1. /\ tasks # <<>> /\ tasks' = Tail(tasks) /\ ~WriterOwesFlush
        /\ UNCHANGED <<held, pendingRows, flushQueued, closed>>
    BY <1>6 DEF Get, NextTask, StopSession, WriterOwesFlush
  <2>2. Head(tasks) = Flush => WriterOwesFlush'
    BY <1>6 DEF Get, NextTask, StopSession, WriterOwesFlush
  <2>3. FlushExists => FlushExists'
    BY <2>1, <2>2, FlushStays DEF FlushExists
  <2> QED
    BY <2>1, <2>3 DEF FlushKnown
<1>7. CASE \/ BeginSession \/ RunWrite \/ WriteFails \/ EndSession \/ ResubmitCheck
           \/ \E t \in Tables : InsertSome(t) \/ InsertTable(t)
  <2>1. WriterOwesFlush => WriterOwesFlush' \/ closed
    BY <1>7, NotWrites
    DEF BeginSession, RunWrite, WriteFails, EndSession, ResubmitCheck, InsertSome, InsertTable,
        WriterOwesFlush, IsWrite
  <2>2. UNCHANGED <<held, tasks, pendingRows, flushQueued, closed>>
    BY <1>7 DEF BeginSession, RunWrite, WriteFails, EndSession, ResubmitCheck, InsertSome, InsertTable
  <2> QED
    BY <2>1, <2>2 DEF FlushKnown, FlushExists
<1>8. CASE SessionFails
  BY <1>8 DEF SessionFails, MayFault, FlushKnown
<1>9. CASE PopRows
  <2>1. More(pendingRows') => chunk' # NoRows
    <3> SUFFICES ASSUME pendingRows' # NoRows, chunk' = NoRows
                 PROVE  FALSE
      BY DEF More
    <3>1. /\ chunk' = [t \in Tables |-> Split(pendingRows[t]).taken]
          /\ pendingRows' = [t \in Tables |-> Split(pendingRows[t]).rest]
      BY <1>9 DEF PopRows
    <3>2. PICK t \in Tables : Split(pendingRows[t]).rest # <<>>
      BY <3>1 DEF NoRows
    <3>3. Split(pendingRows[t]).taken # <<>>
      BY <3>2, SplitTakesSome DEF TypeOK
    <3>4. chunk'[t] # <<>> /\ chunk'[t] = <<>>
      BY <3>1, <3>3 DEF NoRows
    <3> QED
      BY <3>4
  <2>2. flushQueued' = More(pendingRows') /\ (flushQueued' => wpc' = "resubmit")
    BY <1>9, <2>1 DEF PopRows
  <2> QED
    BY <2>2 DEF FlushKnown, FlushExists, WriterOwesFlush, More
<1>10. CASE ResubmitPut
  <2>1. \E i \in DOMAIN tasks' : tasks'[i] = Flush
    <3>1. Flush \in Item /\ tasks' = Put(Flush)
      BY <1>10 DEF ResubmitPut, Item
    <3> QED
      BY <3>1, FlushStays
  <2> QED
    BY <1>10, <2>1 DEF ResubmitPut, FlushKnown, FlushExists
<1>11. CASE Crash
  BY <1>11 DEF Crash, FlushKnown
<1>12. CASE AtRest
  BY <1>12 DEF AtRest, vars, FlushKnown, FlushExists, WriterOwesFlush
<1> QED
  BY <1>1, <1>2, <1>3, <1>4, <1>5, <1>6, <1>7, <1>8, <1>9, <1>10, <1>11, <1>12
  DEF Next, CallerStep, SubmitStep, WriterStep

-----------------------------------------------------------------------------
(* The writes of one caller *)

Earlier(a, b) == IsWrite(a) /\ IsWrite(b) /\ a.caller = b.caller => a.n < b.n

\* All tasks there are, and the writes in the database.
AllTasks ==
  {applied[i] : i \in DOMAIN applied} \cup {witem} \cup {tasks[i] : i \in DOMAIN tasks}
    \cup {held[c] : c \in Callers}

\* A write is one of those its caller submitted, after rows that were queued.
Counted ==
  \A a \in AllTasks : IsWrite(a) => a.n <= writeCount[a.caller] /\ a.after <= rowCount

\* The numbers of writes are numbers.
LEMMA CountTypes ==
  ASSUME TypeOK
  PROVE  /\ \A w \in Write : w.n \in Nat /\ w.after \in Nat /\ w.caller \in Callers
         /\ \A c \in Callers : writeCount[c] \in Nat
         /\ rowCount \in Nat
         /\ \A a \in AllTasks : IsWrite(a) => a \in Write
<1>1. \A w \in Write : w.n \in 1..MaxWrites /\ w.after \in 0..MaxRows /\ w.caller \in Callers
  BY DEF Write
<1>2. \A i \in DOMAIN applied : applied[i] \in Write
  BY DEF TypeOK
<1>3. \A w \in Write : w.n \in Nat /\ w.after \in Nat /\ w.caller \in Callers
  BY <1>1, WriteQueueAssumption
<1>4. (\A c \in Callers : writeCount[c] \in Nat) /\ rowCount \in Nat
  BY WriteQueueAssumption DEF TypeOK
<1>5. \A a \in AllTasks : IsWrite(a) => a \in Write
  BY <1>2, WriteFields DEF AllTasks
<1> QED
  BY <1>3, <1>4, <1>5

\* No write is anywhere at first.
LEMMA InitCounted == Init => Counted
BY NotWrites DEF Init, AllTasks, Counted

\* Only a save makes a write: the other steps pass tasks on.
LEMMA TasksPassedOn ==
  ASSUME TypeOK, HeldTask, Next
  PROVE  \/ AllTasks' \subseteq AllTasks \cup {None, Flush, Stop}
         \/ \E c \in Callers, sync \in BOOLEAN :
              /\ Save(c, sync)
              /\ AllTasks' \subseteq AllTasks \cup {held'[c]}
<1> USE DEF queueVars, writerVars, dbVars, callerVars
<1> DEFINE Passed == AllTasks' \subseteq AllTasks \cup {None, Flush, Stop}
<1>1. ASSUME NEW c \in Callers, NEW t \in Tables, NEW ks \in Batches, QueueRows(c, t, ks)
      PROVE  Passed
  BY <1>1 DEF QueueRows, AllTasks, TypeOK
<1>2. ASSUME NEW c \in Callers, NEW sync \in BOOLEAN, Save(c, sync)
      PROVE  AllTasks' \subseteq AllTasks \cup {held'[c]}
  BY <1>2 DEF Save, AllTasks, TypeOK
<1>3. ASSUME NEW c \in Callers, SubmitCheck(c)
      PROVE  Passed
  BY <1>3 DEF SubmitCheck, AllTasks, TypeOK
<1>4. ASSUME NEW c \in Callers, SubmitPut(c)
      PROVE  Passed
  <2>1. held[c] \in Item
    BY <1>4 DEF SubmitPut, TypeOK, HeldTask
  <2>2. \A i \in DOMAIN tasks' : tasks'[i] = held[c] \/ (i \in DOMAIN tasks /\ tasks'[i] = tasks[i])
    BY <1>4, <2>1, PutIsLast DEF SubmitPut, TypeOK
  <2>3. UNCHANGED <<applied, witem>> /\ \A d \in Callers : held'[d] \in {held[d], None}
    BY <1>4 DEF SubmitPut, TypeOK
  <2> QED
    BY <2>2, <2>3 DEF AllTasks
<1>5. CASE Shutdown \/ Join
  BY <1>5 DEF Shutdown, Join, AllTasks, TypeOK
<1>6. CASE Get \/ NextTask \/ StopSession
  <2>1. /\ tasks # <<>> /\ tasks' = Tail(tasks) /\ UNCHANGED <<held, applied>>
        /\ witem' = Head(tasks) \/ witem' = None \/ witem' = witem
    BY <1>6 DEF Get, NextTask, StopSession
  <2>2. /\ 1 \in DOMAIN tasks /\ Head(tasks) = tasks[1]
        /\ \A i \in DOMAIN tasks' : i + 1 \in DOMAIN tasks /\ tasks'[i] = tasks[i + 1]
    BY <2>1, TakeFirst DEF TypeOK
  <2> QED
    BY <2>1, <2>2 DEF AllTasks
<1>7. CASE RunWrite
  <2>1. \A i \in DOMAIN applied' : applied'[i] = witem \/ (i \in DOMAIN applied /\ applied'[i] = applied[i])
    BY <1>7, ItemKinds DEF RunWrite, TypeOK
  <2>2. witem' = None /\ UNCHANGED <<tasks, held>>
    BY <1>7 DEF RunWrite
  <2> QED
    BY <2>1, <2>2 DEF AllTasks
<1>8. CASE \/ BeginSession \/ PopRows \/ ResubmitCheck \/ EndSession \/ SessionFails \/ WriteFails
           \/ \E t \in Tables : InsertSome(t) \/ InsertTable(t)
  <2>1. UNCHANGED <<tasks, held, applied>> /\ witem' \in {witem, None}
    BY <1>8 DEF BeginSession, PopRows, ResubmitCheck, EndSession, SessionFails, WriteFails,
                InsertSome, InsertTable
  <2> QED
    BY <2>1 DEF AllTasks
<1>9. CASE ResubmitPut
  <2>1. \A i \in DOMAIN tasks' : tasks'[i] = Flush \/ (i \in DOMAIN tasks /\ tasks'[i] = tasks[i])
    <3>1. Flush \in Item
      BY DEF Item
    <3> QED
      BY <1>9, <3>1, PutIsLast DEF ResubmitPut, TypeOK
  <2>2. UNCHANGED <<witem, applied, held>>
    BY <1>9 DEF ResubmitPut
  <2> QED
    BY <2>1, <2>2 DEF AllTasks
<1>10. CASE Crash
  BY <1>10 DEF Crash, AllTasks
<1>11. CASE AtRest
  BY <1>11 DEF AtRest, vars, AllTasks
<1>12. ASSUME NEW c \in Callers, CallerStep(c)
       PROVE  Passed \/ \E sync \in BOOLEAN : Save(c, sync)
  BY <1>1, <1>3, <1>4, <1>12 DEF CallerStep, SubmitStep
<1>13. CASE \E c \in Callers : CallerStep(c)
  BY <1>2, <1>12, <1>13
<1> QED
  BY <1>5, <1>6, <1>7, <1>8, <1>9, <1>10, <1>11, <1>13 DEF Next, WriterStep

\* Every step keeps the counts.
LEMMA NextCounted ==
  ASSUME TypeOK, HeldTask, Counted, Next
  PROVE  Counted'
<1>1. /\ \A c \in Callers : writeCount'[c] \in Nat /\ writeCount[c] <= writeCount'[c]
      /\ rowCount' \in Nat /\ rowCount <= rowCount'
  <2>1. /\ rowCount \in Nat /\ \A c \in Callers : writeCount[c] \in Nat
        /\ writeCount \in [Callers -> 0..MaxWrites]
    BY CountTypes DEF TypeOK
  <2>2. ASSUME NEW c \in Callers, NEW t \in Tables, NEW ks \in Batches, QueueRows(c, t, ks)
        PROVE  writeCount' = writeCount /\ rowCount' \in Nat /\ rowCount <= rowCount'
    BY <2>1, <2>2, BatchIsSeq DEF QueueRows
  <2>3. ASSUME NEW c \in Callers, NEW sync \in BOOLEAN, Save(c, sync)
        PROVE  /\ \A d \in Callers : writeCount'[d] \in Nat /\ writeCount[d] <= writeCount'[d]
               /\ rowCount' = rowCount
    BY <2>1, <2>3 DEF Save
  <2>4. \/ writeCount' = writeCount /\ rowCount' = rowCount
        \/ \E c \in Callers, t \in Tables, ks \in Batches : QueueRows(c, t, ks)
        \/ \E c \in Callers, sync \in BOOLEAN : Save(c, sync)
    BY DEF Next, CallerStep, SubmitStep, WriterStep, SubmitCheck, SubmitPut,
           Shutdown, Join, Get, BeginSession, SessionFails, RunWrite, WriteFails, PopRows,
           ResubmitCheck, ResubmitPut, InsertSome, InsertTable, NextTask, EndSession, StopSession, Crash,
           AtRest, vars, callerVars
  <2> QED
    BY <2>1, <2>2, <2>3, <2>4
<1>2. ASSUME NEW a \in AllTasks, IsWrite(a)
      PROVE  a.n <= writeCount'[a.caller] /\ a.after <= rowCount'
  <2>1. /\ a.n \in Nat /\ a.after \in Nat /\ a.caller \in Callers
        /\ writeCount[a.caller] \in Nat /\ rowCount \in Nat
    BY <1>2, CountTypes
  <2>2. a.n <= writeCount[a.caller] /\ a.after <= rowCount
    BY <1>2 DEF Counted
  <2> QED
    BY <1>1, <2>1, <2>2
<1>3. CASE AllTasks' \subseteq AllTasks \cup {None, Flush, Stop}
  BY <1>2, <1>3, NotWrites DEF Counted, IsWrite
<1>4. ASSUME NEW c \in Callers, NEW sync \in BOOLEAN, Save(c, sync),
             AllTasks' \subseteq AllTasks \cup {held'[c]}
      PROVE  Counted'
  <2>1. /\ held'[c].n = writeCount'[c] /\ held'[c].caller = c /\ held'[c].after = rowCount'
    BY <1>4 DEF Save, TypeOK
  <2>2. held'[c].n <= writeCount'[held'[c].caller] /\ held'[c].after <= rowCount'
    BY <1>1, <2>1
  <2> QED
    BY <1>2, <1>4, <2>2 DEF Counted, IsWrite
<1> QED
  BY <1>3, <1>4, TasksPassedOn

\* From the database back to the callers, the writes of a caller are in order.
CallOrder ==
  /\ \A i, j \in DOMAIN applied : i < j => Earlier(applied[i], applied[j])
  /\ \A i \in DOMAIN applied : Earlier(applied[i], witem)
  /\ \A i \in DOMAIN applied, j \in DOMAIN tasks : Earlier(applied[i], tasks[j])
  /\ \A j \in DOMAIN tasks : Earlier(witem, tasks[j])
  /\ \A i, j \in DOMAIN tasks : i < j => Earlier(tasks[i], tasks[j])
  /\ \A c \in Callers :
       /\ Earlier(witem, held[c])
       /\ \A i \in DOMAIN applied : Earlier(applied[i], held[c])
       /\ \A i \in DOMAIN tasks : Earlier(tasks[i], held[c])

\* No write is anywhere at first.
LEMMA InitCallOrder == Init => CallOrder
BY NotWrites DEF Init, CallOrder, Earlier

\* A step that moves no write but may take some away.
LEMMA CallOrderKept ==
  ASSUME CallOrder,
         applied' = applied, tasks' = tasks,
         witem' = witem \/ ~IsWrite(witem'),
         \A c \in Callers : held'[c] = held[c] \/ ~IsWrite(held'[c])
  PROVE  CallOrder'
BY DEF CallOrder, Earlier

\* A put behind the others.
LEMMA CallOrderPut ==
  ASSUME TypeOK, CallOrder, NEW item \in Item, tasks' = Put(item),
         UNCHANGED <<applied, witem>>,
         /\ Earlier(witem, item)
         /\ \A i \in DOMAIN applied : Earlier(applied[i], item)
         /\ \A i \in DOMAIN tasks : Earlier(tasks[i], item),
         \A d \in Callers : \/ ~IsWrite(held'[d])
                            \/ held'[d] = held[d] /\ Earlier(item, held[d])
  PROVE  CallOrder'
<1>1. /\ DOMAIN tasks' = DOMAIN tasks \cup {Len(tasks) + 1}
      /\ \A i \in DOMAIN tasks : i < Len(tasks) + 1 /\ tasks'[i] = tasks[i]
      /\ tasks'[Len(tasks) + 1] = item
      /\ \A j \in DOMAIN tasks' : ~(Len(tasks) + 1 < j)
  <2>1. tasks \in Seq(Item) /\ Len(tasks) \in Nat /\ DOMAIN tasks = 1..Len(tasks)
    BY DEF TypeOK
  <2>2. /\ DOMAIN tasks' = DOMAIN tasks \cup {Len(tasks) + 1}
        /\ \A i \in DOMAIN tasks : tasks'[i] = tasks[i]
        /\ tasks'[Len(tasks) + 1] = item
    BY <2>1, PutIsLast
  <2> QED
    BY <2>1, <2>2
<1>2. \A i, j \in DOMAIN tasks' : i < j => Earlier(tasks'[i], tasks'[j])
  BY <1>1 DEF CallOrder
<1>3. \A i \in DOMAIN applied, j \in DOMAIN tasks' : Earlier(applied[i], tasks'[j])
  BY <1>1 DEF CallOrder
<1>4. \A j \in DOMAIN tasks' : Earlier(witem, tasks'[j])
  BY <1>1 DEF CallOrder
<1>5. ASSUME NEW d \in Callers
      PROVE  /\ Earlier(witem, held'[d])
             /\ \A i \in DOMAIN applied : Earlier(applied[i], held'[d])
             /\ \A i \in DOMAIN tasks' : Earlier(tasks'[i], held'[d])
  <2>1. CASE ~IsWrite(held'[d])
    BY <2>1 DEF Earlier
  <2>2. CASE held'[d] = held[d] /\ Earlier(item, held[d])
    BY <2>2, <1>1 DEF CallOrder
  <2> QED
    BY <2>1, <2>2
<1> QED
  BY <1>2, <1>3, <1>4, <1>5 DEF CallOrder, Earlier

\* Every step keeps the order.
LEMMA NextCallOrder ==
  ASSUME TypeOK, HeldTask, WriterItem, SyncWaits, Counted, CallOrder, Next
  PROVE  CallOrder'
<1> USE NotWrites DEF queueVars, writerVars, dbVars, callerVars
<1>1. ASSUME NEW c \in Callers, NEW t \in Tables, NEW ks \in Batches, QueueRows(c, t, ks)
      PROVE  CallOrder'
  <2>1. \A d \in Callers : held'[d] = held[d] \/ held'[d] = Flush
    BY <1>1 DEF QueueRows, TypeOK
  <2> QED
    BY <1>1, <2>1, CallOrderKept DEF QueueRows
<1>2. ASSUME NEW c \in Callers, NEW sync \in BOOLEAN, Save(c, sync)
      PROVE  CallOrder'
  <2>1. held'[c].caller = c /\ held'[c].n = writeCount[c] + 1 /\ writeCount[c] \in Nat
    BY <1>2, CountTypes DEF Save, TypeOK
  <2>2. \A d \in Callers \ {c} : held'[d] = held[d]
    BY <1>2 DEF Save, TypeOK
  <2>3. ASSUME NEW a \in AllTasks
        PROVE  Earlier(a, held'[c])
    <3>1. SUFFICES ASSUME IsWrite(a), a.caller = c
                   PROVE  a.n < held'[c].n
      BY <2>1 DEF Earlier
    <3>2. a.n \in Nat /\ a.n <= writeCount[c]
      BY <3>1, CountTypes DEF Counted
    <3> QED
      BY <2>1, <3>2
  <2>4. UNCHANGED <<applied, tasks, witem>>
    BY <1>2 DEF Save
  <2> QED
    BY <2>2, <2>3, <2>4 DEF CallOrder, AllTasks
<1>3. ASSUME NEW c \in Callers, SubmitCheck(c)
      PROVE  CallOrder'
  <2>1. \A d \in Callers : held'[d] = held[d] \/ held'[d] = None
    BY <1>3 DEF SubmitCheck, TypeOK
  <2> QED
    BY <1>3, <2>1, CallOrderKept DEF SubmitCheck
<1>4. ASSUME NEW c \in Callers, SubmitPut(c)
      PROVE  CallOrder'
  <2>1. held[c] \in Item /\ tasks' = Put(held[c]) /\ UNCHANGED <<applied, witem>>
    BY <1>4 DEF SubmitPut, TypeOK, HeldTask
  <2>2. /\ Earlier(witem, held[c])
        /\ \A i \in DOMAIN applied : Earlier(applied[i], held[c])
        /\ \A i \in DOMAIN tasks : Earlier(tasks[i], held[c])
    BY DEF CallOrder
  <2>3. ASSUME NEW d \in Callers
        PROVE  \/ ~IsWrite(held'[d])
               \/ held'[d] = held[d] /\ Earlier(held[c], held[d])
    <3>1. d = c => held'[d] = None
      BY <1>4 DEF SubmitPut, TypeOK
    <3>2. d # c => held'[d] = held[d] /\ Earlier(held[c], held[d])
      BY <1>4 DEF SubmitPut, TypeOK, Earlier, SyncWaits
    <3> QED
      BY <3>1, <3>2
  <2> QED
    BY <2>1, <2>2, <2>3, CallOrderPut
<1>5. CASE Shutdown \/ Join
  <2>1. \A d \in Callers : held'[d] = held[d] \/ held'[d] = Stop
    BY <1>5 DEF Shutdown, Join, TypeOK
  <2> QED
    BY <1>5, <2>1, CallOrderKept DEF Shutdown, Join
<1>6. CASE Get \/ NextTask \/ StopSession
  <2>1. /\ tasks # <<>> /\ tasks' = Tail(tasks) /\ UNCHANGED <<held, applied>>
        /\ witem' = Head(tasks) \/ witem' = None \/ witem' = witem
    BY <1>6 DEF Get, NextTask, StopSession
  <2>2. /\ 1 \in DOMAIN tasks /\ Head(tasks) = tasks[1]
        /\ \A i \in DOMAIN tasks' :
             i \in Nat /\ i + 1 \in DOMAIN tasks /\ 1 < i + 1 /\ tasks'[i] = tasks[i + 1]
    BY <2>1, TakeFirst DEF TypeOK
  <2>3. \A i, j \in DOMAIN tasks' : i < j => Earlier(tasks'[i], tasks'[j])
    BY <2>2 DEF CallOrder
  <2>4. \A i \in DOMAIN tasks' : Earlier(witem', tasks'[i])
    BY <2>1, <2>2 DEF CallOrder, Earlier
  <2>5. \A i \in DOMAIN applied : Earlier(applied[i], witem')
    BY <2>1, <2>2 DEF CallOrder, Earlier
  <2>6. \A c \in Callers : Earlier(witem', held[c])
    BY <2>1, <2>2 DEF CallOrder, Earlier
  <2> QED
    BY <2>1, <2>2, <2>3, <2>4, <2>5, <2>6 DEF CallOrder, Earlier
<1>7. CASE RunWrite
  <2>1. /\ DOMAIN applied' = DOMAIN applied \cup {Len(applied) + 1}
        /\ \A i \in DOMAIN applied : i < Len(applied) + 1 /\ applied'[i] = applied[i]
        /\ applied'[Len(applied) + 1] = witem
        /\ \A j \in DOMAIN applied' : ~(Len(applied) + 1 < j)
    BY <1>7, ItemKinds DEF RunWrite, TypeOK
  <2>2. witem' = None /\ UNCHANGED <<tasks, held>>
    BY <1>7 DEF RunWrite
  <2>3. \A i, j \in DOMAIN applied' : i < j => Earlier(applied'[i], applied'[j])
    BY <2>1 DEF CallOrder
  <2>4. /\ \A i \in DOMAIN applied', j \in DOMAIN tasks : Earlier(applied'[i], tasks[j])
        /\ \A i \in DOMAIN applied', c \in Callers : Earlier(applied'[i], held[c])
    BY <2>1 DEF CallOrder
  <2> QED
    BY <2>2, <2>3, <2>4 DEF CallOrder, Earlier
<1>8. CASE \/ BeginSession \/ PopRows \/ ResubmitCheck \/ EndSession \/ SessionFails \/ WriteFails
           \/ \E t \in Tables : InsertSome(t) \/ InsertTable(t)
  <2>1. UNCHANGED <<tasks, held, applied>> /\ witem' \in {witem, None}
    BY <1>8 DEF BeginSession, PopRows, ResubmitCheck, EndSession, SessionFails, WriteFails,
                InsertSome, InsertTable
  <2> QED
    BY <2>1, CallOrderKept
<1>9. CASE ResubmitPut
  <2>1. Flush \in Item /\ tasks' = Put(Flush) /\ UNCHANGED <<witem, applied, held>>
    BY <1>9 DEF ResubmitPut, Item
  <2>2. \A a : Earlier(a, Flush) /\ Earlier(Flush, a)
    BY DEF Earlier
  <2> QED
    BY <2>1, <2>2, CallOrderPut
<1>10. CASE Crash
  BY <1>10 DEF Crash, CallOrder, Earlier
<1>11. CASE AtRest
  BY <1>11, CallOrderKept DEF AtRest, vars
<1>12. CASE \E c \in Callers : CallerStep(c)
  BY <1>1, <1>2, <1>3, <1>4, <1>12 DEF CallerStep, SubmitStep
<1> QED
  BY <1>5, <1>6, <1>7, <1>8, <1>9, <1>10, <1>11, <1>12 DEF Next, WriterStep

-----------------------------------------------------------------------------
(* What holds whatever the flushes take *)

OrderInv == HeldPlace /\ SyncWaits /\ WriterItem /\ FlushKnown /\ Counted /\ CallOrder

\* OrderInv holds throughout every behaviour of the write path.
THEOREM OrderInvariance == Spec => []OrderInv
<1>1. Init => OrderInv
  <2>1. Init => HeldPlace /\ SyncWaits /\ WriterItem
    BY NotWrites DEF Init, HeldPlace, SyncWaits, IsSync, WriterItem
  <2> QED
    BY <2>1, InitFlushKnown, InitCounted, InitCallOrder DEF OrderInv
<1>2. Inv /\ OrderInv /\ Next => OrderInv'
  BY NextPlaces, NextWriterItem, NextFlushKnown, NextCounted, NextCallOrder DEF Inv, OrderInv
<1>3. OrderInv /\ UNCHANGED vars => OrderInv'
  BY DEF vars, callerVars, queueVars, writerVars, dbVars, OrderInv, HeldPlace, SyncWaits,
         WriterItem, FlushKnown, FlushExists, WriterOwesFlush, AllTasks, Counted, CallOrder
<1>4. Inv /\ OrderInv /\ [Next]_vars => OrderInv'
  BY <1>2, <1>3
<1> QED
  BY <1>1, <1>4, Invariance, PTL DEF Spec

\* While sessions open and the executor is open, rows that wait have a flush that
\* a caller submits, the queue holds or the writer owes (storage.py:461-490).
THEOREM FlushScheduledHolds == Spec => []FlushScheduled
<1>1. FlushKnown => FlushScheduled
  BY DEF FlushKnown, FlushExists, FlushScheduled, OutstandingFlushes
<1> QED
  BY <1>1, OrderInvariance, PTL DEF OrderInv

\* The writes of each caller take effect in the order of its calls and none of
\* them twice, whatever fails in between (storage.py:430-449).
THEOREM AppliedInCallOrderHolds == Spec => []AppliedInCallOrder
<1>1. Inv /\ CallOrder => AppliedInCallOrder
  <2> SUFFICES ASSUME Inv, CallOrder, NEW i \in DOMAIN applied, NEW j \in DOMAIN applied,
                      i < j, applied[i].caller = applied[j].caller
               PROVE  applied[i].n < applied[j].n
    BY DEF AppliedInCallOrder
  <2>1. applied[i] \in Write /\ applied[j] \in Write
    BY DEF Inv, TypeOK
  <2>2. IsWrite(applied[i]) /\ IsWrite(applied[j])
    BY <2>1, ItemKinds DEF IsWrite, Item
  <2> QED
    BY <2>2 DEF CallOrder, Earlier
<1> QED
  BY <1>1, OrderInvariance, Invariance, PTL DEF OrderInv

-----------------------------------------------------------------------------
(* While a flush takes all the rows that wait *)

\* No table has more rows waiting than one flush takes.
PendingFit == \A t \in Tables : Len(pendingRows[t]) <= FlushRows

\* No flush submits another, and no row is dropped, at the exit either.
OneChunk ==
  /\ wpc \notin {"resubmit", "reput"}
  /\ \A t \in Tables, k \in Keys : InSight(t, k)

\* Rows that wait are newer than all a flush took, for whatever table, and than
\* all in the database; rows a flush took are newer than what the database has
\* in the later tables.
TablesApart ==
  \A t, u \in Tables :
    /\ \A j \in DOMAIN pendingRows[u] :
         /\ \A i \in DOMAIN chunk[t] : chunk[t][i].pos < pendingRows[u][j].pos
         /\ \A l \in Keys : stored[t][l] < pendingRows[u][j].pos
    /\ t < u => \A i \in DOMAIN chunk[t], l \in Keys : stored[u][l] < chunk[t][i].pos

FitInv == OneChunk /\ TablesApart

\* A flush takes all the rows of a table that fit.
LEMMA SplitTakesAll ==
  ASSUME NEW rows \in Seq(Row), Len(rows) <= FlushRows
  PROVE  Split(rows).rest = <<>> /\ Split(rows).taken = rows
<1>1. Least(FlushRows, Len(rows)) = Len(rows) /\ Len(rows) \in Nat
  BY WriteQueueAssumption DEF Least
<1>2. /\ Split(rows).taken = SubSeq(rows, 1, Len(rows))
      /\ Split(rows).rest = SubSeq(rows, Len(rows) + 1, Len(rows))
  BY <1>1 DEF Split
<1>3. SubSeq(rows, 1, Len(rows)) = rows
  BY <1>1
<1>4. SubSeq(rows, Len(rows) + 1, Len(rows)) = <<>>
  BY <1>1
<1> QED
  BY <1>2, <1>3, <1>4

\* There are no rows at first.
LEMMA InitFitInv == Init => FitInv
<1> SUFFICES ASSUME Init PROVE FitInv
  OBVIOUS
<1>1. \A t \in Tables : chunk[t] = <<>> /\ pendingRows[t] = <<>>
  BY DEF Init, NoRows
<1>2. \A t \in Tables, k \in Keys : stored[t][k] = 0 /\ lastQueued[t][k] = 0
  BY DEF Init, EmptyTab
<1> QED
  BY <1>1, <1>2 DEF Init, FitInv, OneChunk, TablesApart, InSight, Arrived

\* The rows of a batch are behind all positions there are.
LEMMA BatchPositions ==
  ASSUME NEW ks \in Batches, rowCount \in Nat, rowCount + Len(ks) <= MaxRows
  PROVE  /\ NewRows(ks) \in Seq(Row) /\ Len(NewRows(ks)) \in Nat
         /\ \A i \in DOMAIN NewRows(ks) : NewRows(ks)[i].pos > rowCount /\ NewRows(ks)[i].pos \in Nat
<1> DEFINE N == NewRows(ks)
<1>1. /\ N \in Seq(Row) /\ Len(N) = Len(ks) /\ Len(ks) \in Nat
      /\ \A i \in 1..Len(ks) : N[i] = [key |-> ks[i], pos |-> rowCount + i]
  BY NewRowsPositions, BatchIsSeq
<1> HIDE DEF N
<1>2. \A i \in 1..Len(ks) : [key |-> ks[i], pos |-> rowCount + i].pos = rowCount + i
  OBVIOUS
<1>3. DOMAIN N = 1..Len(ks)
  BY <1>1
<1>4. \A i \in DOMAIN N : N[i].pos = rowCount + i /\ i \in Nat /\ i >= 1
  BY <1>1, <1>2, <1>3
<1> QED
  BY <1>1, <1>4 DEF N

\* A row of a concatenation is one of the first part, or one of the second.
LEMMA RowsBehind ==
  ASSUME NEW P \in Seq(Row), NEW N \in Seq(Row), NEW n,
         \A i \in DOMAIN N : N[i].pos > n /\ N[i].pos \in Nat,
         NEW j \in DOMAIN (P \o N)
  PROVE  \/ j \in DOMAIN P /\ (P \o N)[j] = P[j]
         \/ (P \o N)[j].pos > n /\ (P \o N)[j].pos \in Nat
<1>1. /\ \A i \in DOMAIN P : (P \o N)[i] = P[i]
      /\ \A i \in DOMAIN N : (P \o N)[Len(P) + i] = N[i]
      /\ j \in DOMAIN P \/ j - Len(P) \in DOMAIN N
      /\ DOMAIN (P \o N) = 1..(Len(P) + Len(N)) /\ Len(P) \in Nat /\ Len(N) \in Nat
  BY Concatenated
<1>2. Len(P) + (j - Len(P)) = j
  BY <1>1
<1> QED
  BY <1>1, <1>2

\* Rows that are queued are newer than all others.
LEMMA QueueRowsFit ==
  ASSUME Inv, FitInv,
         NEW c \in Callers, NEW t \in Tables, NEW ks \in Batches, QueueRows(c, t, ks)
  PROVE  FitInv'
<1> DEFINE N == NewRows(ks)
           P == pendingRows[t]
<1>1. /\ UNCHANGED <<chunk, stored, wpc>>
      /\ pendingRows'[t] = P \o N
      /\ \A u \in Tables \ {t} : pendingRows'[u] = pendingRows[u]
  BY DEF QueueRows, writerVars, dbVars, Inv, TypeOK
<1>2. /\ N \in Seq(Row) /\ P \in Seq(Row) /\ Len(N) \in Nat /\ Len(P) \in Nat /\ rowCount \in Nat
      /\ \A i \in DOMAIN N : N[i].pos > rowCount /\ N[i].pos \in Nat
  BY BatchPositions DEF QueueRows, Inv, TypeOK
<1>3. \A u \in Tables :
        /\ \A l \in Keys : stored[u][l] \in Nat /\ stored[u][l] <= rowCount
        /\ \A i \in DOMAIN chunk[u] : chunk[u][i].pos \in Nat /\ chunk[u][i].pos <= rowCount
  BY PosTypes, NotOlderRow DEF Inv, RowInv, RowsFresh, TypeOK
<1> HIDE DEF N, P
<1>4. \A j \in DOMAIN (P \o N) : \/ j \in DOMAIN P /\ (P \o N)[j] = P[j]
                                 \/ (P \o N)[j].pos > rowCount /\ (P \o N)[j].pos \in Nat
  BY <1>2, RowsBehind
<1>5. ASSUME NEW v \in Tables, NEW u \in Tables, NEW j \in DOMAIN pendingRows'[u]
      PROVE  /\ \A i \in DOMAIN chunk[v] : chunk[v][i].pos < pendingRows'[u][j].pos
             /\ \A l \in Keys : stored[v][l] < pendingRows'[u][j].pos
  <2>1. CASE u # t \/ (j \in DOMAIN P /\ (P \o N)[j] = P[j])
    BY <2>1, <1>1 DEF FitInv, TablesApart, P
  <2>2. CASE u = t /\ (P \o N)[j].pos > rowCount /\ (P \o N)[j].pos \in Nat
    BY <2>2, <1>1, <1>2, <1>3
  <2> QED
    BY <2>1, <2>2, <1>1, <1>4
<1>6. TablesApart'
  BY <1>1, <1>5 DEF FitInv, TablesApart
<1>7. OneChunk'
  BY <1>1, QueueRowsInv DEF Inv, FitInv, OneChunk
<1> QED
  BY <1>6, <1>7 DEF FitInv

\* A flush takes every row, so that nothing is left for another one.
LEMMA PopRowsFit ==
  ASSUME Inv, FitInv, PendingFit, PopRows
  PROVE  FitInv' /\ \A t \in Tables : pendingRows'[t] = <<>> /\ chunk'[t] = pendingRows[t]
<1>1. \A t \in Tables : pendingRows'[t] = <<>> /\ chunk'[t] = pendingRows[t]
  BY SplitTakesAll DEF PopRows, PendingFit, Inv, TypeOK
<1>2. pendingRows' = NoRows
  BY <1>1 DEF PopRows, NoRows
<1>3. wpc' \in {"after", "insert"}
  BY <1>2 DEF PopRows, More
<1>4. TablesApart'
  BY <1>1 DEF FitInv, TablesApart, PopRows, dbVars
<1> QED
  BY <1>1, <1>3, <1>4, PopRowsInv DEF Inv, FitInv, OneChunk

\* A table gets rows when the earlier tables have none left to get.
LEMMA InsertTableFit ==
  ASSUME Inv, FitInv, NEW t \in Tables, InsertTable(t)
  PROVE  FitInv'
<1>1. /\ UNCHANGED <<pendingRows, lastQueued>>
      /\ chunk'[t] = <<>> /\ wpc' \in {wpc, "after"}
      /\ stored'[t] = InsertRows(stored[t], chunk[t])
      /\ \A u \in Tables \ {t} : chunk'[u] = chunk[u] /\ stored'[u] = stored[u]
      /\ \A u \in Before(t) : chunk[u] = <<>>
  BY DEF InsertTable, queueVars, callerVars, Inv, TypeOK
<1>2. ASSUME NEW k \in Keys
      PROVE  \/ stored'[t][k] = stored[t][k]
             \/ \E i \in DOMAIN chunk[t] : stored'[t][k] = chunk[t][i].pos
  <2>1. chunk[t] \in Seq(Row) /\ stored[t] \in [Keys -> 0..MaxRows]
    BY DEF Inv, TypeOK
  <2> QED
    BY <1>1, <2>1, InsertRowsIs
<1>3. ASSUME NEW u \in Tables, NEW j \in DOMAIN pendingRows[u], NEW k \in Keys
      PROVE  stored'[t][k] < pendingRows[u][j].pos
  BY <1>2 DEF FitInv, TablesApart
<1>4. \A u \in Tables : u < t => chunk[u] = <<>>
  BY <1>1, WriteQueueAssumption DEF Tables, Before
<1>5. TablesApart'
  BY <1>1, <1>3, <1>4 DEF FitInv, TablesApart
<1> QED
  BY <1>1, <1>5, InsertTableInv DEF Inv, FitInv, OneChunk

\* So it does statement by statement.
LEMMA InsertSomeFit ==
  ASSUME Inv, FitInv, NEW t \in Tables, InsertSome(t)
  PROVE  FitInv'
<1>1. /\ UNCHANGED <<pendingRows, chunk, lastQueued, wpc>>
      /\ \A k \in Keys : stored'[t][k] \in {stored[t][k], InsertRows(stored[t], chunk[t])[k]}
      /\ \A u \in Tables \ {t} : stored'[u] = stored[u]
      /\ \A u \in Before(t) : chunk[u] = <<>>
  BY DEF InsertSome, queueVars, callerVars, Inv, TypeOK
<1>2. ASSUME NEW k \in Keys
      PROVE  \/ stored'[t][k] = stored[t][k]
             \/ \E i \in DOMAIN chunk[t] : stored'[t][k] = chunk[t][i].pos
  <2>1. chunk[t] \in Seq(Row) /\ stored[t] \in [Keys -> 0..MaxRows]
    BY DEF Inv, TypeOK
  <2> QED
    BY <1>1, <2>1, InsertRowsIs
<1>3. ASSUME NEW u \in Tables, NEW j \in DOMAIN pendingRows[u], NEW k \in Keys
      PROVE  stored'[t][k] < pendingRows[u][j].pos
  BY <1>2 DEF FitInv, TablesApart
<1>4. \A u \in Tables : u < t => chunk[u] = <<>>
  BY <1>1, WriteQueueAssumption DEF Tables, Before
<1>5. TablesApart'
  BY <1>1, <1>3, <1>4 DEF FitInv, TablesApart
<1> QED
  BY <1>1, <1>5, InsertSomeInv DEF Inv, FitInv, OneChunk

\* The steps that leave the rows and the database alone.
LEMMA UntouchedFit ==
  ASSUME FitInv, UNCHANGED <<pendingRows, chunk, stored, lastQueued>>,
         wpc' \notin {"resubmit", "reput"}
  PROVE  FitInv'
BY DEF FitInv, OneChunk, TablesApart, InSight, Arrived, HasRow

\* Every step keeps the tables apart.
LEMMA NextFitInv ==
  ASSUME Inv, FitInv, PendingFit, Next
  PROVE  FitInv'
<1> USE DEF queueVars, writerVars, dbVars, callerVars
<1>1. ASSUME NEW c \in Callers, CallerStep(c)
      PROVE  FitInv'
  <2>1. (\E sync \in BOOLEAN : Save(c, sync)) \/ SubmitStep(c) => FitInv'
    BY UntouchedFit DEF SubmitStep, Save, SubmitCheck, SubmitPut, FitInv, OneChunk
  <2> QED
    BY <1>1, <2>1, QueueRowsFit DEF CallerStep
<1>2. CASE Shutdown \/ Join
  BY <1>2, UntouchedFit DEF Shutdown, Join, FitInv, OneChunk
<1>3. CASE \/ Get \/ BeginSession \/ SessionFails \/ RunWrite \/ WriteFails
           \/ NextTask \/ EndSession \/ StopSession
  BY <1>3, UntouchedFit
  DEF Get, BeginSession, SessionFails, RunWrite, WriteFails, NextTask, EndSession,
      StopSession, AfterStop
<1>4. CASE ResubmitCheck \/ ResubmitPut
  BY <1>4 DEF ResubmitCheck, ResubmitPut, FitInv, OneChunk
<1>5. CASE Crash
  <2>1. /\ \A t \in Tables : chunk'[t] = <<>> /\ pendingRows'[t] = <<>>
        /\ lastQueued' = stored /\ stored' = stored /\ wpc' = "get"
    BY <1>5 DEF Crash, NoRows
  <2> QED
    BY <2>1 DEF FitInv, OneChunk, TablesApart, InSight, Arrived
<1>6. CASE AtRest
  BY <1>6, UntouchedFit DEF AtRest, vars, FitInv, OneChunk
<1> QED
  BY <1>1, <1>2, <1>3, <1>4, <1>5, <1>6, PopRowsFit, InsertSomeFit, InsertTableFit DEF Next, WriterStep

\* While each flush takes all the rows that wait, no row is ever dropped and the
\* tables stay apart.
THEOREM FitInvariance == Spec /\ []PendingFit => []FitInv
<1>1. Inv /\ FitInv /\ PendingFit /\ [Next]_vars => FitInv'
  <2>1. FitInv /\ UNCHANGED vars => FitInv'
    BY UntouchedFit DEF vars, callerVars, queueVars, writerVars, dbVars, FitInv, OneChunk
  <2> QED
    BY <2>1, NextFitInv
<1> QED
  BY <1>1, InitFitInv, Invariance, PTL DEF Spec

\* While each flush takes all the rows that wait, a row of a later table is in the
\* database only with the rows of the earlier tables that were queued before it,
\* with any number of callers and at every crash (storage.py:459, 495-503).
THEOREM TablesInOrderHolds == Spec /\ []PendingFit => []TablesInOrder
<1>1. Inv /\ FitInv => TablesInOrder
  <2> SUFFICES ASSUME Inv, FitInv, NEW t \in Tables, NEW u \in Tables, NEW k \in Keys,
                      NEW l \in Keys, t < u, lastQueued[t][k] < stored[u][l]
               PROVE  Arrived(t, k)
    BY DEF TablesInOrder
  <2>1. lastQueued[t][k] \in Nat /\ stored[u][l] \in Nat
    BY PosTypes DEF Inv, RowInv
  <2>2. ~HasRow(chunk[t], k, lastQueued[t][k])
    BY <2>1 DEF FitInv, TablesApart, HasRow
  <2>3. ~HasRow(pendingRows[t], k, lastQueued[t][k])
    BY <2>1 DEF FitInv, TablesApart, HasRow
  <2> QED
    BY <2>2, <2>3 DEF FitInv, OneChunk, InSight
<1> QED
  BY <1>1, FitInvariance, Invariance, PTL

-----------------------------------------------------------------------------
(* While one caller submits at a time *)

Submitting(c) == pc[c] \in {"submit", "put"}

\* The callers do not submit at the same time: between the rows a caller queues
\* and their flush no other caller begins a write.
OneSubmits == \A c, d \in Callers : Submitting(c) /\ Submitting(d) => c = d

\* A row at position p or before it waits.
Waits(p) == \E t \in Tables : \E i \in DOMAIN pendingRows[t] : pendingRows[t][i].pos <= p

FlushAhead == WriterOwesFlush \/ \E j \in DOMAIN tasks : tasks[j] = Flush

\* A write that will take effect while rows queued before it wait has their
\* flush ahead of it.
WritesBehind ==
  /\ \A i \in DOMAIN tasks : IsWrite(tasks[i]) /\ Waits(tasks[i].after) =>
       WriterOwesFlush \/ \E j \in DOMAIN tasks : j < i /\ tasks[j] = Flush
  /\ \A c \in Callers :
       IsWrite(held[c]) /\ Waits(held[c].after) /\ (~closed \/ pc[c] = "put") => FlushAhead
  /\ IsWrite(witem) => ~Waits(witem.after)
  /\ \A i \in DOMAIN applied :
       /\ ~Waits(applied[i].after)
       /\ \A t \in Tables : \A j \in DOMAIN chunk[t] : applied[i].after < chunk[t][j].pos

\* Nothing waits and nothing is written at first.
LEMMA InitWritesBehind == Init => WritesBehind
BY NotWrites DEF Init, WritesBehind

\* No write there is was made after a batch that is queued now.
LEMMA QueueRowsBehind ==
  ASSUME Inv, OrderInv, WritesBehind,
         NEW c \in Callers, NEW t \in Tables, NEW ks \in Batches, QueueRows(c, t, ks)
  PROVE  WritesBehind'
<1> DEFINE N == NewRows(ks)
           P == pendingRows[t]
<1>1. /\ UNCHANGED <<chunk, tasks, closed, applied, wpc, witem>>
      /\ pendingRows'[t] = P \o N
      /\ \A u \in Tables \ {t} : pendingRows'[u] = pendingRows[u]
      /\ \A d \in Callers : held'[d] = Flush \/ (held'[d] = held[d] /\ pc'[d] = pc[d])
  BY DEF QueueRows, writerVars, dbVars, Inv, TypeOK
<1>2. /\ N \in Seq(Row) /\ P \in Seq(Row) /\ Len(N) \in Nat /\ Len(P) \in Nat /\ rowCount \in Nat
      /\ \A i \in DOMAIN N : N[i].pos > rowCount /\ N[i].pos \in Nat
  BY BatchPositions DEF QueueRows, Inv, TypeOK
<1> HIDE DEF N, P
<1>3. ASSUME NEW p \in Nat, p <= rowCount, Waits(p)'
      PROVE  Waits(p)
  <2>1. PICK u \in Tables : \E j \in DOMAIN pendingRows'[u] : pendingRows'[u][j].pos <= p
    BY <1>3 DEF Waits
  <2>2. PICK j \in DOMAIN pendingRows'[u] : pendingRows'[u][j].pos <= p
    BY <2>1
  <2>3. CASE u # t
    BY <2>2, <2>3, <1>1 DEF Waits
  <2>4. CASE u = t
    <3>1. \/ j \in DOMAIN P /\ (P \o N)[j] = P[j]
          \/ (P \o N)[j].pos > rowCount /\ (P \o N)[j].pos \in Nat
      BY <2>4, <1>1, <1>2, RowsBehind
    <3> QED
      BY <2>2, <2>4, <3>1, <1>1, <1>2, <1>3 DEF Waits, P
  <2> QED
    BY <2>3, <2>4
<1>4. \A a \in AllTasks : IsWrite(a) => (Waits(a.after)' => Waits(a.after))
  BY <1>3, CountTypes DEF Inv, OrderInv, Counted
<1>5. \A i \in DOMAIN applied : IsWrite(applied[i]) /\ applied[i] \in AllTasks
  BY ItemKinds DEF Inv, TypeOK, IsWrite, Item, AllTasks
<1> QED
  BY <1>1, <1>4, <1>5, NotWrites
  DEF WritesBehind, FlushAhead, WriterOwesFlush, AllTasks

\* A write is submitted when the flush of the rows that wait is queued or begun.
LEMMA SaveBehind ==
  ASSUME Inv, OrderInv, WritesBehind, OneSubmits', "session" \notin Faults,
         NEW c \in Callers, NEW sync \in BOOLEAN, Save(c, sync)
  PROVE  WritesBehind'
<1>1. /\ UNCHANGED <<chunk, tasks, closed, applied, wpc, witem, pendingRows, flushQueued>>
      /\ pc'[c] = "submit"
      /\ \A d \in Callers \ {c} : held'[d] = held[d] /\ pc'[d] = pc[d]
  BY DEF Save, writerVars, dbVars, queueVars, Inv, TypeOK
<1>2. ~closed /\ (\E p : Waits(p)) => FlushAhead
  <2> SUFFICES ASSUME ~closed, NEW p, Waits(p)
               PROVE  FlushAhead
    OBVIOUS
  <2>1. pendingRows # NoRows
    BY DEF Waits, NoRows
  <2>2. FlushExists
    BY <2>1 DEF OrderInv, FlushKnown
  <2>3. \A d \in Callers : held[d] # Flush
    <3> SUFFICES ASSUME NEW d \in Callers, held[d] = Flush
                 PROVE  FALSE
      OBVIOUS
    <3>1. Submitting(d)
      BY ItemKinds DEF OrderInv, HeldPlace, Submitting
    <3>2. d # c
      BY <3>1 DEF Save, Submitting
    <3>3. Submitting(c)' /\ Submitting(d)'
      BY <1>1, <3>1, <3>2 DEF Submitting
    <3> QED
      BY <3>2, <3>3 DEF OneSubmits
  <2> QED
    BY <2>2, <2>3 DEF FlushExists, FlushAhead
<1>3. \A p : Waits(p)' <=> Waits(p)
  BY <1>1 DEF Waits
<1> QED
  BY <1>1, <1>2, <1>3 DEF WritesBehind, FlushAhead, WriterOwesFlush

\* A task that is put goes behind the flush that is there.
LEMMA SubmitBehind ==
  ASSUME Inv, OrderInv, WritesBehind, NEW c \in Callers, SubmitStep(c)
  PROVE  WritesBehind'
<1>1. UNCHANGED <<chunk, closed, applied, wpc, witem, pendingRows>>
  BY DEF SubmitStep, SubmitCheck, SubmitPut, writerVars, dbVars, queueVars
<1>2. (WriterOwesFlush' <=> WriterOwesFlush) /\ \A p : Waits(p)' <=> Waits(p)
  BY <1>1 DEF WriterOwesFlush, Waits
<1>3. CASE SubmitCheck(c)
  <2>1. /\ tasks' = tasks
        /\ \A d \in Callers : \/ held'[d] = None
                              \/ held'[d] = held[d] /\ (pc'[d] = pc[d] \/ ~closed)
    BY <1>3 DEF SubmitCheck, queueVars, Inv, TypeOK
  <2> QED
    BY <1>1, <1>2, <2>1, NotWrites DEF WritesBehind, FlushAhead
<1>4. CASE SubmitPut(c)
  <2>1. held[c] \in Item /\ tasks' = Put(held[c]) /\ pc[c] = "put"
    BY <1>4 DEF SubmitPut, Inv, TypeOK, HeldTask
  <2>2. /\ DOMAIN tasks' = DOMAIN tasks \cup {Len(tasks) + 1}
        /\ \A i \in DOMAIN tasks : tasks'[i] = tasks[i]
        /\ tasks'[Len(tasks) + 1] = held[c]
    BY <2>1, PutIsLast DEF Inv, TypeOK
  <2>3. \A i \in DOMAIN tasks : i < Len(tasks) + 1
    BY DEF Inv, TypeOK
  <2>4. \A d \in Callers : \/ held'[d] = None
                           \/ held'[d] = held[d] /\ pc'[d] = pc[d]
    BY <1>4 DEF SubmitPut, Inv, TypeOK
  <2>5. FlushAhead => FlushAhead'
    BY <1>2, <2>2 DEF FlushAhead
  <2>6. ASSUME NEW i \in DOMAIN tasks', IsWrite(tasks'[i]), Waits(tasks'[i].after)
        PROVE  WriterOwesFlush \/ \E j \in DOMAIN tasks' : j < i /\ tasks'[j] = Flush
    <3>1. CASE i \in DOMAIN tasks
      BY <2>2, <2>6, <3>1 DEF WritesBehind
    <3>2. CASE i = Len(tasks) + 1
      <4>1. FlushAhead
        BY <2>1, <2>2, <2>6, <3>2 DEF WritesBehind
      <4> QED
        BY <2>2, <2>3, <3>2, <4>1 DEF FlushAhead
    <3> QED
      BY <2>2, <3>1, <3>2
  <2> QED
    BY <1>1, <1>2, <2>4, <2>5, <2>6, NotWrites DEF WritesBehind
<1> QED
  BY <1>3, <1>4 DEF SubmitStep

\* The task that is taken has no flush ahead of it; the others keep theirs.
LEMMA TakeBehind ==
  ASSUME Inv, OrderInv, WritesBehind, Get \/ NextTask \/ StopSession
  PROVE  WritesBehind'
<1>1. /\ tasks # <<>> /\ tasks' = Tail(tasks) /\ ~WriterOwesFlush
      /\ UNCHANGED <<chunk, closed, applied, pendingRows, held, pc>>
  BY DEF Get, NextTask, StopSession, WriterOwesFlush, callerVars, dbVars
<1>2. /\ 1 \in DOMAIN tasks /\ Head(tasks) = tasks[1]
      /\ \A i \in DOMAIN tasks' :
           i \in Nat /\ i + 1 \in DOMAIN tasks /\ tasks'[i] = tasks[i + 1]
      /\ \A i \in DOMAIN tasks : i \in Nat /\ i >= 1
  BY <1>1, TakeFirst DEF Inv, TypeOK
<1>3. \A i \in DOMAIN tasks : tasks[i] # Head(tasks) =>
        i - 1 \in DOMAIN tasks' /\ tasks'[i - 1] = tasks[i]
  BY <1>1, FlushStays DEF Inv
<1>4. Head(tasks) = Flush => WriterOwesFlush'
  BY ItemKinds DEF Get, NextTask, StopSession, WriterOwesFlush
<1>5. FlushAhead => FlushAhead'
  BY <1>1, <1>3, <1>4 DEF FlushAhead
<1>6. \A p : Waits(p)' <=> Waits(p)
  BY <1>1 DEF Waits
<1>7. ASSUME NEW i \in DOMAIN tasks', IsWrite(tasks'[i]), Waits(tasks'[i].after)
      PROVE  WriterOwesFlush' \/ \E j \in DOMAIN tasks' : j < i /\ tasks'[j] = Flush
  <2>1. PICK j \in DOMAIN tasks : j < i + 1 /\ tasks[j] = Flush
    BY <1>1, <1>2, <1>7 DEF WritesBehind
  <2>2. CASE Head(tasks) = Flush
    BY <1>4, <2>2
  <2>3. CASE Head(tasks) # Flush
    <3>1. j - 1 \in DOMAIN tasks' /\ tasks'[j - 1] = Flush
      BY <1>3, <2>1, <2>3
    <3>2. j - 1 < i
      BY <1>2, <2>1
    <3> QED
      BY <3>1, <3>2
  <2> QED
    BY <2>2, <2>3
<1>8. IsWrite(witem') => ~Waits(witem'.after)
  <2>1. witem' = Head(tasks) \/ witem' = None \/ witem' = witem
    BY DEF Get, NextTask, StopSession
  <2>2. IsWrite(Head(tasks)) => ~Waits(Head(tasks).after)
    BY <1>1, <1>2 DEF WritesBehind
  <2> QED
    BY <2>1, <2>2, NotWrites DEF WritesBehind
<1> QED
  BY <1>1, <1>5, <1>6, <1>7, <1>8 DEF WritesBehind

\* The write that takes effect had nothing waiting ahead of it.
LEMMA RunWriteBehind ==
  ASSUME Inv, OrderInv, WritesBehind, RunWrite
  PROVE  WritesBehind'
<1>1. /\ UNCHANGED <<chunk, closed, tasks, pendingRows, held>> /\ ~WriterOwesFlush
      /\ wpc = "run" /\ witem \in Write /\ witem' = None /\ IsWrite(witem)
  BY ItemKinds DEF RunWrite, WriterOwesFlush, callerVars, queueVars, Inv, TypeOK, IsWrite
<1>2. \A i \in DOMAIN applied' : applied'[i] = witem \/ (i \in DOMAIN applied /\ applied'[i] = applied[i])
  BY <1>1 DEF RunWrite, Inv, TypeOK
<1>3. \A t \in Tables : chunk[t] = <<>>
  BY <1>1 DEF Inv, RowInv, ChunkInFlush, NoRows
<1>4. \A p : Waits(p)' <=> Waits(p)
  BY <1>1 DEF Waits
<1>5. \A c \in Callers : pc'[c] = "put" => pc[c] = "put"
  BY DEF RunWrite, Settle, Inv, TypeOK
<1> QED
  BY <1>1, <1>2, <1>3, <1>4, <1>5, NotWrites DEF WritesBehind, FlushAhead

\* A flush takes all that waits, and it is newer than the writes in the database.
LEMMA PopRowsBehind ==
  ASSUME Inv, FitInv, PendingFit, WritesBehind, PopRows
  PROVE  WritesBehind'
<1>1. /\ \A t \in Tables : pendingRows'[t] = <<>> /\ chunk'[t] = pendingRows[t]
      /\ witem' \in {witem, None} /\ applied' = applied
  BY PopRowsFit DEF PopRows, dbVars
<1>2. \A p : ~Waits(p)'
  BY <1>1 DEF Waits
<1>3. ASSUME NEW i \in DOMAIN applied, NEW t \in Tables, NEW j \in DOMAIN chunk'[t]
      PROVE  applied[i].after < chunk'[t][j].pos
  <2>1. chunk'[t][j] = pendingRows[t][j] /\ j \in DOMAIN pendingRows[t]
    BY <1>1
  <2>2. ~(pendingRows[t][j].pos <= applied[i].after)
    BY <2>1 DEF WritesBehind, Waits
  <2>3. pendingRows[t][j].pos \in Nat /\ applied[i].after \in Nat
    <3>1. pendingRows[t] \in Seq(Row) /\ applied[i] \in Write
      BY DEF Inv, TypeOK
    <3> QED
      BY <2>1, <3>1, RowsHavePositions, CountTypes DEF Inv
  <2> QED
    BY <2>1, <2>2, <2>3
<1> QED
  BY <1>1, <1>2, <1>3 DEF WritesBehind

\* Every step keeps the writes behind the rows.
LEMMA NextWritesBehind ==
  ASSUME Inv, OrderInv, FitInv, WritesBehind, PendingFit, OneSubmits', "session" \notin Faults, Next
  PROVE  WritesBehind'
<1> USE DEF queueVars, writerVars, dbVars, callerVars
<1>1. ASSUME NEW c \in Callers, CallerStep(c)
      PROVE  WritesBehind'
  BY <1>1, QueueRowsBehind, SaveBehind, SubmitBehind DEF CallerStep
<1>2. CASE Shutdown \/ Join
  <2>1. /\ UNCHANGED <<chunk, tasks, applied, wpc, witem, pendingRows>>
        /\ closed => closed'
        /\ \A d \in Callers : \/ held'[d] = Stop
                              \/ held'[d] = held[d] /\ (pc'[d] = "put" => pc[d] = "put")
    BY <1>2 DEF Shutdown, Join, Inv, TypeOK
  <2> QED
    BY <2>1, NotWrites DEF WritesBehind, FlushAhead, WriterOwesFlush, Waits
<1>3. CASE SessionFails
  BY <1>3 DEF SessionFails, MayFault
<1>4. CASE \/ BeginSession \/ WriteFails \/ EndSession \/ \E t \in Tables : InsertSome(t) \/ InsertTable(t)
  <2>1. /\ UNCHANGED <<tasks, applied, pendingRows, held, closed>>
        /\ witem' \in {witem, None} /\ (WriterOwesFlush => WriterOwesFlush')
        /\ \A d \in Callers : pc'[d] = "put" => pc[d] = "put"
        /\ \A t \in Tables : chunk'[t] = chunk[t] \/ chunk'[t] = <<>>
    BY <1>4, NotWrites
    DEF BeginSession, WriteFails, EndSession, InsertSome, InsertTable, WriterOwesFlush, Settle, Inv, TypeOK, IsWrite
  <2> QED
    BY <2>1, NotWrites DEF WritesBehind, FlushAhead, Waits
<1>5. CASE ResubmitCheck \/ ResubmitPut
  BY <1>5 DEF ResubmitCheck, ResubmitPut, FitInv, OneChunk
<1>6. CASE Crash
  <2>1. /\ \A t \in Tables : chunk'[t] = <<>> /\ pendingRows'[t] = <<>>
        /\ \A c \in Callers : held'[c] = None
        /\ tasks' = <<>> /\ witem' = None /\ applied' = applied
    BY <1>6 DEF Crash, NoRows
  <2> QED
    BY <2>1, NotWrites DEF WritesBehind, Waits
<1>7. CASE AtRest
  BY <1>7 DEF AtRest, vars, WritesBehind, FlushAhead, WriterOwesFlush, Waits
<1> QED
  BY <1>1, <1>2, <1>3, <1>4, <1>5, <1>6, <1>7, TakeBehind, RunWriteBehind, PopRowsBehind
  DEF Next, WriterStep

\* What was queued before a write is in the database when the write is, while
\* sessions open, one caller submits at a time and each flush takes all the rows
\* that wait: with two callers at once, or more rows than one flush takes, the
\* write can overtake them (storage.py:461-528, tests/tracker/
\* test_storage_batched_writes.py:80).
THEOREM RowsBeforeWritesHolds ==
  ASSUME "session" \notin Faults
  PROVE  Spec /\ []PendingFit /\ []OneSubmits => []RowsBeforeWrites
<1>1. Inv /\ OrderInv /\ FitInv /\ WritesBehind /\ PendingFit /\ OneSubmits' /\ [Next]_vars
        => WritesBehind'
  <2>1. WritesBehind /\ UNCHANGED vars => WritesBehind'
    BY DEF vars, callerVars, queueVars, writerVars, dbVars, WritesBehind, FlushAhead,
           WriterOwesFlush, Waits
  <2> QED
    BY <2>1, NextWritesBehind
<1>2. Inv /\ FitInv /\ WritesBehind => RowsBeforeWrites
  <2> SUFFICES ASSUME Inv, FitInv, WritesBehind, NEW i \in DOMAIN applied, NEW t \in Tables,
                      NEW k \in Keys, lastQueued[t][k] <= applied[i].after
               PROVE  Arrived(t, k)
    BY DEF RowsBeforeWrites
  <2>1. lastQueued[t][k] \in Nat /\ applied[i].after \in Nat
    <3>1. applied[i] \in Write
      BY DEF Inv, TypeOK
    <3> QED
      BY <3>1, CountTypes, PosTypes DEF Inv, RowInv
  <2>2. ~HasRow(chunk[t], k, lastQueued[t][k])
    BY <2>1 DEF WritesBehind, HasRow
  <2>3. ~HasRow(pendingRows[t], k, lastQueued[t][k])
    BY <2>1 DEF WritesBehind, Waits, HasRow
  <2> QED
    BY <2>2, <2>3 DEF FitInv, OneChunk, InSight
<1> QED
  BY <1>1, <1>2, InitWritesBehind, Invariance, OrderInvariance, FitInvariance, PTL DEF Spec

-----------------------------------------------------------------------------
(* The end of the writer thread *)

\* The executor is closed once the main caller is on its way out, and only its
\* stop item ends the writer.
Ending ==
  /\ closed => Main \in Callers /\ (held[Main] = Stop \/ pc[Main] \in {"join", "gone"})
  /\ \A c \in Callers : held[c] = Stop => pc[c] = "put"
  /\ \A c \in Callers : held[c] = Stop \/ pc[c] \in {"join", "gone"} => c = Main /\ closed
  /\ \A i \in DOMAIN tasks : tasks[i] = Stop => closed
  /\ wpc = "exited" => closed

\* A step of the writer that settles a write.
LEMMA SettledEnding ==
  ASSUME TypeOK, SyncWaits, Ending, pc' = Settle(witem),
         UNCHANGED <<held, tasks, closed>>, wpc' # "exited"
  PROVE  Ending'
<1>1. \A c \in Callers : pc'[c] = pc[c] \/ (pc[c] = "wait" /\ pc'[c] = "idle")
  BY WriteFields DEF Settle, SyncWaits, IsSync, IsWrite, TypeOK
<1> QED
  BY <1>1 DEF Ending, SyncWaits

\* Every step keeps the way out.
LEMMA NextEnding ==
  ASSUME TypeOK, HeldTask, HeldPlace, SyncWaits, Ending, Next
  PROVE  Ending'
<1> USE ItemKinds DEF queueVars, writerVars, dbVars, callerVars
<1>1. ASSUME NEW c \in Callers, NEW t \in Tables, NEW ks \in Batches, QueueRows(c, t, ks)
      PROVE  Ending'
  <2>1. /\ UNCHANGED <<tasks, closed, wpc>> /\ pc[c] = "idle" /\ held[c] = None
        /\ \A d \in Callers \ {c} : pc'[d] = pc[d] /\ held'[d] = held[d]
        /\ pc'[c] \in {"idle", "submit"} /\ held'[c] \in {None, Flush}
    BY <1>1 DEF QueueRows, TypeOK, HeldPlace
  <2> QED
    BY <2>1 DEF Ending
<1>2. ASSUME NEW c \in Callers, NEW sync \in BOOLEAN, Save(c, sync)
      PROVE  Ending'
  <2>1. /\ UNCHANGED <<tasks, closed, wpc>> /\ pc[c] = "idle" /\ held[c] = None
        /\ \A d \in Callers \ {c} : pc'[d] = pc[d] /\ held'[d] = held[d]
        /\ pc'[c] = "submit" /\ IsWrite(held'[c])
    BY <1>2 DEF Save, TypeOK, HeldPlace, IsWrite
  <2> QED
    BY <2>1, NotWrites DEF Ending
<1>3. ASSUME NEW c \in Callers, SubmitCheck(c)
      PROVE  Ending'
  <2>1. /\ UNCHANGED <<tasks, closed, wpc>> /\ pc[c] = "submit" /\ held[c] # Stop
        /\ \A d \in Callers \ {c} : pc'[d] = pc[d] /\ held'[d] = held[d]
        /\ pc'[c] \in {"idle", "put"} /\ held'[c] \in {None, held[c]}
    BY <1>3 DEF SubmitCheck, TypeOK, Ending
  <2> QED
    BY <2>1 DEF Ending
<1>4. ASSUME NEW c \in Callers, SubmitPut(c)
      PROVE  Ending'
  <2>1. held[c] \in Item /\ tasks' = Put(held[c]) /\ pc[c] = "put"
    BY <1>4 DEF SubmitPut, TypeOK, HeldTask
  <2>2. /\ DOMAIN tasks' = DOMAIN tasks \cup {Len(tasks) + 1}
        /\ \A i \in DOMAIN tasks : tasks'[i] = tasks[i]
        /\ tasks'[Len(tasks) + 1] = held[c]
    BY <2>1, PutIsLast DEF TypeOK
  <2>3. /\ UNCHANGED <<closed, wpc>>
        /\ \A d \in Callers \ {c} : pc'[d] = pc[d] /\ held'[d] = held[d]
        /\ held'[c] = None /\ pc'[c] = AfterPut(held[c])
    BY <1>4 DEF SubmitPut, TypeOK
  <2>4. (held[c] = Stop => AfterPut(held[c]) = "join") /\ (held[c] # Stop => AfterPut(held[c]) \in {"idle", "wait"})
    <3>1. held[c] \in Write \/ held[c] = Flush \/ held[c] = Stop
      BY <2>1 DEF Item
    <3>2. Stop.kind = "stop" /\ Flush.kind = "flush" /\ \A w \in Write : w.kind = "write"
      BY DEF Stop, Flush, Write
    <3> QED
      BY <3>1, <3>2 DEF AfterPut
  <2> QED
    BY <2>1, <2>2, <2>3, <2>4 DEF Ending
<1>5. CASE Shutdown
  <2>1. \A d \in Callers \ {Main} : pc'[d] = pc[d] /\ held'[d] = held[d]
    BY <1>5 DEF Shutdown, TypeOK
  <2>2. pc'[Main] = "put" /\ held'[Main] = Stop
    BY <1>5 DEF Shutdown, TypeOK
  <2> QED
    BY <1>5, <2>1, <2>2 DEF Shutdown, Ending
<1>6. CASE Join
  <2>1. \A d \in Callers \ {Main} : pc'[d] = pc[d]
    BY <1>6 DEF Join, TypeOK
  <2>2. pc'[Main] = "gone" /\ UNCHANGED <<held, tasks, closed, wpc>> /\ pc[Main] = "join" /\ Main \in Callers
    BY <1>6 DEF Join, TypeOK
  <2>3. closed /\ held[Main] # Stop
    BY <2>2 DEF Ending
  <2> QED
    BY <2>1, <2>2, <2>3 DEF Ending
<1>7. CASE Get \/ NextTask \/ StopSession
  <2>1. /\ tasks # <<>> /\ tasks' = Tail(tasks) /\ UNCHANGED <<closed, pc, held>>
        /\ wpc' = "exited" => Head(tasks) = Stop
    BY <1>7 DEF Get, NextTask, StopSession
  <2>2. /\ 1 \in DOMAIN tasks /\ Head(tasks) = tasks[1]
        /\ \A i \in DOMAIN tasks' : i + 1 \in DOMAIN tasks /\ tasks'[i] = tasks[i + 1]
    BY <2>1, TakeFirst DEF TypeOK
  <2> QED
    BY <2>1, <2>2 DEF Ending
<1>8. CASE SessionFails \/ RunWrite \/ WriteFails
  BY <1>8, SettledEnding DEF SessionFails, RunWrite, WriteFails
<1>9. CASE \/ BeginSession \/ PopRows \/ ResubmitCheck \/ EndSession
           \/ \E t \in Tables : InsertSome(t) \/ InsertTable(t)
  <2>1. UNCHANGED <<tasks, closed, pc, held>> /\ (wpc' = "exited" => wpc = "exited")
    BY <1>9 DEF BeginSession, PopRows, ResubmitCheck, EndSession, InsertSome, InsertTable
  <2> QED
    BY <2>1 DEF Ending
<1>10. CASE ResubmitPut
  <2>1. Flush \in Item /\ tasks' = Put(Flush) /\ UNCHANGED <<closed, pc, held>> /\ wpc' = "insert"
    BY <1>10 DEF ResubmitPut, Item
  <2>2. /\ DOMAIN tasks' = DOMAIN tasks \cup {Len(tasks) + 1}
        /\ \A i \in DOMAIN tasks : tasks'[i] = tasks[i]
        /\ tasks'[Len(tasks) + 1] = Flush
    BY <2>1, PutIsLast DEF TypeOK
  <2> QED
    BY <2>1, <2>2 DEF Ending
<1>11. CASE Crash
  <2>1. /\ \A c \in Callers : pc'[c] = "idle" /\ held'[c] = None
        /\ tasks' = <<>> /\ ~closed' /\ wpc' = "get"
    BY <1>11 DEF Crash
  <2> QED
    BY <2>1 DEF Ending
<1>12. CASE AtRest
  BY <1>12 DEF AtRest, vars, Ending
<1>13. CASE \E c \in Callers : CallerStep(c)
  BY <1>1, <1>2, <1>3, <1>4, <1>13 DEF CallerStep, SubmitStep
<1> QED
  BY <1>5, <1>6, <1>7, <1>8, <1>9, <1>10, <1>11, <1>12, <1>13 DEF Next, WriterStep

\* The other callers make no write and hold no flush once the executor is closed.
Quiet == closed => \A c \in Callers \ {Main} : pc[c] \in {"idle", "wait"}

FlushBeforeStop ==
  \/ WriterOwesFlush
  \/ \E i \in DOMAIN tasks : tasks[i] = Flush /\ \A j \in DOMAIN tasks : tasks[j] = Stop => i < j

\* The stop item is behind the flush of the rows that wait.
ExitInv ==
  /\ closed /\ flushQueued => FlushBeforeStop
  /\ wpc = "exited" => ~flushQueued

\* Nothing is closed at first.
LEMMA InitExitInv == Init => Ending /\ ExitInv
BY ItemKinds DEF Init, Ending, ExitInv

\* When the executor is closed the flush there is must be with the writer.
LEMMA ShutdownExit ==
  ASSUME Inv, OrderInv, Ending, Quiet', "session" \notin Faults, Shutdown
  PROVE  ExitInv'
<1>1. /\ UNCHANGED <<tasks, wpc, witem, flushQueued>> /\ ~closed /\ closed' /\ pc[Main] = "idle"
      /\ \A d \in Callers \ {Main} : pc'[d] = pc[d]
  BY DEF Shutdown, queueVars, writerVars, Inv, TypeOK
<1>2. wpc # "exited" /\ \A i \in DOMAIN tasks : tasks[i] # Stop
  BY <1>1 DEF Ending
<1>3. ASSUME flushQueued
      PROVE  FlushBeforeStop
  <2>1. FlushExists
    BY <1>1, <1>3 DEF OrderInv, FlushKnown
  <2>2. \A d \in Callers : pc[d] \notin {"submit", "put"}
    BY <1>1 DEF Quiet
  <2>3. \A d \in Callers : held[d] # Flush
    BY <2>2, ItemKinds DEF OrderInv, HeldPlace
  <2> QED
    BY <1>2, <2>1, <2>3 DEF FlushExists, FlushBeforeStop
<1> QED
  BY <1>1, <1>2, <1>3 DEF ExitInv, FlushBeforeStop, WriterOwesFlush

\* A task that is taken leaves the flush ahead of the stop item, or is the flush.
LEMMA TakeExit ==
  ASSUME Inv, Ending, ExitInv, Get \/ NextTask \/ StopSession
  PROVE  ExitInv'
<1>1. /\ tasks # <<>> /\ tasks' = Tail(tasks) /\ ~WriterOwesFlush
      /\ UNCHANGED <<closed, flushQueued>>
      /\ Head(tasks) = Flush => WriterOwesFlush'
      /\ wpc' = "exited" => Head(tasks) = Stop
  BY ItemKinds DEF Get, NextTask, StopSession, WriterOwesFlush
<1>2. /\ 1 \in DOMAIN tasks /\ Head(tasks) = tasks[1]
      /\ \A i \in DOMAIN tasks' :
           i \in Nat /\ i + 1 \in DOMAIN tasks /\ tasks'[i] = tasks[i + 1]
      /\ \A i \in DOMAIN tasks : i \in Nat /\ i >= 1
  BY <1>1, TakeFirst DEF Inv, TypeOK
<1>3. \A i \in DOMAIN tasks : tasks[i] # Head(tasks) =>
        i - 1 \in DOMAIN tasks' /\ tasks'[i - 1] = tasks[i]
  BY <1>1, FlushStays DEF Inv
<1>4. FlushBeforeStop => FlushBeforeStop'
  <2> SUFFICES ASSUME NEW i \in DOMAIN tasks, tasks[i] = Flush, Head(tasks) # Flush,
                      \A j \in DOMAIN tasks : tasks[j] = Stop => i < j
               PROVE  FlushBeforeStop'
    BY <1>1 DEF FlushBeforeStop
  <2>1. i - 1 \in DOMAIN tasks' /\ tasks'[i - 1] = Flush
    BY <1>3
  <2>2. \A j \in DOMAIN tasks' : tasks'[j] = Stop => i - 1 < j
    BY <1>2
  <2> QED
    BY <2>1, <2>2 DEF FlushBeforeStop
<1>5. Head(tasks) = Stop => ~FlushBeforeStop
  BY <1>1, <1>2 DEF FlushBeforeStop
<1>6. Head(tasks) = Stop => closed
  BY <1>2 DEF Ending
<1> QED
  BY <1>1, <1>4, <1>5, <1>6 DEF ExitInv

\* Every step keeps the flush ahead of the stop item.
LEMMA NextExitInv ==
  ASSUME Inv, OrderInv, FitInv, Ending, ExitInv, PendingFit, Quiet', "session" \notin Faults, Next
  PROVE  ExitInv'
<1> USE DEF queueVars, writerVars, dbVars, callerVars
<1>1. ASSUME NEW c \in Callers, NEW t \in Tables, NEW ks \in Batches, QueueRows(c, t, ks)
      PROVE  ExitInv'
  <2>1. UNCHANGED <<tasks, closed, wpc, witem>> /\ pc[c] = "idle"
    BY <1>1 DEF QueueRows
  <2>2. CASE closed
    <3>1. c # Main
      BY <2>1, <2>2, ItemKinds DEF Ending, OrderInv, HeldPlace
    <3>2. pc'[c] \in {"idle", "wait"}
      BY <2>1, <2>2, <3>1 DEF Quiet
    <3>3. flushQueued
      BY <1>1, <3>2 DEF QueueRows, MustSubmit, Inv, TypeOK
    <3> QED
      BY <2>1, <3>3 DEF ExitInv, FlushBeforeStop, WriterOwesFlush
  <2>3. CASE ~closed
    BY <2>1, <2>3 DEF ExitInv, Ending
  <2> QED
    BY <2>2, <2>3
<1>2. ASSUME NEW c \in Callers, SubmitPut(c)
      PROVE  ExitInv'
  <2>1. held[c] \in Item /\ tasks' = Put(held[c])
    BY <1>2 DEF SubmitPut, Inv, TypeOK, HeldTask
  <2>2. /\ DOMAIN tasks' = DOMAIN tasks \cup {Len(tasks) + 1}
        /\ \A i \in DOMAIN tasks : tasks'[i] = tasks[i]
    BY <2>1, PutIsLast DEF Inv, TypeOK
  <2>3. \A i \in DOMAIN tasks : i < Len(tasks) + 1
    BY DEF Inv, TypeOK
  <2>4. FlushBeforeStop => FlushBeforeStop'
    <3>1. WriterOwesFlush' <=> WriterOwesFlush
      BY <1>2 DEF SubmitPut, WriterOwesFlush
    <3> QED
      BY <3>1, <2>2, <2>3 DEF FlushBeforeStop
  <2> QED
    BY <1>2, <2>4 DEF SubmitPut, ExitInv
<1>3. ASSUME NEW c \in Callers, (\E sync \in BOOLEAN : Save(c, sync)) \/ SubmitCheck(c)
      PROVE  ExitInv'
  BY <1>3 DEF Save, SubmitCheck, ExitInv, FlushBeforeStop, WriterOwesFlush
<1>4. CASE Join
  BY <1>4 DEF Join, ExitInv, FlushBeforeStop, WriterOwesFlush
<1>5. CASE SessionFails
  BY <1>5 DEF SessionFails, MayFault
<1>6. CASE \/ BeginSession \/ RunWrite \/ WriteFails \/ EndSession
           \/ \E t \in Tables : InsertSome(t) \/ InsertTable(t)
  <2>1. UNCHANGED <<tasks, closed, flushQueued>> /\ wpc' # "exited"
        /\ (WriterOwesFlush => WriterOwesFlush')
    BY <1>6, NotWrites
    DEF BeginSession, RunWrite, WriteFails, EndSession, InsertSome, InsertTable, WriterOwesFlush, IsWrite
  <2> QED
    BY <2>1 DEF ExitInv, FlushBeforeStop
<1>7. CASE PopRows
  <2>1. ~flushQueued'
    <3>1. \A t \in Tables : pendingRows'[t] = <<>>
      BY <1>7, PopRowsFit
    <3>2. pendingRows' = NoRows
      BY <1>7, <3>1 DEF PopRows, NoRows
    <3> QED
      BY <1>7, <3>2 DEF PopRows, More
  <2> QED
    BY <2>1 DEF ExitInv
<1>8. CASE ResubmitCheck \/ ResubmitPut
  BY <1>8 DEF ResubmitCheck, ResubmitPut, FitInv, OneChunk
<1>9. CASE Crash
  BY <1>9 DEF Crash, ExitInv
<1>10. CASE AtRest
  BY <1>10 DEF AtRest, vars, ExitInv, FlushBeforeStop, WriterOwesFlush
<1>11. CASE \E c \in Callers : CallerStep(c)
  BY <1>1, <1>2, <1>3, <1>11 DEF CallerStep, SubmitStep
<1> QED
  BY <1>4, <1>5, <1>6, <1>7, <1>8, <1>9, <1>10, <1>11, TakeExit, ShutdownExit DEF Next, WriterStep

\* Once the writer thread is gone, every row queued before is in the database or
\* rejected by it, while sessions open, each flush takes all the rows that wait
\* and the other callers are done when the main one shuts the executor down:
\* a flush that leaves rows cannot submit the next one then (storage.py:197-220,
\* 474-490, tests/tracker/test_storage_batched_writes.py:160).
THEOREM ExitKeepsRowsHolds ==
  ASSUME "session" \notin Faults
  PROVE  Spec /\ []PendingFit /\ []Quiet => []ExitKeepsRows
<1>1. Inv /\ OrderInv /\ FitInv /\ Ending /\ ExitInv /\ PendingFit /\ Quiet' /\ [Next]_vars
        => Ending' /\ ExitInv'
  <2>1. Ending /\ ExitInv /\ UNCHANGED vars => Ending' /\ ExitInv'
    BY DEF vars, callerVars, queueVars, writerVars, dbVars, Ending, ExitInv, FlushBeforeStop,
           WriterOwesFlush
  <2> QED
    BY <2>1, NextEnding, NextExitInv DEF Inv, OrderInv
<1>2. Inv /\ OrderInv /\ FitInv /\ ExitInv => ExitKeepsRows
  <2> SUFFICES ASSUME Inv, OrderInv, FitInv, ExitInv, wpc = "exited",
                      NEW t \in Tables, NEW k \in Keys
               PROVE  Arrived(t, k)
    BY DEF ExitKeepsRows
  <2>1. chunk[t] = <<>> /\ pendingRows[t] = <<>>
    BY DEF Inv, RowInv, ChunkInFlush, OrderInv, FlushKnown, ExitInv, NoRows
  <2> QED
    BY <2>1 DEF FitInv, OneChunk, InSight, HasRow
<1> QED
  BY <1>1, <1>2, InitExitInv, Invariance, OrderInvariance, FitInvariance, PTL DEF Spec

-----------------------------------------------------------------------------
(***************************************************************************)
(* WriteQueue implements OrderedWrites: the first state maps to the first  *)
(* state, and every step maps to a step or to no step.  The mapping, in    *)
(* the INSTANCE of WriteQueue, hides the threads, the flush flag and the   *)
(* sessions, and reads the writes that wait out of the task queue.         *)
(***************************************************************************)

-----------------------------------------------------------------------------
(* The writes of a queue of tasks *)

\* Numbers up to n can be reached one by one.
LEMMA UpTo ==
  ASSUME NEW n \in Nat, NEW S, 0 \in S, \A i \in 0..(n - 1) : i \in S => i + 1 \in S
  PROVE  \A i \in 0..n : i \in S
<1> DEFINE Bad == {n + 1 - i : i \in {j \in 1..n : j \notin S}}
<1>1. SUFFICES ASSUME NEW k \in 0..n, k \notin S
               PROVE  FALSE
  OBVIOUS
<1>2. k \in 1..n /\ n + 1 - k \in Bad
  BY <1>1
<1>3. Bad \in SUBSET (1..n) /\ Bad # {}
  BY <1>2
<1>4. PICK g \in Bad : \A h \in Bad : h <= g
  <2> HIDE DEF Bad
  <2> QED
    BY <1>3, GreatestIndex
<1>5. PICK i \in 1..n : i \notin S /\ g = n + 1 - i
  BY <1>4
<1>6. i - 1 \in 0..(n - 1) /\ (i - 1) + 1 = i
  OBVIOUS
<1>7. i - 1 \notin S
  BY <1>5, <1>6
<1>8. i - 1 \in 1..n
  BY <1>6, <1>7
<1>9. n + 1 - (i - 1) \in Bad
  BY <1>7, <1>8
<1>10. n + 1 - (i - 1) <= n + 1 - i
  BY <1>4, <1>5, <1>9
<1> QED
  BY <1>10

\* f collects the writes of items up to m.
Collects(items, m, f) ==
  f = [n \in 0..m |-> IF n = 0 THEN <<>>
                      ELSE IF IsWrite(items[n]) THEN Append(f[n - 1], items[n]) ELSE f[n - 1]]

\* What Collects says of the values of the function.
LEMMA CollectsValues ==
  ASSUME NEW items, NEW m \in Nat, NEW f, Collects(items, m, f)
  PROVE  /\ f[0] = <<>>
         /\ \A n \in 0..m : n + 1 \in 0..m =>
              f[n + 1] = IF IsWrite(items[n + 1]) THEN Append(f[n], items[n + 1]) ELSE f[n]
<1> DEFINE F == [n \in 0..m |-> IF n = 0 THEN <<>>
                      ELSE IF IsWrite(items[n]) THEN Append(f[n - 1], items[n]) ELSE f[n - 1]]
<1>1. f = F
  BY DEF Collects
<1>2. F[0] = <<>>
  OBVIOUS
<1>3. ASSUME NEW n \in 0..m, n + 1 \in 0..m
      PROVE  F[n + 1] = IF IsWrite(items[n + 1]) THEN Append(f[n], items[n + 1]) ELSE f[n]
  <2>1. (n + 1) - 1 = n /\ n + 1 # 0
    OBVIOUS
  <2> QED
    BY <1>3, <2>1
<1> HIDE DEF F
<1> QED
  BY <1>1, <1>2, <1>3

\* An element put behind a concatenation is put behind its second part.
LEMMA AppendToConcat ==
  ASSUME NEW P \in Seq(Write), NEW N \in Seq(Write), NEW w \in Write
  PROVE  Append(P \o N, w) = P \o Append(N, w)
OBVIOUS

\* There is a function that collects the writes.
LEMMA CollectsExists ==
  ASSUME NEW items, NEW m \in Nat
  PROVE  \E f : Collects(items, m, f)
<1> DEFINE S == {n \in 0..m : \E f : Collects(items, n, f)}
<1>1. 0 \in S
  <2> DEFINE f == [n \in 0..0 |-> <<>>]
  <2>1. Collects(items, 0, f)
    BY DEF Collects
  <2> QED
    BY <2>1
<1>2. ASSUME NEW n \in 0..(m - 1), n \in S
      PROVE  n + 1 \in S
  <2>1. PICK f : Collects(items, n, f)
    BY <1>2
  <2> DEFINE last == IF IsWrite(items[n + 1]) THEN Append(f[n], items[n + 1]) ELSE f[n]
             g == [i \in 0..(n + 1) |-> IF i = n + 1 THEN last ELSE f[i]]
  <2>2. \A i \in 0..n : g[i] = f[i]
    OBVIOUS
  <2>3. g[n + 1] = last
    OBVIOUS
  <2>4. f[0] = <<>> /\ \A i \in 0..n : i + 1 \in 0..n =>
              f[i + 1] = IF IsWrite(items[i + 1]) THEN Append(f[i], items[i + 1]) ELSE f[i]
    <3>1. n \in Nat
      OBVIOUS
    <3> QED
      BY <2>1, <3>1, CollectsValues
  <2>5. ASSUME NEW i \in 0..(n + 1)
        PROVE  g[i] = IF i = 0 THEN <<>>
                      ELSE IF IsWrite(items[i]) THEN Append(g[i - 1], items[i]) ELSE g[i - 1]
    <3>1. CASE i = 0
      BY <2>2, <2>4, <3>1
    <3>2. CASE i = n + 1
      <4>1. (n + 1) - 1 = n /\ n \in 0..n /\ i # 0
        BY <3>2
      <4>2. g[i - 1] = f[n]
        BY <3>2, <4>1, <2>2
      <4> QED
        BY <2>3, <3>2, <4>1, <4>2
    <3>3. CASE i # 0 /\ i # n + 1
      <4>1. i - 1 \in 0..n /\ (i - 1) + 1 = i /\ i \in 0..n
        BY <3>3
      <4>2. g[i - 1] = f[i - 1] /\ g[i] = f[i]
        BY <4>1, <2>2
      <4>3. f[i] = IF IsWrite(items[i]) THEN Append(f[i - 1], items[i]) ELSE f[i - 1]
        BY <2>4, <4>1
      <4> HIDE DEF g
      <4> QED
        BY <3>3, <4>2, <4>3
    <3> QED
      BY <3>1, <3>2, <3>3
  <2>6. Collects(items, n + 1, g)
    <3>1. g = [i \in 0..(n + 1) |-> g[i]]
      OBVIOUS
    <3> HIDE DEF g
    <3> QED
      BY <2>5, <3>1 DEF Collects
  <2> HIDE DEF g
  <2> QED
    BY <2>6
<1> HIDE DEF S
<1>3. m \in S
  BY <1>1, <1>2, UpTo
<1> QED
  BY <1>3 DEF S

\* WritesOf is the last value of such a function.
LEMMA WritesOfCollects ==
  ASSUME NEW items \in Seq(Item \cup {None})
  PROVE  \E f : Collects(items, Len(items), f) /\ WritesOf(items) = f[Len(items)]
<1> DEFINE f == CHOOSE g : Collects(items, Len(items), g)
<1>1. \E g : Collects(items, Len(items), g)
  BY CollectsExists
<1>2. Collects(items, Len(items), f)
  BY <1>1
<1>3. WritesOf(items) = f[Len(items)]
  BY DEF WritesOf, Collects
<1> HIDE DEF f
<1> QED
  BY <1>2, <1>3

\* Collected writes are a sequence of writes.
LEMMA CollectsType ==
  ASSUME NEW items \in Seq(Item \cup {None}), NEW f, Collects(items, Len(items), f)
  PROVE  \A n \in 0..Len(items) : f[n] \in Seq(Write)
<1> DEFINE S == {n \in 0..Len(items) : f[n] \in Seq(Write)}
<1>1. Len(items) \in Nat
  OBVIOUS
<1>2. /\ f[0] = <<>>
      /\ \A n \in 0..Len(items) : n + 1 \in 0..Len(items) =>
           f[n + 1] = IF IsWrite(items[n + 1]) THEN Append(f[n], items[n + 1]) ELSE f[n]
  BY <1>1, CollectsValues
<1>3. 0 \in S
  <2>1. 0 \in 0..Len(items) /\ <<>> \in Seq(Write)
    BY <1>1
  <2> QED
    BY <1>2, <2>1
<1>4. ASSUME NEW n \in 0..(Len(items) - 1), n \in S
      PROVE  n + 1 \in S
  <2>1. n + 1 \in 0..Len(items) /\ n \in 0..Len(items) /\ n + 1 \in 1..Len(items) /\ f[n] \in Seq(Write)
    BY <1>1, <1>4
  <2>2. items[n + 1] \in Item \cup {None}
    BY <2>1
  <2>3. IsWrite(items[n + 1]) => items[n + 1] \in Write
    BY <2>2, ItemKinds DEF IsWrite
  <2>4. f[n + 1] = IF IsWrite(items[n + 1]) THEN Append(f[n], items[n + 1]) ELSE f[n]
    BY <1>2, <2>1
  <2>5. f[n + 1] \in Seq(Write)
    BY <2>1, <2>3, <2>4
  <2> QED
    BY <2>1, <2>5
<1> HIDE DEF S
<1>5. \A n \in 0..Len(items) : n \in S
  BY <1>1, <1>3, <1>4, UpTo
<1> QED
  BY <1>5 DEF S

\* WritesOf gives writes.
LEMMA WritesOfType ==
  ASSUME NEW items \in Seq(Item \cup {None})
  PROVE  WritesOf(items) \in Seq(Write)
<1>1. PICK f : Collects(items, Len(items), f) /\ WritesOf(items) = f[Len(items)]
  BY WritesOfCollects
<1>2. Len(items) \in 0..Len(items)
  OBVIOUS
<1> QED
  BY <1>1, <1>2, CollectsType

\* No task, no write.
LEMMA WritesOfEmpty == WritesOf(<<>>) = <<>>
<1>1. <<>> \in Seq(Item \cup {None}) /\ Len(<<>>) = 0
  OBVIOUS
<1>2. PICK f : Collects(<<>>, 0, f) /\ WritesOf(<<>>) = f[0]
  BY <1>1, WritesOfCollects
<1> QED
  BY <1>2, CollectsValues

\* A task behind the others adds itself, if it is a write.
LEMMA WritesOfAppend ==
  ASSUME NEW items \in Seq(Item \cup {None}), NEW item \in Item \cup {None}
  PROVE  WritesOf(Append(items, item)) =
           IF IsWrite(item) THEN Append(WritesOf(items), item) ELSE WritesOf(items)
<1> DEFINE more == Append(items, item)
           m == Len(items)
<1>1. /\ m \in Nat /\ more \in Seq(Item \cup {None}) /\ Len(more) = m + 1
      /\ \A n \in 1..m : more[n] = items[n]
      /\ more[m + 1] = item
  OBVIOUS
<1>2. PICK f : Collects(items, m, f) /\ WritesOf(items) = f[m]
  BY WritesOfCollects
<1> HIDE DEF more, m
<1>3. PICK g : Collects(more, m + 1, g) /\ WritesOf(more) = g[m + 1]
  BY <1>1, WritesOfCollects
<1>4. /\ f[0] = <<>>
      /\ \A n \in 0..m : n + 1 \in 0..m =>
           f[n + 1] = IF IsWrite(items[n + 1]) THEN Append(f[n], items[n + 1]) ELSE f[n]
  BY <1>1, <1>2, CollectsValues
<1>5. /\ g[0] = <<>>
      /\ \A n \in 0..(m + 1) : n + 1 \in 0..(m + 1) =>
           g[n + 1] = IF IsWrite(more[n + 1]) THEN Append(g[n], more[n + 1]) ELSE g[n]
  <2>1. m + 1 \in Nat
    BY <1>1
  <2> QED
    BY <1>3, <2>1, CollectsValues
<1> DEFINE S == {n \in 0..m : f[n] = g[n]}
<1>6. 0 \in S
  BY <1>1, <1>4, <1>5
<1>7. ASSUME NEW n \in 0..(m - 1), n \in S
      PROVE  n + 1 \in S
  <2>1. n \in 0..m /\ n + 1 \in 0..m /\ n \in 0..(m + 1) /\ n + 1 \in 0..(m + 1) /\ n + 1 \in 1..m
    BY <1>1
  <2>2. f[n] = g[n] /\ more[n + 1] = items[n + 1]
    BY <1>1, <1>7, <2>1
  <2> QED
    BY <1>4, <1>5, <2>1, <2>2
<1> HIDE DEF S
<1>8. \A n \in 0..m : n \in S
  BY <1>1, <1>6, <1>7, UpTo
<1>9. f[m] = g[m]
  BY <1>1, <1>8 DEF S
<1>10. g[m + 1] = IF IsWrite(item) THEN Append(g[m], item) ELSE g[m]
  <2>1. m \in 0..(m + 1) /\ m + 1 \in 0..(m + 1)
    BY <1>1
  <2> QED
    BY <1>1, <1>5, <2>1
<1> QED
  BY <1>2, <1>3, <1>9, <1>10 DEF more

\* The task in front of the others comes first, if it is a write.
LEMMA WritesOfTail ==
  ASSUME NEW items \in Seq(Item \cup {None}), items # <<>>
  PROVE  WritesOf(items) =
           (IF IsWrite(Head(items)) THEN <<Head(items)>> ELSE <<>>) \o WritesOf(Tail(items))
<1> DEFINE rest == Tail(items)
           m == Len(rest)
           pre == IF IsWrite(Head(items)) THEN <<Head(items)>> ELSE <<>>
<1>1. /\ m \in Nat /\ rest \in Seq(Item \cup {None}) /\ Len(items) = m + 1
      /\ \A n \in 1..m : rest[n] = items[n + 1] /\ rest[n] \in Item \cup {None}
      /\ items[1] = Head(items) /\ Head(items) \in Item \cup {None}
  OBVIOUS
<1>2. PICK g : Collects(rest, m, g) /\ WritesOf(rest) = g[m]
  <2>1. rest \in Seq(Item \cup {None})
    OBVIOUS
  <2> QED
    BY <2>1, WritesOfCollects
<1>3. PICK f : Collects(items, m + 1, f) /\ WritesOf(items) = f[m + 1]
  BY <1>1, WritesOfCollects
<1>3a. \A n \in 0..m : g[n] \in Seq(Write)
  BY <1>1, <1>2, CollectsType
<1>3b. pre \in Seq(Write)
  <2>1. IsWrite(Head(items)) => Head(items) \in Write
    BY <1>1, ItemKinds DEF IsWrite
  <2> QED
    BY <2>1
<1> HIDE DEF rest, m
<1>4. /\ g[0] = <<>>
      /\ \A n \in 0..m : n + 1 \in 0..m =>
           g[n + 1] = IF IsWrite(rest[n + 1]) THEN Append(g[n], rest[n + 1]) ELSE g[n]
  BY <1>1, <1>2, CollectsValues
<1>5. /\ f[0] = <<>>
      /\ \A n \in 0..(m + 1) : n + 1 \in 0..(m + 1) =>
           f[n + 1] = IF IsWrite(items[n + 1]) THEN Append(f[n], items[n + 1]) ELSE f[n]
  <2>1. m + 1 \in Nat
    BY <1>1
  <2> QED
    BY <1>3, <2>1, CollectsValues
<1> DEFINE S == {n \in 0..m : f[n + 1] = pre \o g[n]}
<1>6. 0 \in S
  <2>1. f[0 + 1] = IF IsWrite(items[0 + 1]) THEN Append(f[0], items[0 + 1]) ELSE f[0]
    <3>1. 0 \in 0..(m + 1) /\ 0 + 1 \in 0..(m + 1)
      BY <1>1
    <3> QED
      BY <1>5, <3>1
  <2>2. f[0 + 1] = pre
    BY <1>1, <1>5, <2>1
  <2>3. pre \o <<>> = pre
    BY <1>3b
  <2> HIDE DEF pre
  <2>4. f[0 + 1] = pre \o g[0] /\ 0 \in 0..m
    BY <1>1, <1>4, <2>2, <2>3
  <2> QED
    BY <2>4
<1> HIDE DEF pre
<1>7. ASSUME NEW n \in 0..(m - 1), n \in S
      PROVE  n + 1 \in S
  <2>1. /\ n \in 0..m /\ n + 1 \in 0..m /\ n + 1 \in 0..(m + 1) /\ (n + 1) + 1 \in 0..(m + 1)
        /\ n + 1 \in 1..m
    BY <1>1
  <2>2. f[n + 1] = pre \o g[n] /\ rest[n + 1] = items[(n + 1) + 1] /\ rest[n + 1] \in Item \cup {None}
    BY <1>1, <1>7, <2>1
  <2>3. f[(n + 1) + 1] = IF IsWrite(rest[n + 1]) THEN Append(f[n + 1], rest[n + 1]) ELSE f[n + 1]
    BY <1>5, <2>1, <2>2
  <2>4. g[n + 1] = IF IsWrite(rest[n + 1]) THEN Append(g[n], rest[n + 1]) ELSE g[n]
    BY <1>4, <2>1
  <2>5. IsWrite(rest[n + 1]) => Append(pre \o g[n], rest[n + 1]) = pre \o Append(g[n], rest[n + 1])
    <3>1. IsWrite(rest[n + 1]) => rest[n + 1] \in Write
      BY <2>2, ItemKinds DEF IsWrite
    <3> QED
      BY <1>3a, <1>3b, <2>1, <3>1, AppendToConcat
  <2>6. f[(n + 1) + 1] = pre \o g[n + 1]
    BY <2>2, <2>3, <2>4, <2>5
  <2> QED
    BY <2>1, <2>6
<1> HIDE DEF S
<1>8. \A n \in 0..m : n \in S
  BY <1>1, <1>6, <1>7, UpTo
<1>9. f[m + 1] = pre \o g[m]
  BY <1>1, <1>8 DEF S
<1> QED
  BY <1>2, <1>3, <1>9 DEF rest, pre

-----------------------------------------------------------------------------
(* The mapping *)

\* The writes that wait are the one the writer holds, then those of the queue.
LEMMA HeldFirst ==
  ASSUME NEW item \in Item \cup {None}, NEW items \in Seq(Item)
  PROVE  /\ WritesOf(items) \in Seq(Write)
         /\ ~IsWrite(item) => WritesOf(<<item>>) \o WritesOf(items) = WritesOf(items)
         /\ IsWrite(item) =>
              LET waiting == WritesOf(<<item>>) \o WritesOf(items)
              IN  waiting # <<>> /\ Head(waiting) = item /\ Tail(waiting) = WritesOf(items)
<1>1. items \in Seq(Item \cup {None})
  OBVIOUS
<1>2. WritesOf(items) \in Seq(Write)
  BY <1>1, WritesOfType
<1>3. <<>> \in Seq(Item \cup {None}) /\ Append(<<>>, item) = <<item>>
  OBVIOUS
<1>4. WritesOf(<<item>>) = IF IsWrite(item) THEN <<item>> ELSE <<>>
  <2>1. WritesOf(Append(<<>>, item)) = IF IsWrite(item) THEN Append(WritesOf(<<>>), item) ELSE WritesOf(<<>>)
    BY <1>3, WritesOfAppend
  <2> QED
    BY <1>3, <2>1, WritesOfEmpty
<1>5. ASSUME NEW s \in Seq(Write)
      PROVE  /\ <<>> \o s = s
             /\ \A w \in Write : <<w>> \o s # <<>> /\ Head(<<w>> \o s) = w /\ Tail(<<w>> \o s) = s
  OBVIOUS
<1>6. IsWrite(item) => item \in Write
  BY ItemKinds DEF IsWrite
<1> QED
  BY <1>2, <1>4, <1>5, <1>6

\* A put adds a write behind those that wait, and nothing else to them.
LEMMA PutWaits ==
  ASSUME TypeOK, NEW item \in Item, tasks' = Put(item), witem' = witem
  PROVE  Waiting' = IF IsWrite(item) THEN Append(Waiting, item) ELSE Waiting
<1>1. tasks \in Seq(Item \cup {None}) /\ tasks \in Seq(Item) /\ witem \in Item \cup {None}
      /\ item \in Item \cup {None}
  BY DEF TypeOK
<1>2. WritesOf(tasks') = IF IsWrite(item) THEN Append(WritesOf(tasks), item) ELSE WritesOf(tasks)
  BY <1>1, WritesOfAppend DEF Put
<1>3. WritesOf(tasks) \in Seq(Write)
  BY <1>1, HeldFirst
<1>4. WritesOf(<<witem>>) \in Seq(Write)
  <2>1. <<witem>> \in Seq(Item \cup {None})
    BY <1>1
  <2> QED
    BY <2>1, WritesOfType
<1>5. IsWrite(item) => item \in Write
  BY <1>1, ItemKinds DEF IsWrite
<1>6. IsWrite(item) =>
        Append(WritesOf(<<witem>>) \o WritesOf(tasks), item) = WritesOf(<<witem>>) \o Append(WritesOf(tasks), item)
  BY <1>3, <1>4, <1>5, AppendToConcat
<1> QED
  BY <1>2, <1>6 DEF Waiting

\* The writer that takes a task from the queue holds what it took.
LEMMA TakeWaits ==
  ASSUME TypeOK, WriterItem, Get \/ NextTask \/ StopSession
  PROVE  Waiting' = Waiting
<1>1. tasks # <<>> /\ tasks \in Seq(Item) /\ tasks \in Seq(Item \cup {None}) /\ tasks' = Tail(tasks)
  BY DEF Get, NextTask, StopSession, TypeOK
<1>2. Head(tasks) \in Item /\ Tail(tasks) \in Seq(Item)
  BY <1>1
<1>3. WritesOf(tasks) = (IF IsWrite(Head(tasks)) THEN <<Head(tasks)>> ELSE <<>>) \o WritesOf(tasks')
  BY <1>1, WritesOfTail
<1>4. witem = None
  BY DEF WriterItem, Get, NextTask, StopSession
<1>5. Waiting = WritesOf(tasks)
  BY <1>1, <1>4, HeldFirst, NotWrites DEF Waiting
<1>6. Waiting' = (IF IsWrite(witem') THEN <<witem'>> ELSE <<>>) \o WritesOf(tasks')
  <2>1. witem' \in Item \cup {None}
    BY <1>2, <1>4 DEF Get, NextTask, StopSession
  <2>2. WritesOf(<<witem'>>) = IF IsWrite(witem') THEN <<witem'>> ELSE <<>>
    <3>1. <<>> \in Seq(Item \cup {None}) /\ Append(<<>>, witem') = <<witem'>>
      BY <2>1
    <3>2. WritesOf(Append(<<>>, witem')) =
            IF IsWrite(witem') THEN Append(WritesOf(<<>>), witem') ELSE WritesOf(<<>>)
      BY <2>1, <3>1, WritesOfAppend
    <3> QED
      BY <3>1, <3>2, WritesOfEmpty
  <2> QED
    BY <2>2 DEF Waiting
<1>7. (IsWrite(witem') <=> IsWrite(Head(tasks))) /\ (IsWrite(Head(tasks)) => witem' = Head(tasks))
  <2>1. CASE Head(tasks) = Stop
    BY <1>4, <2>1, NotWrites DEF Get, NextTask, StopSession
  <2>2. CASE Head(tasks) # Stop
    BY <1>4, <2>2 DEF Get, NextTask, StopSession
  <2> QED
    BY <2>1, <2>2
<1> QED
  BY <1>3, <1>5, <1>6, <1>7

\* A step of the writer or of a caller that only moves threads is no step of the
\* ordered store.
LEMMA Stutters ==
  ASSUME Waiting' = Waiting, UNCHANGED <<applied, stored, chunk, pendingRows, closed>>
  PROVE  UNCHANGED Ordered!vars
BY DEF Ordered!vars

\* A step that touches neither the queue nor the task of the writer.
LEMMA SameTasks ==
  ASSUME UNCHANGED <<tasks, witem>>
  PROVE  Waiting' = Waiting
BY DEF Waiting

\* Nor does it matter to the writes which of the other tasks the writer has.
LEMMA NoWriteHeld ==
  ASSUME TypeOK, tasks' = tasks, ~IsWrite(witem), ~IsWrite(witem'), witem' \in Item \cup {None}
  PROVE  Waiting' = Waiting
<1>1. tasks \in Seq(Item) /\ witem \in Item \cup {None}
  BY DEF TypeOK
<1>2. Waiting = WritesOf(tasks)
  BY <1>1, HeldFirst DEF Waiting
<1>3. WritesOf(<<witem'>>) \o WritesOf(tasks) = WritesOf(tasks)
  BY <1>1, HeldFirst
<1> QED
  BY <1>2, <1>3 DEF Waiting

\* The oldest write that waits takes effect or fails.
LEMMA SettlesOldest ==
  ASSUME TypeOK, IsWrite(witem), witem' = None,
         UNCHANGED <<tasks, stored, chunk, pendingRows, closed>>,
         applied' \in {applied, Append(applied, witem)}
  PROVE  Ordered!Resolve
<1>1. tasks \in Seq(Item) /\ witem \in Item \cup {None} /\ None \in Item \cup {None}
  BY DEF TypeOK
<1>2. Waiting # <<>> /\ Head(Waiting) = witem /\ Tail(Waiting) = WritesOf(tasks)
  BY <1>1, HeldFirst DEF Waiting
<1>3. Waiting' = WritesOf(tasks)
  BY <1>1, HeldFirst, NotWrites DEF Waiting
<1> QED
  BY <1>2, <1>3 DEF Ordered!Resolve

\* Two sequences of rows put together, and taken apart again.
LEMMA RowsJoined ==
  ASSUME NEW A \in Seq(Row), NEW B \in Seq(Row)
  PROVE  /\ A \o B \in Seq(Row) /\ Len(A \o B) = Len(A) + Len(B)
         /\ Len(A) \in Nat /\ Len(B) \in Nat /\ Len(A \o B) \in Nat
         /\ SubSeq(A \o B, 1, Len(A)) = A
         /\ SubSeq(A \o B, Len(A) + 1, Len(A \o B)) = B
         /\ <<>> \o B = B
OBVIOUS

\* Rows put behind two parts are put behind the second.
LEMMA RowsAssociate ==
  ASSUME NEW A \in Seq(Row), NEW B \in Seq(Row), NEW C \in Seq(Row)
  PROVE  (A \o B) \o C = A \o (B \o C)
OBVIOUS

\* Sequences of rows are equal when their elements are.
LEMMA SameRows ==
  ASSUME NEW A \in Seq(Row), NEW B \in Seq(Row), Len(A) = Len(B),
         \A i \in 1..Len(B) : A[i] = B[i]
  PROVE  A = B
OBVIOUS

\* What a flush takes and what it leaves are the rows there were.
LEMMA SplitJoins ==
  ASSUME NEW rows \in Seq(Row)
  PROVE  Split(rows).taken \o Split(rows).rest = rows
<1> DEFINE A == Split(rows).taken
           B == Split(rows).rest
<1>1. PICK n \in 0..Len(rows) :
         /\ A \in Seq(Row) /\ Len(A) = n
         /\ \A i \in 1..n : A[i] = rows[i]
         /\ B \in Seq(Row) /\ Len(B) = Len(rows) - n
         /\ \A i \in 1..(Len(rows) - n) : B[i] = rows[n + i]
  BY SplitTakesOldest
<1> HIDE DEF A, B
<1>2. Len(rows) \in Nat /\ n \in Nat
  BY <1>1
<1>3. A \o B \in Seq(Row) /\ Len(A \o B) = Len(rows)
  <2>1. A \o B \in Seq(Row) /\ Len(A \o B) = Len(A) + Len(B)
    BY <1>1, RowsJoined
  <2>2. Len(A) + Len(B) = Len(rows)
    BY <1>1, <1>2
  <2> QED
    BY <2>1, <2>2
<1>4. ASSUME NEW i \in 1..Len(rows)
      PROVE  (A \o B)[i] = rows[i]
  <2>0. i \in Nat /\ i >= 1 /\ i <= Len(rows)
    BY <1>2
  <2>1. CASE i <= n
    <3>1. i \in DOMAIN A /\ i \in 1..n
      BY <1>1, <1>2, <2>0, <2>1
    <3>2. (A \o B)[i] = A[i]
      BY <1>1, <3>1, Concatenated
    <3> QED
      BY <1>1, <3>1, <3>2
  <2>2. CASE i > n
    <3>1. i - n \in 1..(Len(rows) - n) /\ n + (i - n) = i
      BY <1>2, <2>2
    <3>2. i - n \in DOMAIN B
      BY <1>1, <3>1
    <3>3. (A \o B)[n + (i - n)] = B[i - n]
      BY <1>1, <3>2, Concatenated
    <3> QED
      BY <1>1, <3>1, <3>3
  <2>3. i <= n \/ i > n
    BY <1>2, <2>0
  <2> QED
    BY <2>1, <2>2, <2>3, Zenon
<1>5. A \o B = rows
  BY <1>3, <1>4, SameRows
<1> QED
  BY <1>5 DEF A, B

\* Queued rows come behind the rows of their table.
LEMMA QueueRowsMaps ==
  ASSUME TypeOK, NEW c \in Callers, NEW t \in Tables, NEW ks \in Batches, QueueRows(c, t, ks)
  PROVE  Ordered!QueueRows(t)
<1> DEFINE R == [u \in Tables |-> chunk[u] \o pendingRows[u]]
           N == NewRows(ks)
<1>1. \A u \in Tables : chunk[u] \in Seq(Row) /\ pendingRows[u] \in Seq(Row)
  BY DEF TypeOK
<1>2. N \in Seq(Row) /\ Len(N) \in Nat /\ Len(N) >= 1
  <2>1. rowCount \in Nat /\ rowCount + Len(ks) <= MaxRows
    BY WriteQueueAssumption DEF TypeOK, QueueRows
  <2> QED
    BY <2>1, NewRowsPositions, BatchIsSeq
<1>3. /\ pendingRows'[t] = pendingRows[t] \o N
      /\ \A u \in Tables \ {t} : pendingRows'[u] = pendingRows[u]
      /\ UNCHANGED <<chunk, tasks, witem, applied, stored, closed>>
  BY DEF QueueRows, TypeOK, writerVars, dbVars
<1> HIDE DEF N
<1>4. R'[t] = R[t] \o N
  <2>1. R'[t] = chunk[t] \o (pendingRows[t] \o N)
    BY <1>3
  <2>2. chunk[t] \in Seq(Row) /\ pendingRows[t] \in Seq(Row)
    BY <1>1
  <2>3. (chunk[t] \o pendingRows[t]) \o N = chunk[t] \o (pendingRows[t] \o N)
    BY <1>2, <2>2, RowsAssociate
  <2> QED
    BY <2>1, <2>3
<1>5. \A u \in Tables \ {t} : R'[u] = R[u]
  BY <1>3
<1>6. R[t] \in Seq(Row) /\ Len(R[t]) \in Nat
  <2>1. chunk[t] \in Seq(Row) /\ pendingRows[t] \in Seq(Row) /\ R[t] = chunk[t] \o pendingRows[t]
    BY <1>1
  <2>2. /\ chunk[t] \o pendingRows[t] \in Seq(Row)
        /\ Len(chunk[t] \o pendingRows[t]) \in Nat
    BY <2>1, RowsJoined
  <2> HIDE DEF R
  <2> QED
    BY <2>1, <2>2, Zenon
<1>7. Waiting' = Waiting
  BY <1>3, SameTasks
<1>8. Len(R'[t]) > Len(R[t]) /\ SubSeq(R'[t], 1, Len(R[t])) = R[t]
  <2> HIDE DEF R
  <2> QED
    BY <1>2, <1>4, <1>6, RowsJoined
<1> QED
  BY <1>3, <1>5, <1>7, <1>8 DEF Ordered!QueueRows

\* What a flush takes still waits, in front of what it leaves.
LEMMA PopRowsStutters ==
  ASSUME TypeOK, ChunkInFlush, WriterItem, PopRows
  PROVE  UNCHANGED Ordered!vars
<1>1. UNCHANGED <<applied, stored, closed, tasks>>
  BY DEF PopRows, dbVars
<1>2. \A t \in Tables : chunk'[t] \o pendingRows'[t] = chunk[t] \o pendingRows[t]
  <2> TAKE t \in Tables
  <2>1. chunk[t] = <<>> /\ pendingRows[t] \in Seq(Row)
    BY DEF ChunkInFlush, PopRows, NoRows, TypeOK
  <2>2. chunk'[t] \o pendingRows'[t] = pendingRows[t]
    BY <2>1, SplitJoins DEF PopRows
  <2> QED
    BY <2>1, <2>2, RowsJoined
<1>3. Waiting' = Waiting
  <2>1. witem = Flush /\ witem' \in {None, Flush}
    BY DEF PopRows
  <2> QED
    BY <1>1, <2>1, NoWriteHeld, NotWrites DEF Item
<1> QED
  BY <1>1, <1>2, <1>3 DEF Ordered!vars

\* What the rows of a flush make of a table is what the first rows that wait make of it.
LEMMA InsertRowsFirst ==
  ASSUME TypeOK, NEW t \in Tables, chunk[t] # <<>>
  PROVE  /\ Len(chunk[t]) \in 1..Len(chunk[t] \o pendingRows[t])
         /\ \A k \in Keys : InsertRows(stored[t], chunk[t])[k] =
              Ordered!AfterFirst(Len(chunk[t]), chunk[t] \o pendingRows[t], k, stored[t][k])
<1> DEFINE n == Len(chunk[t])
           R == [u \in Tables |-> chunk[u] \o pendingRows[u]]
<1>1. \A u \in Tables : chunk[u] \in Seq(Row) /\ pendingRows[u] \in Seq(Row)
  BY DEF TypeOK
<1>2. chunk[t] # <<>> /\ n \in Nat /\ n >= 1 /\ DOMAIN chunk[t] = 1..n
  <2>1. chunk[t] # <<>> /\ chunk[t] \in Seq(Row)
    BY <1>1
  <2> QED
    BY <2>1
<1>3a. chunk[t] \in Seq(Row) /\ pendingRows[t] \in Seq(Row) /\ R[t] = chunk[t] \o pendingRows[t]
  BY <1>1
<1>4. \A i \in 1..n : R[t][i] = chunk[t][i]
  <2> HIDE DEF R
  <2>1. \A i \in DOMAIN chunk[t] : (chunk[t] \o pendingRows[t])[i] = chunk[t][i]
    BY <1>3a, Concatenated
  <2> QED
    BY <1>2, <1>3a, <2>1, Zenon
<1>5. n \in 1..Len(R[t])
  <2> HIDE DEF R
  <2>0. /\ Len(pendingRows[t]) \in Nat
        /\ Len(chunk[t] \o pendingRows[t]) = Len(chunk[t]) + Len(pendingRows[t])
    BY <1>3a, RowsJoined
  <2>1. Len(pendingRows[t]) \in Nat /\ Len(R[t]) = n + Len(pendingRows[t])
    BY <1>3a, <2>0, Zenon
  <2> HIDE DEF n
  <2> QED
    BY <1>2, <2>1
<1>6. \A k \in Keys : InsertRows(stored[t], chunk[t])[k] = Ordered!AfterFirst(n, R[t], k, stored[t][k])
  <2> TAKE k \in Keys
  <2> DEFINE here == {i \in 1..n : R[t][i].key = k}
             top == CHOOSE i \in here : \A j \in here : j <= i
  <2>1. here = {i \in DOMAIN chunk[t] : chunk[t][i].key = k}
    BY <1>2, <1>4
  <2> HIDE DEF R, n
  <2>2. CASE here = {}
    <3>1. ~\E r \in Unique(chunk[t]) : r.key = k
      BY <2>1, <2>2 DEF Unique
    <3> QED
      BY <2>2, <3>1 DEF InsertRows, Ordered!AfterFirst
  <2>3. CASE here # {}
    <3>1. here \in SUBSET (1..n)
      OBVIOUS
    <3>2. \E i \in here : \A j \in here : j <= i
      <4> HIDE DEF here
      <4> QED
        BY <1>2, <2>3, <3>1, GreatestIndex
    <3>3. top \in here /\ \A j \in here : j <= top
      BY <3>2
    <3> HIDE DEF top
    <3>4. top \in DOMAIN chunk[t] /\ top \in 1..n /\ chunk[t][top].key = k /\ R[t][top] = chunk[t][top]
      BY <1>4, <2>1, <3>3
    <3>5. chunk[t][top] \in Unique(chunk[t])
      BY <2>1, <3>3, <3>4 DEF Unique
    <3>6. \A r \in Unique(chunk[t]) : r.key = k => r = chunk[t][top]
      <4> SUFFICES ASSUME NEW r \in Unique(chunk[t]), r.key = k
                   PROVE  r = chunk[t][top]
        OBVIOUS
      <4>1. PICK i \in DOMAIN chunk[t] : /\ r = chunk[t][i]
                                         /\ \A l \in DOMAIN chunk[t] : chunk[t][l].key = chunk[t][i].key => l <= i
        BY DEF Unique
      <4>2. i \in here /\ top <= i /\ i <= top /\ i \in Nat /\ top \in Nat
        BY <1>2, <2>1, <3>3, <3>4, <4>1
      <4> QED
        BY <4>1, <4>2
    <3>7. (CHOOSE r \in Unique(chunk[t]) : r.key = k) = chunk[t][top]
      BY <3>4, <3>5, <3>6
    <3>8. InsertRows(stored[t], chunk[t])[k] =
            IF chunk[t][top].pos \in BadRows THEN stored[t][k] ELSE chunk[t][top].pos
      BY <3>4, <3>5, <3>6, <3>7 DEF InsertRows
    <3>9. Ordered!AfterFirst(n, R[t], k, stored[t][k]) =
            IF R[t][top].pos \in BadRows THEN stored[t][k] ELSE R[t][top].pos
      BY <2>3 DEF Ordered!AfterFirst, top
    <3> QED
      BY <3>4, <3>8, <3>9
  <2> QED
    BY <2>2, <2>3
<1> HIDE DEF R
<1> QED
  BY <1>3a, <1>5, <1>6, Zenon

\* The statement of one table puts the rows the flush took into it.
LEMMA InsertTableMaps ==
  ASSUME TypeOK, WriterItem, NEW t \in Tables, InsertTable(t)
  PROVE  \E n \in 1..Len(chunk[t] \o pendingRows[t]) : Ordered!StoreRows(t, n)
<1> DEFINE n == Len(chunk[t])
           R == [u \in Tables |-> chunk[u] \o pendingRows[u]]
<1>1. \A u \in Tables : chunk[u] \in Seq(Row) /\ pendingRows[u] \in Seq(Row)
  BY DEF TypeOK
<1>2. chunk[t] # <<>> /\ n \in Nat /\ n >= 1 /\ DOMAIN chunk[t] = 1..n
  <2>1. chunk[t] # <<>> /\ chunk[t] \in Seq(Row)
    BY <1>1 DEF InsertTable
  <2> QED
    BY <2>1
<1>3. /\ chunk' = [chunk EXCEPT ![t] = <<>>]
      /\ stored' = [stored EXCEPT ![t] = InsertRows(stored[t], chunk[t])]
      /\ UNCHANGED <<pendingRows, tasks, applied, closed>>
      /\ stored \in [Tables -> [Keys -> 0..MaxRows]]
  BY DEF InsertTable, queueVars, TypeOK
<1>5. n \in 1..Len(R[t]) /\ \A k \in Keys : InsertRows(stored[t], chunk[t])[k] = Ordered!AfterFirst(n, R[t], k, stored[t][k])
  <2>1. R[t] = chunk[t] \o pendingRows[t]
    OBVIOUS
  <2> HIDE DEF R
  <2> QED
    BY <1>2, <2>1, InsertRowsFirst, Zenon
<1>7. InsertRows(stored[t], chunk[t]) = [k \in Keys |-> Ordered!AfterFirst(n, R[t], k, stored[t][k])]
  <2>1. InsertRows(stored[t], chunk[t]) = [k \in Keys |-> InsertRows(stored[t], chunk[t])[k]]
    BY DEF InsertRows
  <2> HIDE DEF R, n
  <2> QED
    BY <1>5, <2>1
<1>8. R' = [R EXCEPT ![t] = SubSeq(R[t], n + 1, Len(R[t]))]
  <2>1. R'[t] = pendingRows[t]
    <3>1. R'[t] = <<>> \o pendingRows[t]
      BY <1>3 DEF TypeOK
    <3> QED
      BY <1>1, <3>1, RowsJoined
  <2>2. SubSeq(R[t], n + 1, Len(R[t])) = pendingRows[t]
    BY <1>1, RowsJoined
  <2>3. \A u \in Tables : u # t => R'[u] = R[u]
    BY <1>3 DEF TypeOK
  <2>4. R' = [u \in Tables |-> R'[u]] /\ R = [u \in Tables |-> R[u]]
    OBVIOUS
  <2> HIDE DEF R
  <2> QED
    BY <2>1, <2>2, <2>3, <2>4
<1>9. Waiting' = Waiting
  <2>1. witem = Flush /\ witem' \in {None, Flush}
    BY DEF InsertTable, WriterItem
  <2> QED
    BY <1>3, <2>1, NoWriteHeld, NotWrites DEF Item
<1>10. stored' = [stored EXCEPT ![t] = [k \in Keys |-> Ordered!AfterFirst(n, R[t], k, stored[t][k])]]
  <2> HIDE DEF R, n
  <2> QED
    BY <1>3, <1>7
<1>11. ASSUME NEW m \in 1..Len(R[t]), m = n
       PROVE  Ordered!StoreRows(t, m)
  BY <1>3, <1>8, <1>9, <1>10, <1>11 DEF Ordered!StoreRows, Ordered!Suffix
<1> QED
  BY <1>5, <1>11

\* The statements before it put some keys' rows there, and the rows still wait.
LEMMA InsertSomeMaps ==
  ASSUME TypeOK, NEW t \in Tables, InsertSome(t)
  PROVE  \E n \in 1..Len(chunk[t] \o pendingRows[t]), ks \in SUBSET Keys : Ordered!StoreSome(t, n, ks)
<1> DEFINE n == Len(chunk[t])
           R == [u \in Tables |-> chunk[u] \o pendingRows[u]]
<1>1. PICK ks \in SUBSET Keys :
        stored' = [stored EXCEPT ![t] =
                     [k \in Keys |-> IF k \in ks THEN InsertRows(stored[t], chunk[t])[k] ELSE stored[t][k]]]
  BY DEF InsertSome
<1>2. chunk[t] # <<>> /\ UNCHANGED <<chunk, pendingRows, tasks, witem, applied, closed>>
  BY DEF InsertSome, queueVars
<1>3. R[t] = chunk[t] \o pendingRows[t] /\ R' = R
  BY <1>2
<1>4. Waiting' = Waiting
  BY <1>2, SameTasks
<1> HIDE DEF R
<1>5. n \in 1..Len(R[t]) /\ \A k \in Keys : InsertRows(stored[t], chunk[t])[k] = Ordered!AfterFirst(n, R[t], k, stored[t][k])
  BY <1>2, <1>3, InsertRowsFirst, Zenon
<1> HIDE DEF n
<1>6. stored' = [stored EXCEPT ![t] =
                   [k \in Keys |-> IF k \in ks THEN Ordered!AfterFirst(n, R[t], k, stored[t][k]) ELSE stored[t][k]]]
  BY <1>1, <1>5
<1>7. ASSUME NEW m \in 1..Len(R[t]), m = n
      PROVE  Ordered!StoreSome(t, m, ks)
  BY <1>2, <1>3, <1>4, <1>6, <1>7 DEF Ordered!StoreSome, R
<1> QED
  BY <1>3, <1>5, <1>7

-----------------------------------------------------------------------------
(* The refinement *)

\* The first state maps to the first state.
LEMMA InitMaps == Init => Ordered!Init
<1> SUFFICES ASSUME Init
             PROVE  Ordered!Init
  OBVIOUS
<1>1. Waiting = <<>>
  <2>1. <<>> \in Seq(Item) /\ None \in Item \cup {None}
    OBVIOUS
  <2>2. WritesOf(<<None>>) \o WritesOf(<<>>) = WritesOf(<<>>)
    BY <2>1, HeldFirst, NotWrites
  <2> QED
    BY <2>2, WritesOfEmpty DEF Waiting, Init
<1>2. \A t \in Tables : chunk[t] \o pendingRows[t] = <<>>
  <2>1. <<>> \in Seq(Row)
    OBVIOUS
  <2>2. <<>> \o <<>> = <<>>
    BY <2>1, RowsJoined
  <2> QED
    BY <2>2 DEF Init, NoRows
<1> QED
  BY <1>1, <1>2 DEF Init, EmptyTab, Ordered!Init

\* Putting a write accepts it; putting a flush or the stop item is invisible.
LEMMA PutMaps ==
  ASSUME TypeOK, HeldTask, NEW c \in Callers, SubmitPut(c)
  PROVE  (\E w \in Write : Ordered!Accept(w)) \/ UNCHANGED Ordered!vars
<1>1. held[c] \in Item
  BY DEF TypeOK, HeldTask, SubmitPut
<1>2. UNCHANGED <<applied, stored, chunk, pendingRows, closed, witem>> /\ tasks' = Put(held[c])
  BY DEF SubmitPut, writerVars, dbVars
<1>3. Waiting' = IF IsWrite(held[c]) THEN Append(Waiting, held[c]) ELSE Waiting
  BY <1>1, <1>2, PutWaits
<1>4. CASE IsWrite(held[c])
  <2>1. held[c] \in Write
    BY <1>1, <1>4, ItemKinds DEF IsWrite
  <2>2. Ordered!Accept(held[c])
    BY <1>2, <1>3, <1>4 DEF Ordered!Accept
  <2> QED
    BY <2>1, <2>2
<1>5. CASE ~IsWrite(held[c])
  BY <1>2, <1>3, <1>5, Stutters
<1> QED
  BY <1>4, <1>5

\* The steps of the callers and of the main thread.
LEMMA CallerMaps ==
  ASSUME TypeOK, HeldTask, (\E c \in Callers : CallerStep(c)) \/ Shutdown \/ Join
  PROVE  [Ordered!Next]_(Ordered!vars)
<1> USE DEF queueVars, writerVars, dbVars
<1>1. ASSUME NEW c \in Callers, NEW t \in Tables, NEW ks \in Batches, QueueRows(c, t, ks)
      PROVE  Ordered!Next
  BY <1>1, QueueRowsMaps DEF Ordered!Next
<1>2. ASSUME NEW c \in Callers, (\E sync \in BOOLEAN : Save(c, sync)) \/ SubmitCheck(c)
      PROVE  UNCHANGED Ordered!vars
  <2>1. UNCHANGED <<tasks, witem, applied, stored, chunk, pendingRows, closed>>
    BY <1>2 DEF Save, SubmitCheck
  <2> QED
    BY <2>1, SameTasks, Stutters
<1>3. ASSUME NEW c \in Callers, SubmitPut(c)
      PROVE  [Ordered!Next]_(Ordered!vars)
  BY <1>3, PutMaps DEF Ordered!Next
<1>4. CASE Shutdown
  <2>1. UNCHANGED <<tasks, witem, applied, stored, chunk, pendingRows>> /\ ~closed /\ closed' = TRUE
    BY <1>4 DEF Shutdown
  <2>2. Ordered!BeginToEnd
    BY <2>1, SameTasks DEF Ordered!BeginToEnd
  <2> QED
    BY <2>2 DEF Ordered!Next
<1>5. CASE Join
  <2>1. UNCHANGED <<tasks, witem, applied, stored, chunk, pendingRows, closed>>
    BY <1>5 DEF Join
  <2> QED
    BY <2>1, SameTasks, Stutters
<1>6. ASSUME NEW c \in Callers, CallerStep(c)
      PROVE  [Ordered!Next]_(Ordered!vars)
  BY <1>1, <1>2, <1>3, <1>6 DEF CallerStep, SubmitStep
<1> QED
  BY <1>4, <1>5, <1>6

\* The writer gives up the rows of the flush it cannot go on with.
LEMMA ResubmitMaps ==
  ASSUME TypeOK, WriterItem, ResubmitCheck
  PROVE  Ordered!GiveUpRows \/ UNCHANGED Ordered!vars
<1>1. UNCHANGED <<tasks, applied, stored, pendingRows, closed>>
  BY DEF ResubmitCheck, queueVars, dbVars
<1>2. CASE ~closed
  <2>1. UNCHANGED <<witem, chunk>>
    BY <1>2 DEF ResubmitCheck
  <2> QED
    BY <1>1, <2>1, SameTasks, Stutters
<1>3. CASE closed
  <2>1. Waiting' = Waiting
    <3>1. witem = Flush /\ witem' = None
      BY <1>3 DEF ResubmitCheck, WriterItem
    <3> QED
      BY <1>1, <3>1, NoWriteHeld, NotWrites
  <2>2. ASSUME NEW t \in Tables
        PROVE  \E n \in 0..Len(chunk[t] \o pendingRows[t]) :
                 chunk'[t] \o pendingRows'[t] = Ordered!Suffix(chunk[t] \o pendingRows[t], n)
    <3>1. chunk[t] \in Seq(Row) /\ pendingRows[t] \in Seq(Row)
      BY DEF TypeOK
    <3>2. /\ Len(chunk[t] \o pendingRows[t]) = Len(chunk[t]) + Len(pendingRows[t])
          /\ Len(chunk[t]) \in Nat /\ Len(pendingRows[t]) \in Nat
          /\ SubSeq(chunk[t] \o pendingRows[t], Len(chunk[t]) + 1, Len(chunk[t] \o pendingRows[t])) = pendingRows[t]
          /\ <<>> \o pendingRows[t] = pendingRows[t]
      BY <3>1, RowsJoined
    <3>3. chunk'[t] = <<>> /\ pendingRows'[t] = pendingRows[t]
      BY <1>1, <1>3 DEF ResubmitCheck, NoRows
    <3>4. Len(chunk[t]) \in 0..Len(chunk[t] \o pendingRows[t])
      <4>1. \A m, n \in Nat : m \in 0..(m + n)
        OBVIOUS
      <4>2. Len(chunk[t]) \in 0..(Len(chunk[t]) + Len(pendingRows[t]))
        BY <3>2, <4>1, Zenon
      <4> QED
        BY <3>2, <4>2, Zenon
    <3> QED
      BY <3>2, <3>3, <3>4 DEF Ordered!Suffix
  <2>3. Ordered!GiveUpRows
    BY <1>1, <1>3, <2>1, <2>2 DEF Ordered!GiveUpRows
  <2> QED
    BY <2>3
<1> QED
  BY <1>2, <1>3

\* The steps of the writer thread, those that fail included.
LEMMA WriterMaps ==
  ASSUME TypeOK, ChunkInFlush, WriterItem, WriterStep \/ SessionFails \/ WriteFails
  PROVE  [Ordered!Next]_(Ordered!vars)
<1> USE DEF queueVars, writerVars, dbVars
<1>1. CASE Get \/ NextTask \/ StopSession
  <2>1. UNCHANGED <<applied, stored, chunk, pendingRows, closed>>
    BY <1>1 DEF Get, NextTask, StopSession
  <2> QED
    BY <1>1, <2>1, TakeWaits, Stutters
<1>2. CASE BeginSession \/ EndSession
  <2>1. UNCHANGED <<tasks, witem, applied, stored, chunk, pendingRows, closed>>
    BY <1>2 DEF BeginSession, EndSession
  <2> QED
    BY <2>1, SameTasks, Stutters
<1>3. CASE RunWrite \/ WriteFails
  <2>1. /\ IsWrite(witem) /\ witem' = None
        /\ UNCHANGED <<tasks, stored, chunk, pendingRows, closed>>
        /\ applied' \in {applied, Append(applied, witem)}
    BY <1>3 DEF RunWrite, WriteFails, IsWrite
  <2>2. Ordered!Resolve
    BY <2>1, SettlesOldest
  <2> QED
    BY <2>2 DEF Ordered!Next
<1>4. CASE SessionFails
  <2>1. witem' = None /\ UNCHANGED <<tasks, applied, stored, chunk, pendingRows, closed>>
    BY <1>4 DEF SessionFails
  <2>2. CASE IsWrite(witem)
    <3>1. Ordered!Resolve
      BY <2>1, <2>2, SettlesOldest
    <3> QED
      BY <3>1 DEF Ordered!Next
  <2>3. CASE ~IsWrite(witem)
    <3>1. Waiting' = Waiting
      BY <2>1, <2>3, NoWriteHeld, NotWrites
    <3> QED
      BY <2>1, <3>1, Stutters
  <2> QED
    BY <2>2, <2>3
<1>5. CASE PopRows
  BY <1>5, PopRowsStutters
<1>6. CASE ResubmitCheck
  BY <1>6, ResubmitMaps DEF Ordered!Next
<1>7. CASE ResubmitPut
  <2>1. Flush \in Item /\ tasks' = Put(Flush) /\ UNCHANGED <<witem, applied, stored, chunk, pendingRows, closed>>
    BY <1>7 DEF ResubmitPut, Item
  <2> QED
    BY <2>1, PutWaits, NotWrites, Stutters
<1>8. ASSUME NEW t \in Tables, InsertTable(t)
      PROVE  Ordered!Next
  <2>1. \E n \in 1..Len(chunk[t] \o pendingRows[t]) : Ordered!StoreRows(t, n)
    BY <1>8, InsertTableMaps
  <2> QED
    BY <2>1 DEF Ordered!Next
<1>9. ASSUME NEW t \in Tables, InsertSome(t)
      PROVE  Ordered!Next
  <2>1. \E n \in 1..Len(chunk[t] \o pendingRows[t]), ks \in SUBSET Keys : Ordered!StoreSome(t, n, ks)
    BY <1>9, InsertSomeMaps
  <2> QED
    BY <2>1 DEF Ordered!Next
<1> QED
  BY <1>1, <1>2, <1>3, <1>4, <1>5, <1>6, <1>7, <1>8, <1>9 DEF WriterStep

\* The death of the process loses what was in memory and nothing else.
LEMMA CrashMaps ==
  ASSUME Crash
  PROVE  Ordered!Die
<1>1. Waiting' = <<>>
  <2>1. <<>> \in Seq(Item) /\ None \in Item \cup {None}
    OBVIOUS
  <2>2. WritesOf(<<None>>) \o WritesOf(<<>>) = WritesOf(<<>>)
    BY <2>1, HeldFirst, NotWrites
  <2> QED
    BY <2>2, WritesOfEmpty DEF Waiting, Crash
<1>2. \A t \in Tables : chunk'[t] \o pendingRows'[t] = <<>>
  <2>1. <<>> \in Seq(Row)
    OBVIOUS
  <2>2. <<>> \o <<>> = <<>>
    BY <2>1, RowsJoined
  <2> QED
    BY <2>2 DEF Crash, NoRows
<1> QED
  BY <1>1, <1>2 DEF Crash, dbVars, Ordered!Die

\* Every step of the write path is a step of the ordered store, or none.
LEMMA NextMaps ==
  ASSUME Inv, OrderInv, [Next]_vars
  PROVE  [Ordered!Next]_(Ordered!vars)
<1> USE DEF Inv, RowInv, OrderInv
<1>1. CASE (\E c \in Callers : CallerStep(c)) \/ Shutdown \/ Join
  BY <1>1, CallerMaps
<1>2. CASE WriterStep \/ SessionFails \/ WriteFails
  BY <1>2, WriterMaps
<1>3. CASE Crash
  BY <1>3, CrashMaps DEF Ordered!Next
<1>4. CASE AtRest \/ UNCHANGED vars
  <2>1. UNCHANGED <<tasks, witem, applied, stored, chunk, pendingRows, closed>>
    BY <1>4 DEF AtRest, vars, queueVars, writerVars, dbVars
  <2> QED
    BY <2>1, SameTasks, Stutters
<1> QED
  BY <1>1, <1>2, <1>3, <1>4 DEF Next

\* Seen from the save methods and the database, the threads, the queue and the
\* flushes are the ordered store OrderedWrites describes: nothing but a shutdown
\* or a crash loses what it accepted (storage.py:140-220, 461-507).
THEOREM Refinement == Spec => ImplementsOrderedWrites
<1>1. Init => Ordered!Init
  BY InitMaps
<1>2. Inv /\ OrderInv /\ [Next]_vars => [Ordered!Next]_(Ordered!vars)
  BY NextMaps
<1> QED
  BY <1>1, <1>2, Invariance, OrderInvariance, PTL DEF Spec, ImplementsOrderedWrites, Ordered!Spec
=============================================================================
