--------------------------- MODULE BranchingProofs ---------------------------
(***************************************************************************)
(* Theorems about Branching, for any signatures, bounds and queue.  Typed  *)
(* is TypeOK with what rows and states refer to.  Ordered says of every    *)
(* row, stored or queued, that the rows it needs are stored or queued      *)
(* before it; with it a crash leaves no row without those, for any number  *)
(* of threads.  The last part has one thread, for whose steps OnLine,      *)
(* Shadows and Diverging say where the replay and the branch are.          *)
(***************************************************************************)
EXTENDS Branching, TLAPS

Kinds == {"state", "step", "branch", "active"}
Rows  == [kind : Kinds, id : Nat]

\* Rows name states and branches that were made, states their inputs and branches.
Closed ==
  /\ \A i \in DOMAIN queue :
       queue[i].id \in CASE queue[i].kind = "branch" -> Branches
                         [] queue[i].kind = "step" -> DOMAIN made
                         [] OTHER -> States
  /\ \A n \in DOMAIN made : made[n].input \in States /\ made[n].branch \in Branches
  /\ \A b \in DOMAIN forks : forks[b].start \in States

Typed == TypeOK /\ Closed

\* What a new state adds to the sequences of the model.
LEMMA AppendFacts ==
  ASSUME NEW S, NEW s \in Seq(S), NEW e \in S
  PROVE  /\ Append(s, e) \in Seq(S)
         /\ Len(Append(s, e)) = Len(s) + 1
         /\ DOMAIN Append(s, e) = DOMAIN s \cup {Len(s) + 1}
         /\ \A i \in DOMAIN s : Append(s, e)[i] = s[i]
         /\ Append(s, e)[Len(s) + 1] = e
  OBVIOUS

\* Two sequences of rows, one behind the other.
LEMMA QueuedFacts ==
  ASSUME NEW s \in Seq(Rows), NEW t \in Seq(Rows)
  PROVE  /\ s \o t \in Seq(Rows)
         /\ Len(s \o t) = Len(s) + Len(t)
         /\ DOMAIN (s \o t) = 1..(Len(s) + Len(t))
         /\ \A i \in 1..Len(s) : (s \o t)[i] = s[i]
         /\ \A i \in 1..Len(t) : (s \o t)[Len(s) + i] = t[i]
  OBVIOUS

\* Rows without the first one.
LEMMA TailFacts ==
  ASSUME NEW s \in Seq(Rows), s # <<>>
  PROVE  /\ Tail(s) \in Seq(Rows)
         /\ Len(Tail(s)) = Len(s) - 1
         /\ \A i \in 1..(Len(s) - 1) : Tail(s)[i] = s[i + 1]
         /\ Head(s) = s[1] /\ 1 \in DOMAIN s /\ Len(s) > 0
         /\ DOMAIN Tail(s) = 1..(Len(s) - 1)
  OBVIOUS

-----------------------------------------------------------------------------
(* Types *)

\* Initially one state, one branch, no rows.
LEMMA InitTyped == Init => Typed
<1> SUFFICES ASSUME Init PROVE Typed
  OBVIOUS
<1> USE BranchingAssumption DEF Init, States, Branches
<1>1. Len(made) = 0 /\ Len(forks) = 0 /\ DOMAIN made = {} /\ DOMAIN forks = {} /\ DOMAIN queue = {}
  OBVIOUS
<1>2. TypeOK
  BY <1>1 DEF TypeOK
<1> QED
  BY <1>1, <1>2 DEF Typed, Closed

\* Numbers and sequences that TypeOK gives.
LEMMA Shapes ==
  ASSUME TypeOK
  PROVE  /\ Len(made) \in Nat /\ DOMAIN made = 1..Len(made)
         /\ Len(forks) \in Nat /\ DOMAIN forks = 1..Len(forks)
         /\ queue \in Seq(Rows) /\ Len(queue) \in Nat /\ DOMAIN queue = 1..Len(queue)
         /\ 0 \in States /\ 0 \in Branches
         /\ \A n \in DOMAIN made : n \in States /\ n # 0
  BY SMTT(30) DEF TypeOK, States, Branches, Rows, Kinds

\* A state that is read has a branch.
LEMMA BranchTyped ==
  ASSUME Typed, NEW s \in States
  PROVE  BranchOf(s) \in Branches /\ (s # 0 => s \in DOMAIN made)
  BY Shapes DEF Typed, Closed, BranchOf, States, Branches

\* Rows put behind the others: what the new queue holds.
LEMMA QueueGrows ==
  ASSUME Typed, NEW rows \in Seq(Rows), queue' = Queued(rows)
  PROVE  /\ queue' \in Seq(Rows)
         /\ DOMAIN queue' = 1..(Len(queue) + Len(rows))
         /\ \A i \in DOMAIN queue : i \in DOMAIN queue' /\ queue'[i] = queue[i]
         /\ \A i \in 1..Len(rows) : Len(queue) + i \in DOMAIN queue' /\ queue'[Len(queue) + i] = rows[i]
         /\ \A i \in DOMAIN queue' : i \in DOMAIN queue \/ \E k \in 1..Len(rows) : i = Len(queue) + k
<1>1. queue \in Seq(Rows) /\ Len(queue) \in Nat /\ DOMAIN queue = 1..Len(queue) /\ Len(rows) \in Nat
  BY Shapes DEF Typed
<1>2. queue' = queue \o rows
  BY DEF Queued
<1>3. /\ queue' \in Seq(Rows)
      /\ DOMAIN queue' = 1..(Len(queue) + Len(rows))
      /\ \A i \in 1..Len(queue) : queue'[i] = queue[i]
      /\ \A i \in 1..Len(rows) : queue'[Len(queue) + i] = rows[i]
  BY <1>1, <1>2, QueuedFacts
<1>4. \A i \in 1..(Len(queue) + Len(rows)) : i \in 1..Len(queue) \/ \E k \in 1..Len(rows) : i = Len(queue) + k
  <2> SUFFICES ASSUME NEW i \in 1..(Len(queue) + Len(rows)), i \notin 1..Len(queue)
               PROVE  i - Len(queue) \in 1..Len(rows) /\ i = Len(queue) + (i - Len(queue))
    OBVIOUS
  <2> QED
    BY <1>1
<1> QED
  BY <1>1, <1>3, <1>4

\* One row put behind the others.
LEMMA RowQueued ==
  ASSUME Typed, NEW k \in Kinds, NEW n \in Nat, queue' = Queued(<<Row(k, n)>>)
  PROVE  /\ queue' \in Seq(Rows)
         /\ DOMAIN queue' = DOMAIN queue \cup {Len(queue) + 1}
         /\ \A i \in DOMAIN queue : queue'[i] = queue[i]
         /\ queue'[Len(queue) + 1] = Row(k, n)
<1> DEFINE r == Row(k, n)
<1>1. r \in Rows
  BY DEF Row, Rows
<1> HIDE DEF r
<1>2. <<r>> \in Seq(Rows) /\ Len(<<r>>) = 1 /\ <<r>>[1] = r
  BY <1>1
<1>3. queue' = Queued(<<r>>)
  BY DEF r
<1>4. DOMAIN queue = 1..Len(queue) /\ Len(queue) \in Nat
  BY Shapes DEF Typed
<1>5. /\ queue' \in Seq(Rows)
      /\ DOMAIN queue' = 1..(Len(queue) + 1)
      /\ \A i \in DOMAIN queue : queue'[i] = queue[i]
      /\ queue'[Len(queue) + 1] = r
  <2>1. 1 \in 1..Len(<<r>>)
    BY <1>2
  <2> QED
    BY <1>2, <1>3, <1>4, <2>1, QueueGrows
<1>6. 1..(Len(queue) + 1) = 1..Len(queue) \cup {Len(queue) + 1}
  BY <1>4
<1> QED
  BY <1>4, <1>5, <1>6 DEF r

\* The rows of a new state put behind the others.
LEMMA StepQueued ==
  ASSUME Typed, NEW n \in Nat, queue' = Queued(RowsOf(n))
  PROVE  /\ queue' \in Seq(Rows)
         /\ DOMAIN queue' = DOMAIN queue \cup {Len(queue) + 1, Len(queue) + 2, Len(queue) + 3}
         /\ \A i \in DOMAIN queue : queue'[i] = queue[i]
         /\ queue'[Len(queue) + 1] = Row("state", n)
         /\ queue'[Len(queue) + 2] = Row("step", n)
         /\ queue'[Len(queue) + 3] = Row("active", n)
<1>1. /\ RowsOf(n) \in Seq(Rows) /\ Len(RowsOf(n)) = 3
      /\ RowsOf(n)[1] = Row("state", n) /\ RowsOf(n)[2] = Row("step", n)
      /\ RowsOf(n)[3] = Row("active", n)
  BY DEF RowsOf, Row, Rows, Kinds
<1>2. DOMAIN queue = 1..Len(queue) /\ Len(queue) \in Nat
  BY Shapes DEF Typed
<1>3. /\ queue' \in Seq(Rows)
      /\ DOMAIN queue' = 1..(Len(queue) + 3)
      /\ \A i \in DOMAIN queue : queue'[i] = queue[i]
      /\ \A i \in 1..3 : queue'[Len(queue) + i] = RowsOf(n)[i]
  BY <1>1, QueueGrows
<1> QED
  BY SMTT(30), <1>1, <1>2, <1>3

\* The state that Finish makes.
LEMMA FinishMakes ==
  ASSUME Typed, NEW t \in Threads, Finish(t)
  PROVE  \E n \in Nat :
           /\ n # 0 /\ n \notin States /\ n \notin DOMAIN made /\ Len(made') = n /\ current' = n
           /\ made' \in Seq([input : Nat, sig : Sigs, branch : Nat])
           /\ DOMAIN made' = DOMAIN made \cup {n} /\ States' = States \cup {n}
           /\ \A k \in DOMAIN made : made'[k] = made[k]
           /\ made'[n] = [input |-> job[t].input, sig |-> job[t].sig, branch |-> branch]
           /\ job[t].input \in States /\ branch \in Branches
<1> DEFINE m == [input |-> job[t].input, sig |-> job[t].sig, branch |-> branch]
<1> DEFINE S == [input : Nat, sig : Sigs, branch : Nat]
<1>1. job[t].input \in States /\ job[t].sig \in Sigs /\ branch \in Branches
  BY DEF Finish, Typed, TypeOK
<1>2. m \in S
  BY <1>1 DEF States, Branches
<1>3. made' = Append(made, m) /\ current' = Len(made')
  BY DEF Finish
<1>4. made \in Seq(S)
  BY DEF Typed, TypeOK
<1>5. PICK n \in Nat : n = Len(made) + 1 /\ n # 0 /\ n \notin States /\ n \notin DOMAIN made
  BY Shapes DEF Typed, States
<1> HIDE DEF m, S
<1>6. /\ made' \in Seq(S) /\ Len(made') = n /\ DOMAIN made' = DOMAIN made \cup {n}
      /\ \A k \in DOMAIN made : made'[k] = made[k]
      /\ made'[n] = m
  BY <1>2, <1>3, <1>4, <1>5, AppendFacts
<1>7. States' = States \cup {n}
  BY <1>5, <1>6, Shapes DEF Typed, States
<1> QED
  BY <1>1, <1>3, <1>5, <1>6, <1>7 DEF m, S

\* The branch that Diverges makes.
LEMMA DivergesMakes ==
  ASSUME Typed, NEW t \in Threads, NEW sig \in Sigs, Diverges(t, sig)
  PROVE  \E b \in Nat :
           /\ b # 0 /\ b \notin Branches /\ Len(forks') = b /\ branch' = b
           /\ forks' \in Seq([start : Nat, sig : Sigs])
           /\ DOMAIN forks' = DOMAIN forks \cup {b} /\ Branches' = Branches \cup {b}
           /\ forks'[b] = [start |-> pending, sig |-> sig]
           /\ \A c \in DOMAIN forks : forks'[c] = forks[c]
           /\ pending \in States
<1> DEFINE f == [start |-> pending, sig |-> sig]
<1> DEFINE F == [start : Nat, sig : Sigs]
<1>1. pending \in States
  BY DEF Diverges, Typed, TypeOK
<1>2. f \in F
  BY <1>1 DEF States
<1>3. forks' = Append(forks, f) /\ branch' = Len(forks')
  BY DEF Diverges
<1>4. forks \in Seq(F)
  BY DEF Typed, TypeOK
<1>5. PICK b \in Nat : b = Len(forks) + 1 /\ b # 0 /\ b \notin Branches
  BY Shapes DEF Typed, Branches
<1> HIDE DEF f, F
<1>6. /\ forks' \in Seq(F) /\ Len(forks') = b /\ DOMAIN forks' = DOMAIN forks \cup {b}
      /\ forks'[b] = f
      /\ \A c \in DOMAIN forks : forks'[c] = forks[c]
  BY <1>2, <1>3, <1>4, <1>5, AppendFacts
<1>7. Branches' = Branches \cup {b}
  BY <1>5, <1>6, Shapes DEF Typed, Branches
<1> QED
  BY <1>1, <1>3, <1>5, <1>6, <1>7 DEF f, F

\* A step that has found its input state.
LEMMA BeginTyped ==
  ASSUME Typed, NEW t \in Threads, NEW sig \in Sigs, Begin(t, sig)
  PROVE  Typed'
<1> USE BranchingAssumption, Shapes DEF Typed, Begin, Takes, db
<1>0. States' = States /\ (UNCHANGED forks => Branches' = Branches) /\ UNCHANGED made
  BY DEF States, Branches
<1>a. ASSUME NEW s \in States, Takes(t, sig, s)
      PROVE  job' \in [Threads -> [sig : Sigs, input : States'] \cup {NoJob}]
  BY <1>0, <1>a DEF TypeOK
<1> HIDE DEF Takes
<1>1. CASE Appends(t, sig) /\ UNCHANGED readFaults
  <2>1. job' \in [Threads -> [sig : Sigs, input : States'] \cup {NoJob}]
    BY <1>1, <1>a DEF Appends, TypeOK
  <2> QED
    BY <1>0, <1>1, <2>1 DEF Appends, TypeOK, Closed
<1>2. CASE Rejoins(t, sig) /\ UNCHANGED readFaults
  <2>1. \A s : \A n \in Matches(s, sig) : n \in States /\ made[n].branch \in Branches
    BY DEF Matches, Children, TypeOK, Closed
  <2>2. job' \in [Threads -> [sig : Sigs, input : States'] \cup {NoJob}]
    BY <1>2, <1>a DEF Rejoins, TypeOK
  <2> QED
    BY <1>0, <1>2, <2>1, <2>2 DEF Rejoins, ReplayAfter, TypeOK, Closed
<1>3. CASE Diverges(t, sig) /\ UNCHANGED readFaults
  <2>1. PICK b \in Nat :
          /\ Len(forks') = b /\ branch' = b
          /\ forks' \in Seq([start : Nat, sig : Sigs])
          /\ DOMAIN forks' = DOMAIN forks \cup {b} /\ Branches' = Branches \cup {b}
          /\ forks'[b] = [start |-> pending, sig |-> sig]
          /\ \A c \in DOMAIN forks : forks'[c] = forks[c]
          /\ pending \in States
    BY <1>3, DivergesMakes
  <2>2. /\ current' = pending /\ pending' = NoState /\ Takes(t, sig, pending)
        /\ queue' = Queued(<<Row("branch", b)>>)
    BY <1>3, <2>1 DEF Diverges
  <2>3. /\ queue' \in Seq(Rows)
        /\ DOMAIN queue' = DOMAIN queue \cup {Len(queue) + 1}
        /\ \A i \in DOMAIN queue : queue'[i] = queue[i]
        /\ queue'[Len(queue) + 1] = Row("branch", b)
    <3>1. "branch" \in Kinds
      BY DEF Kinds
    <3> QED
      BY <2>2, <3>1, RowQueued
  <2>4. job' \in [Threads -> [sig : Sigs, input : States'] \cup {NoJob}]
    BY <2>1, <2>2, <1>a
  <2>5. TypeOK'
    BY <1>0, <1>3, <2>1, <2>2, <2>3, <2>4 DEF TypeOK, Rows, Kinds
  <2>6. Closed'
    BY SMTT(30), <1>0, <2>1, <2>3 DEF Closed, Row
  <2> QED
    BY <2>5, <2>6
<1>4. CASE Unresolved(t, sig)
  <2>1. job' \in [Threads -> [sig : Sigs, input : States'] \cup {NoJob}]
    BY <1>4, <1>a DEF Unresolved, TypeOK
  <2> QED
    BY <1>0, <1>4, <2>1 DEF Unresolved, TypeOK, Closed
<1> QED
  BY <1>1, <1>2, <1>3, <1>4

\* Any other step.
LEMMA NextTyped == Typed /\ [Next]_vars => Typed'
<1> SUFFICES ASSUME Typed, [Next]_vars PROVE Typed'
  OBVIOUS
<1> USE BranchingAssumption, Shapes DEF db, memory
<1>1. ASSUME NEW t \in Threads, TraceStep(t) \/ TraceUiStep(t) PROVE Typed'
  BY <1>1, BeginTyped DEF TraceStep, TraceUiStep, Sigs
<1>2. ASSUME NEW t \in Threads, Finish(t) PROVE Typed'
  <2>1. PICK n \in Nat :
          /\ Len(made') = n /\ current' = n
          /\ made' \in Seq([input : Nat, sig : Sigs, branch : Nat])
          /\ DOMAIN made' = DOMAIN made \cup {n} /\ States' = States \cup {n}
          /\ \A k \in DOMAIN made : made'[k] = made[k]
          /\ made'[n] = [input |-> job[t].input, sig |-> job[t].sig, branch |-> branch]
          /\ job[t].input \in States /\ branch \in Branches
    BY <1>2, FinishMakes
  <2>2. /\ UNCHANGED <<forks, branch, pending, db, restarts, readFaults>>
        /\ job' = [job EXCEPT ![t] = NoJob] /\ queue' = Queued(RowsOf(n))
    BY <1>2, <2>1 DEF Finish
  <2>3. /\ queue' \in Seq(Rows)
        /\ DOMAIN queue' = DOMAIN queue \cup {Len(queue) + 1, Len(queue) + 2, Len(queue) + 3}
        /\ \A i \in DOMAIN queue : queue'[i] = queue[i]
        /\ queue'[Len(queue) + 1] = Row("state", n)
        /\ queue'[Len(queue) + 2] = Row("step", n)
        /\ queue'[Len(queue) + 3] = Row("active", n)
    BY <2>2, StepQueued
  <2>4. Branches' = Branches
    BY <2>2 DEF Branches
  <2>5. job' \in [Threads -> [sig : Sigs, input : States'] \cup {NoJob}]
    BY <2>1, <2>2 DEF Typed, TypeOK
  <2>6. TypeOK'
    BY <2>1, <2>2, <2>3, <2>4, <2>5 DEF Typed, TypeOK, Rows, Kinds
  <2>7. \A k \in DOMAIN made' : made'[k].input \in States' /\ made'[k].branch \in Branches'
    BY SMTT(30), <2>1, <2>4 DEF Typed, Closed
  <2>8. \A i \in DOMAIN queue' :
          queue'[i].id \in CASE queue'[i].kind = "branch" -> Branches'
                             [] queue'[i].kind = "step" -> DOMAIN made'
                             [] OTHER -> States'
    <3> SUFFICES ASSUME NEW i \in DOMAIN queue'
                 PROVE  queue'[i].id \in CASE queue'[i].kind = "branch" -> Branches'
                                            [] queue'[i].kind = "step" -> DOMAIN made'
                                            [] OTHER -> States'
      OBVIOUS
    <3>1. CASE i \in DOMAIN queue
      BY <2>1, <2>3, <2>4, <3>1 DEF Typed, Closed
    <3>2. CASE queue'[i] = Row("state", n) \/ queue'[i] = Row("active", n)
      BY <2>1, <3>2 DEF Row
    <3>3. CASE queue'[i] = Row("step", n)
      BY <2>1, <3>3 DEF Row
    <3> QED
      BY <2>3, <3>1, <3>2, <3>3
  <2>9. \A b \in DOMAIN forks' : forks'[b].start \in States'
    BY <2>1, <2>2 DEF Typed, Closed
  <2>10. Closed'
    BY <2>7, <2>8, <2>9 DEF Closed
  <2> QED
    BY <2>6, <2>10 DEF Typed
<1>3. ASSUME NEW t \in Threads, Abandon(t) PROVE Typed'
  <2>1. States' = States /\ Branches' = Branches
    BY <1>3 DEF Abandon, States, Branches
  <2>2. TypeOK'
    BY <1>3, <2>1 DEF Abandon, Typed, TypeOK
  <2>3. Closed'
    BY <1>3, <2>1 DEF Abandon, Typed, Closed
  <2> QED
    BY <2>2, <2>3 DEF Typed
<1>4. ASSUME NEW t \in Threads, NEW s \in States, Checkout(t, s) PROVE Typed'
  <2>1. BranchOf(s) \in Branches /\ s \in Nat
    BY BranchTyped DEF States
  <2>2. queue' = Queued(<<Row("active", s)>>)
    BY <1>4 DEF Checkout
  <2>3. /\ queue' \in Seq(Rows)
        /\ \A i \in DOMAIN queue' : (i \in DOMAIN queue /\ queue'[i] = queue[i]) \/ queue'[i] = Row("active", s)
    BY <2>1, <2>2, RowQueued DEF Kinds
  <2>4. States' = States /\ Branches' = Branches
    BY <1>4 DEF Checkout, States, Branches
  <2>5. TypeOK'
    BY <1>4, <2>1, <2>3, <2>4 DEF Checkout, BranchAt, Typed, TypeOK, Rows, Kinds
  <2>6. Closed'
    BY SMTT(30), <1>4, <2>3, <2>4 DEF Checkout, Typed, Closed, Row
  <2> QED
    BY <2>5, <2>6 DEF Typed
<1>8. ASSUME NEW t \in Threads, NEW s \in States, CheckoutFails(t, s) PROVE Typed'
  <2>1. BranchOf(s) \in Branches
    BY BranchTyped
  <2>2. /\ UNCHANGED <<made, forks, pending, job, queue, db, restarts>>
        /\ branch' = BranchOf(s) /\ current' = s
        /\ readFaults' = readFaults + 1 /\ readFaults < MaxReadFaults
    BY <1>8 DEF CheckoutFails, BranchAt
  <2>3. TypeOK'
    BY <2>1, <2>2, BranchingAssumption DEF Typed, TypeOK, States, Branches, db
  <2>4. Closed'
    BY <2>2 DEF Typed, Closed, States, Branches
  <2> QED
    BY <2>3, <2>4 DEF Typed
<1>5. CASE Store
  <2>1. /\ queue' \in Seq(Rows) /\ DOMAIN queue' = 1..(Len(queue) - 1)
        /\ \A i \in DOMAIN queue' : i + 1 \in DOMAIN queue /\ queue'[i] = queue[i + 1]
        /\ Head(queue) = queue[1] /\ 1 \in DOMAIN queue
    BY <1>5, TailFacts DEF Store, Typed
  <2>2. States' = States /\ Branches' = Branches
    BY <1>5 DEF Store, States, Branches
  <2>3. queue[1].id \in CASE queue[1].kind = "branch" -> Branches
                          [] queue[1].kind = "step" -> DOMAIN made
                          [] OTHER -> States
    BY <2>1 DEF Typed, Closed
  <2>a. /\ dbStates' \subseteq States /\ dbSteps' \subseteq DOMAIN made
        /\ dbBranches' \subseteq Branches /\ dbActive' \in States
    BY <1>5, <2>1, <2>3 DEF Store, Typed, TypeOK
  <2>4. TypeOK'
    BY <1>5, <2>1, <2>2, <2>a DEF Store, memory, Typed, TypeOK, Rows, Kinds
  <2>5. Closed'
    BY <1>5, <2>1, <2>2 DEF Store, Typed, Closed
  <2> QED
    BY <2>4, <2>5 DEF Typed
<1>6. CASE Restart
  <2>1. dbActive \in States
    BY DEF Typed, TypeOK
  <2>2. BranchOf(dbActive) \in Branches
    BY <2>1, BranchTyped
  <2>3. States' = States /\ Branches' = Branches /\ queue' = <<>> /\ DOMAIN <<>> = {}
    BY <1>6 DEF Restart, States, Branches
  <2>4. TypeOK'
    BY <1>6, <2>1, <2>2, <2>3 DEF Restart, Typed, TypeOK
  <2>5. Closed'
    BY <1>6, <2>3 DEF Restart, Typed, Closed
  <2> QED
    BY <2>4, <2>5 DEF Typed
<1>7. CASE UNCHANGED vars
  BY <1>7 DEF vars, memory, db, Typed, TypeOK, Closed, States, Branches
<1> QED
  BY <1>1, <1>2, <1>3, <1>4, <1>5, <1>6, <1>7, <1>8 DEF Next

\* Every variable keeps its type.
THEOREM TypeCorrect == Spec => []TypeOK
<1>1. Typed => TypeOK
  BY DEF Typed
<1> QED
  BY <1>1, InitTyped, NextTyped, PTL DEF Spec

-----------------------------------------------------------------------------
(* The order of the rows *)

\* Rows of the database, active pointer aside; those it has once the first i - 1 of the
\* queue are stored; all there are.
Held     == {Row("state", s) : s \in dbStates} \cup {Row("step", s) : s \in dbSteps}
              \cup {Row("branch", b) : b \in dbBranches}
Ahead(i) == Held \cup {queue[j] : j \in 1..(i - 1)}
Have     == Held \cup {queue[j] : j \in DOMAIN queue}

StepOf(n) == IF n # 0 /\ Recorded(n) THEN {Row("step", n)} ELSE {}

\* What has to be stored before a row: a branch after the state where it starts, a state
\* after its branch, a step after its two states and the step before it, unless that is lost.
Needs(row) ==
  CASE row.kind = "branch" -> {Row("state", StartOf(row.id))}
    [] row.kind = "state"  -> {Row("branch", BranchOf(row.id))}
    [] row.kind = "step"   -> {Row("state", row.id), Row("state", made[row.id].input)}
                                \cup StepOf(made[row.id].input)
    [] row.kind = "active" -> {Row("state", row.id)} \cup StepOf(row.id)

\* The rows a model can name.
Made == {row \in Rows : row.id \in CASE row.kind = "branch" -> Branches
                                      [] row.kind = "step" -> DOMAIN made
                                      [] OTHER -> States}

StoredInOrder == \A row \in Held \cup {Row("active", dbActive)} : Needs(row) \subseteq Held
QueuedInOrder == \A i \in DOMAIN queue : Needs(queue[i]) \subseteq Ahead(i)
AtKnownState ==
  /\ Row("state", current) \in Have /\ Row("branch", branch) \in Have
  /\ pending # NoState => Row("state", pending) \in Have
  /\ \A t \in Threads : job[t] # NoJob => Row("state", job[t].input) \in Have
NoneLost == restarts = 0 => \A n \in DOMAIN made : Recorded(n)

Ordered == StoredInOrder /\ QueuedInOrder /\ AtKnownState /\ NoneLost

\* Rows are equal if they have the same kind and number.
LEMMA RowsEqual ==
  ASSUME NEW k, NEW l, NEW m, NEW n
  PROVE  /\ Row(k, m) = Row(l, n) <=> k = l /\ m = n
         /\ Row(k, m).kind = k /\ Row(k, m).id = m
  BY DEF Row

\* Rows that are held are those of the database.
LEMMA HeldIs ==
  /\ \A s : Row("state", s) \in Held <=> s \in dbStates
  /\ \A s : Row("step", s) \in Held <=> s \in dbSteps
  /\ \A b : Row("branch", b) \in Held <=> b \in dbBranches
  /\ \A s : Row("active", s) \notin Held
  BY RowsEqual DEF Held

\* A step is recorded if there is a row of it.
LEMMA RecordedIs == \A n : Recorded(n) <=> Row("step", n) \in Have
  BY HeldIs DEF Recorded, Have

\* Rows name what was made.
LEMMA HaveIsMade == Typed => Have \cup {Row("active", dbActive)} \subseteq Made
<1> SUFFICES ASSUME Typed PROVE Have \cup {Row("active", dbActive)} \subseteq Made
  OBVIOUS
<1>1. {queue[j] : j \in DOMAIN queue} \subseteq Made
  <2> SUFFICES ASSUME NEW j \in DOMAIN queue PROVE queue[j] \in Made
    OBVIOUS
  <2>1. queue[j] \in Rows
    BY Shapes DEF Typed
  <2> QED
    BY <2>1 DEF Typed, Closed, Made
<1>2. Held \subseteq Made
  BY SMTT(30) DEF Held, Made, Typed, TypeOK, Row, Rows, Kinds, States, Branches
<1>3. Row("active", dbActive) \in Made
  BY DEF Made, Typed, TypeOK, Row, Rows, Kinds, States
<1> QED
  BY <1>1, <1>2, <1>3 DEF Have

\* What a row needs is settled when it is queued, except that a step may be lost.
LEMMA NeedsStay ==
  ASSUME Typed, NEW row \in Made,
         \A n \in DOMAIN made : n \in DOMAIN made' /\ made'[n] = made[n],
         \A b \in DOMAIN forks : b \in DOMAIN forks' /\ forks'[b] = forks[b],
         \A n \in DOMAIN made : Recorded(n)' => Recorded(n)
  PROVE  Needs(row)' \subseteq Needs(row)
<1> USE Shapes DEF Typed, Closed
<1>1. \A n \in States : StepOf(n)' \subseteq StepOf(n) /\ BranchOf(n)' = BranchOf(n)
  BY DEF StepOf, States, BranchOf
<1>2. \A b \in Branches : StartOf(b)' = StartOf(b)
  BY DEF Branches, StartOf
<1>3. row.kind \in Kinds
  BY DEF Made, Rows
<1>a. CASE row.kind = "branch"
  BY <1>a, <1>2 DEF Made, Needs
<1>b. CASE row.kind = "state"
  BY <1>b, <1>1 DEF Made, Needs
<1>c. CASE row.kind = "step"
  BY <1>c, <1>1 DEF Made, Needs
<1>d. CASE row.kind = "active"
  BY <1>d, <1>1 DEF Made, Needs
<1> QED
  BY <1>3, <1>a, <1>b, <1>c, <1>d DEF Kinds

\* Rows put behind the others leave the order of the ones there are.
LEMMA OrderGrows ==
  ASSUME Typed, Ordered, UNCHANGED db,
         queue' \in Seq(Rows),
         \A i \in DOMAIN queue : i \in DOMAIN queue' /\ queue'[i] = queue[i],
         \A n \in DOMAIN made : n \in DOMAIN made' /\ made'[n] = made[n],
         \A b \in DOMAIN forks : b \in DOMAIN forks' /\ forks'[b] = forks[b],
         \A n \in DOMAIN made : Recorded(n)' => Recorded(n)
  PROVE  /\ Held' = Held /\ Have \subseteq Have'
         /\ StoredInOrder'
         /\ \A i \in DOMAIN queue : Needs(queue[i])' \subseteq Ahead(i)'
<1>1. Held' = Held /\ dbActive' = dbActive
  BY DEF Held, db
<1>2. Have \subseteq Have'
  BY <1>1 DEF Have
<1>3. \A row \in Have \cup {Row("active", dbActive)} : Needs(row)' \subseteq Needs(row)
  BY HaveIsMade, NeedsStay
<1>4. StoredInOrder'
  BY <1>1, <1>3 DEF StoredInOrder, Ordered, Have
<1>5. ASSUME NEW i \in DOMAIN queue PROVE Needs(queue[i])' \subseteq Ahead(i)'
  <2>1. PICK row \in Have : row = queue[i] /\ row = queue'[i]
    BY DEF Have
  <2>2. Needs(row)' \subseteq Needs(row)
    BY <1>3
  <2>3. Needs(queue[i])' = Needs(row)'
    BY <2>1 DEF Needs
  <2>5. Needs(row) = Needs(queue[i])
    BY <2>1
  <2>4. Ahead(i) \subseteq Ahead(i)'
    <3>1. \A j \in 1..(i - 1) : j \in DOMAIN queue
      BY Shapes DEF Typed
    <3> QED
      BY <1>1, <3>1 DEF Ahead
  <2> QED
    BY <2>2, <2>3, <2>4, <2>5 DEF Ordered, QueuedInOrder
<1> QED
  BY <1>1, <1>2, <1>4, <1>5

\* Initially nothing is queued and the root is stored with its branch.
LEMMA InitOrdered == Init => Ordered
<1> SUFFICES ASSUME Init PROVE Ordered
  OBVIOUS
<1> USE BranchingAssumption DEF Init
<1>1. DOMAIN queue = {} /\ DOMAIN made = {}
  OBVIOUS
<1>2. Held = {Row("state", 0), Row("branch", 0)}
  BY DEF Held
<1>3. StoredInOrder
  BY <1>2, RowsEqual DEF StoredInOrder, Needs, StepOf, StartOf, BranchOf
<1> QED
  BY <1>1, <1>2, <1>3 DEF Ordered, QueuedInOrder, AtKnownState, NoneLost, Have

\* What is known when nothing is queued but one row, that of a branch or of the pointer.
LEMMA OneRowOrdered ==
  ASSUME Typed, Ordered, UNCHANGED <<made, db>>,
         NEW k \in {"branch", "active"}, NEW n \in Nat, queue' = Queued(<<Row(k, n)>>),
         \A b \in DOMAIN forks : b \in DOMAIN forks' /\ forks'[b] = forks[b],
         Needs(Row(k, n))' \subseteq Have
  PROVE  /\ StoredInOrder' /\ QueuedInOrder' /\ Have' = Have \cup {Row(k, n)}
         /\ \A m : Recorded(m)' <=> Recorded(m)
<1>1. /\ queue' \in Seq(Rows)
      /\ DOMAIN queue' = DOMAIN queue \cup {Len(queue) + 1}
      /\ \A i \in DOMAIN queue : queue'[i] = queue[i]
      /\ queue'[Len(queue) + 1] = Row(k, n)
  BY RowQueued DEF Kinds
<1>2. \A m : Recorded(m)' <=> Recorded(m)
  BY <1>1, RowsEqual DEF Recorded, db
<1>3. /\ Held' = Held /\ Have \subseteq Have' /\ StoredInOrder'
      /\ \A i \in DOMAIN queue : Needs(queue[i])' \subseteq Ahead(i)'
  BY <1>1, <1>2, OrderGrows
<1>4. Have' = Have \cup {Row(k, n)}
  BY <1>1, <1>3 DEF Have
<1>5. PICK l \in Nat : l = Len(queue) /\ DOMAIN queue = 1..l
  BY Shapes DEF Typed
<1>6. Ahead(l + 1)' = Have
  <2>1. (l + 1) - 1 = l
    OBVIOUS
  <2> QED
    BY SMTT(30), <1>1, <1>3, <1>5, <2>1 DEF Ahead, Have
<1>7. QueuedInOrder'
  <2> SUFFICES ASSUME NEW i \in DOMAIN queue' PROVE Needs(queue[i])' \subseteq Ahead(i)'
    BY DEF QueuedInOrder
  <2>1. CASE i \in DOMAIN queue
    BY <1>3, <2>1
  <2>2. CASE i = l + 1
    <3>1. Needs(queue[i])' = Needs(Row(k, n))'
      BY <1>1, <1>5, <2>2 DEF Needs
    <3> QED
      BY <1>6, <2>2, <3>1
  <2> QED
    BY <1>1, <1>5, <2>1, <2>2
<1> QED
  BY <1>2, <1>3, <1>4, <1>7

\* A step that finds its input state keeps the order.
LEMMA BeginOrdered ==
  ASSUME Typed, Ordered, NEW t \in Threads, NEW sig \in Sigs, Begin(t, sig)
  PROVE  Ordered'
<1> USE BranchingAssumption DEF Ordered
<1>0. Typed' /\ UNCHANGED <<made, db, restarts>>
  BY BeginTyped DEF Begin
<1>a. ASSUME NEW s, Takes(t, sig, s), Row("state", s) \in Have, Have \subseteq Have'
      PROVE  \A u \in Threads : job'[u] # NoJob => Row("state", job'[u].input) \in Have'
  BY <1>a DEF Takes, AtKnownState, Typed, TypeOK
<1>b. ASSUME UNCHANGED <<forks, queue>>
      PROVE  /\ StoredInOrder' /\ QueuedInOrder' /\ NoneLost' /\ Have' = Have
  <2>1. Held' = Held /\ Have' = Have
    BY <1>0, <1>b DEF Held, Have, db
  <2>2. \A n : Recorded(n)' <=> Recorded(n)
    BY <1>0, <1>b DEF Recorded, db
  <2>3. StoredInOrder' /\ \A i \in DOMAIN queue : Needs(queue[i])' \subseteq Ahead(i)'
    BY <1>0, <1>b, <2>2, Shapes, OrderGrows DEF Typed
  <2> QED
    BY <1>0, <1>b, <2>1, <2>2, <2>3 DEF QueuedInOrder, NoneLost
<1>1. CASE Appends(t, sig)
  BY <1>1, <1>a, <1>b DEF Appends, AtKnownState
<1>2. CASE Rejoins(t, sig)
  <2>1. PICK n \in Matches(pending, sig) : branch' = made[n].branch /\ pending' = n
    BY <1>2 DEF Rejoins, ReplayAfter
  <2>2. n \in dbStates /\ n \in dbSteps /\ n \in DOMAIN made
    BY <2>1 DEF Matches, Children, Typed, TypeOK
  <2>3. Row("state", n) \in Held
    BY <2>2, HeldIs
  <2>4. Needs(Row("state", n)) \subseteq Held
    BY <2>3 DEF StoredInOrder
  <2>5. Row("branch", BranchOf(n)) \in Held
    BY <2>4, RowsEqual DEF Needs
  <2>6. BranchOf(n) = made[n].branch
    BY <2>2, Shapes DEF BranchOf, Typed
  <2> QED
    BY <1>2, <1>a, <1>b, <2>1, <2>3, <2>5, <2>6 DEF Rejoins, AtKnownState, Have
<1>3. CASE Diverges(t, sig)
  <2>1. PICK b \in Nat :
          /\ b # 0 /\ Len(forks') = b /\ branch' = b /\ DOMAIN forks' = DOMAIN forks \cup {b}
          /\ forks'[b] = [start |-> pending, sig |-> sig]
          /\ \A c \in DOMAIN forks : forks'[c] = forks[c]
    BY <1>3, DivergesMakes
  <2>2. \A c \in DOMAIN forks : c \in DOMAIN forks' /\ forks'[c] = forks[c]
    BY <2>1
  <2>3. queue' = Queued(<<Row("branch", b)>>) /\ current' = pending
        /\ pending' = NoState /\ Takes(t, sig, pending)
    BY <1>3, <2>1 DEF Diverges
  <2>4. Row("state", pending) \in Have
    BY <1>3 DEF Diverges, AtKnownState
  <2>5. StartOf(b)' = pending
    BY <2>1 DEF StartOf
  <2>6. Needs(Row("branch", b))' \subseteq Have
    BY <2>4, <2>5, RowsEqual DEF Needs
  <2>7. /\ StoredInOrder' /\ QueuedInOrder' /\ Have' = Have \cup {Row("branch", b)}
        /\ \A m : Recorded(m)' <=> Recorded(m)
    BY <1>0, <2>2, <2>3, <2>6, OneRowOrdered
  <2> QED
    BY <1>0, <1>a, <2>1, <2>3, <2>4, <2>7 DEF AtKnownState, NoneLost
<1>4. CASE Unresolved(t, sig)
  BY <1>4, <1>a, <1>b DEF Unresolved, AtKnownState
<1> QED
  BY <1>1, <1>2, <1>3, <1>4 DEF Begin

\* A recorded step puts its state, its step and the pointer behind what they need.
LEMMA FinishOrdered ==
  ASSUME Typed, Ordered, NEW t \in Threads, Finish(t)
  PROVE  Ordered'
<1> USE BranchingAssumption DEF Ordered
<1>0. Typed' /\ UNCHANGED <<forks, branch, pending, db, restarts>>
  BY NextTyped DEF Finish, Next
<1>1. PICK n \in Nat :
        /\ n # 0 /\ n \notin States /\ n \notin DOMAIN made /\ Len(made') = n /\ current' = n
        /\ DOMAIN made' = DOMAIN made \cup {n}
        /\ \A k \in DOMAIN made : made'[k] = made[k]
        /\ made'[n] = [input |-> job[t].input, sig |-> job[t].sig, branch |-> branch]
        /\ job[t].input \in States
  BY FinishMakes
<1>2. PICK l \in Nat : l = Len(queue) /\ DOMAIN queue = 1..l
  BY Shapes DEF Typed
<1>3. queue' = Queued(RowsOf(n))
  BY <1>1 DEF Finish
<1>4. /\ queue' \in Seq(Rows)
      /\ DOMAIN queue' = DOMAIN queue \cup {l + 1, l + 2, l + 3}
      /\ \A i \in DOMAIN queue : queue'[i] = queue[i]
      /\ queue'[l + 1] = Row("state", n)
      /\ queue'[l + 2] = Row("step", n)
      /\ queue'[l + 3] = Row("active", n)
  BY <1>2, <1>3, StepQueued
<1>5. \A k : Recorded(k)' <=> Recorded(k) \/ k = n
  BY <1>0, <1>4, RowsEqual DEF Recorded, db
<1>6. /\ Held' = Held /\ Have \subseteq Have' /\ StoredInOrder'
      /\ \A i \in DOMAIN queue : Needs(queue[i])' \subseteq Ahead(i)'
  BY <1>0, <1>1, <1>4, <1>5, OrderGrows
<1>7. /\ Have \subseteq Ahead(l + 1)'
      /\ Ahead(l + 2)' = Ahead(l + 1)' \cup {Row("state", n)}
       /\ Ahead(l + 3)' = Ahead(l + 2)' \cup {Row("step", n)}
       /\ Have' = Ahead(l + 3)' \cup {Row("active", n)}
  <2>1. /\ 1..((l + 1) - 1) = DOMAIN queue /\ 1..((l + 2) - 1) = DOMAIN queue \cup {l + 1}
        /\ 1..((l + 3) - 1) = DOMAIN queue \cup {l + 1, l + 2}
    BY <1>2
  <2>2. Have \subseteq Ahead(l + 1)'
    BY <1>4, <1>6, <2>1 DEF Ahead, Have
  <2>3. Ahead(l + 2)' = Ahead(l + 1)' \cup {Row("state", n)}
    BY <1>4, <2>1 DEF Ahead
  <2>4. Ahead(l + 3)' = Ahead(l + 2)' \cup {Row("step", n)}
    BY <1>4, <2>1 DEF Ahead
  <2>5. Have' = Ahead(l + 3)' \cup {Row("active", n)}
    BY <1>4, <2>1 DEF Ahead, Have
  <2> QED
    BY <2>2, <2>3, <2>4, <2>5
<1>8. Row("state", job[t].input) \in Have /\ Row("branch", branch) \in Have
  BY DEF Finish, AtKnownState
<1>9. QueuedInOrder'
  <2> SUFFICES ASSUME NEW i \in DOMAIN queue' PROVE Needs(queue[i])' \subseteq Ahead(i)'
    BY DEF QueuedInOrder
  <2>1. CASE i \in DOMAIN queue
    BY <1>6, <2>1
  <2>2. CASE i = l + 1
    <3>1. Needs(queue[i])' = {Row("branch", branch)}
      BY <1>0, <1>1, <1>4, <2>2, RowsEqual DEF Needs, BranchOf
    <3> QED
      BY <1>7, <1>8, <2>2, <3>1
  <2>3. CASE i = l + 2
    <3>1. PICK k : k = job[t].input
      OBVIOUS
    <3>2. Needs(queue[i])' = {Row("state", n), Row("state", k)} \cup StepOf(k)'
      BY <1>1, <1>4, <2>3, <3>1, RowsEqual DEF Needs, StepOf
    <3>3. StepOf(k)' \subseteq Have
      <4>1. k # n
        BY <1>1, <3>1
      <4> QED
        BY <1>5, <4>1, RecordedIs DEF StepOf
    <3> QED
      BY <1>7, <1>8, <2>3, <3>1, <3>2, <3>3
  <2>4. CASE i = l + 3
    <3>1. Needs(queue[i])' \subseteq {Row("state", n), Row("step", n)}
      BY <1>4, <2>4, RowsEqual DEF Needs, StepOf
    <3> QED
      BY <1>7, <2>4, <3>1
  <2> QED
    BY <1>4, <2>1, <2>2, <2>3, <2>4
<1>10. AtKnownState'
  <2>1. current' = n /\ job' = [job EXCEPT ![t] = NoJob]
    BY <1>1 DEF Finish
  <2>2. \A u \in Threads : job'[u] # NoJob => job'[u] = job[u] /\ job[u] # NoJob
    BY <2>1 DEF Typed, TypeOK
  <2> QED
    BY <1>0, <1>6, <1>7, <1>8, <2>1, <2>2 DEF AtKnownState
<1>11. NoneLost'
  BY <1>0, <1>1, <1>5 DEF NoneLost
<1> QED
  BY <1>6, <1>9, <1>10, <1>11

\* A checkout queues the pointer to a stored state.
LEMMA CheckoutOrdered ==
  ASSUME Typed, Ordered, NEW t \in Threads, NEW s \in States, Checkout(t, s)
  PROVE  Ordered'
<1> USE DEF Ordered
<1>1. /\ UNCHANGED <<made, forks, job, db, restarts>> /\ s \in dbStates /\ s \in Nat
      /\ current' = s /\ pending' = s /\ branch' = BranchOf(s)
      /\ queue' = Queued(<<Row("active", s)>>)
  BY Shapes DEF Checkout, BranchAt, Typed, States
<1>2. Row("state", s) \in Held /\ Row("branch", BranchOf(s)) \in Held
  <2>1. Row("state", s) \in Held
    BY <1>1, HeldIs
  <2> QED
    BY <2>1, RowsEqual DEF StoredInOrder, Needs
<1>3. \A m : Recorded(m)' <=> Recorded(m)
  BY <1>1, RowQueued, RowsEqual DEF Recorded, db, Kinds
<1>4. Needs(Row("active", s))' \subseteq Have
  <2>1. StepOf(s)' \subseteq Have
    BY <1>3, RecordedIs DEF StepOf
  <2> QED
    BY <1>2, <2>1, RowsEqual DEF Needs, StepOf, Have
<1>5. /\ StoredInOrder' /\ QueuedInOrder' /\ Have' = Have \cup {Row("active", s)}
  BY <1>1, <1>4, OneRowOrdered
<1> QED
  BY <1>1, <1>2, <1>3, <1>5 DEF AtKnownState, NoneLost, Have

\* The oldest row is stored after all it needs.
LEMMA StoreOrdered ==
  ASSUME Typed, Ordered, Store
  PROVE  Ordered'
<1> USE DEF Ordered
<1>1. /\ queue' \in Seq(Rows) /\ DOMAIN queue' = 1..(Len(queue) - 1)
      /\ \A i \in DOMAIN queue' : i + 1 \in DOMAIN queue /\ queue'[i] = queue[i + 1]
      /\ Head(queue) = queue[1] /\ 1 \in DOMAIN queue
      /\ DOMAIN queue = 1..Len(queue) /\ Len(queue) \in Nat
  BY TailFacts, Shapes DEF Store, Typed
<1>2. PICK first \in Rows : first = queue[1]
  BY <1>1, Shapes DEF Typed
<1>3. UNCHANGED <<made, forks, memory, restarts>>
  BY DEF Store
<1>4. Held' = IF first.kind = "active" THEN Held ELSE Held \cup {first}
  <2>1. first = Row(first.kind, first.id) /\ first.kind \in Kinds
    BY DEF Row, Rows
  <2>2. Head(queue) = first
    BY <1>1, <1>2
  <2> QED
    BY <2>1, <2>2 DEF Store, Held, Kinds
<1>5. dbActive' = IF first.kind = "active" THEN first.id ELSE dbActive
  BY <1>1, <1>2 DEF Store
<1>6. Needs(first) \subseteq Held
  <2>1. Ahead(1) = Held
    BY DEF Ahead
  <2> QED
    BY <1>1, <1>2, <2>1 DEF QueuedInOrder
<1>7. \A i \in DOMAIN queue : i = 1 \/ i - 1 \in DOMAIN queue'
  BY <1>1
<1>8. \A row \in Have : row.kind # "active" => row \in Have'
  BY <1>1, <1>2, <1>4, <1>7 DEF Have
<1>9. \A m : Recorded(m)' <=> Recorded(m)
  <2>0. \A m : Recorded(m)' <=> Row("step", m) \in Have'
    BY RowsEqual DEF Recorded, Have, Held
  <2>1. \A m : Recorded(m) => Recorded(m)'
    BY <1>8, <2>0, RecordedIs, RowsEqual
  <2>2. Held' \subseteq Have /\ Have' \subseteq Have
    BY <1>1, <1>2, <1>4 DEF Have
  <2> QED
    BY <2>0, <2>1, <2>2, RecordedIs
<1>10. \A row \in Made : Needs(row)' \subseteq Needs(row)
  BY <1>3, <1>9, NeedsStay
<1>11. StoredInOrder'
  <2>1. first \in Have /\ Held \subseteq Have
    BY <1>1, <1>2 DEF Have
  <2>2. \A row \in Held' \cup {Row("active", dbActive')} :
          Needs(row) \subseteq Held /\ row \in Made
    <3>1. first.kind = "active" => first = Row("active", dbActive')
      BY <1>5 DEF Row, Rows
    <3>2. first.kind # "active" => dbActive' = dbActive
      BY <1>5
    <3> QED
      BY <1>4, <1>6, <2>1, <3>1, <3>2, HaveIsMade DEF StoredInOrder
  <2>3. Held \subseteq Held'
    BY <1>4
  <2> QED
    BY <1>10, <2>2, <2>3 DEF StoredInOrder
<1>12. QueuedInOrder'
  <2> SUFFICES ASSUME NEW i \in DOMAIN queue' PROVE Needs(queue[i])' \subseteq Ahead(i)'
    BY DEF QueuedInOrder
  <2>1. PICK row \in Have : row = queue'[i] /\ row = queue[i + 1]
    BY <1>1 DEF Have
  <2>2. Needs(row)' \subseteq Ahead(i + 1)
    <3>1. Needs(row) \subseteq Ahead(i + 1)
      BY <1>1, <2>1 DEF QueuedInOrder
    <3> QED
      BY <1>10, <2>1, <3>1, HaveIsMade
  <2>3. \A r \in Ahead(i + 1) : r.kind # "active" => r \in Ahead(i)'
    <3>1. \A j \in 1..((i + 1) - 1) : j = 1 \/ (j - 1 \in 1..(i - 1) /\ queue'[j - 1] = queue[j])
      BY <1>1
    <3> QED
      BY <1>2, <1>4, <3>1 DEF Ahead
  <2>4. \A r \in Needs(row)' : r.kind # "active"
    <3>1. row.kind \in Kinds
      BY <2>1, HaveIsMade DEF Made, Rows
    <3> QED
      BY <3>1, RowsEqual DEF Needs, StepOf, Kinds
  <2>5. Needs(queue[i])' = Needs(row)'
    BY <2>1 DEF Needs
  <2> QED
    BY <2>2, <2>3, <2>4, <2>5
<1>13. AtKnownState' /\ NoneLost'
  BY <1>3, <1>8, <1>9, RowsEqual DEF AtKnownState, NoneLost, memory
<1> QED
  BY <1>11, <1>12, <1>13

\* What is stored is in order when the queue is lost.
LEMMA RestartOrdered ==
  ASSUME Typed, Ordered, Restart
  PROVE  Ordered'
<1> USE DEF Ordered
<1>1. /\ UNCHANGED <<made, forks, db>> /\ queue' = <<>> /\ DOMAIN queue' = {}
      /\ current' = dbActive /\ branch' = BranchOf(dbActive) /\ pending' = NoState
      /\ job' = [t \in Threads |-> NoJob] /\ restarts' = restarts + 1 /\ restarts \in Nat
  BY BranchingAssumption DEF Restart, Typed, TypeOK
<1>2. Held' = Held /\ dbActive' = dbActive /\ Have' = Held
  BY <1>1 DEF Held, Have, db
<1>3. \A m : Recorded(m)' => Recorded(m)
  BY <1>1 DEF Recorded, db
<1>4. \A row \in Made : Needs(row)' \subseteq Needs(row)
  BY <1>1, <1>3, NeedsStay
<1>5. StoredInOrder'
  BY <1>2, <1>4, HaveIsMade DEF StoredInOrder, Have
<1>6. Row("state", dbActive) \in Held
  BY RowsEqual DEF StoredInOrder, Needs
<1>7. Row("branch", BranchOf(dbActive)) \in Held
  BY <1>6, RowsEqual DEF StoredInOrder, Needs
<1> QED
  BY <1>1, <1>2, <1>5, <1>6, <1>7 DEF QueuedInOrder, AtKnownState, NoneLost

\* The order is kept by every step.
LEMMA NextOrdered == Typed /\ Ordered /\ [Next]_vars => Ordered'
<1> SUFFICES ASSUME Typed, Ordered, [Next]_vars PROVE Ordered'
  OBVIOUS
<1>1. ASSUME NEW t \in Threads, Abandon(t) PROVE Ordered'
  <2>1. UNCHANGED <<made, forks, current, branch, pending, queue, db, restarts>>
        /\ \A u \in Threads : job'[u] # NoJob => job'[u] = job[u]
    BY <1>1 DEF Abandon, Typed, TypeOK
  <2>2. Held' = Held /\ Have' = Have /\ (\A m : Recorded(m)' <=> Recorded(m))
    BY <2>1 DEF Held, Have, Recorded, db
  <2>3. StoredInOrder' /\ \A i \in DOMAIN queue : Needs(queue[i])' \subseteq Ahead(i)'
    BY <2>1, <2>2, OrderGrows, Shapes DEF Typed
  <2> QED
    BY <2>1, <2>2, <2>3 DEF Ordered, QueuedInOrder, AtKnownState, NoneLost
<1>3. ASSUME NEW t \in Threads, NEW s \in States, CheckoutFails(t, s) PROVE Ordered'
  <2>1. /\ UNCHANGED <<made, forks, pending, job, queue, db, restarts>>
        /\ branch' = BranchOf(s) /\ current' = s /\ s \in dbStates
    BY <1>3 DEF CheckoutFails, BranchAt
  <2>2. Held' = Held /\ Have' = Have /\ (\A m : Recorded(m)' <=> Recorded(m))
    BY <2>1 DEF Held, Have, Recorded, db
  <2>3. StoredInOrder' /\ \A i \in DOMAIN queue : Needs(queue[i])' \subseteq Ahead(i)'
    BY <2>1, <2>2, OrderGrows, Shapes DEF Typed
  <2>4. Row("state", s) \in Held
    BY <2>1, HeldIs
  <2>5. Row("branch", BranchOf(s)) \in Held
    BY <2>4, RowsEqual DEF Ordered, StoredInOrder, Needs
  <2>6. Row("state", s) \in Have /\ Row("branch", BranchOf(s)) \in Have
    BY <2>4, <2>5 DEF Have
  <2> QED
    BY <2>1, <2>2, <2>3, <2>6 DEF Ordered, QueuedInOrder, AtKnownState, NoneLost
<1>2. CASE UNCHANGED vars
  <2>1. UNCHANGED <<made, forks, current, branch, pending, job, queue, db, restarts>>
    BY <1>2 DEF vars, memory
  <2>2. Held' = Held /\ Have' = Have /\ (\A m : Recorded(m)' <=> Recorded(m))
    BY <2>1 DEF Held, Have, Recorded, db
  <2>3. StoredInOrder' /\ \A i \in DOMAIN queue : Needs(queue[i])' \subseteq Ahead(i)'
    BY <2>1, <2>2, OrderGrows, Shapes DEF Typed
  <2> QED
    BY <2>1, <2>2, <2>3 DEF Ordered, QueuedInOrder, AtKnownState, NoneLost
<1> QED
  BY <1>1, <1>2, <1>3, BeginOrdered, FinishOrdered, CheckoutOrdered, StoreOrdered, RestartOrdered
  DEF Next, TraceStep, TraceUiStep, Sigs

\* Types and order hold in every reachable state.
THEOREM Invariance == Spec => [](Typed /\ Ordered)
<1>1. Init => Typed /\ Ordered
  BY InitTyped, InitOrdered
<1>2. (Typed /\ Ordered) /\ [Next]_vars => (Typed /\ Ordered)'
  BY NextTyped, NextOrdered
<1> QED
  BY <1>1, <1>2, PTL DEF Spec

\* However a process ends, a new one can resume the history.
THEOREM ResumableHolds == Spec => []Resumable
<1>1. Typed /\ Ordered => Resumable
  <2> SUFFICES ASSUME Typed, Ordered PROVE Resumable
    OBVIOUS
  <2>1. Needs(Row("active", dbActive)) \subseteq Held
    BY DEF Ordered, StoredInOrder
  <2>2. Row("state", dbActive) \in Held /\ StepOf(dbActive) \subseteq Held
    BY <2>1, RowsEqual DEF Needs
  <2>3. Row("branch", BranchOf(dbActive)) \in Held
    BY <2>2, RowsEqual DEF Ordered, StoredInOrder, Needs
  <2>4. Row("state", StartOf(BranchOf(dbActive))) \in Held
    BY <2>3, RowsEqual DEF Ordered, StoredInOrder, Needs
  <2>5. restarts = 0 => dbActive \in dbSteps \cup {0}
    <3>1. dbActive = 0 \/ dbActive \in DOMAIN made
      BY Shapes DEF Typed, TypeOK, States
    <3> QED
      BY <2>2, <3>1, HeldIs DEF StepOf, Ordered, NoneLost
  <2> QED
    BY <2>2, <2>3, <2>4, <2>5, HeldIs DEF Resumable, CanResume
<1> QED
  BY <1>1, Invariance, PTL

\* No stored step hangs in the air, unless a crash took the one before it.
THEOREM ChainStoredHolds == Spec => []ChainStored
<1>1. Typed /\ Ordered => ChainStored
  <2> SUFFICES ASSUME Typed, Ordered, NEW n \in dbSteps
               PROVE  /\ made[n].input \in dbStates
                      /\ made[n].input \in dbSteps \cup {0}
                         \/ (restarts > 0 /\ ~Recorded(made[n].input))
    BY DEF ChainStored
  <2>1. Row("step", n) \in Held
    BY HeldIs
  <2>2. Row("state", made[n].input) \in Held /\ StepOf(made[n].input) \subseteq Held
    BY <2>1, RowsEqual DEF Ordered, StoredInOrder, Needs
  <2>3. restarts = 0 => made[n].input = 0 \/ Recorded(made[n].input)
    <3>1. made[n].input \in States
      BY DEF Typed, TypeOK, Closed
    <3> QED
      BY <3>1, Shapes DEF Ordered, NoneLost, Typed, States
  <2>4. restarts \in Nat
    BY BranchingAssumption DEF Typed, TypeOK
  <2> QED
    BY <2>2, <2>3, <2>4, HeldIs DEF StepOf
<1> QED
  BY <1>1, Invariance, PTL

-----------------------------------------------------------------------------
(* Forks, lines and replays *)

\* The stored step that a replay rejoins.
LEMMA RejoinsFinds ==
  ASSUME Typed, NEW t \in Threads, NEW sig \in Sigs, Rejoins(t, sig)
  PROVE  /\ pending # NoState /\ pending' \in DOMAIN made /\ pending' # NoState
         /\ made[pending'].input = pending /\ made[pending'].sig = sig
         /\ made[pending'].branch = branch'
  BY BranchingAssumption, Shapes
  DEF Rejoins, Matches, Children, ReplayAfter, Typed, TypeOK, States

\* A step that starts from s belongs on branch b.
Continues(s, b) == BranchOf(s) = b \/ StartOf(b) = s

\* The branch the tracker is on continues the state a step starts from, and the current
\* state unless a replay has moved on while its step is in progress or was given up.
OnLine ==
  /\ LineageConnected
  /\ \A t \in Threads : job[t] # NoJob => Continues(job[t].input, branch)
  /\ pending = NoState \/ (InProgress = {} /\ readFaults = 0) => Continues(current, branch)

\* With one thread the line is kept as long as one read fails at most.
LEMMA NextOnLine ==
  ASSUME NEW me, Threads = {me}, MaxReadFaults <= 1,
         Typed, OnLine, [Next]_vars
  PROVE  OnLine'
<1> USE BranchingAssumption, Shapes DEF OnLine
<1>0. readFaults \in 0..1 /\ (InProgress = {} <=> job[me] = NoJob)
      /\ (InProgress' = {} <=> job'[me] = NoJob) /\ job = [t \in Threads |-> job[t]]
  BY DEF Typed, TypeOK, InProgress
<1>a. ASSUME UNCHANGED <<made, forks>>
      PROVE  /\ LineageConnected' /\ \A s, b : Continues(s, b)' <=> Continues(s, b)
  BY <1>a DEF LineageConnected, Continues, BranchOf, StartOf
<1>1. ASSUME NEW sig \in Sigs, Begin(me, sig) PROVE OnLine'
  <2>0. UNCHANGED <<made>> /\ job[me] = NoJob
    BY <1>1 DEF Begin, MayCall
  <2>a. ASSUME NEW s, Takes(me, sig, s) PROVE job'[me].input = s
    BY <1>0, <2>a DEF Takes
  <2>b. ASSUME NEW s \in States, Takes(me, sig, s) PROVE job'[me] # NoJob
    BY <1>0, <2>b DEF Takes, NoJob, States
  <2>1. CASE Appends(me, sig)
    BY <1>a, <2>0, <2>1, <2>a DEF Appends
  <2>2. CASE Rejoins(me, sig)
    <3>1. /\ pending' \in DOMAIN made /\ pending' # NoState
          /\ made[pending'].input = pending /\ made[pending'].branch = branch'
      BY <2>2, RejoinsFinds
    <3>2. Continues(pending, branch')
      BY <3>1 DEF LineageConnected, Continues
    <3>3. Takes(me, sig, pending) /\ UNCHANGED forks /\ pending \in States
      BY <2>2 DEF Rejoins, Typed, TypeOK
    <3> QED
      BY <1>0, <1>a, <2>0, <2>a, <2>b, <3>1, <3>2, <3>3
  <2>3. CASE Diverges(me, sig)
    <3>1. PICK b \in Nat :
            /\ b # 0 /\ b \notin Branches /\ branch' = b
            /\ DOMAIN forks' = DOMAIN forks \cup {b}
            /\ forks'[b] = [start |-> pending, sig |-> sig]
            /\ \A c \in DOMAIN forks : forks'[c] = forks[c]
      BY <2>3, DivergesMakes
    <3>2. Takes(me, sig, pending) /\ pending \in States /\ current' = pending
      BY <2>3 DEF Diverges, Typed, TypeOK
    <3>3. \A s : BranchOf(s)' = BranchOf(s)
      BY <2>0 DEF BranchOf
    <3>4. \A c \in Branches : StartOf(c)' = StartOf(c)
      BY <3>1 DEF StartOf, Branches, Typed
    <3>5. LineageConnected'
      BY <2>0, <3>3, <3>4 DEF LineageConnected, Typed, Closed
    <3>6. PICK p : p = pending
      OBVIOUS
    <3>7. StartOf(b)' = p
      BY <3>1, <3>6 DEF StartOf
    <3> QED
      BY <2>a, <3>1, <3>2, <3>5, <3>6, <3>7 DEF Continues
  <2>4. CASE Unresolved(me, sig)
    <3>1. Takes(me, sig, current) /\ current \in States /\ pending # NoState /\ readFaults = 0
          /\ UNCHANGED <<current, branch, pending, forks>>
      BY <1>0, <2>4 DEF Unresolved, Typed, TypeOK
    <3>2. Continues(current, branch)
      BY <1>0, <2>0, <3>1
    <3> QED
      BY <1>0, <1>a, <2>0, <2>a, <2>b, <3>1, <3>2
  <2> QED
    BY <1>1, <2>1, <2>2, <2>3, <2>4 DEF Begin
<1>2. CASE Finish(me)
  <2>1. PICK n \in Nat :
          /\ n # 0 /\ n \notin States /\ DOMAIN made' = DOMAIN made \cup {n} /\ current' = n
          /\ \A k \in DOMAIN made : made'[k] = made[k]
          /\ made'[n] = [input |-> job[me].input, sig |-> job[me].sig, branch |-> branch]
          /\ job[me].input \in States
    BY <1>2, FinishMakes
  <2>2. UNCHANGED <<forks, branch, pending>> /\ job' = [job EXCEPT ![me] = NoJob] /\ job[me] # NoJob
    BY <1>2 DEF Finish
  <2>3. \A s \in States : BranchOf(s)' = BranchOf(s)
    BY <2>1 DEF BranchOf, Typed, States
  <2>4. \A b : StartOf(b)' = StartOf(b)
    BY <2>2 DEF StartOf
  <2>5. BranchOf(n)' = branch
    BY <2>1 DEF BranchOf
  <2>6. LineageConnected'
    <3>1. \A k \in DOMAIN made : \/ BranchOf(made[k].input) = made[k].branch
                                 \/ StartOf(made[k].branch) = made[k].input
      BY DEF LineageConnected
    <3>2. \A k \in DOMAIN made : made[k].input \in States
      BY DEF Typed, Closed
    <3>3. BranchOf(job[me].input) = branch \/ StartOf(branch) = job[me].input
      BY <2>2 DEF Continues
    <3>4. PICK s \in States : s = job[me].input
      BY <2>1
    <3>5. PICK b : b = branch
      OBVIOUS
    <3>6. made'[n].input = s /\ made'[n].branch = b
      BY <2>1, <3>4, <3>5
    <3>7. BranchOf(s)' = b \/ StartOf(b)' = s
      BY <2>3, <2>4, <3>3, <3>4, <3>5
    <3>8. ASSUME NEW k \in DOMAIN made'
          PROVE  (BranchOf(made[k].input) = made[k].branch \/ StartOf(made[k].branch) = made[k].input)'
      <4>1. CASE k = n
        BY <3>6, <3>7, <4>1 DEF BranchOf, StartOf
      <4>2. CASE k \in DOMAIN made
        <5>1. PICK u, c : u \in States /\ u = made[k].input /\ c = made[k].branch
          BY <3>2, <4>2
        <5>2. BranchOf(u)' = c \/ StartOf(c)' = u
          BY <2>3, <2>4, <3>1, <4>2, <5>1
        <5>3. made'[k].input = u /\ made'[k].branch = c
          BY <2>1, <4>2, <5>1
        <5> QED
          BY <5>2, <5>3 DEF BranchOf, StartOf
      <4> QED
        BY <2>1, <4>1, <4>2
    <3> QED
      BY <3>8 DEF LineageConnected
  <2>7. Continues(current, branch)'
    BY <2>1, <2>2, <2>5 DEF Continues, BranchOf
  <2>8. \A t \in Threads : job'[t] = NoJob
    BY <1>0, <2>2
  <2> QED
    BY <2>6, <2>7, <2>8
<1>3. CASE Abandon(me)
  <2>1. UNCHANGED <<made, forks, current, branch, pending>> /\ readFaults' # 0
        /\ job' = [job EXCEPT ![me] = NoJob]
    BY <1>0, <1>3 DEF Abandon
  <2> QED
    BY <1>0, <1>a, <2>1
<1>4. ASSUME NEW s \in States, Checkout(me, s) PROVE OnLine'
  <2>1. /\ UNCHANGED <<made, forks, job>> /\ branch' = BranchOf(s) /\ current' = s
        /\ pending' = s /\ job[me] = NoJob
    BY <1>4 DEF Checkout, BranchAt, MayCall
  <2>2. Continues(s, BranchOf(s))
    BY DEF Continues
  <2> QED
    BY <1>0, <1>a, <2>1, <2>2
<1>7. ASSUME NEW s \in States, CheckoutFails(me, s) PROVE OnLine'
  <2>1. /\ UNCHANGED <<made, forks, job>> /\ branch' = BranchOf(s) /\ current' = s
        /\ job[me] = NoJob
    BY <1>7 DEF CheckoutFails, BranchAt, MayCall
  <2>2. Continues(s, BranchOf(s))
    BY DEF Continues
  <2> QED
    BY <1>0, <1>a, <2>1, <2>2
<1>5. CASE Restart
  <2>1. /\ UNCHANGED <<made, forks>> /\ branch' = BranchOf(dbActive) /\ current' = dbActive
        /\ pending' = NoState /\ job' = [t \in Threads |-> NoJob]
    BY <1>5 DEF Restart
  <2>2. Continues(dbActive, BranchOf(dbActive))
    BY DEF Continues
  <2> QED
    BY <1>a, <2>1, <2>2
<1>6. CASE Store \/ UNCHANGED vars
  <2>1. UNCHANGED <<made, forks, current, branch, pending, job, readFaults>>
    BY <1>6 DEF Store, memory, vars
  <2>2. InProgress' = InProgress
    BY <2>1 DEF InProgress
  <2> QED
    BY <1>a, <2>1, <2>2
<1> QED
  BY <1>1, <1>2, <1>3, <1>4, <1>5, <1>6, <1>7 DEF Next, TraceStep, TraceUiStep, Sigs

\* The state a state is derived from is on its branch or the start of it.
THEOREM LineageConnectedHolds ==
  ASSUME NEW CONSTANT me, Threads = {me}, MaxReadFaults <= 1
  PROVE  Spec => []LineageConnected
<1>1. Init => OnLine
  BY DEF Init, OnLine, LineageConnected, Continues, BranchOf
<1>2. Typed /\ OnLine /\ [Next]_vars => OnLine'
  BY NextOnLine
<1>3. OnLine => LineageConnected
  BY DEF OnLine
<1> QED
  BY <1>1, <1>2, <1>3, Invariance, PTL DEF Spec

\* The stored step that a replay has come to is the one its step repeats: while that is
\* recorded, and once it is the current state.
Shadows ==
  readFaults = 0 /\ pending # NoState =>
    /\ \A t \in Threads : job[t] # NoJob =>
         /\ pending \in DOMAIN made
         /\ made[pending].input = job[t].input /\ made[pending].sig = job[t].sig
         /\ made[pending].branch = branch
    /\ InProgress = {} =>
         \/ pending = current
         \/ /\ pending \in DOMAIN made /\ current \in DOMAIN made
            /\ made[pending] = made[current]

\* With one thread a replay shadows what it repeats.
LEMMA NextShadows ==
  ASSUME NEW me, Threads = {me}, Typed, Shadows, [Next]_vars
  PROVE  Shadows'
<1> USE BranchingAssumption, Shapes
<1>0. /\ (InProgress = {} <=> job[me] = NoJob) /\ (InProgress' = {} <=> job'[me] = NoJob)
      /\ \A t \in Threads : t = me
      /\ readFaults \in Nat
  BY DEF Typed, TypeOK, InProgress
<1>1. ASSUME NEW sig \in Sigs, Begin(me, sig) PROVE Shadows'
  <2>0. UNCHANGED made /\ job[me] = NoJob
    BY <1>1 DEF Begin, MayCall
  <2>a. ASSUME NEW s \in States, Takes(me, sig, s)
        PROVE job'[me] # NoJob /\ job'[me].input = s /\ job'[me].sig = sig
    BY <2>a DEF Takes, NoJob, States, Typed, TypeOK
  <2>1. CASE Appends(me, sig)
    BY <2>1 DEF Appends, Shadows
  <2>2. CASE Rejoins(me, sig)
    <3>1. /\ pending' \in DOMAIN made
          /\ made[pending'].input = pending /\ made[pending'].sig = sig
          /\ made[pending'].branch = branch'
      BY <2>2, RejoinsFinds
    <3>2. Takes(me, sig, pending) /\ pending \in States
      BY <2>2 DEF Rejoins, Typed, TypeOK
    <3> QED
      BY <1>0, <2>0, <2>a, <3>1, <3>2 DEF Shadows
  <2>3. CASE Diverges(me, sig)
    BY <2>3 DEF Diverges, Shadows
  <2>4. CASE Unresolved(me, sig)
    BY <1>0, <2>4 DEF Unresolved, Shadows
  <2> QED
    BY <1>1, <2>1, <2>2, <2>3, <2>4 DEF Begin
<1>2. CASE Finish(me)
  <2>1. PICK n \in Nat :
          /\ n # 0 /\ n \notin States /\ DOMAIN made' = DOMAIN made \cup {n} /\ current' = n
          /\ \A k \in DOMAIN made : made'[k] = made[k]
          /\ made'[n] = [input |-> job[me].input, sig |-> job[me].sig, branch |-> branch]
          /\ job[me].input \in States
    BY <1>2, FinishMakes
  <2>2. UNCHANGED <<pending, branch, readFaults>> /\ job[me] # NoJob /\ job'[me] = NoJob
    BY <1>2 DEF Finish, Typed, TypeOK
  <2>3. ASSUME readFaults = 0, pending # NoState
        PROVE  pending \in DOMAIN made /\ made'[pending] = made'[n]
    <3>1. /\ pending \in DOMAIN made
          /\ made[pending].input = job[me].input /\ made[pending].sig = job[me].sig
          /\ made[pending].branch = branch
      BY <2>2, <2>3 DEF Shadows
    <3>2. made[pending] \in [input : Nat, sig : Sigs, branch : Nat]
      <4> DEFINE R == [input : Nat, sig : Sigs, branch : Nat]
      <4>1. made \in Seq(R)
        BY DEF Typed, TypeOK
      <4> HIDE DEF R
      <4>2. made[pending] \in R
        BY <3>1, <4>1
      <4> QED
        BY <4>2 DEF R
    <3>3. made[pending] = [input |-> made[pending].input, sig |-> made[pending].sig,
                           branch |-> made[pending].branch]
      BY <3>2
    <3> QED
      BY <2>1, <3>1, <3>3
  <2> QED
    BY <1>0, <2>1, <2>2, <2>3 DEF Shadows
<1>3. CASE Abandon(me)
  BY <1>0, <1>3 DEF Abandon, Shadows
<1>4. ASSUME NEW s \in States, Checkout(me, s) PROVE Shadows'
  BY <1>0, <1>4 DEF Checkout, MayCall, Shadows
<1>7. ASSUME NEW s \in States, CheckoutFails(me, s) PROVE Shadows'
  <2>1. readFaults' # 0
    BY <1>7 DEF CheckoutFails, Typed, TypeOK
  <2> QED
    BY <2>1 DEF Shadows
<1>5. CASE Restart
  BY <1>5 DEF Restart, Shadows
<1>6. CASE Store \/ UNCHANGED vars
  BY <1>6 DEF Store, memory, vars, Shadows, InProgress
<1> QED
  BY <1>1, <1>2, <1>3, <1>4, <1>5, <1>6, <1>7 DEF Next, TraceStep, TraceUiStep, Sigs

\* The replay position is where the tracker is, or the stored step it repeated last.
THEOREM ReplayShadowsHolds ==
  ASSUME NEW CONSTANT me, Threads = {me}
  PROVE  Spec => []ReplayShadows
<1>1. Init => Shadows
  BY DEF Init, Shadows
<1>2. Typed /\ Shadows /\ [Next]_vars => Shadows'
  BY NextShadows
<1>3. Typed /\ Shadows => ReplayShadows
  BY Shapes DEF Typed, Shadows, ReplayShadows
<1> QED
  BY <1>1, <1>2, <1>3, Invariance, PTL DEF Spec

\* The step that will be recorded next repeats one that is there, or nothing on its branch
\* starts from its input state.
NothingFollows(s, b) == \A n \in DOMAIN made : ~(made[n].input = s /\ made[n].branch = b)
Diverging ==
  /\ readFaults = 0 /\ restarts = 0
  /\ \A m, n \in DOMAIN made :
       made[m].input = made[n].input /\ made[m].branch = made[n].branch => made[m].sig = made[n].sig
  /\ pending = NoState =>
       /\ InProgress = {} => NothingFollows(current, branch)
       /\ \A t \in Threads : job[t] # NoJob => NothingFollows(job[t].input, branch)

\* With one thread, and nothing that fails, what differs is on different branches.
LEMMA NextDiverging ==
  ASSUME NEW me, Threads = {me}, MaxReadFaults = 0, MaxRestarts = 0,
         Typed, Shadows, Diverging, [Next]_vars
  PROVE  Diverging'
<1> USE BranchingAssumption, Shapes DEF Diverging
<1>0. /\ (InProgress = {} <=> job[me] = NoJob) /\ (InProgress' = {} <=> job'[me] = NoJob)
      /\ \A t \in Threads : t = me
  BY DEF Typed, TypeOK, InProgress
<1>a. ASSUME UNCHANGED made
      PROVE  \A s, b : NothingFollows(s, b)' <=> NothingFollows(s, b)
  BY <1>a DEF NothingFollows
<1>1. ASSUME NEW sig \in Sigs, Begin(me, sig) PROVE Diverging'
  <2>0. UNCHANGED <<made, restarts>> /\ job[me] = NoJob
    BY <1>1 DEF Begin, MayCall
  <2>a. ASSUME NEW s \in States, Takes(me, sig, s) PROVE job'[me] # NoJob /\ job'[me].input = s
    BY <2>a DEF Takes, NoJob, States, Typed, TypeOK
  <2>b. UNCHANGED readFaults
    BY <1>1 DEF Begin, Unresolved
  <2>1. CASE Appends(me, sig)
    <3>1. Takes(me, sig, current) /\ current \in States /\ NothingFollows(current, branch)
          /\ UNCHANGED <<branch, pending, current>>
      BY <1>0, <2>0, <2>1 DEF Appends, Typed, TypeOK
    <3>2. NothingFollows(current, branch)'
      BY <2>0, <3>1 DEF NothingFollows
    <3> QED
      BY <1>0, <1>a, <2>0, <2>a, <2>b, <3>1
  <2>2. CASE Rejoins(me, sig)
    BY <2>0, <2>2, <2>b, RejoinsFinds
  <2>3. CASE Diverges(me, sig)
    <3>1. PICK b \in Nat : b \notin Branches /\ branch' = b
      BY <2>3, DivergesMakes
    <3>2. Takes(me, sig, pending) /\ pending \in States
      BY <2>3 DEF Diverges, Typed, TypeOK
    <3>3. \A s : NothingFollows(s, b)
      BY <3>1 DEF NothingFollows, Typed, Closed
    <3> QED
      BY <1>0, <1>a, <2>0, <2>a, <2>b, <3>1, <3>2, <3>3
  <2>4. CASE Unresolved(me, sig)
    BY <2>4 DEF Unresolved
  <2> QED
    BY <1>1, <2>1, <2>2, <2>3, <2>4 DEF Begin
<1>2. CASE Finish(me)
  <2>1. PICK n \in Nat :
          /\ n # 0 /\ n \notin States /\ DOMAIN made' = DOMAIN made \cup {n} /\ current' = n
          /\ \A k \in DOMAIN made : made'[k] = made[k]
          /\ made'[n] = [input |-> job[me].input, sig |-> job[me].sig, branch |-> branch]
          /\ job[me].input \in States
    BY <1>2, FinishMakes
  <2>2. UNCHANGED <<pending, branch, readFaults, restarts>> /\ job[me] # NoJob /\ job'[me] = NoJob
    BY <1>2 DEF Finish, Typed, TypeOK
  <2>3. \A k \in DOMAIN made :
          made[k].input = job[me].input /\ made[k].branch = branch => made[k].sig = job[me].sig
    <3>1. CASE pending = NoState
      BY <2>2, <3>1 DEF NothingFollows
    <3>2. CASE pending # NoState
      BY <2>2, <3>2 DEF Shadows
    <3> QED
      BY <3>1, <3>2
  <2>4. \A k \in DOMAIN made' : made'[k].input \in States
    BY <2>1 DEF Typed, Closed
  <2>5. NothingFollows(current, branch)'
    BY <2>1, <2>4 DEF NothingFollows
  <2>6. \A k, l \in DOMAIN made' :
          made'[k].input = made'[l].input /\ made'[k].branch = made'[l].branch
            => made'[k].sig = made'[l].sig
    BY <2>1, <2>3
  <2> QED
    BY <1>0, <2>2, <2>5, <2>6
<1>3. CASE Abandon(me)
  BY <1>3 DEF Abandon
<1>4. ASSUME NEW s \in States, Checkout(me, s) PROVE Diverging'
  <2>1. UNCHANGED <<made, readFaults, restarts>> /\ pending' = s /\ s # NoState
    BY <1>4 DEF Checkout, States
  <2> QED
    BY <2>1
<1>7. ASSUME NEW s \in States, CheckoutFails(me, s) PROVE Diverging'
  BY <1>7 DEF CheckoutFails
<1>5. CASE Restart
  BY <1>5 DEF Restart
<1>6. CASE Store \/ UNCHANGED vars
  <2>1. UNCHANGED <<made, current, branch, pending, job, readFaults, restarts>>
    BY <1>6 DEF Store, memory, vars
  <2>2. InProgress' = InProgress
    BY <2>1 DEF InProgress
  <2> QED
    BY <1>a, <2>1, <2>2
<1> QED
  BY <1>1, <1>2, <1>3, <1>4, <1>5, <1>6, <1>7 DEF Next, TraceStep, TraceUiStep, Sigs

\* Recorded steps that differ never leave one state on one branch, whether callers let
\* the queue drain or not.
THEOREM BranchesDivergeHolds ==
  ASSUME NEW CONSTANT me, Threads = {me}, MaxReadFaults = 0, MaxRestarts = 0
  PROVE  Spec => []BranchesDiverge
<1>1. Init => Shadows /\ Diverging
  BY DEF Init, Shadows, Diverging, NothingFollows
<1>2. Typed /\ Shadows /\ Diverging /\ [Next]_vars => (Shadows /\ Diverging)'
  BY NextShadows, NextDiverging
<1>3. Diverging => BranchesDiverge
  BY DEF Diverging, BranchesDiverge
<1> QED
  BY <1>1, <1>2, <1>3, Invariance, PTL DEF Spec
=============================================================================
