---------------------------- MODULE SessionsProofs ----------------------------
(***************************************************************************)
(* Theorems about Sessions, for any number of processes, calls and deaths. *)
(* Most of what the invariants say is about one queue and the keys in the  *)
(* database, and so are the operators and lemmas of the first part, which  *)
(* take both as parameters.  Needs(row) is what has to be stored before a  *)
(* row; notes, which unlike the others are deleted, are treated apart.     *)
(*                                                                         *)
(* The second part has what untag leaves, how many operations a name has,  *)
(* and which details of a step can be read.  Each follows from an          *)
(* invariant about the rows a process has queued for one table, Owed(p,    *)
(* tab), and those it can count on, Known(p, tab).                         *)
(***************************************************************************)
EXTENDS Sessions, FiniteSetTheorems, SequenceTheorems, TLAPS

Tables == {"history", "state", "branch", "agent", "env", "step", "type", "operation", "active",
           "note", "target", "pipeline", "fragment", "tag", "assigned"}
Ids     == Nat \cup {None}
AllRows == [tab : Tables, id : Nat, ref : Ids, with : Ids \cup Functions]
Stmts   == [op : {"put", "edit", "del", "seek"}, row : AllRows]

KeyOf(r) == <<r.tab, r.id>>
Keys(d)  == {KeyOf(r) : r \in d}

\* Only these rows are ever deleted, edited or sought.
Shaped(s) ==
  /\ s.op = "del" => s.row.tab \in {"target", "note", "assigned"}
  /\ s.op = "edit" => s.row.tab = "note"
  /\ s.op = "seek" => s.row.tab = "tag"

-----------------------------------------------------------------------------
(* Sequences of statements *)

\* Two queues of statements, one behind the other.
LEMMA BehindFacts ==
  ASSUME NEW q \in Seq(Stmts), NEW t \in Seq(Stmts)
  PROVE  /\ q \o t \in Seq(Stmts)
         /\ Len(q) \in Nat /\ Len(t) \in Nat /\ Len(q \o t) = Len(q) + Len(t)
         /\ DOMAIN q = 1..Len(q) /\ DOMAIN t = 1..Len(t) /\ DOMAIN (q \o t) = 1..(Len(q) + Len(t))
         /\ \A i \in 1..Len(q) : (q \o t)[i] = q[i] /\ q[i] \in Stmts
         /\ \A i \in 1..Len(t) : (q \o t)[Len(q) + i] = t[i] /\ t[i] \in Stmts
  OBVIOUS

\* Which statement of the two queues is where.
LEMMA BehindIndex ==
  ASSUME NEW q \in Seq(Stmts), NEW t \in Seq(Stmts)
  PROVE  /\ \A i \in DOMAIN q : i \in DOMAIN (q \o t) /\ (q \o t)[i] = q[i]
         /\ \A i \in DOMAIN t : Len(q) + i \in DOMAIN (q \o t) /\ (q \o t)[Len(q) + i] = t[i]
         /\ \A i \in DOMAIN (q \o t) :
              \/ i \in DOMAIN q /\ (q \o t)[i] = q[i]
              \/ i - Len(q) \in DOMAIN t /\ (q \o t)[i] = t[i - Len(q)]
<1>1. \A i \in DOMAIN q : i \in DOMAIN (q \o t) /\ (q \o t)[i] = q[i]
  BY BehindFacts
<1>2. \A i \in DOMAIN t : Len(q) + i \in DOMAIN (q \o t) /\ (q \o t)[Len(q) + i] = t[i]
  BY BehindFacts
<1>3. ASSUME NEW i \in DOMAIN (q \o t)
      PROVE  \/ i \in DOMAIN q /\ (q \o t)[i] = q[i]
             \/ i - Len(q) \in DOMAIN t /\ (q \o t)[i] = t[i - Len(q)]
  <2>1. i \in 1..(Len(q) + Len(t)) /\ Len(q) \in Nat /\ Len(t) \in Nat
        /\ DOMAIN q = 1..Len(q) /\ DOMAIN t = 1..Len(t)
    BY BehindFacts
  <2>2. i \in DOMAIN q \/ (i - Len(q) \in DOMAIN t /\ Len(q) + (i - Len(q)) = i)
    BY <2>1
  <2> QED
    BY <1>1, <1>2, <2>2
<1> QED
  BY <1>1, <1>2, <1>3

\* A queue without its first statement.
LEMMA TailFacts ==
  ASSUME NEW q \in Seq(Stmts), q # <<>>
  PROVE  /\ Tail(q) \in Seq(Stmts)
         /\ Len(q) \in Nat \ {0} /\ Len(Tail(q)) = Len(q) - 1
         /\ DOMAIN q = 1..Len(q) /\ DOMAIN Tail(q) = 1..(Len(q) - 1)
         /\ \A i \in 1..(Len(q) - 1) : Tail(q)[i] = q[i + 1]
         /\ Head(q) = q[1] /\ q[1] \in Stmts
  OBVIOUS

\* A queue of one statement.
LEMMA LastTail ==
  ASSUME NEW q \in Seq(Stmts), Len(q) = 1
  PROVE  Tail(q) = <<>>
<1>1. Tail(q) \in Seq(Stmts) /\ Len(Tail(q)) = 0
  OBVIOUS
<1> QED
  BY <1>1, EmptySeq

\* The keys of the database after a statement.
LEMMA AppliedKeys ==
  ASSUME db \subseteq AllRows, NEW s \in Stmts
  PROVE  /\ s.op = "put" => Keys(Applied(s)) = Keys(db) \cup {KeyOf(s.row)}
         /\ s.op \in {"edit", "seek"} => Keys(Applied(s)) = Keys(db)
         /\ s.op = "del" => Keys(Applied(s)) = Keys(db) \ {KeyOf(s.row)}
<1> DEFINE others == {r \in db : ~Same(r, s.row)}
<1>1. \A r \in AllRows : Same(r, s.row) <=> KeyOf(r) = KeyOf(s.row)
  BY DEF Same, KeyOf
<1>2. Keys(others) = Keys(db) \ {KeyOf(s.row)}
  BY <1>1 DEF Keys
<1>3. CASE s.op = "put"
  <2>1. Applied(s) = others \cup {s.row}
    BY <1>3 DEF Applied
  <2> QED
    BY <1>2, <1>3, <2>1 DEF Keys
<1>4. CASE s.op = "edit"
  <2>1. Applied(s) = IF others = db THEN db ELSE others \cup {s.row}
    BY <1>4 DEF Applied
  <2>2. others # db => KeyOf(s.row) \in Keys(db)
    BY <1>1 DEF Keys
  <2> QED
    BY <1>2, <1>4, <2>1, <2>2 DEF Keys
<1>5. CASE s.op = "del"
  BY <1>2, <1>5 DEF Applied
<1>6. CASE s.op = "seek"
  BY <1>6 DEF Applied
<1> QED
  BY <1>3, <1>4, <1>5, <1>6 DEF Stmts

\* The rows of the database after a statement, and those that are still there.
LEMMA AppliedRows ==
  ASSUME db \subseteq AllRows, NEW s \in Stmts
  PROVE  /\ Applied(s) \subseteq AllRows
         /\ \A r \in Applied(s) : r \in db \/ (s.op \in {"put", "edit"} /\ r = s.row)
         /\ s.op = "put" => s.row \in Applied(s)
         /\ \A r \in db : KeyOf(r) # KeyOf(s.row) => r \in Applied(s)
  BY DEF Applied, Same, KeyOf, Stmts, AllRows

-----------------------------------------------------------------------------
(* What has to be stored before a row *)

\* Keys of rows that are never deleted.
KeptKeys == (Tables \ {"note", "target", "assigned"}) \X (Ids \cup Functions)

Needs(row) ==
  CASE row.tab = "state"     -> {<<"state", row.ref>>, <<"branch", row.ref>>}
    [] row.tab = "step"      -> {<<"state", row.id>>, <<"env", row.with>>, <<"agent", 0>>}
    [] row.tab = "active"    -> {<<"state", row.ref>>}
    [] row.tab = "operation" -> {<<"type", row.ref>>}
    [] row.tab = "fragment"  -> {<<"pipeline", row.ref>>}
    [] row.tab = "assigned"  -> {<<"tag", row.ref>>}
    [] OTHER -> {}

\* Keys that are there once the first i statements of a queue have run, if K are there
\* now.  A tag is left out: its statement may be skipped.
Coming(K, q, i) ==
  K \cup {KeyOf(q[j].row) : j \in {k \in 1..i : q[k].op = "put" /\ q[k].row.tab # "tag"}}

\* A row is behind those it needs; a state may be its own.
Waits(K, q) ==
  \A i \in DOMAIN q : Shaped(q[i]) /\ (q[i].op = "put" => Needs(q[i].row) \subseteq Coming(K, q, i))

\* All rows are needed by kept keys only.
LEMMA NeedsKept == \A r \in AllRows : Needs(r) \subseteq KeptKeys
<1> SUFFICES ASSUME NEW r \in AllRows PROVE Needs(r) \subseteq KeptKeys
  OBVIOUS
<1>1. \A tab \in {"state", "branch", "env", "agent", "type", "pipeline", "tag"} :
        \A id \in Ids \cup Functions : <<tab, id>> \in KeptKeys
  BY DEF KeptKeys, Tables
<1>2. r.id \in Ids /\ r.ref \in Ids /\ r.with \in Ids \cup Functions /\ 0 \in Ids
  BY DEF AllRows, Ids
<1>3. CASE r.tab = "state"
  BY <1>1, <1>2, <1>3 DEF Needs
<1>4. CASE r.tab = "step"
  BY <1>1, <1>2, <1>4 DEF Needs
<1>5. CASE r.tab \notin {"state", "step"}
  BY <1>1, <1>2, <1>5 DEF Needs
<1> QED
  BY <1>3, <1>4, <1>5

\* Once the first statement has run, the rest of the queue waits for no more than before.
LEMMA RestWaits ==
  ASSUME NEW q \in Seq(Stmts), q # <<>>, NEW K, NEW L, Waits(K, q),
         K \cap KeptKeys \subseteq L, q[1].op = "put" => KeyOf(q[1].row) \in L
  PROVE  /\ Waits(L, Tail(q))
         /\ Coming(K, q, Len(q)) \cap KeptKeys \subseteq Coming(L, Tail(q), Len(Tail(q)))
<1> USE TailFacts
<1>1. ASSUME NEW i \in 0..Len(Tail(q))
      PROVE  Coming(K, q, i + 1) \cap KeptKeys \subseteq Coming(L, Tail(q), i)
  <2> SUFFICES ASSUME NEW k \in Coming(K, q, i + 1) \cap KeptKeys, k \notin L
               PROVE  k \in Coming(L, Tail(q), i)
    BY DEF Coming
  <2>1. PICK j \in 1..(i + 1) : q[j].op = "put" /\ q[j].row.tab # "tag" /\ k = KeyOf(q[j].row)
    BY DEF Coming
  <2>2. j # 1
    BY <2>1
  <2>3. j - 1 \in 1..i /\ Tail(q)[j - 1] = q[j]
    BY <2>2
  <2> QED
    BY <2>1, <2>3 DEF Coming
<1>2. Waits(L, Tail(q))
  <2> SUFFICES ASSUME NEW i \in DOMAIN Tail(q)
               PROVE  /\ Shaped(Tail(q)[i])
                      /\ Tail(q)[i].op = "put" => Needs(Tail(q)[i].row) \subseteq Coming(L, Tail(q), i)
    BY DEF Waits
  <2>1. i + 1 \in DOMAIN q /\ Tail(q)[i] = q[i + 1] /\ q[i + 1] \in Stmts
    OBVIOUS
  <2>2. q[i + 1].row \in AllRows
    BY <2>1 DEF Stmts
  <2>3. Needs(q[i + 1].row) \subseteq KeptKeys
    BY <2>2, NeedsKept
  <2> QED
    BY <1>1, <2>1, <2>3 DEF Waits
<1> QED
  BY <1>1, <1>2

\* A queue with statements behind it.
LEMMA MoreWaits ==
  ASSUME NEW q \in Seq(Stmts), NEW t \in Seq(Stmts), NEW K, Waits(K, q),
         \A i \in DOMAIN t :
           /\ Shaped(t[i])
           /\ t[i].op = "put" => Needs(t[i].row) \subseteq Coming(K, q, Len(q)) \cup Coming(K, t, i)
  PROVE  /\ Waits(K, q \o t)
         /\ Coming(K, q, Len(q)) \cup Coming(K, t, Len(t)) \subseteq Coming(K, q \o t, Len(q \o t))
<1> USE BehindFacts
<1>1. \A i \in 0..Len(q) : Coming(K, q \o t, i) = Coming(K, q, i)
  BY DEF Coming
<1>2. ASSUME NEW i \in 0..Len(t)
      PROVE  Coming(K, q, Len(q)) \cup Coming(K, t, i) \subseteq Coming(K, q \o t, Len(q) + i)
  <2>1. Coming(K, q, Len(q)) \subseteq Coming(K, q \o t, Len(q) + i)
    BY DEF Coming
  <2>2. ASSUME NEW k \in Coming(K, t, i), k \notin K PROVE k \in Coming(K, q \o t, Len(q) + i)
    <3>1. PICK j \in 1..i : t[j].op = "put" /\ t[j].row.tab # "tag" /\ k = KeyOf(t[j].row)
      BY <2>2 DEF Coming
    <3>2. Len(q) + j \in 1..(Len(q) + i) /\ (q \o t)[Len(q) + j] = t[j]
      OBVIOUS
    <3> QED
      BY <3>1, <3>2 DEF Coming
  <2> QED
    BY <2>1, <2>2 DEF Coming
<1>3. Waits(K, q \o t)
  <2> SUFFICES ASSUME NEW i \in DOMAIN (q \o t)
               PROVE  /\ Shaped((q \o t)[i])
                      /\ (q \o t)[i].op = "put" => Needs((q \o t)[i].row) \subseteq Coming(K, q \o t, i)
    BY DEF Waits
  <2>1. CASE i \in 1..Len(q)
    BY <1>1, <2>1 DEF Waits
  <2>2. CASE i \notin 1..Len(q)
    <3>1. i - Len(q) \in DOMAIN t /\ (q \o t)[i] = t[i - Len(q)] /\ Len(q) + (i - Len(q)) = i
      BY <2>2
    <3>2. Coming(K, q, Len(q)) \cup Coming(K, t, i - Len(q)) \subseteq Coming(K, q \o t, i)
      BY <1>2, <3>1
    <3> QED
      BY <3>1, <3>2
  <2> QED
    BY <2>1, <2>2
<1> QED
  BY <1>2, <1>3

\* A queue whose database gets or keeps what the queue waits for.
LEMMA StillWaits ==
  ASSUME NEW q \in Seq(Stmts), NEW K, NEW L, Waits(K, q), K \cap KeptKeys \subseteq L
  PROVE  /\ Waits(L, q)
         /\ Coming(K, q, Len(q)) \cap KeptKeys \subseteq Coming(L, q, Len(q))
<1>1. \A i : Coming(K, q, i) \cap KeptKeys \subseteq Coming(L, q, i)
  BY DEF Coming
<1>2. \A i \in DOMAIN q : q[i] \in Stmts
  OBVIOUS
<1>3. \A i \in DOMAIN q : Needs(q[i].row) \subseteq KeptKeys
  BY <1>2, NeedsKept DEF Stmts
<1> QED
  BY <1>1, <1>3 DEF Waits

-----------------------------------------------------------------------------
(* Types *)

Typed ==
  /\ db \subseteq AllRows
  /\ todo \in [Procs -> Seq(Stmts)]
  /\ up \in [Procs -> BOOLEAN]
  /\ hist \in [Procs -> Ids] /\ env \in [Procs -> Ids]
  /\ cache \in [Procs -> [Functions -> Ids]]
  /\ tagging \in [Procs -> Ids]
  /\ newest \in Ids
  /\ removed \subseteq Nat
  /\ ids \in Nat
  /\ \A p \in Procs : up[p] => hist[p] \in 0..ids /\ env[p] \in Nat
  /\ newest # None => newest <= ids
  /\ \A p \in Procs : \A f \in Functions : cache[p][f] # None => cache[p][f] <= ids
  /\ \A r \in db : r.id <= ids
  /\ \A p \in Procs : \A i \in DOMAIN todo[p] : todo[p][i].row.id <= ids
  /\ \A n \in removed : n <= ids

\* The rows of a call, whatever they are.
LEMMA RowTyped ==
  ASSUME NEW tab \in Tables, NEW id \in Nat, NEW ref \in Ids, NEW with \in Ids \cup Functions
  PROVE  /\ Row(tab, id, ref, with) \in AllRows
         /\ Put(Row(tab, id, ref, with)) \in Stmts
         /\ Edit(Row(tab, id, ref, with)) \in Stmts
         /\ Seek(Row(tab, id, ref, with)) \in Stmts
         /\ Del(tab, id) \in Stmts
  BY DEF Row, Put, Edit, Seek, Del, AllRows, Stmts, Ids

\* A call of p queues t.
Adds(p, t) ==
  /\ todo' = [todo EXCEPT ![p] = @ \o t]
  /\ UNCHANGED <<db, newest, removed>>
  /\ ids' \in Nat /\ ids <= ids'
  /\ t \in Seq(Stmts)
  /\ \A i \in DOMAIN t : Shaped(t[i]) /\ t[i].row.id <= ids'

\* The queues after a call.
LEMMA AddsFacts ==
  ASSUME Typed, NEW p \in Procs, NEW t, Adds(p, t)
  PROVE  /\ todo' \in [Procs -> Seq(Stmts)]
         /\ todo'[p] = todo[p] \o t
         /\ \A q \in Procs : q # p => todo'[q] = todo[q]
         /\ \A q \in Procs : \A i \in DOMAIN todo'[q] : todo'[q][i].row.id <= ids'
<1>1. todo[p] \in Seq(Stmts) /\ t \in Seq(Stmts)
  BY DEF Typed, Adds
<1>2. todo' \in [Procs -> Seq(Stmts)] /\ todo'[p] = todo[p] \o t
      /\ \A q \in Procs : q # p => todo'[q] = todo[q]
  BY <1>1, BehindFacts DEF Typed, Adds
<1>3. ASSUME NEW i \in DOMAIN (todo[p] \o t) PROVE (todo[p] \o t)[i].row.id <= ids'
  <2>1. CASE i \in 1..Len(todo[p])
    <3>1. (todo[p] \o t)[i] = todo[p][i] /\ i \in DOMAIN todo[p] /\ todo[p][i] \in Stmts
      BY <1>1, <2>1, BehindFacts
    <3> QED
      BY <3>1 DEF Typed, Adds, Stmts, AllRows
  <2>2. CASE i \notin 1..Len(todo[p])
    <3>1. i - Len(todo[p]) \in DOMAIN t /\ (todo[p] \o t)[i] = t[i - Len(todo[p])]
      BY <1>1, <2>2, BehindFacts
    <3> QED
      BY <3>1 DEF Adds
  <2> QED
    BY <2>1, <2>2
<1>4. ASSUME NEW q \in Procs, NEW i \in DOMAIN todo[q] PROVE todo[q][i].row.id <= ids'
  <2>1. todo[q][i] \in Stmts
    BY DEF Typed
  <2> QED
    BY <2>1 DEF Typed, Adds, Stmts, AllRows
<1> QED
  BY <1>2, <1>3, <1>4

\* A call changes no type as long as what else it changes is typed.
LEMMA AddsTyped ==
  ASSUME Typed, NEW p \in Procs, NEW t, Adds(p, t),
         up' \in [Procs -> BOOLEAN], hist' \in [Procs -> Ids], env' \in [Procs -> Ids],
         cache' \in [Procs -> [Functions -> Ids]], tagging' \in [Procs -> Ids],
         \A q \in Procs : up'[q] => hist'[q] \in 0..ids' /\ env'[q] \in Nat,
         \A q \in Procs : \A f \in Functions : cache'[q][f] # None => cache'[q][f] <= ids'
  PROVE  Typed'
<1>1. \A r \in db : r.id \in Nat
  BY DEF Typed, AllRows
<1>2. newest # None => newest \in Nat
  BY DEF Typed, Ids
<1>3. /\ newest # None => newest <= ids'
      /\ \A r \in db : r.id <= ids'
      /\ \A n \in removed : n <= ids'
  BY <1>1, <1>2 DEF Typed, Adds
<1>4. db' = db /\ newest' = newest /\ removed' = removed /\ ids' \in Nat
  BY DEF Adds
<1> QED
  BY <1>3, <1>4, AddsFacts DEF Typed

-----------------------------------------------------------------------------
(* Order *)

PutTag(g) == Put(Row("tag", g, None, 0))

\* What is in the database has what it needs there.
Stored == \A r \in db : Needs(r) \subseteq Keys(db)

\* What is queued has it there or ahead in its queue.
InOrder == \A p \in Procs : Waits(Keys(db), todo[p])

\* The histories that processes work on, and the one they would find, have a root and a
\* branch; a process has its environment and an agent.
Begun(h) == {<<"state", h>>, <<"branch", h>>}
Ground(h, e) == Begun(h) \cup {<<"env", e>>, <<"agent", 0>>}
Working ==
  /\ \A p \in Procs :
       up[p] => Ground(hist[p], env[p]) \subseteq Coming(Keys(db), todo[p], Len(todo[p]))
  /\ newest # None => Begun(newest) \subseteq Keys(db)

\* A tag that is about to be assigned is stored or is the last statement of its queue, and a
\* tag is sought just ahead of that.
Seeking(q, g) ==
  \A i \in DOMAIN q : q[i].op = "seek" => g # None /\ i = Len(q) - 1 /\ q[Len(q)] = PutTag(g)
Tagging ==
  \A p \in Procs :
    /\ tagging[p] # None =>
         <<"tag", tagging[p]>> \in Keys(db)
         \/ (todo[p] # <<>> /\ todo[p][Len(todo[p])] = PutTag(tagging[p]))
    /\ Seeking(todo[p], tagging[p])

Ordered == Stored /\ InOrder /\ Working /\ Tagging

\* A call keeps the order if each of its rows is behind what it needs.
LEMMA AddsOrdered ==
  ASSUME Typed, Ordered, NEW p \in Procs, NEW t, Adds(p, t),
         \A i \in DOMAIN t : t[i].op = "put" =>
           Needs(t[i].row) \subseteq Coming(Keys(db), todo[p], Len(todo[p])) \cup Coming(Keys(db), t, i),
         \A q \in Procs : q # p => /\ up'[q] = up[q] /\ hist'[q] = hist[q] /\ env'[q] = env[q]
                                  /\ tagging'[q] = tagging[q],
         up'[p] => Ground(hist'[p], env'[p]) \subseteq Coming(Keys(db), todo[p], Len(todo[p]))
                                                      \cup Coming(Keys(db), t, Len(t)),
         \/ tagging'[p] = None /\ Seeking(todo[p], None) /\ Seeking(t, None)
         \/ /\ tagging'[p] # None /\ Seeking(todo[p], None)
            /\ t = <<Seek(Row("tag", tagging'[p], None, 0)), PutTag(tagging'[p])>>
  PROVE  Ordered'
<1> DEFINE q == todo[p]
<1>1. /\ q \in Seq(Stmts) /\ t \in Seq(Stmts) /\ todo'[p] = q \o t
      /\ \A o \in Procs : o # p => todo'[o] = todo[o]
      /\ db' = db /\ newest' = newest
  BY AddsFacts DEF Typed, Adds
<1>2. Waits(Keys(db), q)
  BY DEF Ordered, InOrder
<1>3. /\ Waits(Keys(db), q \o t)
      /\ Coming(Keys(db), q, Len(q)) \cup Coming(Keys(db), t, Len(t))
           \subseteq Coming(Keys(db), q \o t, Len(q \o t))
  BY <1>1, <1>2, MoreWaits DEF Adds
<1>4. Stored'
  BY <1>1 DEF Ordered, Stored
<1>5. InOrder'
  BY <1>1, <1>3 DEF Ordered, InOrder
<1>6. Working'
  BY <1>1, <1>3 DEF Ordered, Working
<1>7. Tagging'
  <2>1. CASE tagging'[p] = None /\ Seeking(q, None) /\ Seeking(t, None)
    <3>1. Seeking(q \o t, None)
      <4> SUFFICES ASSUME NEW i \in DOMAIN (q \o t), (q \o t)[i].op = "seek" PROVE FALSE
        BY DEF Seeking
      <4>1. CASE i \in 1..Len(q)
        BY <1>1, <2>1, <4>1, BehindFacts DEF Seeking
      <4>2. CASE i \notin 1..Len(q)
        <5>1. i - Len(q) \in DOMAIN t /\ (q \o t)[i] = t[i - Len(q)]
          BY <1>1, <4>2, BehindFacts
        <5> QED
          BY <2>1, <5>1 DEF Seeking
      <4> QED
        BY <4>1, <4>2
    <3> QED
      BY <1>1, <2>1, <3>1 DEF Ordered, Tagging
  <2>2. CASE /\ tagging'[p] # None /\ Seeking(q, None)
             /\ t = <<Seek(Row("tag", tagging'[p], None, 0)), PutTag(tagging'[p])>>
    <3>1. Len(t) = 2 /\ t[1].op = "seek" /\ t[2] = PutTag(tagging'[p])
      BY <2>2 DEF Seek
    <3>2. /\ Len(q \o t) = Len(q) + 2 /\ Len(q) \in Nat
          /\ (q \o t)[Len(q) + 2] = PutTag(tagging'[p])
      <4>1. /\ Len(q \o t) = Len(q) + Len(t) /\ Len(q) \in Nat
            /\ \A i \in 1..Len(t) : (q \o t)[Len(q) + i] = t[i]
        BY <1>1, BehindFacts
      <4>2. 2 \in 1..Len(t)
        BY <3>1
      <4> HIDE DEF q
      <4> QED
        BY <3>1, <4>1, <4>2
    <3>3. Seeking(q \o t, tagging'[p])
      <4> SUFFICES ASSUME NEW i \in DOMAIN (q \o t), (q \o t)[i].op = "seek"
                   PROVE  i = Len(q) + 1
        <5>1. Len(q \o t) - 1 = Len(q) + 1
          BY <3>2
        <5> QED
          BY <2>2, <3>2, <5>1 DEF Seeking
      <4>1. i \notin 1..Len(q)
        BY <1>1, <2>2, BehindFacts DEF Seeking
      <4>2. i \in 1..(Len(q) + 2)
        <5>1. DOMAIN (q \o t) = 1..(Len(q) + Len(t))
          BY <1>1, BehindFacts
        <5> QED
          BY <3>1, <5>1
      <4>3. (q \o t)[Len(q) + 2].op = "put"
        BY <3>2 DEF PutTag, Put
      <4>4. i # Len(q) + 2
        BY <4>3
      <4>5. \A n \in Nat : \A j \in 1..(n + 2) : j \notin 1..n /\ j # n + 2 => j = n + 1
        OBVIOUS
      <4> QED
        BY <3>2, <4>1, <4>2, <4>4, <4>5, Zenon
    <3>4. q \o t # <<>> /\ (q \o t)[Len(q \o t)] = PutTag(tagging'[p])
      BY <1>1, <3>2
    <3> QED
      BY <1>1, <2>2, <3>3, <3>4 DEF Ordered, Tagging
  <2> QED
    BY <2>1, <2>2
<1> QED
  BY <1>4, <1>5, <1>6, <1>7 DEF Ordered

-----------------------------------------------------------------------------
(* Notes *)

\* A queue that stores the target of note n; one that deletes note n.
Makes(q, n) == \E i \in DOMAIN q : q[i].op = "put" /\ q[i].row.tab = "target" /\ q[i].row.id = n
Drops(q, n) == \E i \in DOMAIN q : q[i].op = "del" /\ q[i].row.tab = "note" /\ q[i].row.id = n

PutNote(n)   == Put(Row("note", n, None, 0))
PutTarget(n) == Put(Row("target", n, n, None))

\* A note is stored just before its target, which is stored once, and deleted just after it.
Paired(K, q) ==
  \A i \in DOMAIN q :
    /\ q[i].op = "put" /\ q[i].row.tab = "note" =>
         i + 1 \in DOMAIN q /\ q[i + 1] = PutTarget(q[i].row.id)
    /\ q[i].op = "put" /\ q[i].row.tab = "target" =>
         /\ q[i] = PutTarget(q[i].row.id)
         /\ \/ <<"note", q[i].row.id>> \in K
            \/ i - 1 \in DOMAIN q /\ q[i - 1] = PutNote(q[i].row.id)
         /\ \A j \in DOMAIN q : q[j].op = "put" /\ q[j].row.tab = "target"
                               /\ q[j].row.id = q[i].row.id => j = i
    /\ q[i].op = "del" /\ q[i].row.tab = "note" =>
         \/ <<"target", q[i].row.id>> \notin K
         \/ i - 1 \in DOMAIN q /\ q[i - 1] = Del("target", q[i].row.id)

\* A target that is still to be stored is not there, and nobody deletes its note.
Coined ==
  \A p, q \in Procs : \A n \in Nat :
    Makes(todo[p], n) =>
      /\ ~Drops(todo[q], n) /\ n \notin removed /\ <<"target", n>> \notin Keys(db)
      /\ Makes(todo[q], n) => p = q

Noted ==
  /\ \A p \in Procs : Paired(Keys(db), todo[p])
  /\ Coined
  /\ \A r \in db : r.tab = "target" => r.ref = r.id /\ <<"note", r.id>> \in Keys(db)
  /\ \A n \in removed : <<"note", n>> \notin Keys(db) /\ <<"target", n>> \notin Keys(db)

\* A queue keeps its pairs when the database changes elsewhere, or by its first statement.
LEMMA StillPaired ==
  ASSUME NEW q \in Seq(Stmts), NEW K, NEW L, Paired(K, q),
         \A n \in Nat : <<"note", n>> \in K => <<"note", n>> \in L \/ ~Makes(q, n),
         \A n \in Nat : <<"target", n>> \in L => <<"target", n>> \in K \/ ~Drops(q, n)
  PROVE  Paired(L, q)
<1>1. \A i \in DOMAIN q : q[i] \in Stmts
  OBVIOUS
<1>2. \A i \in DOMAIN q : q[i].row.id \in Nat
  BY <1>1 DEF Stmts, AllRows
<1> QED
  BY <1>2 DEF Paired, Makes, Drops

\* The same without the first statement.
LEMMA RestPaired ==
  ASSUME NEW q \in Seq(Stmts), q # <<>>, NEW K, NEW L, Paired(K, q),
         \A n \in Nat : <<"note", n>> \in K => <<"note", n>> \in L \/ ~Makes(q, n),
         \A n \in Nat : <<"target", n>> \in L => <<"target", n>> \in K \/ ~Drops(q, n),
         \A n \in Nat : q[1] = PutNote(n) => <<"note", n>> \in L,
         \A n \in Nat : q[1] = Del("target", n) => <<"target", n>> \notin L
  PROVE  Paired(L, Tail(q))
<1> DEFINE r == Tail(q)
<1>1. /\ Len(q) \in Nat \ {0} /\ DOMAIN q = 1..Len(q) /\ DOMAIN r = 1..(Len(q) - 1)
      /\ \A i \in 1..(Len(q) - 1) : r[i] = q[i + 1]
  BY TailFacts
<1>2. Paired(L, q)
  BY StillPaired
<1>3. \A i \in DOMAIN q : q[i] \in Stmts
  OBVIOUS
<1> HIDE DEF r
<1> SUFFICES ASSUME NEW i \in DOMAIN r
             PROVE  /\ r[i].op = "put" /\ r[i].row.tab = "note" =>
                         i + 1 \in DOMAIN r /\ r[i + 1] = PutTarget(r[i].row.id)
                    /\ r[i].op = "put" /\ r[i].row.tab = "target" =>
                         /\ r[i] = PutTarget(r[i].row.id)
                         /\ \/ <<"note", r[i].row.id>> \in L
                            \/ i - 1 \in DOMAIN r /\ r[i - 1] = PutNote(r[i].row.id)
                         /\ \A j \in DOMAIN r : r[j].op = "put" /\ r[j].row.tab = "target"
                                               /\ r[j].row.id = r[i].row.id => j = i
                    /\ r[i].op = "del" /\ r[i].row.tab = "note" =>
                         \/ <<"target", r[i].row.id>> \notin L
                         \/ i - 1 \in DOMAIN r /\ r[i - 1] = Del("target", r[i].row.id)
  BY DEF Paired, r
<1>4. PICK k \in DOMAIN q : k = i + 1 /\ k \in Nat /\ r[i] = q[k] /\ q[k].row.id \in Nat
  BY <1>1, <1>3 DEF Stmts, AllRows
<1>5. (i - 1 \in DOMAIN r /\ r[i - 1] = q[k - 1]) \/ k - 1 = 1
  BY <1>1, <1>4
<1>6. ASSUME r[i].op = "put", r[i].row.tab = "note"
      PROVE  i + 1 \in DOMAIN r /\ r[i + 1] = PutTarget(r[i].row.id)
  <2>1. k + 1 \in DOMAIN q /\ q[k + 1] = PutTarget(q[k].row.id)
    BY <1>2, <1>4, <1>6 DEF Paired
  <2>2. i + 1 \in DOMAIN r /\ r[i + 1] = q[k + 1]
    BY <1>1, <1>4, <2>1
  <2> QED
    BY <1>4, <2>1, <2>2
<1>7. ASSUME r[i].op = "put", r[i].row.tab = "target"
      PROVE  /\ r[i] = PutTarget(r[i].row.id)
             /\ \/ <<"note", r[i].row.id>> \in L
                \/ i - 1 \in DOMAIN r /\ r[i - 1] = PutNote(r[i].row.id)
             /\ \A j \in DOMAIN r : r[j].op = "put" /\ r[j].row.tab = "target"
                                   /\ r[j].row.id = r[i].row.id => j = i
  <2>1. /\ q[k] = PutTarget(q[k].row.id)
        /\ <<"note", q[k].row.id>> \in L \/ q[k - 1] = PutNote(q[k].row.id)
        /\ \A j \in DOMAIN q : q[j].op = "put" /\ q[j].row.tab = "target"
                              /\ q[j].row.id = q[k].row.id => j = k
    BY <1>2, <1>4, <1>7 DEF Paired
  <2>2. ASSUME NEW j \in DOMAIN r, r[j].op = "put", r[j].row.tab = "target",
               r[j].row.id = r[i].row.id
        PROVE  j = i
    <3>1. PICK l \in DOMAIN q : l = j + 1 /\ r[j] = q[l]
      BY <1>1
    <3>2. l = k
      BY <1>4, <2>1, <2>2, <3>1
    <3> QED
      BY <1>1, <1>4, <3>1, <3>2
  <2>3. k - 1 = 1 /\ q[k - 1] = PutNote(q[k].row.id) => <<"note", q[k].row.id>> \in L
    BY <1>4
  <2> QED
    BY <1>4, <1>5, <2>1, <2>2, <2>3
<1>8. ASSUME r[i].op = "del", r[i].row.tab = "note"
      PROVE  \/ <<"target", r[i].row.id>> \notin L
             \/ i - 1 \in DOMAIN r /\ r[i - 1] = Del("target", r[i].row.id)
  <2>1. <<"target", q[k].row.id>> \notin L \/ q[k - 1] = Del("target", q[k].row.id)
    BY <1>2, <1>4, <1>8 DEF Paired
  <2>2. k - 1 = 1 /\ q[k - 1] = Del("target", q[k].row.id) => <<"target", q[k].row.id>> \notin L
    BY <1>4
  <2> QED
    BY <1>4, <1>5, <2>1, <2>2
<1> QED
  BY <1>6, <1>7, <1>8

\* What a queue stores and deletes with statements behind it.
LEMMA BehindMakes ==
  ASSUME NEW q \in Seq(Stmts), NEW t \in Seq(Stmts), NEW n
  PROVE  /\ Makes(q \o t, n) <=> Makes(q, n) \/ Makes(t, n)
         /\ Drops(q \o t, n) <=> Drops(q, n) \/ Drops(t, n)
<1>1. \A i \in DOMAIN q : i \in DOMAIN (q \o t) /\ (q \o t)[i] = q[i]
  BY BehindFacts
<1>2. \A i \in DOMAIN t : Len(q) + i \in DOMAIN (q \o t) /\ (q \o t)[Len(q) + i] = t[i]
  BY BehindFacts
<1>3. \A i \in DOMAIN (q \o t) :
        \/ i \in DOMAIN q /\ (q \o t)[i] = q[i]
        \/ i - Len(q) \in DOMAIN t /\ (q \o t)[i] = t[i - Len(q)]
  BY BehindFacts
<1>4. Makes(q, n) => Makes(q \o t, n)
  BY <1>1 DEF Makes
<1>5. Makes(t, n) => Makes(q \o t, n)
  <2> SUFFICES ASSUME NEW i \in DOMAIN t, t[i].op = "put", t[i].row.tab = "target", t[i].row.id = n
               PROVE  Makes(q \o t, n)
    BY DEF Makes
  <2> QED
    BY <1>2 DEF Makes
<1>6. Drops(q, n) => Drops(q \o t, n)
  BY <1>1 DEF Drops
<1>7. Drops(t, n) => Drops(q \o t, n)
  <2> SUFFICES ASSUME NEW i \in DOMAIN t, t[i].op = "del", t[i].row.tab = "note", t[i].row.id = n
               PROVE  Drops(q \o t, n)
    BY DEF Drops
  <2> QED
    BY <1>2 DEF Drops
<1>8. Makes(q \o t, n) => Makes(q, n) \/ Makes(t, n)
  BY <1>3 DEF Makes
<1>9. Drops(q \o t, n) => Drops(q, n) \/ Drops(t, n)
  BY <1>3 DEF Drops
<1> QED
  BY <1>4, <1>5, <1>6, <1>7, <1>8, <1>9

\* Two queues with pairs of their own, one behind the other.
LEMMA BehindPaired ==
  ASSUME NEW q \in Seq(Stmts), NEW t \in Seq(Stmts), NEW K, Paired(K, q), Paired(K, t),
         \A n : ~(Makes(q, n) /\ Makes(t, n))
  PROVE  Paired(K, q \o t)
<1> DEFINE r == q \o t
           InQ(i) == i \in DOMAIN q /\ r[i] = q[i]
           InT(i) == i - Len(q) \in DOMAIN t /\ r[i] = t[i - Len(q)]
<1>1. /\ Len(q) \in Nat /\ Len(t) \in Nat /\ DOMAIN q = 1..Len(q) /\ DOMAIN t = 1..Len(t)
      /\ DOMAIN r = 1..(Len(q) + Len(t))
  BY BehindFacts
<1>2. \A i \in DOMAIN r : InQ(i) \/ InT(i)
  BY BehindFacts
<1>3. /\ \A i \in DOMAIN q : i \in DOMAIN r /\ r[i] = q[i]
      /\ \A i \in DOMAIN t : Len(q) + i \in DOMAIN r /\ r[Len(q) + i] = t[i]
  BY BehindFacts
<1> HIDE DEF r
<1>4. ASSUME NEW i \in DOMAIN r, r[i].op = "put", r[i].row.tab = "note"
      PROVE  i + 1 \in DOMAIN r /\ r[i + 1] = PutTarget(r[i].row.id)
  <2>1. CASE InQ(i)
    <3>1. i + 1 \in DOMAIN q /\ q[i + 1] = PutTarget(q[i].row.id)
      BY <1>4, <2>1 DEF Paired
    <3> QED
      BY <1>3, <2>1, <3>1
  <2>2. CASE InT(i)
    <3>1. PICK k \in DOMAIN t : k = i - Len(q) /\ r[i] = t[k]
      BY <2>2
    <3>2. k + 1 \in DOMAIN t /\ t[k + 1] = PutTarget(t[k].row.id)
      BY <1>4, <3>1 DEF Paired
    <3>3. Len(q) + (k + 1) = i + 1
      BY <1>1, <3>1
    <3> QED
      BY <1>3, <3>1, <3>2, <3>3
  <2> QED
    BY <1>2, <2>1, <2>2
<1>5. ASSUME NEW i \in DOMAIN r, r[i].op = "put", r[i].row.tab = "target",
             NEW j \in DOMAIN r, r[j].op = "put", r[j].row.tab = "target", r[j].row.id = r[i].row.id
      PROVE  j = i
  <2>1. CASE InQ(i) /\ InQ(j)
    BY <1>5, <2>1 DEF Paired
  <2>2. CASE InT(i) /\ InT(j)
    <3>1. i - Len(q) = j - Len(q)
      BY <1>5, <2>2 DEF Paired
    <3> QED
      BY <1>1, <3>1
  <2>3. CASE (InQ(i) /\ InT(j)) \/ (InT(i) /\ InQ(j))
    <3>1. Makes(q, r[i].row.id) /\ Makes(t, r[i].row.id)
      BY <1>5, <2>3 DEF Makes
    <3> QED
      BY <3>1
  <2> QED
    BY <1>2, <2>1, <2>2, <2>3
<1>6. ASSUME NEW i \in DOMAIN r
      PROVE  /\ r[i].op = "put" /\ r[i].row.tab = "target" =>
                  /\ r[i] = PutTarget(r[i].row.id)
                  /\ \/ <<"note", r[i].row.id>> \in K
                     \/ i - 1 \in DOMAIN r /\ r[i - 1] = PutNote(r[i].row.id)
             /\ r[i].op = "del" /\ r[i].row.tab = "note" =>
                  \/ <<"target", r[i].row.id>> \notin K
                  \/ i - 1 \in DOMAIN r /\ r[i - 1] = Del("target", r[i].row.id)
  <2>1. CASE InQ(i)
    <3>1. i - 1 \in DOMAIN q => i - 1 \in DOMAIN r /\ r[i - 1] = q[i - 1]
      BY <1>3
    <3> QED
      BY <2>1, <3>1 DEF Paired
  <2>2. CASE InT(i)
    <3>1. PICK k \in DOMAIN t : k = i - Len(q) /\ r[i] = t[k]
      BY <2>2
    <3>2. Len(q) + (k - 1) = i - 1
      BY <1>1, <3>1
    <3>3. k - 1 \in DOMAIN t => i - 1 \in DOMAIN r /\ r[i - 1] = t[k - 1]
      BY <1>3, <3>2
    <3> QED
      BY <3>1, <3>3 DEF Paired
  <2> QED
    BY <1>2, <2>1, <2>2
<1> QED
  BY <1>4, <1>5, <1>6 DEF Paired, r

\* A call keeps the pairs if it has its own: new notes, and deletions of notes it can know of.
LEMMA AddsNoted ==
  ASSUME Typed, Noted, NEW p \in Procs, NEW t, Adds(p, t), Paired(Keys(db), t),
         \A n : Makes(t, n) => n \notin 0..ids /\ ~Drops(t, n),
         \A n : Drops(t, n) => n \in Notes
  PROVE  Noted'
<1> DEFINE q == todo[p]
<1>1. /\ q \in Seq(Stmts) /\ t \in Seq(Stmts) /\ todo'[p] = q \o t
      /\ \A o \in Procs : o # p => todo'[o] = todo[o]
      /\ db' = db /\ removed' = removed
  BY AddsFacts DEF Typed, Adds
<1>2. \A o \in Procs : \A n : Makes(todo[o], n) \/ Drops(todo[o], n) => n \in 0..ids
  <2> SUFFICES ASSUME NEW o \in Procs, NEW i \in DOMAIN todo[o] PROVE todo[o][i].row.id \in 0..ids
    BY DEF Makes, Drops
  <2>1. todo[o][i] \in Stmts
    BY DEF Typed
  <2> QED
    BY <2>1 DEF Typed, Stmts, AllRows
<1>3. \A o \in Procs : \A n : Makes(todo[o], n) => ~Makes(t, n) /\ ~Drops(t, n)
  <2> SUFFICES ASSUME NEW o \in Procs, NEW n, Makes(todo[o], n) PROVE n \notin Notes /\ ~Makes(t, n)
    OBVIOUS
  <2>1. n \in 0..ids /\ n \in Nat
    BY <1>2 DEF Typed
  <2>2. n \notin removed /\ <<"target", n>> \notin Keys(db)
    BY <2>1 DEF Noted, Coined
  <2>3. n \notin {r.id : r \in Rows("target")}
    BY <2>2 DEF Rows, Keys, KeyOf
  <2> QED
    BY <2>1, <2>2, <2>3 DEF Notes
<1>4. \A n : /\ Makes(q \o t, n) <=> Makes(q, n) \/ Makes(t, n)
             /\ Drops(q \o t, n) <=> Drops(q, n) \/ Drops(t, n)
  BY <1>1, BehindMakes
<1>5. \A o \in Procs : Paired(Keys(db), todo'[o])
  <2>1. Paired(Keys(db), q \o t)
    BY <1>1, <1>3, BehindPaired DEF Noted
  <2> QED
    BY <1>1, <2>1 DEF Noted
<1>6. Coined'
  <2> SUFFICES ASSUME NEW a \in Procs, NEW b \in Procs, NEW n \in Nat, Makes(todo'[a], n)
               PROVE  /\ ~Drops(todo'[b], n) /\ n \notin removed /\ <<"target", n>> \notin Keys(db)
                      /\ Makes(todo'[b], n) => a = b
    BY <1>1 DEF Coined
  <2>1. CASE Makes(t, n) /\ a = p
    <3>1. n \notin 0..ids /\ ~Drops(t, n)
      BY <2>1
    <3>2. n \notin removed /\ <<"target", n>> \notin Keys(db)
      BY <3>1 DEF Typed, Keys, KeyOf
    <3>3. ~Drops(todo[b], n) /\ ~Makes(todo[b], n)
      BY <1>2, <3>1
    <3> QED
      BY <1>1, <1>4, <2>1, <3>1, <3>2, <3>3
  <2>2. CASE Makes(todo[a], n)
    <3>1. ~Drops(t, n) /\ ~Makes(t, n)
      BY <1>3, <2>2
    <3> QED
      BY <1>1, <1>4, <2>2, <3>1 DEF Noted, Coined
  <2> QED
    BY <1>1, <1>4, <2>1, <2>2
<1> QED
  BY <1>1, <1>5, <1>6 DEF Noted

-----------------------------------------------------------------------------
(* Roots *)

\* Rows that are stored or queued, and the histories that states and processes are of.
Given == db \cup {r \in AllRows : \E p \in Procs : \E i \in DOMAIN todo[p] : todo[p][i] = Put(r)}
Used  == {r.ref : r \in {s \in Given : s.tab = "state"}} \cup {hist[p] : p \in {q \in Procs : up[q]}}
           \cup ({newest} \ {None})

\* A branch and a state with the number of a history are its first ones.
Rooted ==
  /\ Used \subseteq 0..ids
  /\ \A r \in Given : /\ r.tab = "branch" => r.ref = r.id
                      /\ r.tab = "state" /\ r.id \in Used => r.ref = r.id

\* A put is known by its row.
LEMMA PutOf ==
  /\ \A s \in Stmts : s.op = "put" => s = Put(s.row)
  /\ \A r, q : Put(r) = Put(q) => r = q
<1>1. \A s \in Stmts : s.op = "put" => s = Put(s.row)
  BY DEF Stmts, Put
<1>2. \A r : Put(r).row = r
  BY DEF Put
<1> QED
  BY <1>1, <1>2

\* Rows given before and after a call.
LEMMA AddsGiven ==
  ASSUME Typed, NEW p \in Procs, NEW t, Adds(p, t)
  PROVE  /\ \A r \in Given : r \in Given' /\ r.id \in 0..ids /\ r \in AllRows
         /\ \A r \in Given' : r \in Given \/ (\E i \in DOMAIN t : t[i] = Put(r))
         /\ \A r \in AllRows : (\E i \in DOMAIN t : t[i] = Put(r)) => r \in Given'
<1> DEFINE q == todo[p]
<1>1. /\ q \in Seq(Stmts) /\ t \in Seq(Stmts) /\ todo'[p] = q \o t
      /\ \A o \in Procs : o # p => todo'[o] = todo[o]
      /\ db' = db
  BY AddsFacts DEF Typed, Adds
<1>2. /\ \A i \in DOMAIN q : i \in DOMAIN (q \o t) /\ (q \o t)[i] = q[i]
      /\ \A i \in DOMAIN t : Len(q) + i \in DOMAIN (q \o t) /\ (q \o t)[Len(q) + i] = t[i]
      /\ \A i \in DOMAIN (q \o t) :
           \/ i \in DOMAIN q /\ (q \o t)[i] = q[i]
           \/ i - Len(q) \in DOMAIN t /\ (q \o t)[i] = t[i - Len(q)]
  <2> HIDE DEF q
  <2> QED
    BY <1>1, BehindIndex
<1> HIDE DEF q
<1>3. ASSUME NEW r \in Given PROVE r \in Given' /\ r.id \in 0..ids /\ r \in AllRows
  <2>1. CASE r \in db
    BY <1>1, <2>1 DEF Given, Typed, AllRows
  <2>2. CASE r \notin db
    <3>0. PICK o \in Procs : \E i \in DOMAIN todo[o] : todo[o][i] = Put(r)
      BY <2>2 DEF Given
    <3>1. PICK i \in DOMAIN todo[o] : todo[o][i] = Put(r)
      BY <3>0
    <3>2. todo[o][i] \in Stmts /\ todo[o][i].row.id <= ids /\ r \in AllRows
      BY <2>2 DEF Given, Typed
    <3>3. r.id \in 0..ids
      BY <3>1, <3>2 DEF Put, AllRows, Typed
    <3>4. i \in DOMAIN todo'[o] /\ todo'[o][i] = Put(r)
      <4>1. CASE o # p
        BY <1>1, <3>1, <4>1
      <4>2. CASE o = p
        <5>1. i \in DOMAIN q /\ q[i] = Put(r)
          BY <3>1, <4>2 DEF q
        <5> QED
          BY <1>1, <1>2, <4>2, <5>1
      <4> QED
        BY <4>1, <4>2
    <3> QED
      BY <3>2, <3>3, <3>4 DEF Given
  <2> QED
    BY <2>1, <2>2
<1>4. ASSUME NEW r \in Given' PROVE r \in Given \/ (\E i \in DOMAIN t : t[i] = Put(r))
  <2>1. CASE r \in db
    BY <2>1 DEF Given
  <2>2. CASE r \notin db
    <3>1. PICK o \in Procs : \E i \in DOMAIN todo'[o] : todo'[o][i] = Put(r)
      BY <1>1, <2>2 DEF Given
    <3>2. r \in AllRows
      BY <1>1, <2>2 DEF Given
    <3>3. CASE o # p
      BY <1>1, <3>1, <3>2, <3>3 DEF Given
    <3>4. CASE o = p
      <4>1. PICK i \in DOMAIN (q \o t) : (q \o t)[i] = Put(r)
        BY <1>1, <3>1, <3>4
      <4>2. (i \in DOMAIN q /\ q[i] = Put(r)) \/ (i - Len(q) \in DOMAIN t /\ t[i - Len(q)] = Put(r))
        BY <1>2, <4>1
      <4> QED
        BY <3>2, <4>2 DEF Given, q
    <3> QED
      BY <3>3, <3>4
  <2> QED
    BY <2>1, <2>2
<1>5. ASSUME NEW r \in AllRows, NEW i \in DOMAIN t, t[i] = Put(r) PROVE r \in Given'
  <2>1. Len(q) + i \in DOMAIN todo'[p] /\ todo'[p][Len(q) + i] = Put(r)
    BY <1>1, <1>2, <1>5
  <2> QED
    BY <2>1 DEF Given
<1> QED
  BY <1>3, <1>4, <1>5

\* A call that queues no state and no branch of its own, for a history that is in use.
LEMMA AddsRooted ==
  ASSUME Typed, Rooted, NEW p \in Procs, NEW t, Adds(p, t),
         \A i \in DOMAIN t : t[i].row.tab \notin {"state", "branch"},
         \A q \in Procs : up'[q] => hist'[q] \in Used
  PROVE  Rooted'
<1>1. \A r \in Given' : r.tab \in {"state", "branch"} => r \in Given
  BY AddsGiven DEF Put
<1>2. newest' = newest
  BY DEF Adds
<1>3. Used' \subseteq Used
  BY <1>1, <1>2 DEF Used
<1>4. 0..ids \subseteq 0..ids'
  BY DEF Adds, Typed
<1> QED
  BY <1>1, <1>3, <1>4 DEF Rooted

\* A new history, and a new state.
LEMMA AddsRoot ==
  ASSUME Typed, Rooted, NEW p \in Procs, NEW t, Adds(p, t), NEW h \in 0..ids',
         \A i \in DOMAIN t :
           /\ t[i].row.tab = "branch" => t[i].row.ref = t[i].row.id
           /\ t[i].row.tab = "state" => t[i].row.ref = h /\ t[i].row.id \notin 0..ids
                                       /\ (t[i].row.id = h \/ h \in 0..ids),
         h \in Used \/ h \notin 0..ids,
         \A q \in Procs : up'[q] => hist'[q] \in Used \cup {h}
  PROVE  Rooted'
<1>1. /\ \A r \in Given' : r \in Given \/ (\E i \in DOMAIN t : t[i] = Put(r))
      /\ \A r \in Given : r.id \in 0..ids
  BY AddsGiven
<1>2. ASSUME NEW r \in Given', r \notin Given
      PROVE  /\ r.tab = "branch" => r.ref = r.id
             /\ r.tab = "state" => r.ref = h /\ r.id \notin 0..ids /\ (r.id = h \/ h \in 0..ids)
  <2>1. PICK i \in DOMAIN t : t[i] = Put(r)
    BY <1>1, <1>2
  <2>2. t[i].row = r
    BY <2>1 DEF Put
  <2> QED
    BY <2>2
<1>3. newest' = newest
  BY DEF Adds
<1>4. Used' \subseteq Used \cup {h}
  BY <1>1, <1>2, <1>3 DEF Used
<1>5. 0..ids \subseteq 0..ids'
  BY DEF Adds, Typed
<1>6. ASSUME NEW r \in Given', r.tab = "state", r.id \in Used' PROVE r.ref = r.id
  <2>1. CASE r \in Given
    <3>1. r.id \in Used
      BY <1>1, <1>4, <1>6, <2>1
    <3> QED
      BY <1>6, <2>1, <3>1 DEF Rooted
  <2>2. CASE r \notin Given
    <3>1. r.id \notin Used
      BY <1>2, <1>6, <2>2 DEF Rooted
    <3> QED
      BY <1>2, <1>4, <1>6, <2>2, <3>1
  <2> QED
    BY <2>1, <2>2
<1> QED
  BY <1>2, <1>4, <1>5, <1>6 DEF Rooted

-----------------------------------------------------------------------------
(* The statements of each call *)

\* Short sequences.
LEMMA ShortSeqs ==
  ASSUME NEW a \in Stmts, NEW b \in Stmts, NEW c \in Stmts, NEW d \in Stmts, NEW e \in Stmts
  PROVE  /\ <<a>> \in Seq(Stmts) /\ DOMAIN <<a>> = {1} /\ Len(<<a>>) = 1
         /\ <<a, b>> \in Seq(Stmts) /\ DOMAIN <<a, b>> = {1, 2} /\ Len(<<a, b>>) = 2
         /\ <<a, b, c, d, e>> \in Seq(Stmts) /\ DOMAIN <<a, b, c, d, e>> = {1, 2, 3, 4, 5}
         /\ Len(<<a, b, c, d, e>>) = 5
  OBVIOUS

\* What a put shows of itself.
LEMMA RowFacts ==
  ASSUME NEW tab, NEW id, NEW ref, NEW with
  PROVE  /\ Row(tab, id, ref, with).tab = tab /\ Row(tab, id, ref, with).id = id
         /\ Row(tab, id, ref, with).ref = ref /\ Row(tab, id, ref, with).with = with
         /\ KeyOf(Row(tab, id, ref, with)) = <<tab, id>>
         /\ Put(Row(tab, id, ref, with)).op = "put"
         /\ Put(Row(tab, id, ref, with)).row = Row(tab, id, ref, with)
  BY DEF Row, Put, KeyOf

\* Statements that start history h in environment e, whatever keys K there are.
Founds(t, h, e, K) ==
  /\ t \in Seq(Stmts) /\ DOMAIN t = 1..5 /\ Len(t) = 5
  /\ \A i \in 1..5 : Shaped(t[i]) /\ t[i].row.id \in {0, h, e}
                     /\ Needs(t[i].row) \subseteq Coming(K, t, i)
                     /\ t[i].op = "put"
                     /\ t[i].row.tab \notin {"note", "target"}
                     /\ (t[i].row.tab \in {"state", "branch"} =>
                           t[i].row.id = h /\ t[i].row.ref = h)
  /\ Ground(h, e) \subseteq Coming(K, t, 5)

\* A new history's rows need nothing but each other, its root among them.
LEMMA OpeningRows ==
  ASSUME NEW h \in Nat, NEW e \in Nat, NEW K, NEW t, t = Opening(h, e)
  PROVE  Founds(t, h, e, K)
<1>1. /\ t = <<Put(Row("history", h, None, None)), Put(Row("branch", h, h, None)),
               Put(Row("state", h, h, None)), Put(Row("agent", 0, h, None)), Put(Row("env", e, h, None))>>
      /\ t \in Seq(Stmts) /\ DOMAIN t = 1..5 /\ Len(t) = 5
  <2>1. /\ Put(Row("history", h, None, None)) \in Stmts /\ Put(Row("branch", h, h, None)) \in Stmts
        /\ Put(Row("state", h, h, None)) \in Stmts /\ Put(Row("agent", 0, h, None)) \in Stmts
        /\ Put(Row("env", e, h, None)) \in Stmts
    BY RowTyped DEF Tables, Ids
  <2>2. 1..5 = {1, 2, 3, 4, 5}
    OBVIOUS
  <2> QED
    BY <2>1, <2>2, ShortSeqs DEF Opening
<1>2. /\ \A i \in 1..5 : t[i].op = "put" /\ t[i].row.id \in {0, h, e}
      /\ \A i \in {1, 4, 5} : t[i].row.tab \in {"history", "agent", "env"}
      /\ KeyOf(t[2].row) = <<"branch", h>> /\ t[2].row.tab = "branch" /\ t[2].row.ref = h
      /\ t[2].row.id = h /\ t[3].row.id = h
      /\ KeyOf(t[3].row) = <<"state", h>> /\ t[3].row.tab = "state" /\ t[3].row.ref = h
      /\ KeyOf(t[4].row) = <<"agent", 0>> /\ KeyOf(t[5].row) = <<"env", e>>
  BY <1>1 DEF Put, Row, KeyOf
<1>3. ASSUME NEW i \in {3, 5} PROVE Begun(h) \subseteq Coming(K, t, i)
  BY <1>2 DEF Coming, Begun
<1>7. {<<"env", e>>, <<"agent", 0>>} \subseteq Coming(K, t, 5)
  BY <1>2 DEF Coming
<1>4. Needs(t[3].row) = Begun(h) /\ \A i \in {1, 2, 4, 5} : Needs(t[i].row) = {}
  BY <1>2 DEF Needs, Begun
<1>5. \A i \in 1..5 : Needs(t[i].row) \subseteq Coming(K, t, i)
  BY <1>3, <1>4
<1>6. \A i \in 1..5 : /\ t[i].row.tab \notin {"note", "target"}
                      /\ t[i].row.tab \in {"state", "branch"} => t[i].row.id = h /\ t[i].row.ref = h
  BY <1>2
<1>8. Ground(h, e) \subseteq Coming(K, t, 5)
  BY <1>3, <1>7 DEF Ground
<1> QED
  BY <1>1, <1>2, <1>5, <1>6, <1>8 DEF Shaped, Founds

-----------------------------------------------------------------------------
(* The calls *)

Inv == Typed /\ Ordered /\ Noted /\ Rooted

\* What holds of a process before it queues a call.
LEMMA BeforeCall ==
  ASSUME Inv, NEW p \in Procs
  PROVE  /\ ids \in Nat
         /\ up[p] => hist[p] \in 0..ids /\ env[p] \in Nat /\ hist[p] \in Used
         /\ tagging[p] = None \/ todo[p] = <<>> => Seeking(todo[p], None)
         /\ \A K, i : K \subseteq Coming(K, todo[p], i)
         /\ Used \subseteq 0..ids
<1>1. ids \in Nat /\ (up[p] => hist[p] \in 0..ids /\ env[p] \in Nat)
  BY DEF Inv, Typed
<1>2. up[p] => hist[p] \in Used
  BY DEF Used
<1>3. Seeking(todo[p], tagging[p]) /\ (todo[p] = <<>> => Seeking(todo[p], None))
  <2>1. Seeking(todo[p], tagging[p])
    BY DEF Inv, Ordered, Tagging
  <2>2. ASSUME todo[p] = <<>> PROVE Seeking(todo[p], None)
    BY <2>2 DEF Seeking
  <2> QED
    BY <2>1, <2>2
<1>4. \A K, i : K \subseteq Coming(K, todo[p], i)
  BY DEF Coming
<1>5. Used \subseteq 0..ids
  BY DEF Inv, Rooted
<1> QED
  BY <1>1, <1>2, <1>3, <1>4, <1>5

\* A call of a process that stays as it is and queues no state and no branch.
LEMMA PlainCall ==
  ASSUME Inv, NEW p \in Procs, NEW t, Adds(p, t), UNCHANGED <<up, hist, env, cache>>,
         tagging' \in [Procs -> Ids], \A q \in Procs : q # p => tagging'[q] = tagging[q],
         \A i \in DOMAIN t :
           /\ t[i].row.tab \notin {"state", "branch"}
           /\ t[i].op = "put" => Needs(t[i].row) \subseteq Keys(db) \cup Coming(Keys(db), t, i),
         Seeking(todo[p], None),
         \/ tagging'[p] = None /\ Seeking(t, None)
         \/ tagging'[p] # None /\ t = <<Seek(Row("tag", tagging'[p], None, 0)), PutTag(tagging'[p])>>,
         Paired(Keys(db), t),
         \A n : Makes(t, n) => n \notin 0..ids /\ ~Drops(t, n),
         \A n : Drops(t, n) => n \in Notes
  PROVE  Inv'
<1>1. Keys(db) \subseteq Coming(Keys(db), todo[p], Len(todo[p]))
  BY BeforeCall
<1>2. Typed'
  <2>1. \A q \in Procs : up[q] => hist[q] \in 0..ids' /\ env[q] \in Nat
    BY DEF Inv, Typed, Adds
  <2>2. \A q \in Procs : \A f \in Functions : cache[q][f] # None => cache[q][f] <= ids'
    BY DEF Inv, Typed, Adds, Ids
  <2>3. Typed
    BY DEF Inv
  <2>4. /\ up' \in [Procs -> BOOLEAN] /\ hist' \in [Procs -> Ids] /\ env' \in [Procs -> Ids]
        /\ cache' \in [Procs -> [Functions -> Ids]]
    BY <2>3 DEF Typed
  <2> QED
    BY <2>1, <2>2, <2>3, <2>4, AddsTyped
<1>3. Ordered'
  <2>1. up'[p] => Ground(hist'[p], env'[p]) \subseteq Coming(Keys(db), todo[p], Len(todo[p]))
                                                        \cup Coming(Keys(db), t, Len(t))
    BY DEF Inv, Ordered, Working
  <2>2. Typed /\ Ordered
    BY DEF Inv
  <2> QED
    BY <1>1, <2>1, <2>2, AddsOrdered
<1>4. Noted'
  BY AddsNoted DEF Inv
<1>5. Rooted'
  BY AddsRooted, BeforeCall DEF Inv
<1> QED
  BY <1>2, <1>3, <1>4, <1>5 DEF Inv


\* A queue p adds statements to.
LEMMA QueueAdds ==
  ASSUME Inv, NEW p \in Procs, NEW t \in Seq(Stmts), NEW waits, Queue(p, t, waits),
         NEW n \in {0, 1, 2}, ids' = ids + n, UNCHANGED <<db, newest, removed>>,
         \A i \in DOMAIN t : Shaped(t[i]) /\ t[i].row.id <= ids'
  PROVE  Adds(p, t)
<1>1. ids \in Nat
  BY BeforeCall
<1> QED
  BY <1>1 DEF Queue, Adds

\* Annotate: a new note and its target.
LEMMA AnnotateInv ==
  ASSUME Inv, NEW p \in Procs, Annotate(p)
  PROVE  Inv'
<1> DEFINE n == ids + 1
           t == NoteRows(n)
<1>1. n \in Nat /\ n \notin 0..ids /\ ids' = n /\ Seeking(todo[p], None) /\ tagging[p] = None
  BY BeforeCall DEF Annotate, May
<1> HIDE DEF n
<1>2. /\ t \in Seq(Stmts) /\ DOMAIN t = {1, 2} /\ t[1] = PutNote(n) /\ t[2] = PutTarget(n)
  <2>1. PutNote(n) \in Stmts /\ PutTarget(n) \in Stmts
    BY <1>1, RowTyped DEF PutNote, PutTarget, Tables, Ids
  <2> QED
    BY <2>1, ShortSeqs DEF NoteRows, PutNote, PutTarget
<1> HIDE DEF t
<1>3. /\ t[1].op = "put" /\ t[1].row.tab = "note" /\ t[1].row.id = n
      /\ t[2].op = "put" /\ t[2].row.tab = "target" /\ t[2].row.id = n
  BY <1>2, RowFacts DEF PutNote, PutTarget
<1>4. Adds(p, t)
  <2>1. Queue(p, t, TRUE) /\ UNCHANGED <<db, newest, removed>> /\ ids' = ids + 1
    BY <1>1 DEF Annotate, n, t
  <2>2. \A i \in DOMAIN t : Shaped(t[i]) /\ t[i].row.id <= ids'
    BY <1>1, <1>2, <1>3 DEF Shaped
  <2> QED
    BY <1>2, <2>1, <2>2, QueueAdds
<1>5. Paired(Keys(db), t)
  BY <1>2, <1>3 DEF Paired
<1>6. \A i \in DOMAIN t : Needs(t[i].row) = {}
  BY <1>2, <1>3 DEF Needs
<1>7. \A m : ~Drops(t, m) /\ (Makes(t, m) => m = n)
  BY <1>2, <1>3 DEF Drops, Makes
<1>8. Seeking(t, None)
  BY <1>2, <1>3 DEF Seeking
<1> QED
  BY <1>1, <1>2, <1>3, <1>4, <1>5, <1>6, <1>7, <1>8, PlainCall DEF Annotate, Inv, Typed

\* A note a caller can know of.
LEMMA NotesFacts ==
  ASSUME Inv, NEW n \in Notes
  PROVE  n \in Nat /\ n <= ids
  BY DEF Inv, Typed, Notes, Rows, AllRows

\* UpdateNote: an update stores no row.
LEMMA UpdateNoteInv ==
  ASSUME Inv, NEW p \in Procs, NEW n \in Notes, UpdateNote(p, n)
  PROVE  Inv'
<1> DEFINE t == <<Edit(Row("note", n, None, 1))>>
<1>1. n \in Nat /\ n <= ids /\ ids \in Nat /\ ids' = ids + 0 /\ Seeking(todo[p], None) /\ tagging[p] = None
  BY BeforeCall, NotesFacts DEF UpdateNote, May
<1>2. t \in Seq(Stmts) /\ DOMAIN t = {1} /\ t[1] = Edit(Row("note", n, None, 1))
  <2>1. Edit(Row("note", n, None, 1)) \in Stmts
    BY <1>1, RowTyped DEF Tables, Ids
  <2> QED
    BY <2>1, ShortSeqs
<1>3. t[1].op = "edit" /\ t[1].row.tab = "note" /\ t[1].row.id = n
  BY <1>2 DEF Edit, Row
<1>4. Adds(p, t)
  <2>1. Queue(p, t, TRUE) /\ UNCHANGED <<db, newest, removed>>
    BY DEF UpdateNote
  <2>2. \A i \in DOMAIN t : Shaped(t[i]) /\ t[i].row.id <= ids'
    BY <1>1, <1>2, <1>3 DEF Shaped
  <2> QED
    BY <1>1, <1>2, <2>1, <2>2, QueueAdds
<1> HIDE DEF t
<1>5. Paired(Keys(db), t) /\ Seeking(t, None) /\ \A m : ~Drops(t, m) /\ ~Makes(t, m)
  BY <1>2, <1>3 DEF Paired, Seeking, Drops, Makes
<1> QED
  BY <1>1, <1>2, <1>3, <1>4, <1>5, PlainCall DEF UpdateNote, Inv, Typed

\* RemoveNote: the target goes ahead of the note.
LEMMA RemoveNoteInv ==
  ASSUME Inv, NEW p \in Procs, NEW n \in Notes, RemoveNote(p, n)
  PROVE  Inv'
<1> DEFINE t == <<Del("target", n), Del("note", n)>>
<1>1. n \in Nat /\ n <= ids /\ ids \in Nat /\ ids' = ids + 0 /\ Seeking(todo[p], None) /\ tagging[p] = None
  BY BeforeCall, NotesFacts DEF RemoveNote, May
<1>2. t \in Seq(Stmts) /\ DOMAIN t = {1, 2} /\ t[1] = Del("target", n) /\ t[2] = Del("note", n)
  <2>1. Del("target", n) \in Stmts /\ Del("note", n) \in Stmts
    BY <1>1, RowTyped DEF Tables, Ids
  <2> QED
    BY <2>1, ShortSeqs
<1>3. /\ t[1].op = "del" /\ t[1].row.tab = "target" /\ t[1].row.id = n
      /\ t[2].op = "del" /\ t[2].row.tab = "note" /\ t[2].row.id = n
  BY <1>2 DEF Del, Row
<1>4. Adds(p, t)
  <2>1. Queue(p, t, TRUE) /\ UNCHANGED <<db, newest, removed>>
    BY DEF RemoveNote
  <2>2. \A i \in DOMAIN t : Shaped(t[i]) /\ t[i].row.id <= ids'
    BY <1>1, <1>2, <1>3 DEF Shaped
  <2> QED
    BY <1>1, <1>2, <2>1, <2>2, QueueAdds
<1> HIDE DEF t
<1>5. Paired(Keys(db), t)
  BY <1>2, <1>3 DEF Paired
<1>6. Seeking(t, None) /\ \A m : ~Makes(t, m) /\ (Drops(t, m) => m = n)
  BY <1>2, <1>3 DEF Seeking, Drops, Makes
<1> QED
  BY <1>1, <1>2, <1>3, <1>4, <1>5, <1>6, PlainCall DEF RemoveNote, Inv, Typed

\* Pipeline: a new pipeline and its fragment.
LEMMA PipelineInv ==
  ASSUME Inv, NEW p \in Procs, Pipeline(p)
  PROVE  Inv'
<1> DEFINE n == ids + 1
           t == PipelineRows(n, hist[p])
<1>1. /\ n \in Nat /\ ids' = n /\ Seeking(todo[p], None) /\ tagging[p] = None /\ hist[p] \in Ids
      /\ up[p]
  BY BeforeCall DEF Pipeline, May, Inv, Typed
<1> HIDE DEF n
<1>2. /\ t \in Seq(Stmts) /\ DOMAIN t = {1, 2}
      /\ t[1] = Put(Row("pipeline", n, hist[p], None)) /\ t[2] = Put(Row("fragment", n, n, None))
  <2>1. /\ Put(Row("pipeline", n, hist[p], None)) \in Stmts
        /\ Put(Row("fragment", n, n, None)) \in Stmts
    BY <1>1, RowTyped DEF Tables, Ids
  <2> QED
    BY <2>1, ShortSeqs DEF PipelineRows
<1> HIDE DEF t
<1>3. /\ t[1].op = "put" /\ t[1].row.tab = "pipeline" /\ t[1].row.id = n
      /\ KeyOf(t[1].row) = <<"pipeline", n>>
      /\ t[2].op = "put" /\ t[2].row.tab = "fragment" /\ t[2].row.id = n /\ t[2].row.ref = n
  BY <1>2, RowFacts
<1>4. Adds(p, t)
  <2>1. Queue(p, t, TRUE) /\ UNCHANGED <<db, newest, removed>> /\ ids' = ids + 1
    BY <1>1 DEF Pipeline, n, t
  <2>2. \A i \in DOMAIN t : Shaped(t[i]) /\ t[i].row.id <= ids'
    BY <1>1, <1>2, <1>3 DEF Shaped
  <2> QED
    BY <1>2, <2>1, <2>2, QueueAdds
<1>5. Paired(Keys(db), t) /\ Seeking(t, None) /\ \A m : ~Drops(t, m) /\ ~Makes(t, m)
  BY <1>2, <1>3 DEF Paired, Seeking, Drops, Makes
<1>6. <<"pipeline", n>> \in Coming(Keys(db), t, 2)
  BY <1>3 DEF Coming
<1>7. Needs(t[1].row) = {} /\ Needs(t[2].row) = {<<"pipeline", n>>}
  BY <1>3 DEF Needs
<1>8. \A i \in DOMAIN t : Needs(t[i].row) \subseteq Coming(Keys(db), t, i)
  BY <1>2, <1>6, <1>7
<1> QED
  BY <1>1, <1>2, <1>3, <1>4, <1>5, <1>8, PlainCall DEF Pipeline, Inv, Typed

\* Tag: the name is sought, then the tag stored.
LEMMA TagInv ==
  ASSUME Inv, NEW p \in Procs, Tag(p)
  PROVE  Inv'
<1> DEFINE n == ids + 1
           t == <<Seek(Row("tag", n, None, 0)), PutTag(n)>>
<1>1. /\ n \in Nat /\ ids' = ids + 1 /\ ids' = n /\ Seeking(todo[p], None)
      /\ tagging' = [tagging EXCEPT ![p] = n] /\ tagging \in [Procs -> Ids]
  BY BeforeCall DEF Tag, May, Inv, Typed
<1>2. Queue(p, t, TRUE)
  BY DEF Tag, PutTag
<1> HIDE DEF n
<1>3. n # None /\ n \in Ids /\ tagging'[p] = n
  BY <1>1, SessionsAssumption DEF Ids
<1>4. /\ t \in Seq(Stmts) /\ DOMAIN t = {1, 2}
      /\ t[1] = Seek(Row("tag", n, None, 0)) /\ t[2] = Put(Row("tag", n, None, 0))
  <2>1. Seek(Row("tag", n, None, 0)) \in Stmts /\ Put(Row("tag", n, None, 0)) \in Stmts
    BY <1>1, RowTyped DEF Tables, Ids
  <2> QED
    BY <2>1, ShortSeqs DEF PutTag
<1>5. /\ t[1].op = "seek" /\ t[1].row.tab = "tag" /\ t[1].row.id = n
      /\ t[2].op = "put" /\ t[2].row.tab = "tag" /\ t[2].row.id = n
  BY <1>4, RowFacts DEF Seek
<1>6. t = <<Seek(Row("tag", tagging'[p], None, 0)), PutTag(tagging'[p])>>
  BY <1>3
<1> HIDE DEF t
<1>7. Adds(p, t)
  <2>1. UNCHANGED <<db, newest, removed>>
    BY DEF Tag
  <2>2. \A i \in DOMAIN t : Shaped(t[i]) /\ t[i].row.id <= ids'
    BY <1>1, <1>4, <1>5 DEF Shaped
  <2> QED
    BY <1>1, <1>2, <1>4, <2>1, <2>2, QueueAdds
<1>8. Paired(Keys(db), t) /\ \A m : ~Drops(t, m) /\ ~Makes(t, m)
  BY <1>4, <1>5 DEF Paired, Drops, Makes
<1>9. \A i \in DOMAIN t : Needs(t[i].row) = {}
  BY <1>4, <1>5 DEF Needs
<1>10. UNCHANGED <<up, hist, env, cache>>
  BY DEF Tag
<1>11. tagging' \in [Procs -> Ids] /\ \A q \in Procs : q # p => tagging'[q] = tagging[q]
  BY <1>1, <1>3
<1>12. \A i \in DOMAIN t : t[i].row.tab \notin {"state", "branch"}
  BY <1>4, <1>5
<1> QED
  BY <1>1, <1>3, <1>6, <1>7, <1>8, <1>9, <1>10, <1>11, <1>12, PlainCall

\* Assign: the tag that came back is stored.
LEMMA AssignInv ==
  ASSUME Inv, NEW p \in Procs, Assign(p)
  PROVE  Inv'
<1> DEFINE n == ids + 1
           g == tagging[p]
           t == <<Put(Row("assigned", n, g, None))>>
<1>1. /\ n \in Nat /\ ids' = ids + 1 /\ ids' = n /\ todo[p] = <<>> /\ Seeking(todo[p], None)
      /\ g # None /\ g \in Ids /\ tagging' = [tagging EXCEPT ![p] = None] /\ tagging \in [Procs -> Ids]
      /\ Queue(p, t, TRUE) /\ UNCHANGED <<up, hist, env, cache>> /\ UNCHANGED <<db, newest, removed>>
  <2>1. ids \in Nat /\ todo[p] = <<>> /\ Seeking(todo[p], None)
    BY BeforeCall DEF Assign
  <2>2. tagging \in [Procs -> Ids]
    BY DEF Inv, Typed
  <2>3. Queue(p, t, TRUE) /\ UNCHANGED <<up, hist, env, cache>> /\ UNCHANGED <<db, newest, removed>>
    BY DEF Assign
  <2>4. g # None /\ ids' = n /\ tagging' = [tagging EXCEPT ![p] = None]
    BY DEF Assign
  <2>5. n \in Nat /\ g \in Ids
    BY <2>1, <2>2
  <2> HIDE DEF t
  <2> QED
    BY <2>1, <2>2, <2>3, <2>4, <2>5
<1>2. <<"tag", g>> \in Keys(db)
  BY <1>1 DEF Inv, Ordered, Tagging
<1> HIDE DEF n, g
<1>3. t \in Seq(Stmts) /\ DOMAIN t = {1} /\ t[1] = Put(Row("assigned", n, g, None))
  <2>1. Put(Row("assigned", n, g, None)) \in Stmts
    BY <1>1, RowTyped DEF Tables, Ids
  <2> QED
    BY <2>1, ShortSeqs
<1> HIDE DEF t
<1>4. t[1].op = "put" /\ t[1].row.tab = "assigned" /\ t[1].row.id = n /\ t[1].row.ref = g
  BY <1>3, RowFacts
<1>5. Adds(p, t)
  <2>1. \A i \in DOMAIN t : Shaped(t[i]) /\ t[i].row.id <= ids'
    BY <1>1, <1>3, <1>4 DEF Shaped
  <2> QED
    BY <1>1, <1>3, <2>1, QueueAdds
<1>6. Paired(Keys(db), t) /\ Seeking(t, None) /\ \A m : ~Drops(t, m) /\ ~Makes(t, m)
  BY <1>3, <1>4 DEF Paired, Seeking, Drops, Makes
<1>7. \A i \in DOMAIN t : Needs(t[i].row) \subseteq Keys(db) /\ t[i].row.tab \notin {"state", "branch"}
  BY <1>2, <1>3, <1>4 DEF Needs
<1>8. /\ tagging' \in [Procs -> Ids] /\ tagging'[p] = None
      /\ \A q \in Procs : q # p => tagging'[q] = tagging[q]
  BY <1>1 DEF Ids
<1> QED
  BY <1>1, <1>5, <1>6, <1>7, <1>8, PlainCall

\* Untag: deletions of assignments, one for each row it found.
LEMMA UntagInv ==
  ASSUME Inv, NEW p \in Procs, Untag(p)
  PROVE  Inv'
<1> DEFINE as == {a.id : a \in {r \in Rows("assigned") : Key("tag", r.ref)}}
           t  == Unassign(as)
<1>1. /\ ids \in Nat /\ ids' = ids + 0 /\ Seeking(todo[p], None) /\ tagging[p] = None
      /\ Queue(p, t, TRUE)
      /\ UNCHANGED <<up, hist, env, cache, tagging>> /\ UNCHANGED <<db, newest, removed>>
  BY BeforeCall DEF Untag, May
<1>2. as \subseteq 0..ids
  BY DEF Inv, Typed, Rows, AllRows
<1>3. IsFiniteSet(as) /\ Cardinality(as) \in Nat
  <2>1. IsFiniteSet(0..ids)
    BY <1>1, FS_Interval
  <2>2. IsFiniteSet(as)
    BY <1>2, <2>1, FS_Subset
  <2> QED
    BY <2>2, FS_CardinalityType
<1> HIDE DEF as
<1>4. \A i \in 1..Cardinality(as) : SetToSeq(as)[i] \in as
  <2>1. \E f \in [1..Cardinality(as) -> as] : IsInjective(f)
    <3>1. ExistsBijection(1..Cardinality(as), as)
      BY <1>3, FS_CardinalityType
    <3> QED
      BY <3>1, <1>3 DEF ExistsBijection, Bijection, Injection, IsInjective
  <2>2. SetToSeq(as) \in [1..Cardinality(as) -> as]
    BY <2>1 DEF SetToSeq
  <2> QED
    BY <2>2
<1>5. /\ DOMAIN t = 1..Cardinality(as)
      /\ \A i \in DOMAIN t : \E a \in 0..ids : t[i] = Del("assigned", a)
  BY <1>2, <1>4 DEF Unassign
<1>6. \A a \in 0..ids : Del("assigned", a) \in Stmts
  BY <1>1, RowTyped DEF Tables, Ids
<1>7. t \in Seq(Stmts)
  <2>1. \A i \in 1..Cardinality(as) : t[i] \in Stmts
    BY <1>5, <1>6
  <2>2. t = [i \in 1..Cardinality(as) |-> t[i]]
    BY DEF Unassign
  <2> HIDE DEF t
  <2>3. t \in [1..Cardinality(as) -> Stmts]
    BY <2>1, <2>2
  <2> QED
    BY <1>3, <2>3, SeqDef
<1> HIDE DEF t
<1>8. \A i \in DOMAIN t : t[i].op = "del" /\ t[i].row.tab = "assigned" /\ t[i].row.id \in 0..ids
  <2> SUFFICES ASSUME NEW i \in DOMAIN t
               PROVE  t[i].op = "del" /\ t[i].row.tab = "assigned" /\ t[i].row.id \in 0..ids
    OBVIOUS
  <2>1. PICK a \in 0..ids : t[i] = Del("assigned", a)
    BY <1>5
  <2> QED
    BY <2>1 DEF Del, Row
<1>9. Adds(p, t)
  <2>1. \A i \in DOMAIN t : Shaped(t[i]) /\ t[i].row.id <= ids'
    BY <1>1, <1>8 DEF Shaped
  <2> QED
    BY <1>1, <1>7, <2>1, QueueAdds
<1>10. Paired(Keys(db), t) /\ Seeking(t, None) /\ \A m : ~Drops(t, m) /\ ~Makes(t, m)
  BY <1>8 DEF Paired, Seeking, Drops, Makes
<1>11. tagging' \in [Procs -> Ids] /\ tagging'[p] = None
  BY <1>1 DEF Inv, Typed
<1> QED
  BY <1>1, <1>8, <1>9, <1>10, <1>11, PlainCall

\* Processes start with a history and an environment.
LEMMA OpenTyped ==
  ASSUME Inv, NEW p \in Procs, NEW fresh \in BOOLEAN, Open(p, fresh), NEW t, Adds(p, t),
         ids' = ids + 2, NEW h \in 0..ids', hist'[p] = h
  PROVE  Typed' /\ up'[p] /\ hist' = [hist EXCEPT ![p] = h]
<1>1. ids \in Nat /\ Typed
  BY BeforeCall DEF Inv
<1>2. /\ up' = [up EXCEPT ![p] = TRUE] /\ env' = [env EXCEPT ![p] = ids + 1]
      /\ cache' = [cache EXCEPT ![p] = [f \in Functions |-> None]] /\ tagging' = tagging
      /\ \E k : hist' = [hist EXCEPT ![p] = k]
  BY DEF Open
<1>3. hist' = [hist EXCEPT ![p] = h]
  BY <1>1, <1>2 DEF Typed
<1>4. /\ up' \in [Procs -> BOOLEAN] /\ hist' \in [Procs -> Ids] /\ env' \in [Procs -> Ids]
      /\ cache' \in [Procs -> [Functions -> Ids]] /\ tagging' \in [Procs -> Ids]
  BY <1>1, <1>2, <1>3 DEF Typed, Ids
<1>5. \A q \in Procs : up'[q] => hist'[q] \in 0..ids' /\ env'[q] \in Nat
  BY <1>1, <1>2, <1>3 DEF Typed
<1>6. \A q \in Procs : \A f \in Functions : cache'[q][f] # None => cache'[q][f] <= ids'
  <2>1. \A q \in Procs : \A f \in Functions : cache[q][f] # None => cache[q][f] \in Nat /\ cache[q][f] <= ids
    BY <1>1 DEF Typed, Ids
  <2>2. \A q \in Procs : \A f \in Functions : q # p => cache'[q][f] = cache[q][f]
    BY <1>1, <1>2 DEF Typed
  <2>3. \A f \in Functions : cache'[p][f] = None
    BY <1>1, <1>2 DEF Typed
  <2> QED
    BY <1>1, <2>1, <2>2, <2>3
<1> QED
  BY <1>1, <1>2, <1>3, <1>4, <1>5, <1>6, AddsTyped DEF Typed

\* Open: the history found, which has its root and branch, is worked on.
LEMMA ResumeInv ==
  ASSUME Inv, NEW p \in Procs, NEW fresh \in BOOLEAN, Open(p, fresh), Existing(fresh) # None
  PROVE  Inv'
<1> DEFINE h == newest
           e == ids + 1
           t == <<Put(Row("agent", 0, h, None)), Put(Row("env", e, h, None))>>
<1>1. /\ ids \in Nat /\ e \in Nat /\ ids' = ids + 2 /\ Seeking(todo[p], None) /\ tagging[p] = None
      /\ Used \subseteq 0..ids
  BY BeforeCall DEF Open, May
<1>2. Existing(fresh) = h /\ h # None /\ h \in Used
  BY DEF Existing, Used
<1>3. /\ Queue(p, t, TRUE) /\ hist' = [hist EXCEPT ![p] = h] /\ up' = [up EXCEPT ![p] = TRUE]
      /\ env' = [env EXCEPT ![p] = e] /\ tagging' = tagging /\ UNCHANGED <<db, newest, removed>>
  BY <1>2 DEF Open
<1>4. h \in 0..ids /\ h \in Nat /\ h \in 0..ids'
  BY <1>1, <1>2
<1> HIDE DEF e, h
<1>5. /\ t \in Seq(Stmts) /\ DOMAIN t = {1, 2} /\ Len(t) = 2
      /\ t[1] = Put(Row("agent", 0, h, None)) /\ t[2] = Put(Row("env", e, h, None))
  <2>1. Put(Row("agent", 0, h, None)) \in Stmts /\ Put(Row("env", e, h, None)) \in Stmts
    BY <1>1, <1>4, RowTyped DEF Tables, Ids
  <2> QED
    BY <2>1, ShortSeqs
<1> HIDE DEF t
<1>6. /\ t[1].op = "put" /\ t[1].row.tab = "agent" /\ t[1].row.id = 0
      /\ t[2].op = "put" /\ t[2].row.tab = "env" /\ t[2].row.id = e
      /\ KeyOf(t[1].row) = <<"agent", 0>> /\ KeyOf(t[2].row) = <<"env", e>>
  BY <1>5, RowFacts
<1>7. Adds(p, t)
  <2>1. \A i \in DOMAIN t : Shaped(t[i]) /\ t[i].row.id <= ids'
    BY <1>1, <1>5, <1>6 DEF Shaped, e
  <2> QED
    BY <1>1, <1>3, <1>5, <2>1, QueueAdds
<1>8. Typed /\ hist'[p] = h /\ env'[p] = e /\ h \in 0..ids'
  <2>1. Typed
    BY DEF Inv
  <2> QED
    BY <1>4, <1>3, <2>1 DEF Typed
<1>9. Typed'
  BY <1>1, <1>7, <1>8, OpenTyped
<1>10. Ordered'
  <2>1. \A i \in DOMAIN t : Needs(t[i].row) = {}
    BY <1>5, <1>6 DEF Needs
  <2>2. Ground(h, e) \subseteq Coming(Keys(db), todo[p], Len(todo[p])) \cup Coming(Keys(db), t, Len(t))
    <3>1. Begun(h) \subseteq Keys(db)
      BY <1>2 DEF h, Inv, Ordered, Working
    <3>2. {<<"env", e>>, <<"agent", 0>>} \subseteq Coming(Keys(db), t, Len(t))
      BY <1>5, <1>6 DEF Coming
    <3> QED
      BY <3>1, <3>2, BeforeCall DEF Ground
  <2>3. \A q \in Procs : q # p => /\ up'[q] = up[q] /\ hist'[q] = hist[q] /\ env'[q] = env[q]
                                 /\ tagging'[q] = tagging[q]
    BY <1>3, <1>8 DEF Typed
  <2>4. tagging'[p] = None /\ Seeking(t, None)
    BY <1>1, <1>3, <1>5, <1>6 DEF Seeking
  <2> QED
    BY <1>1, <1>7, <1>8, <2>1, <2>2, <2>3, <2>4, AddsOrdered DEF Inv
<1>11. Noted'
  <2>1. Paired(Keys(db), t) /\ \A m : ~Drops(t, m) /\ ~Makes(t, m)
    BY <1>5, <1>6 DEF Paired, Drops, Makes
  <2> QED
    BY <1>7, <2>1, AddsNoted DEF Inv
<1>12. Rooted'
  <2>1. \A q \in Procs : up'[q] => hist'[q] \in Used
    <3>1. ASSUME NEW q \in Procs, up'[q] PROVE hist'[q] \in Used
      <4>1. CASE q = p
        BY <1>2, <1>8, <4>1
      <4>2. CASE q # p
        BY <1>3, <1>8, <3>1, <4>2, BeforeCall DEF Typed
      <4> QED
        BY <4>1, <4>2
    <3> QED
      BY <3>1
  <2> QED
    BY <1>5, <1>6, <1>7, <2>1, AddsRooted DEF Inv
<1> QED
  BY <1>9, <1>10, <1>11, <1>12 DEF Inv

\* Open: a new history is put with its branch and its root.
LEMMA BeginInv ==
  ASSUME Inv, NEW p \in Procs, NEW fresh \in BOOLEAN, Open(p, fresh), Existing(fresh) = None
  PROVE  Inv'
<1> DEFINE h == ids + 2
           e == ids + 1
           t == Opening(h, e)
<1>1. /\ ids \in Nat /\ ids' = ids + 2 /\ Seeking(todo[p], None) /\ tagging[p] = None
      /\ Used \subseteq 0..ids
  BY BeforeCall DEF Open, May
<1>2. h \in Nat /\ e \in Nat /\ h \in 0..ids' /\ h \notin 0..ids /\ e <= ids'
  BY <1>1
<1>3. /\ Queue(p, t, TRUE) /\ hist' = [hist EXCEPT ![p] = h] /\ up' = [up EXCEPT ![p] = TRUE]
      /\ env' = [env EXCEPT ![p] = e] /\ tagging' = tagging /\ UNCHANGED <<db, newest, removed>>
  BY DEF Open
<1>4. t = Opening(h, e)
  OBVIOUS
<1> HIDE DEF e, h, t
<1>5. /\ t \in Seq(Stmts) /\ DOMAIN t = 1..5 /\ Len(t) = 5
      /\ \A i \in 1..5 : Shaped(t[i]) /\ t[i].row.id \in {0, h, e}
                         /\ Needs(t[i].row) \subseteq Coming(Keys(db), t, i)
                         /\ t[i].op = "put"
                         /\ t[i].row.tab \notin {"note", "target"}
                         /\ (t[i].row.tab \in {"state", "branch"} =>
                               t[i].row.id = h /\ t[i].row.ref = h)
      /\ Ground(h, e) \subseteq Coming(Keys(db), t, Len(t))
  <2> DEFINE K == Keys(db)
  <2> HIDE DEF K
  <2>1. Founds(t, h, e, K)
    BY <1>2, <1>4, OpeningRows
  <2> QED
    BY <2>1 DEF K, Founds
<1>6. Adds(p, t)
  <2>1. \A i \in DOMAIN t : Shaped(t[i]) /\ t[i].row.id <= ids'
    BY <1>1, <1>2, <1>5
  <2> QED
    BY <1>1, <1>3, <1>5, <2>1, QueueAdds
<1>7. Typed /\ hist'[p] = h /\ env'[p] = e
  <2>1. Typed
    BY DEF Inv
  <2> QED
    BY <1>3, <2>1 DEF Typed
<1>8. Typed'
  BY <1>1, <1>2, <1>6, <1>7, OpenTyped
<1>9. \A q \in Procs : q # p => /\ up'[q] = up[q] /\ hist'[q] = hist[q] /\ env'[q] = env[q]
                               /\ tagging'[q] = tagging[q]
  BY <1>3, <1>7 DEF Typed
<1>10. Ordered'
  <2>1. tagging'[p] = None /\ Seeking(t, None)
    BY <1>1, <1>3, <1>5 DEF Seeking
  <2>2. \A i \in DOMAIN t : Needs(t[i].row) \subseteq Coming(Keys(db), t, i)
    BY <1>5
  <2> QED
    BY <1>1, <1>5, <1>6, <1>7, <1>9, <2>1, <2>2, AddsOrdered DEF Inv
<1>11. Noted'
  <2>1. Paired(Keys(db), t) /\ \A m : ~Drops(t, m) /\ ~Makes(t, m)
    BY <1>5 DEF Paired, Drops, Makes
  <2> QED
    BY <1>6, <2>1, AddsNoted DEF Inv
<1>12. Rooted'
  <2>1. \A q \in Procs : up'[q] => hist'[q] \in Used \cup {h}
    <3> SUFFICES ASSUME NEW q \in Procs, up'[q] PROVE hist'[q] \in Used \cup {h}
      OBVIOUS
    <3>1. CASE q = p
      BY <1>7, <3>1
    <3>2. CASE q # p
      BY <1>9, <3>2, BeforeCall
    <3> QED
      BY <3>1, <3>2
  <2>2. \A i \in DOMAIN t :
          /\ t[i].row.tab = "branch" => t[i].row.ref = t[i].row.id
          /\ t[i].row.tab = "state" => t[i].row.ref = h /\ t[i].row.id \notin 0..ids
                                       /\ (t[i].row.id = h \/ h \in 0..ids)
    BY <1>2, <1>5
  <2>3. Typed /\ Rooted
    BY DEF Inv
  <2> QED
    BY <1>2, <1>6, <2>1, <2>2, <2>3, AddsRoot
<1> QED
  BY <1>8, <1>10, <1>11, <1>12 DEF Inv

\* An operation that a step names.
LEMMA OperationsFacts ==
  ASSUME Inv, NEW p \in Procs, NEW f \in Functions, NEW o \in Operations(p, f)
  PROVE  o \in Nat /\ o <= ids + 2
<1>1. ids \in Nat /\ Typed
  BY BeforeCall DEF Inv
<1>2. CASE o = cache[p][f] /\ o # None
  BY <1>1, <1>2 DEF Typed, Ids
<1>3. CASE o \in OperationsOf(f)
  BY <1>1, <1>3 DEF Typed, OperationsOf, Rows, AllRows
<1>4. CASE o = ids + 2
  BY <1>1, <1>4
<1> QED
  BY <1>2, <1>3, <1>4 DEF Operations

\* Trace: the rows of a step, for the history the process works on.
LEMMA TraceInv ==
  ASSUME Inv, NEW p \in Procs, NEW f \in Functions, Trace(p, f)
  PROVE  Inv'
<1> DEFINE h == hist[p]
           e == env[p]
           s == ids + 1
           K == Keys(db)
<1>1. /\ ids \in Nat /\ ids' = ids + 2 /\ Seeking(todo[p], None) /\ tagging[p] = None
      /\ Used \subseteq 0..ids /\ up[p] /\ h \in Used /\ e \in Nat
  BY BeforeCall DEF Trace, May
<1>2. h \in Nat /\ h \in 0..ids /\ h \in 0..ids' /\ s \in Nat /\ s \notin 0..ids /\ s <= ids'
  <2>1. s \in Nat /\ s \notin 0..ids /\ s <= ids'
    BY <1>1
  <2>2. h \in 0..ids
    BY <1>1
  <2> HIDE DEF h, s
  <2> QED
    BY <1>1, <2>1, <2>2
<1>3. PICK o \in Operations(p, f) :
        cache' = [cache EXCEPT ![p][f] = o] /\ Queue(p, StepRows(p, s, o, f), FALSE)
  BY DEF Trace
<1>4. o \in Nat /\ o <= ids'
  BY <1>1, OperationsFacts
<1> DEFINE t == StepRows(p, s, o, f)
<1>5. UNCHANGED <<db, newest, removed>> /\ UNCHANGED <<up, hist, env, tagging>> /\ Queue(p, t, FALSE)
  BY <1>3 DEF Trace
<1>6. t = StepRows(p, s, o, f) /\ hist[p] = h /\ env[p] = e
  OBVIOUS
<1> HIDE DEF s, t, h, e, K
<1>7. /\ t \in Seq(Stmts) /\ DOMAIN t = 1..5
      /\ \A i \in 1..5 : Shaped(t[i]) /\ t[i].row.id \in {s, o, h} /\ t[i].op = "put"
                         /\ Needs(t[i].row) \subseteq Ground(h, e) \cup Coming(K, t, i)
                         /\ t[i].row.tab \notin {"note", "target", "branch"}
                         /\ (t[i].row.tab = "state" => t[i].row.id = s /\ t[i].row.ref = h)
  <2>1. /\ t = <<Put(Row("state", s, h, None)), Put(Row("step", s, o, e)),
                 Put(Row("type", o, None, None)), Put(Row("operation", o, o, f)),
                 Put(Row("active", h, s, None))>>
        /\ t \in Seq(Stmts) /\ DOMAIN t = 1..5 /\ Len(t) = 5
    <3>1. /\ Put(Row("state", s, h, None)) \in Stmts /\ Put(Row("step", s, o, e)) \in Stmts
          /\ Put(Row("type", o, None, None)) \in Stmts /\ Put(Row("operation", o, o, f)) \in Stmts
          /\ Put(Row("active", h, s, None)) \in Stmts
      BY <1>1, <1>2, <1>4, RowTyped DEF Tables, Ids
    <3>2. 1..5 = {1, 2, 3, 4, 5}
      OBVIOUS
    <3> QED
      BY <3>1, <3>2, ShortSeqs, <1>6 DEF StepRows
  <2>2. /\ \A i \in 1..5 : t[i].op = "put" /\ t[i].row.id \in {s, o, h}
        /\ t[1].row = Row("state", s, h, None) /\ t[2].row = Row("step", s, o, e)
        /\ t[3].row = Row("type", o, None, None) /\ t[4].row = Row("operation", o, o, f)
        /\ t[5].row = Row("active", h, s, None)
    BY <2>1 DEF Put, Row
  <2>3. /\ Needs(t[1].row) = Begun(h) /\ Needs(t[3].row) = {}
        /\ Needs(t[2].row) = {<<"state", s>>, <<"env", e>>, <<"agent", 0>>}
        /\ Needs(t[4].row) = {<<"type", o>>} /\ Needs(t[5].row) = {<<"state", s>>}
    BY <2>2 DEF Needs, Row, Begun
  <2>4. /\ <<"state", s>> \in Coming(K, t, 2) /\ <<"state", s>> \in Coming(K, t, 5)
        /\ <<"type", o>> \in Coming(K, t, 4)
    BY <2>2 DEF Coming, Row, KeyOf
  <2>5. \A i \in 1..5 : Needs(t[i].row) \subseteq Ground(h, e) \cup Coming(K, t, i)
    BY <2>3, <2>4 DEF Ground
  <2>6. \A i \in 1..5 : /\ t[i].row.tab \notin {"note", "target", "branch"}
                        /\ t[i].row.tab = "state" => t[i].row.id = s /\ t[i].row.ref = h
    BY <2>2 DEF Row
  <2>7. t \in Seq(Stmts) /\ DOMAIN t = 1..5
    BY <2>1
  <2>8. \A i \in 1..5 : Shaped(t[i])
    BY <2>2 DEF Shaped
  <2> QED
    BY <2>2, <2>5, <2>6, <2>7, <2>8
<1>8. Adds(p, t)
  <2>1. \A i \in DOMAIN t : Shaped(t[i]) /\ t[i].row.id <= ids'
    BY <1>1, <1>2, <1>4, <1>7
  <2> QED
    BY <1>1, <1>5, <1>7, <2>1, QueueAdds
<1>9. Typed'
  <2>1. Typed
    BY DEF Inv
  <2>2. cache' \in [Procs -> [Functions -> Ids]]
    BY <1>3, <1>4, <2>1 DEF Typed, Ids
  <2>3. \A q \in Procs : \A g \in Functions : cache'[q][g] # None => cache'[q][g] <= ids'
    <3> SUFFICES ASSUME NEW q \in Procs, NEW g \in Functions, cache'[q][g] # None
                 PROVE  cache'[q][g] <= ids'
      OBVIOUS
    <3>1. cache[q][g] # None => cache[q][g] \in Nat /\ cache[q][g] <= ids
      BY <2>1 DEF Typed, Ids
    <3>2. cache'[q][g] = o \/ cache'[q][g] = cache[q][g]
      BY <1>3, <2>1 DEF Typed
    <3> QED
      BY <1>1, <1>4, <3>1, <3>2
  <2>4. \A q \in Procs : up'[q] => hist'[q] \in 0..ids' /\ env'[q] \in Nat
    BY <1>1, <1>5, <2>1 DEF Typed
  <2>5. /\ up' \in [Procs -> BOOLEAN] /\ hist' \in [Procs -> Ids] /\ env' \in [Procs -> Ids]
        /\ tagging' \in [Procs -> Ids]
    BY <1>5, <2>1 DEF Typed
  <2> QED
    BY <1>8, <2>1, <2>2, <2>3, <2>4, <2>5, AddsTyped
<1>10. Ordered'
  <2>1. Ground(h, e) \subseteq Coming(Keys(db), todo[p], Len(todo[p]))
    BY <1>1 DEF h, e, Inv, Ordered, Working
  <2>2. tagging'[p] = None /\ Seeking(t, None) /\ hist'[p] = h /\ env'[p] = e
    BY <1>1, <1>5, <1>7 DEF Seeking, h, e
  <2>3. \A i \in DOMAIN t : t[i].op = "put" =>
          Needs(t[i].row) \subseteq Coming(Keys(db), todo[p], Len(todo[p])) \cup Coming(Keys(db), t, i)
    BY <1>7, <2>1 DEF K
  <2> QED
    BY <1>1, <1>5, <1>8, <2>1, <2>2, <2>3, AddsOrdered DEF Inv
<1>11. Noted'
  <2>1. Paired(Keys(db), t) /\ \A m : ~Drops(t, m) /\ ~Makes(t, m)
    BY <1>7 DEF Paired, Drops, Makes
  <2> QED
    BY <1>8, <2>1, AddsNoted DEF Inv
<1>12. Rooted'
  <2>1. \A q \in Procs : up'[q] => hist'[q] \in Used \cup {h}
    BY <1>5, BeforeCall
  <2>2. \A i \in DOMAIN t :
          /\ t[i].row.tab = "branch" => t[i].row.ref = t[i].row.id
          /\ t[i].row.tab = "state" => t[i].row.ref = h /\ t[i].row.id \notin 0..ids
                                       /\ (t[i].row.id = h \/ h \in 0..ids)
    BY <1>2, <1>7
  <2>3. Typed /\ Rooted
    BY DEF Inv
  <2> QED
    BY <1>1, <1>2, <1>8, <2>1, <2>2, <2>3, AddsRoot
<1> QED
  BY <1>9, <1>10, <1>11, <1>12 DEF Inv

-----------------------------------------------------------------------------
(* The writer thread *)

\* The queue once its first statement has run: nothing is left of it if a tag was found.
LEMMA WrittenQueue ==
  ASSUME Inv, NEW p \in Procs, Write(p)
  PROVE  /\ todo[p] \in Seq(Stmts) /\ todo[p] # <<>> /\ Head(todo[p]) = todo[p][1]
         /\ todo[p][1] \in Stmts /\ Shaped(todo[p][1]) /\ db' = Applied(todo[p][1])
         /\ \A q \in Procs : q # p => todo'[q] = todo[q] /\ tagging'[q] = tagging[q]
         /\ todo' \in [Procs -> Seq(Stmts)] /\ tagging' \in [Procs -> Ids]
         /\ \/ todo'[p] = Tail(todo[p]) /\ tagging'[p] = tagging[p]
            \/ /\ todo'[p] = <<>> /\ <<"tag", tagging'[p]>> \in Keys(db) /\ db' = db
               /\ tagging[p] # None /\ \A i \in DOMAIN todo[p] : todo[p][i].row.tab = "tag"
<1> DEFINE q == todo[p]
           s == q[1]
           known == s.op = "seek" /\ Found(s) # {}
<1>1. q \in Seq(Stmts) /\ q # <<>> /\ Typed
  BY DEF Write, Inv, Typed
<1>2. /\ Head(q) = s /\ s \in Stmts /\ Tail(q) \in Seq(Stmts) /\ 1 \in DOMAIN q
      /\ Len(q) \in Nat \ {0}
  BY <1>1, TailFacts
<1>3. Shaped(s)
  BY <1>2 DEF Inv, Ordered, InOrder, Waits
<1>4. /\ db' = Applied(s)
      /\ todo' = [todo EXCEPT ![p] = IF known THEN Tail(Tail(q)) ELSE Tail(q)]
      /\ \/ known /\ \E g \in Found(s) : tagging' = [tagging EXCEPT ![p] = g]
         \/ ~known /\ UNCHANGED tagging
  BY <1>2 DEF Write
<1>5. CASE known
  <2>1. Len(q) = 2 /\ tagging[p] # None /\ \A i \in DOMAIN q : q[i].row.tab = "tag"
    <3>1. Seeking(q, tagging[p])
      BY DEF Inv, Ordered, Tagging
    <3>2. 1 = Len(q) - 1 /\ q[Len(q)] = PutTag(tagging[p]) /\ tagging[p] # None
      BY <1>2, <1>5, <3>1 DEF Seeking
    <3>3. Len(q) = 2 /\ DOMAIN q = 1..2
      BY <1>1, <1>2, <3>2, TailFacts
    <3>4. q[2].row.tab = "tag" /\ q[1].row.tab = "tag"
      BY <1>3, <1>5, <3>2, <3>3 DEF PutTag, Put, Row, Shaped
    <3> QED
      BY <3>2, <3>3, <3>4
  <2>2. Tail(Tail(q)) = <<>>
    <3>1. Tail(q) \in Seq(Stmts) /\ Len(Tail(q)) = 1
      BY <1>1, <2>1, TailFacts
    <3> QED
      BY <3>1, LastTail
  <2>3. PICK g \in Found(s) : tagging' = [tagging EXCEPT ![p] = g]
    BY <1>4, <1>5
  <2>4. g \in Nat /\ <<"tag", g>> \in Keys(db)
    BY <1>1, <2>3 DEF Typed, Found, Rows, Keys, KeyOf, AllRows
  <2>5. db' = db
    BY <1>4, <1>5 DEF Applied
  <2> HIDE DEF q, s
  <2>6. todo' = [todo EXCEPT ![p] = <<>>]
    BY <1>4, <1>5, <2>2
  <2>7. /\ todo' \in [Procs -> Seq(Stmts)] /\ todo'[p] = <<>>
        /\ \A o \in Procs : o # p => todo'[o] = todo[o]
    BY <1>1, <2>6 DEF Typed
  <2>8. /\ tagging' \in [Procs -> Ids] /\ tagging'[p] = g
        /\ \A o \in Procs : o # p => tagging'[o] = tagging[o]
    BY <1>1, <2>3, <2>4 DEF Typed, Ids
  <2> QED
    BY <1>1, <1>2, <1>3, <1>4, <2>1, <2>4, <2>5, <2>7, <2>8 DEF q, s
<1>6. CASE ~known
  <2>1. todo' = [todo EXCEPT ![p] = Tail(q)] /\ tagging' = tagging
    BY <1>4, <1>6
  <2> HIDE DEF q, s, known
  <2>2. /\ todo' \in [Procs -> Seq(Stmts)] /\ todo'[p] = Tail(q)
        /\ \A o \in Procs : o # p => todo'[o] = todo[o]
    BY <1>1, <1>2, <2>1 DEF Typed
  <2>3. tagging' \in [Procs -> Ids]
    BY <1>1, <2>1 DEF Typed
  <2> QED
    BY <1>1, <1>2, <1>3, <1>4, <2>1, <2>2, <2>3 DEF q, s
<1> QED
  BY <1>5, <1>6

\* Write keeps the types.
LEMMA WriteTyped ==
  ASSUME Inv, NEW p \in Procs, Write(p)
  PROVE  Typed'
<1> DEFINE q == todo[p]
           s == q[1]
<1>1. /\ q \in Seq(Stmts) /\ q # <<>> /\ Head(q) = s /\ s \in Stmts /\ db' = Applied(s)
      /\ \A o \in Procs : o # p => todo'[o] = todo[o]
      /\ todo' \in [Procs -> Seq(Stmts)] /\ tagging' \in [Procs -> Ids]
      /\ todo'[p] = Tail(q) \/ todo'[p] = <<>>
  BY WrittenQueue
<1>2. Typed
  BY DEF Inv
<1>3. s.row.id <= ids /\ s.row \in AllRows
  BY <1>1, <1>2, TailFacts DEF Typed, Stmts
<1> HIDE DEF s
<1>4. db' \subseteq AllRows /\ \A r \in db' : r.id <= ids
  BY <1>1, <1>2, <1>3, AppliedRows DEF Typed
<1>5. newest' = newest \/ (newest' = s.row.ref /\ s \in Stmts /\ s.op = "put" /\ s.row.tab = "state")
  BY <1>1 DEF Write, s
<1>6. newest' \in Ids /\ (newest' # None => newest' <= ids)
  <2>1. CASE newest' = newest
    BY <1>2, <2>1 DEF Typed
  <2>2. CASE newest' = s.row.ref /\ s.op = "put" /\ s.row.tab = "state"
    <3>1. s.row \in Given
      <4>1. s = Put(s.row)
        BY <1>1, <2>2, PutOf
      <4>2. 1 \in DOMAIN q /\ q[1] = s
        BY <1>1, TailFacts DEF s
      <4> QED
        BY <1>3, <4>1, <4>2 DEF Given
    <3>2. s.row.ref \in Used
      BY <2>2, <3>1 DEF Used
    <3>3. s.row.ref \in 0..ids
      BY <3>2 DEF Inv, Rooted
    <3> QED
      BY <1>2, <2>2, <3>3 DEF Typed, Ids
  <2> QED
    BY <1>5, <2>1, <2>2
<1>7. removed' \subseteq Nat /\ \A n \in removed' : n <= ids
  <2>1. removed' = removed \/ removed' = removed \cup {s.row.id}
    BY <1>1 DEF Write
  <2> QED
    BY <1>2, <1>3, <2>1 DEF Typed, AllRows
<1>8. \A o \in Procs : \A i \in DOMAIN todo'[o] : todo'[o][i].row.id <= ids
  <2>1. \A i \in DOMAIN Tail(q) : Tail(q)[i].row.id <= ids
    <3> SUFFICES ASSUME NEW i \in DOMAIN Tail(q) PROVE Tail(q)[i].row.id <= ids
      OBVIOUS
    <3>1. i + 1 \in DOMAIN q /\ Tail(q)[i] = q[i + 1]
      BY <1>1, TailFacts
    <3> QED
      BY <1>2, <3>1 DEF Typed
  <2>2. \A i \in DOMAIN todo'[p] : todo'[p][i].row.id <= ids
    <3>1. CASE todo'[p] = Tail(q)
      BY <2>1, <3>1
    <3>2. CASE todo'[p] = <<>>
      BY <3>2
    <3> QED
      BY <1>1, <3>1, <3>2
  <2> QED
    BY <1>1, <1>2, <2>2 DEF Typed
<1>9. UNCHANGED <<up, hist, env, cache, ids>>
  BY DEF Write
<1> QED
  BY <1>1, <1>2, <1>4, <1>6, <1>7, <1>8, <1>9 DEF Typed

\* Keys that are there after a statement, and kept ones.
LEMMA WriteKeys ==
  ASSUME Inv, NEW p \in Procs, Write(p)
  PROVE  /\ Keys(db) \cap KeptKeys \subseteq Keys(db)'
         /\ todo[p][1].op = "put" => Keys(db)' = Keys(db) \cup {KeyOf(todo[p][1].row)}
         /\ todo[p][1].op \in {"edit", "seek"} => Keys(db)' = Keys(db)
         /\ todo[p][1].op = "del" => Keys(db)' = Keys(db) \ {KeyOf(todo[p][1].row)}
<1> DEFINE s == todo[p][1]
<1>1. s \in Stmts /\ Shaped(s) /\ db' = Applied(s)
  BY WrittenQueue
<1> HIDE DEF s
<1>2. /\ s.op = "put" => Keys(db)' = Keys(db) \cup {KeyOf(s.row)}
      /\ s.op \in {"edit", "seek"} => Keys(db)' = Keys(db)
      /\ s.op = "del" => Keys(db)' = Keys(db) \ {KeyOf(s.row)}
  <2>1. Keys(db)' = Keys(Applied(s))
    BY <1>1 DEF Keys
  <2> QED
    BY <1>1, <2>1, AppliedKeys DEF Inv, Typed
<1>3. s.op = "del" => KeyOf(s.row) \notin KeptKeys
  BY <1>1 DEF Shaped, KeyOf, KeptKeys
<1> QED
  BY <1>1, <1>2, <1>3 DEF s, Stmts

\* Write keeps the order.
LEMMA WriteOrdered ==
  ASSUME Inv, NEW p \in Procs, Write(p)
  PROVE  Ordered'
<1> DEFINE q == todo[p]
           s == q[1]
           K == Keys(db)
           L == Keys(db)'
<1>1. /\ q \in Seq(Stmts) /\ q # <<>> /\ s \in Stmts /\ Shaped(s) /\ db' = Applied(s)
      /\ \A o \in Procs : o # p => todo'[o] = todo[o] /\ tagging'[o] = tagging[o]
      /\ \A o \in Procs : todo[o] \in Seq(Stmts)
      /\ \/ todo'[p] = Tail(q) /\ tagging'[p] = tagging[p]
         \/ /\ todo'[p] = <<>> /\ <<"tag", tagging'[p]>> \in K /\ L = K
            /\ \A i \in DOMAIN q : q[i].op = "put" => q[i].row.tab = "tag"
  <2>1. Typed
    BY DEF Inv
  <2> QED
    BY <2>1, WrittenQueue DEF Typed, Keys
<1>2. /\ K \cap KeptKeys \subseteq L
      /\ s.op = "put" => KeyOf(s.row) \in L /\ L = K \cup {KeyOf(s.row)}
  BY WriteKeys
<1>3. /\ Ordered /\ Typed /\ Waits(K, q)
      /\ UNCHANGED <<up, hist, env>> /\ L = Keys(db')
      /\ newest' = IF s.op = "put" /\ s.row.tab = "state" THEN s.row.ref ELSE newest
  <2>1. Ordered /\ Typed /\ Waits(K, q)
    BY DEF Inv, Ordered, InOrder
  <2>2. Head(q) = s
    BY <1>1, TailFacts
  <2> QED
    BY <2>1, <2>2 DEF Write, Keys
<1>4. /\ s.op = "put" => Needs(s.row) \subseteq L
      /\ s.row \in AllRows /\ Needs(s.row) \subseteq KeptKeys
  <2>1. s.op = "put" => Needs(s.row) \subseteq Coming(K, q, 1)
    BY <1>1, <1>3, TailFacts DEF Waits
  <2>2. s.op = "put" => Coming(K, q, 1) \subseteq L
    BY <1>2 DEF Coming
  <2>3. s.row \in AllRows
    BY <1>1 DEF Stmts
  <2> QED
    BY <2>1, <2>2, <2>3, NeedsKept
<1> HIDE DEF s, K, L
<1>5. Stored'
  <2> SUFFICES ASSUME NEW r \in db' PROVE Needs(r) \subseteq L
    BY <1>3 DEF Stored, L
  <2>1. CASE r \in db
    <3>1. Needs(r) \subseteq K /\ Needs(r) \subseteq KeptKeys
      BY <1>3, <2>1, NeedsKept DEF Ordered, Stored, Typed, K
    <3> QED
      BY <1>2, <3>1
  <2>2. CASE r \notin db
    <3>1. s.op \in {"put", "edit"} /\ r = s.row
      BY <1>1, <1>3, <2>2, AppliedRows DEF Typed
    <3>2. s.op = "edit" => Needs(s.row) = {}
      BY <1>1 DEF Shaped, Needs
    <3> QED
      BY <1>4, <3>1, <3>2
  <2> QED
    BY <2>1, <2>2
<1>6. ASSUME NEW o \in Procs
      PROVE  /\ Waits(L, todo'[o])
             /\ Coming(K, todo[o], Len(todo[o])) \cap KeptKeys
                  \subseteq Coming(L, todo'[o], Len(todo'[o]))
  <2>1. Waits(K, todo[o])
    BY <1>3 DEF Ordered, InOrder, K
  <2>2. CASE o # p
    BY <1>1, <1>2, <2>1, <2>2, StillWaits
  <2>3. CASE o = p /\ todo'[p] = Tail(q)
    <3>1. s.op = "put" => KeyOf(s.row) \in L
      BY <1>2
    <3> QED
      BY <1>1, <1>2, <1>3, <2>3, <3>1, RestWaits DEF s
  <2>4. CASE /\ o = p /\ todo'[p] = <<>> /\ L = K
             /\ \A i \in DOMAIN q : q[i].op = "put" => q[i].row.tab = "tag"
    <3>1. Waits(L, <<>>)
      BY DEF Waits
    <3>2. DOMAIN q = 1..Len(q)
      BY <1>1
    <3>3. Coming(K, q, Len(q)) = K
      BY <2>4, <3>2 DEF Coming
    <3>4. K \subseteq Coming(L, todo'[o], Len(todo'[o]))
      BY <2>4 DEF Coming
    <3> QED
      BY <2>4, <3>1, <3>3, <3>4
  <2> QED
    BY <1>1, <2>2, <2>3, <2>4
<1>7. InOrder'
  BY <1>3, <1>6 DEF InOrder
<1>8. Working'
  <2>1. \A h \in Ids : Begun(h) \subseteq KeptKeys
    BY DEF Begun, KeptKeys, Tables
  <2>2. ASSUME NEW o \in Procs, up[o]
        PROVE  Ground(hist[o], env[o]) \subseteq Coming(L, todo'[o], Len(todo'[o]))
    <3>1. Ground(hist[o], env[o]) \subseteq Coming(K, todo[o], Len(todo[o]))
      BY <1>3, <2>2 DEF Ordered, Working, K
    <3>2. Ground(hist[o], env[o]) \subseteq KeptKeys
      <4>1. \A n \in Ids : <<"env", n>> \in KeptKeys
        BY DEF KeptKeys, Tables
      <4>2. <<"agent", 0>> \in KeptKeys
        BY DEF KeptKeys, Tables, Ids
      <4> QED
        BY <1>3, <2>1, <4>1, <4>2 DEF Typed, Ground
    <3> QED
      BY <1>6, <3>1, <3>2
  <2>3. newest' # None => Begun(newest') \subseteq L
    <3>1. CASE newest' = newest
      <4>1. newest # None => Begun(newest) \subseteq K /\ Begun(newest) \subseteq KeptKeys
        BY <1>3, <2>1 DEF Ordered, Working, K, Typed
      <4> QED
        BY <1>2, <3>1, <4>1
    <3>2. CASE s.op = "put" /\ s.row.tab = "state" /\ newest' = s.row.ref
      <4>1. Needs(s.row) = Begun(s.row.ref)
        BY <3>2 DEF Needs, Begun
      <4> QED
        BY <1>4, <3>2, <4>1
    <3> QED
      BY <1>3, <3>1, <3>2
  <2> QED
    BY <1>3, <2>2, <2>3 DEF Working
<1>9. Tagging'
  <2>1. ASSUME NEW g \in Ids, <<"tag", g>> \in K PROVE <<"tag", g>> \in L
    <3>1. <<"tag", g>> \in KeptKeys
      BY DEF KeptKeys, Tables
    <3> QED
      BY <1>2, <2>1, <3>1
  <2>2. ASSUME NEW o \in Procs
        PROVE  /\ tagging'[o] # None =>
                    <<"tag", tagging'[o]>> \in L
                    \/ (todo'[o] # <<>> /\ todo'[o][Len(todo'[o])] = PutTag(tagging'[o]))
               /\ Seeking(todo'[o], tagging'[o])
    <3>1. /\ tagging[o] # None => <<"tag", tagging[o]>> \in K
                               \/ (todo[o] # <<>> /\ todo[o][Len(todo[o])] = PutTag(tagging[o]))
          /\ Seeking(todo[o], tagging[o]) /\ tagging[o] \in Ids
      BY <1>3 DEF Ordered, Tagging, K, Typed
    <3>2. CASE o # p
      BY <1>1, <2>1, <3>1, <3>2
    <3>3. CASE o = p /\ todo'[p] = Tail(q) /\ tagging'[p] = tagging[p]
      <4> DEFINE g == tagging[p]
                 r == Tail(q)
      <4>1. /\ Len(q) \in Nat \ {0} /\ DOMAIN r = 1..(Len(q) - 1) /\ r \in Seq(Stmts)
            /\ Len(r) = Len(q) - 1 /\ \A i \in 1..(Len(q) - 1) : r[i] = q[i + 1]
            /\ DOMAIN q = 1..Len(q)
        BY <1>1, TailFacts
      <4> HIDE DEF r
      <4>2. q[Len(q)] = PutTag(g) => <<"tag", g>> \in L \/ (r # <<>> /\ r[Len(r)] = PutTag(g))
        <5>1. CASE Len(q) = 1
          <6>1. q[Len(q)] = s
            BY <5>1 DEF s
          <6>2. s = PutTag(g) => s.op = "put" /\ KeyOf(s.row) = <<"tag", g>>
            BY DEF PutTag, Put, Row, KeyOf
          <6> QED
            BY <1>2, <6>1, <6>2
        <5>2. CASE Len(q) # 1
          <6>0. \A n \in Nat \ {0} : n # 1 => n - 1 \in 1..(n - 1) /\ (n - 1) + 1 = n
            OBVIOUS
          <6>1. Len(q) - 1 \in 1..(Len(q) - 1) /\ (Len(q) - 1) + 1 = Len(q)
            BY <4>1, <5>2, <6>0
          <6>2. r[Len(r)] = q[Len(q)]
            BY <4>1, <6>1
          <6>3. r # <<>>
            BY <4>1, <6>1
          <6> QED
            BY <6>2, <6>3
        <5> QED
          BY <5>1, <5>2
      <4>3. Seeking(r, g)
        <5> SUFFICES ASSUME NEW i \in DOMAIN r, r[i].op = "seek"
                     PROVE  g # None /\ i = Len(r) - 1 /\ r[Len(r)] = PutTag(g)
          BY DEF Seeking
        <5>1. PICK k \in DOMAIN q : k = i + 1 /\ r[i] = q[k]
          BY <4>1
        <5>2. g # None /\ k = Len(q) - 1 /\ q[Len(q)] = PutTag(g)
          BY <3>1, <3>3, <5>1 DEF Seeking
        <5>3. Len(q) - 1 \in 1..(Len(q) - 1) /\ (Len(q) - 1) + 1 = Len(q)
          BY <4>1, <5>1, <5>2
        <5>4. r[Len(r)] = q[Len(q)]
          BY <4>1, <5>3
        <5> QED
          BY <4>1, <5>1, <5>2, <5>4
      <4> QED
        BY <2>1, <3>1, <3>3, <4>2, <4>3 DEF r
    <3>4. CASE o = p /\ todo'[p] = <<>> /\ <<"tag", tagging'[p]>> \in K /\ L = K
      <4>1. Seeking(<<>>, tagging'[p])
        BY DEF Seeking
      <4> QED
        BY <3>4, <4>1
    <3> QED
      BY <1>1, <3>2, <3>3, <3>4
  <2> QED
    BY <1>3, <2>2 DEF Tagging
<1> QED
  BY <1>5, <1>7, <1>8, <1>9 DEF Ordered

\* Write keeps the notes.
LEMMA WriteNoted ==
  ASSUME Inv, NEW p \in Procs, Write(p)
  PROVE  Noted'
<1> DEFINE q == todo[p]
           s == q[1]
           K == Keys(db)
           L == Keys(db)'
           id == s.row.id
           Target == s.op = "put" /\ s.row.tab = "target"
           Gone(tab) == s.op = "del" /\ s.row.tab = tab
<1>1. /\ q \in Seq(Stmts) /\ q # <<>> /\ s \in Stmts /\ Shaped(s) /\ db' = Applied(s)
      /\ \A o \in Procs : o # p => todo'[o] = todo[o]
      /\ \A o \in Procs : todo[o] \in Seq(Stmts)
      /\ todo'[p] = Tail(q) \/ todo'[p] = <<>>
      /\ L = Keys(db')
  <2>1. Typed
    BY DEF Inv
  <2> QED
    BY <2>1, WrittenQueue DEF Typed, Keys
<1>2. /\ s.op = "put" => L = K \cup {KeyOf(s.row)}
      /\ s.op \in {"edit", "seek"} => L = K
      /\ s.op = "del" => L = K \ {KeyOf(s.row)}
  BY WriteKeys
<1>3. /\ Noted /\ Typed /\ Coined
      /\ Paired(K, q)
      /\ removed' = IF s.op = "del" /\ s.row.tab = "note" THEN removed \cup {s.row.id} ELSE removed
  <2>1. Noted /\ Typed /\ Paired(K, q) /\ Coined
    BY DEF Inv, Noted
  <2>2. Head(q) = s
    BY <1>1, TailFacts
  <2> QED
    BY <2>1, <2>2 DEF Write
<1>4. 1 \in DOMAIN q /\ q[1] = s /\ id \in Nat /\ s.row \in AllRows /\ 1 - 1 \notin DOMAIN q
  BY <1>1, TailFacts DEF Stmts, AllRows
<1>5. /\ Target => Makes(q, id)
      /\ Gone("note") => Drops(q, id)
  BY <1>4 DEF Makes, Drops
<1>6. /\ Target => s = PutTarget(id) /\ <<"note", id>> \in K
      /\ Gone("note") => <<"target", id>> \notin K
      /\ s.op = "put" /\ s.row.tab = "note" => Makes(q, id)
  <2>1. (1 + 1 \in DOMAIN q /\ q[1 + 1] = PutTarget(id)) => Makes(q, id)
    BY DEF Makes, PutTarget, Put, Row
  <2> QED
    BY <1>3, <1>4, <2>1 DEF Paired
<1> HIDE DEF s, K, L
<1>7. \A n : /\ <<"note", n>> \in K => <<"note", n>> \in L \/ (Gone("note") /\ n = id)
             /\ <<"target", n>> \in L => <<"target", n>> \in K \/ (Target /\ n = id)
             /\ <<"note", n>> \in L => <<"note", n>> \in K \/ (s.op = "put" /\ s.row.tab = "note" /\ n = id)
  BY <1>1, <1>2 DEF KeyOf, Stmts
<1>8. ASSUME NEW o \in Procs, NEW n \in Nat
      PROVE  /\ <<"note", n>> \in K => <<"note", n>> \in L \/ ~Makes(todo[o], n)
             /\ <<"target", n>> \in L => <<"target", n>> \in K \/ ~Drops(todo[o], n)
  BY <1>3, <1>5, <1>7 DEF Coined
<1>9. ASSUME NEW o \in Procs
      PROVE  Paired(L, todo'[o])
  <2>1. Paired(K, todo[o])
    BY <1>3 DEF Noted, K
  <2>2. CASE o # p
    BY <1>1, <1>8, <2>1, <2>2, StillPaired
  <2>3. CASE o = p /\ todo'[p] = Tail(q)
    <3>1. \A n \in Nat : s = PutNote(n) => <<"note", n>> \in L
      BY <1>2 DEF PutNote, Put, Row, KeyOf
    <3>2. \A n \in Nat : s = Del("target", n) => <<"target", n>> \notin L
      BY <1>2 DEF Del, Row, KeyOf
    <3> QED
      BY <1>1, <1>4, <1>8, <2>1, <2>3, <3>1, <3>2, RestPaired
  <2>4. CASE o = p /\ todo'[p] = <<>>
    BY <2>4 DEF Paired
  <2> QED
    BY <1>1, <2>2, <2>3, <2>4
<1>10. ASSUME NEW o \in Procs, NEW n \in Nat
       PROVE  /\ Makes(todo'[o], n) => Makes(todo[o], n) /\ ~(Target /\ n = id)
              /\ Drops(todo'[o], n) => Drops(todo[o], n)
  <2>1. CASE o # p
    <3>1. Makes(todo[o], n) => ~(Target /\ n = id)
      BY <1>3, <1>5, <2>1 DEF Coined
    <3> QED
      BY <1>1, <2>1, <3>1
  <2>2. CASE o = p /\ todo'[p] = Tail(q)
    <3> DEFINE r == Tail(q)
    <3>1. \A i \in DOMAIN r : i + 1 \in DOMAIN q /\ i + 1 # 1 /\ r[i] = q[i + 1]
      BY <1>1, TailFacts
    <3> HIDE DEF r, q
    <3>2. ASSUME NEW i \in DOMAIN r, r[i].op = "put", r[i].row.tab = "target", r[i].row.id = n
          PROVE  Makes(q, n) /\ ~(Target /\ n = id)
      <4>1. PICK k \in DOMAIN q : k # 1 /\ q[k] = r[i]
        BY <3>1
      <4>2. Target /\ n = id => k = 1
        BY <1>3, <1>4, <3>2, <4>1 DEF Paired
      <4> QED
        BY <3>2, <4>1, <4>2 DEF Makes
    <3>3. ASSUME NEW i \in DOMAIN r, r[i].op = "del", r[i].row.tab = "note", r[i].row.id = n
          PROVE  Drops(q, n)
      BY <3>1, <3>3 DEF Drops
    <3> QED
      BY <2>2, <3>2, <3>3 DEF Makes, Drops, r, q
  <2>3. CASE o = p /\ todo'[p] = <<>>
    BY <2>3 DEF Makes, Drops
  <2> QED
    BY <1>1, <2>1, <2>2, <2>3
<1>11. Coined'
  <2> SUFFICES ASSUME NEW a \in Procs, NEW b \in Procs, NEW n \in Nat, Makes(todo'[a], n)
               PROVE  /\ ~Drops(todo'[b], n) /\ n \notin removed' /\ <<"target", n>> \notin L
                      /\ Makes(todo'[b], n) => a = b
    BY <1>1 DEF Coined, L
  <2>1. Makes(todo[a], n) /\ ~(Target /\ n = id)
    BY <1>10
  <2>2. /\ ~Drops(todo[b], n) /\ n \notin removed /\ <<"target", n>> \notin K
        /\ Makes(todo[b], n) => a = b /\ ~Drops(todo[p], n)
    BY <1>3, <2>1 DEF Coined, K
  <2>3. ~Drops(q, n)
    BY <1>3, <2>1 DEF Coined
  <2>4. n \notin removed'
    BY <1>3, <1>5, <2>2, <2>3
  <2>5. <<"target", n>> \notin L
    BY <1>7, <2>1, <2>2
  <2> QED
    BY <1>10, <2>2, <2>4, <2>5
<1>12. ASSUME NEW r \in db', r.tab = "target" PROVE r.ref = r.id /\ <<"note", r.id>> \in L
  <2>1. r.id \in Nat
    BY <1>1, <1>3, AppliedRows DEF Typed, AllRows
  <2>2. CASE r \in db
    <3>1. r.ref = r.id /\ <<"note", r.id>> \in K /\ <<"target", r.id>> \in K
      BY <1>3, <1>12, <2>2 DEF Noted, K, Keys, KeyOf
    <3> QED
      BY <1>6, <1>7, <3>1
  <2>3. CASE r \notin db
    <3>1. s.op \in {"put", "edit"} /\ r = s.row
      BY <1>1, <1>3, <2>3, AppliedRows DEF Typed
    <3>2. s.op # "edit"
      BY <1>1, <1>12, <3>1 DEF Shaped
    <3>3. s = PutTarget(id) /\ <<"note", id>> \in K
      BY <1>6, <1>12, <3>1, <3>2
    <3>4. s.row.ref = id
      BY <3>3 DEF PutTarget, Put, Row
    <3>5. <<"note", id>> \in L
      BY <1>1, <1>7, <3>1, <3>2, <3>3
    <3> QED
      BY <3>1, <3>4, <3>5
  <2> QED
    BY <2>2, <2>3
<1>13. ASSUME NEW n \in removed' PROVE <<"note", n>> \notin L /\ <<"target", n>> \notin L
  <2>1. CASE n \in removed
    <3>1. <<"note", n>> \notin K /\ <<"target", n>> \notin K /\ n \in Nat
      BY <1>3, <2>1 DEF Noted, K, Typed
    <3>2. ~Makes(q, n)
      BY <1>3, <2>1, <3>1 DEF Coined
    <3> QED
      BY <1>5, <1>6, <1>7, <3>1, <3>2
  <2>2. CASE n \notin removed
    <3>1. Gone("note") /\ n = id
      BY <1>3, <1>13, <2>2
    <3>2. <<"note", n>> \notin L
      BY <1>2, <3>1 DEF KeyOf
    <3> QED
      BY <1>6, <1>7, <3>1, <3>2
  <2> QED
    BY <2>1, <2>2
<1> QED
  BY <1>1, <1>9, <1>11, <1>12, <1>13 DEF Noted, L

\* Write keeps the roots: what it stores was given before.
LEMMA WriteRooted ==
  ASSUME Inv, NEW p \in Procs, Write(p)
  PROVE  Rooted'
<1> DEFINE q == todo[p]
           s == q[1]
<1>1. /\ q \in Seq(Stmts) /\ q # <<>> /\ Head(q) = s /\ s \in Stmts /\ Shaped(s) /\ db' = Applied(s)
      /\ \A o \in Procs : o # p => todo'[o] = todo[o]
      /\ todo'[p] = Tail(q) \/ todo'[p] = <<>>
  BY WrittenQueue
<1>2. 1 \in DOMAIN q /\ q[1] = s /\ s.row \in AllRows
  BY <1>1, TailFacts DEF Stmts
<1>3. UNCHANGED <<up, hist, ids>>
      /\ newest' = IF s.op = "put" /\ s.row.tab = "state" THEN s.row.ref ELSE newest
  BY <1>1 DEF Write
<1>4. s.op = "put" => s = Put(s.row) /\ s.row \in Given
  BY <1>1, <1>2, PutOf DEF Given
<1> HIDE DEF s
<1>5. ASSUME NEW r \in Given', r.tab \in {"state", "branch"} PROVE r \in Given
  <2>1. CASE r \in db'
    <3>1. r \in db \/ (s.op \in {"put", "edit"} /\ r = s.row)
      BY <1>1, <2>1, AppliedRows DEF Inv, Typed
    <3>2. s.op = "edit" => s.row.tab = "note"
      BY <1>1 DEF Shaped
    <3>3. r \in db => r \in Given
      BY DEF Given
    <3> QED
      BY <1>4, <1>5, <3>1, <3>2, <3>3
  <2>2. CASE r \notin db'
    <3>1. PICK o \in Procs : \E i \in DOMAIN todo'[o] : todo'[o][i] = Put(r)
      BY <2>2 DEF Given
    <3>2. r \in AllRows
      BY <2>2 DEF Given
    <3>3. \E i \in DOMAIN todo[o] : todo[o][i] = Put(r)
      <4>1. CASE o # p
        BY <1>1, <3>1, <4>1
      <4>2. CASE o = p /\ todo'[p] = Tail(q)
        <5>1. PICK i \in DOMAIN Tail(q) : Tail(q)[i] = Put(r)
          BY <3>1, <4>2
        <5>2. i + 1 \in DOMAIN q /\ Tail(q)[i] = q[i + 1]
          BY <1>1, TailFacts
        <5> QED
          BY <4>2, <5>1, <5>2
      <4>3. CASE o = p /\ todo'[p] = <<>>
        BY <3>1, <4>3
      <4> QED
        BY <1>1, <4>1, <4>2, <4>3
    <3> QED
      BY <3>2, <3>3 DEF Given
  <2> QED
    BY <2>1, <2>2
<1>6. newest' \in Used \cup {newest}
  BY <1>3, <1>4 DEF Used
<1>7. Used' \subseteq Used
  BY <1>3, <1>5, <1>6 DEF Used
<1> QED
  BY <1>3, <1>5, <1>7 DEF Inv, Rooted

\* Write keeps the invariant.
LEMMA WriteInv ==
  ASSUME Inv, NEW p \in Procs, Write(p)
  PROVE  Inv'
  BY WriteTyped, WriteOrdered, WriteNoted, WriteRooted DEF Inv

-----------------------------------------------------------------------------
(* The end of a process, and the whole *)

\* A process ends, or its untag call returns: what is given and used can only get less.
LEMMA EndsInv ==
  ASSUME Inv, NEW p \in Procs, Ends(p)
  PROVE  Inv'
<1>1. /\ \A o \in Procs : o # p => /\ todo'[o] = todo[o] /\ up'[o] = up[o] /\ tagging'[o] = tagging[o]
      /\ todo'[p] = <<>> /\ up'[p] = FALSE /\ tagging'[p] = None
      /\ todo' \in [Procs -> Seq(Stmts)] /\ up' \in [Procs -> BOOLEAN] /\ tagging' \in [Procs -> Ids]
      /\ UNCHANGED <<db, newest, hist, env, cache, removed, ids>>
  <2>1. Typed
    BY DEF Inv
  <2>2. todo' = [todo EXCEPT ![p] = <<>>] /\ <<>> \in Seq(Stmts)
    BY DEF Ends
  <2> QED
    BY <2>1, <2>2 DEF Ends, Typed, Ids
<1>2. Typed'
  <2>1. Typed
    BY DEF Inv
  <2>2. ASSUME NEW o \in Procs PROVE \A i \in DOMAIN todo'[o] : todo'[o][i].row.id <= ids
    <3>1. CASE o = p
      BY <1>1, <3>1
    <3>2. CASE o # p
      BY <1>1, <2>1, <3>2 DEF Typed
    <3> QED
      BY <3>1, <3>2
  <2> QED
    BY <1>1, <2>1, <2>2 DEF Typed
<1>3. Ordered'
  <2>1. Ordered
    BY DEF Inv
  <2>2. Waits(Keys(db), <<>>) /\ Seeking(<<>>, None)
    BY DEF Waits, Seeking
  <2>3. InOrder'
    BY <1>1, <2>1, <2>2 DEF Ordered, InOrder
  <2>4. Working'
    BY <1>1, <2>1 DEF Ordered, Working
  <2>5. Tagging'
    BY <1>1, <2>1, <2>2 DEF Ordered, Tagging
  <2> QED
    BY <1>1, <2>1, <2>3, <2>4, <2>5 DEF Ordered, Stored
<1>4. Noted'
  <2>1. Noted /\ Coined
    BY DEF Inv, Noted
  <2>2. Paired(Keys(db), <<>>) /\ \A n : ~Makes(<<>>, n) /\ ~Drops(<<>>, n)
    BY DEF Paired, Makes, Drops
  <2>3. Coined'
    <3>1. \A o \in Procs : \A n : (Makes(todo'[o], n) => Makes(todo[o], n))
                                 /\ (Drops(todo'[o], n) => Drops(todo[o], n))
      BY <1>1, <2>2
    <3> QED
      BY <1>1, <2>1, <3>1 DEF Coined
  <2> QED
    BY <1>1, <2>1, <2>2, <2>3 DEF Noted
<1>5. Rooted'
  <2>1. ASSUME NEW r \in Given' PROVE r \in Given
    <3>1. CASE r \in db
      BY <3>1 DEF Given
    <3>2. CASE r \notin db
      <4>1. r \in AllRows /\ \E o \in Procs : \E i \in DOMAIN todo'[o] : todo'[o][i] = Put(r)
        BY <1>1, <3>2 DEF Given
      <4>2. PICK o \in Procs : \E i \in DOMAIN todo'[o] : todo'[o][i] = Put(r)
        BY <4>1
      <4>3. o # p
        BY <1>1, <4>2
      <4>4. \E i \in DOMAIN todo[o] : todo[o][i] = Put(r)
        BY <1>1, <4>2, <4>3
      <4> QED
        BY <4>1, <4>4 DEF Given
    <3> QED
      BY <3>1, <3>2
  <2>2. Used' \subseteq Used
    BY <1>1, <2>1 DEF Used
  <2> QED
    BY <1>1, <2>1, <2>2 DEF Inv, Rooted
<1> QED
  BY <1>2, <1>3, <1>4, <1>5 DEF Inv

\* Nothing the invariant is about changes.
LEMMA StillInv ==
  ASSUME Inv, UNCHANGED <<db, newest, up, hist, env, cache, todo, tagging, removed, ids>>
  PROVE  Inv'
<1>1. Typed'
  BY DEF Inv, Typed
<1>2. Ordered'
  BY DEF Inv, Ordered, Stored, InOrder, Working, Tagging
<1>3. Noted'
  BY DEF Inv, Noted, Coined
<1>4. Rooted'
  BY DEF Inv, Rooted, Given, Used
<1> QED
  BY <1>1, <1>2, <1>3, <1>4 DEF Inv

\* Before the first call.
LEMMA InitInv == Init => Inv
<1> SUFFICES ASSUME Init PROVE Inv
  OBVIOUS
<1>1. \A p \in Procs : todo[p] = <<>> /\ ~up[p] /\ tagging[p] = None
  BY DEF Init
<1>2. Typed
  BY SessionsAssumption DEF Init, Typed, Ids
<1>3. Ordered
  BY <1>1 DEF Init, Ordered, Stored, InOrder, Working, Tagging, Waits, Seeking
<1>4. Noted
  BY <1>1 DEF Init, Noted, Coined, Paired, Makes, Drops
<1>5. Given = {} /\ Used = {}
  BY <1>1 DEF Init, Given, Used
<1> QED
  BY <1>2, <1>3, <1>4, <1>5 DEF Inv, Rooted

\* Every step keeps the invariant.
LEMMA NextInv ==
  ASSUME Inv, [Next]_vars
  PROVE  Inv'
<1>1. CASE UNCHANGED vars
  BY <1>1, StillInv DEF vars
<1>2. CASE Next
  <2>1. PICK p \in Procs :
          \/ Write(p) \/ Assign(p) \/ Untagged(p) \/ Exit(p) \/ Crash(p)
          \/ \E fresh \in BOOLEAN : Open(p, fresh)
          \/ \E f \in Functions : Trace(p, f)
          \/ Annotate(p) \/ Pipeline(p) \/ Tag(p) \/ Untag(p)
          \/ \E n \in Notes : UpdateNote(p, n) \/ RemoveNote(p, n)
    BY <1>2 DEF Next
  <2>2. CASE Write(p)
    BY <2>2, WriteInv
  <2>3. CASE Assign(p)
    BY <2>3, AssignInv
  <2>4. CASE Untagged(p)
    BY <2>4, StillInv DEF Untagged
  <2>5. CASE Exit(p) \/ Crash(p)
    BY <2>5, EndsInv DEF Exit, Crash
  <2>6. ASSUME NEW fresh \in BOOLEAN, Open(p, fresh) PROVE Inv'
    BY <2>6, BeginInv, ResumeInv
  <2>7. ASSUME NEW f \in Functions, Trace(p, f) PROVE Inv'
    BY <2>7, TraceInv
  <2>8. CASE Annotate(p)
    BY <2>8, AnnotateInv
  <2>9. CASE Pipeline(p)
    BY <2>9, PipelineInv
  <2>10. CASE Tag(p)
    BY <2>10, TagInv
  <2>11. CASE Untag(p)
    BY <2>11, UntagInv
  <2>12. ASSUME NEW n \in Notes, UpdateNote(p, n) \/ RemoveNote(p, n) PROVE Inv'
    BY <2>12, UpdateNoteInv, RemoveNoteInv
  <2> QED
    BY <2>1, <2>2, <2>3, <2>4, <2>5, <2>6, <2>7, <2>8, <2>9, <2>10, <2>11, <2>12
<1> QED
  BY <1>1, <1>2

\* The invariant holds of every state: what is stored has what it needs stored, what is
\* queued has it ahead in its own queue.
THEOREM Invariance == Spec => []Inv
<1>1. Inv /\ [Next]_vars => Inv'
  BY NextInv
<1> QED
  BY InitInv, <1>1, PTL DEF Spec

-----------------------------------------------------------------------------
(* The properties *)

\* A key is a row of its table.
LEMMA KeyFacts == \A tab, id : Key(tab, id) <=> <<tab, id>> \in Keys(db)
  BY DEF Key, Keys, KeyOf

\* What names another row is stored after it and deleted before it, whatever
\* statement a process dies at (storage.py, _write_annotation, _delete_annotation,
\* _write_fragment, _write_operation).
THEOREM NoOrphansHolds == Spec => []NoOrphans
<1>1. Inv => NoOrphans
  <2> SUFFICES ASSUME Inv PROVE NoOrphans
    OBVIOUS
  <2>1. ASSUME NEW r \in Rows("target") PROVE Key("note", r.ref)
    BY KeyFacts DEF Rows, Inv, Noted
  <2>2. ASSUME NEW r \in Rows("assigned") PROVE Key("tag", r.ref)
    BY KeyFacts DEF Rows, Inv, Ordered, Stored, Needs
  <2>3. ASSUME NEW r \in Rows("fragment") PROVE Key("pipeline", r.ref)
    BY KeyFacts DEF Rows, Inv, Ordered, Stored, Needs
  <2>4. ASSUME NEW r \in Rows("operation") PROVE Key("type", r.ref)
    BY KeyFacts DEF Rows, Inv, Ordered, Stored, Needs
  <2> QED
    BY <2>1, <2>2, <2>3, <2>4 DEF NoOrphans
<1> QED
  BY Invariance, <1>1, PTL

\* An annotation that was removed stays removed, whoever was updating it
\* (storage.py, _update_annotation).
THEOREM RemovedStaysRemovedHolds == Spec => []RemovedStaysRemoved
<1>1. Inv => RemovedStaysRemoved
  BY KeyFacts DEF Inv, Noted, RemovedStaysRemoved
<1> QED
  BY Invariance, <1>1, PTL

\* A history that find_latest_history_by_name can return can be resumed, however far the
\* process that made it or another that works on it got (runtime.py, resume).
THEOREM FoundCanResumeHolds == Spec => []FoundCanResume
<1>1. Inv => FoundCanResume
  <2> SUFFICES ASSUME Inv, NEW r \in Rows("state") PROVE CanResume(r.ref)
    BY DEF FoundCanResume
  <2> DEFINE h == r.ref
  <2>1. r \in db /\ r.tab = "state"
    BY DEF Rows
  <2>2. Begun(h) \subseteq Keys(db)
    BY <2>1 DEF Inv, Ordered, Stored, Needs, Begun
  <2>3. h \in Used
    BY <2>1 DEF Used, Given
  <2>4. RootOf(h) # {}
    <3>1. PICK s \in db : s.tab = "state" /\ s.id = h
      BY <2>2 DEF Begun, Keys, KeyOf
    <3>2. s.ref = h
      BY <2>3, <3>1 DEF Inv, Rooted, Given
    <3> QED
      BY <3>1, <3>2 DEF RootOf, Rows
  <2>5. h \in BranchesOf(h)
    <3>1. PICK b \in db : b.tab = "branch" /\ b.id = h
      BY <2>2 DEF Begun, Keys, KeyOf
    <3>2. b \in Given
      BY <3>1 DEF Given
    <3>3. b.ref = h
      BY <3>1, <3>2 DEF Inv, Rooted
    <3> QED
      BY <3>1, <3>3 DEF BranchesOf, Rows
  <2>6. \A s \in ActiveOf(h) : Key("state", s)
    BY KeyFacts DEF ActiveOf, Rows, Inv, Ordered, Stored, Needs
  <2> QED
    BY <2>4, <2>5, <2>6 DEF CanResume
<1> QED
  BY Invariance, <1>1, PTL

-----------------------------------------------------------------------------
(* The rows a process has queued for one table *)

\* Rows of a table that a queue stores, and the assignments it deletes.
PutRows(q, tab) == {q[i].row : i \in {j \in DOMAIN q : q[j].op = "put" /\ q[j].row.tab = tab}}
Unassigns(q, a) == \E i \in DOMAIN q : q[i] = Del("assigned", a)

Owed(p, tab)  == PutRows(todo[p], tab)
Known(p, tab) == Rows(tab) \cup Owed(p, tab)

-----------------------------------------------------------------------------
(* Rows of a queue *)

\* A queue stores its rows and those behind it.
LEMMA BehindRows ==
  ASSUME NEW q \in Seq(Stmts), NEW t \in Seq(Stmts)
  PROVE  /\ \A tab : PutRows(q \o t, tab) = PutRows(q, tab) \cup PutRows(t, tab)
         /\ \A a : Unassigns(t, a) \/ Unassigns(q, a) => Unassigns(q \o t, a)
<1> DEFINE r == q \o t
<1>1. /\ \A i \in DOMAIN q : i \in DOMAIN r /\ r[i] = q[i]
      /\ \A i \in DOMAIN t : Len(q) + i \in DOMAIN r /\ r[Len(q) + i] = t[i]
      /\ \A i \in DOMAIN r : \/ i \in DOMAIN q /\ r[i] = q[i]
                             \/ i - Len(q) \in DOMAIN t /\ r[i] = t[i - Len(q)]
  BY BehindIndex
<1> HIDE DEF r
<1>2. ASSUME NEW tab PROVE PutRows(r, tab) = PutRows(q, tab) \cup PutRows(t, tab)
  <2>1. ASSUME NEW u \in PutRows(q, tab) PROVE u \in PutRows(r, tab)
    BY <1>1 DEF PutRows
  <2>2. ASSUME NEW u \in PutRows(t, tab) PROVE u \in PutRows(r, tab)
    <3>1. PICK i \in DOMAIN t : t[i].op = "put" /\ t[i].row.tab = tab /\ u = t[i].row
      BY <2>2 DEF PutRows
    <3>2. Len(q) + i \in DOMAIN r /\ r[Len(q) + i] = t[i]
      BY <1>1
    <3> QED
      BY <3>1, <3>2 DEF PutRows
  <2>3. ASSUME NEW u \in PutRows(r, tab) PROVE u \in PutRows(q, tab) \/ u \in PutRows(t, tab)
    <3>1. PICK i \in DOMAIN r : r[i].op = "put" /\ r[i].row.tab = tab /\ u = r[i].row
      BY <2>3 DEF PutRows
    <3>2. CASE i \in DOMAIN q /\ r[i] = q[i]
      BY <3>1, <3>2 DEF PutRows
    <3>3. CASE i - Len(q) \in DOMAIN t /\ r[i] = t[i - Len(q)]
      BY <3>1, <3>3 DEF PutRows
    <3> QED
      BY <1>1, <3>2, <3>3
  <2> QED
    BY <2>1, <2>2, <2>3
<1>3. ASSUME NEW a PROVE Unassigns(t, a) \/ Unassigns(q, a) => Unassigns(r, a)
  <2>1. ASSUME NEW i \in DOMAIN t, t[i] = Del("assigned", a) PROVE Unassigns(r, a)
    <3>1. Len(q) + i \in DOMAIN r /\ r[Len(q) + i] = t[i]
      BY <1>1
    <3> QED
      BY <2>1, <3>1 DEF Unassigns
  <2>2. ASSUME NEW i \in DOMAIN q, q[i] = Del("assigned", a) PROVE Unassigns(r, a)
    BY <1>1, <2>2 DEF Unassigns
  <2> QED
    BY <2>1, <2>2 DEF Unassigns
<1> QED
  BY <1>2, <1>3 DEF r

\* A queue without its first statement.
LEMMA RestRows ==
  ASSUME NEW q \in Seq(Stmts), q # <<>>
  PROVE  /\ \A tab : PutRows(Tail(q), tab) \subseteq PutRows(q, tab)
         /\ \A tab : \A u \in PutRows(q, tab) :
              u \in PutRows(Tail(q), tab) \/ (u = q[1].row /\ q[1].op = "put")
         /\ q[1].op = "put" => q[1].row \in PutRows(q, q[1].row.tab)
         /\ \A a : Unassigns(q, a) => Unassigns(Tail(q), a) \/ q[1] = Del("assigned", a)
<1> DEFINE r == Tail(q)
<1>1. /\ DOMAIN q = 1..Len(q) /\ DOMAIN r = 1..(Len(q) - 1) /\ Len(q) \in Nat \ {0}
      /\ \A i \in 1..(Len(q) - 1) : r[i] = q[i + 1]
  BY TailFacts
<1> HIDE DEF r
<1>2. /\ \A i \in DOMAIN r : i + 1 \in DOMAIN q /\ r[i] = q[i + 1]
      /\ \A i \in DOMAIN q : i # 1 => i - 1 \in DOMAIN r /\ r[i - 1] = q[i]
      /\ 1 \in DOMAIN q
  BY <1>1
<1>3. ASSUME NEW tab, NEW u \in PutRows(r, tab) PROVE u \in PutRows(q, tab)
  <2>1. PICK i \in DOMAIN r : r[i].op = "put" /\ r[i].row.tab = tab /\ u = r[i].row
    BY <1>3 DEF PutRows
  <2>2. i + 1 \in DOMAIN q /\ r[i] = q[i + 1]
    BY <1>2
  <2> QED
    BY <2>1, <2>2 DEF PutRows
<1>4. ASSUME NEW tab, NEW u \in PutRows(q, tab)
      PROVE  u \in PutRows(r, tab) \/ (u = q[1].row /\ q[1].op = "put")
  <2>1. PICK i \in DOMAIN q : q[i].op = "put" /\ q[i].row.tab = tab /\ u = q[i].row
    BY <1>4 DEF PutRows
  <2>2. CASE i = 1
    BY <2>1, <2>2
  <2>3. CASE i # 1
    <3>1. i - 1 \in DOMAIN r /\ r[i - 1] = q[i]
      BY <1>2, <2>3
    <3> QED
      BY <2>1, <3>1 DEF PutRows
  <2> QED
    BY <2>2, <2>3
<1>5. q[1].op = "put" => q[1].row \in PutRows(q, q[1].row.tab)
  BY <1>2 DEF PutRows
<1>6. ASSUME NEW a, NEW i \in DOMAIN q, q[i] = Del("assigned", a)
      PROVE  Unassigns(r, a) \/ q[1] = Del("assigned", a)
  <2>1. CASE i = 1
    BY <1>6, <2>1
  <2>2. CASE i # 1
    <3>1. i - 1 \in DOMAIN r /\ r[i - 1] = q[i]
      BY <1>2, <2>2
    <3> QED
      BY <1>6, <3>1 DEF Unassigns
  <2> QED
    BY <2>1, <2>2
<1>7. \A a : Unassigns(q, a) => Unassigns(r, a) \/ q[1] = Del("assigned", a)
  BY <1>6 DEF Unassigns
<1> QED
  BY <1>3, <1>4, <1>5, <1>7 DEF r

\* The empty queue.
LEMMA NoRows ==
  /\ \A tab : PutRows(<<>>, tab) = {}
  /\ \A a : ~Unassigns(<<>>, a)
  BY DEF PutRows, Unassigns

\* A row that is stored by a queue.
LEMMA PutRowFacts ==
  ASSUME NEW q \in Seq(Stmts), NEW tab, NEW u \in PutRows(q, tab)
  PROVE  /\ u \in AllRows /\ u.tab = tab
         /\ \E i \in DOMAIN q : q[i].op = "put" /\ q[i].row = u
<1>1. PICK i \in DOMAIN q : q[i].op = "put" /\ q[i].row.tab = tab /\ u = q[i].row
  BY DEF PutRows
<1>2. q[i] \in Stmts
  OBVIOUS
<1> QED
  BY <1>1, <1>2 DEF Stmts

\* What a call of p makes the processes store.
LEMMA CallRows ==
  ASSUME Typed, NEW p \in Procs, NEW t \in Seq(Stmts), todo' = [todo EXCEPT ![p] = @ \o t]
  PROVE  /\ todo'[p] = todo[p] \o t
         /\ \A q \in Procs : q # p => todo'[q] = todo[q]
         /\ \A tab : Owed(p, tab)' = Owed(p, tab) \cup PutRows(t, tab)
         /\ \A q \in Procs : q # p => \A tab : Owed(q, tab)' = Owed(q, tab)
         /\ \A a : Unassigns(t, a) \/ Unassigns(todo[p], a) => Unassigns(todo'[p], a)
<1>1. todo[p] \in Seq(Stmts)
  BY DEF Typed
<1>2. /\ todo'[p] = todo[p] \o t
      /\ \A q \in Procs : q # p => todo'[q] = todo[q]
  BY DEF Typed
<1>3. \A tab : PutRows(todo[p] \o t, tab) = PutRows(todo[p], tab) \cup PutRows(t, tab)
  BY <1>1, BehindRows
<1>4. \A a : Unassigns(t, a) \/ Unassigns(todo[p], a) => Unassigns(todo[p] \o t, a)
  BY <1>1, BehindRows
<1> QED
  BY <1>2, <1>3, <1>4 DEF Owed

-----------------------------------------------------------------------------
(* The invariants *)

DetailTyped ==
  /\ sync \in [Procs -> BOOLEAN]
  /\ untag \in [Procs -> SUBSET Nat]
  /\ minted \in Seq([op : Nat, beside : SUBSET Nat])
  /\ \A p \in Procs : \A a \in untag[p] : a <= ids
  /\ \A i \in DOMAIN minted : minted[i].op <= ids

\* An assignment is queued alone, its caller waiting, and no untag call knows of it yet.
Assigning ==
  \A p \in Procs : \A r \in Owed(p, "assigned") :
    /\ Len(todo[p]) = 1 /\ sync[p]
    /\ <<"assigned", r.id>> \notin Keys(db)
    /\ \A q \in Procs : r.id \notin untag[q]
    /\ \A q \in Procs : q # p => \A u \in Owed(q, "assigned") : u.id # r.id

\* The deletion of an assignment that an untag call found is queued as long as it is there.
Untagging ==
  \A p \in Procs :
    /\ untag[p] # {} => tagging[p] = None
    /\ \A a \in untag[p] : <<"assigned", a>> \in Keys(db) => Unassigns(todo[p], a)

\* Operations that are stored or queued.
OpRows == Rows("operation") \cup UNION {Owed(p, "operation") : p \in Procs}

\* One that is known by its id, whoever stores it.
OpNames ==
  \A r \in OpRows : r.ref = r.id /\ r.with \in Functions /\ \A q \in OpRows : q.id = r.id => q = r

\* An operation in the cache is stored or queued by the process, and one it has queued is
\* in the cache.
Cached(o, f) == Row("operation", o, o, f)
CacheKnown ==
  \A p \in Procs : \A f \in Functions :
    up[p] /\ cache[p][f] # None => Cached(cache[p][f], f) \in Known(p, "operation")
QueuedCached == \A p \in Procs : \A r \in Owed(p, "operation") : cache[p][r.with] # None

\* OneOperationPerName, of what is queued too.
MintedFirst ==
  \A i \in DOMAIN minted : \A r, q \in OpRows :
    r.with = q.with /\ r.id < q.id /\ q.id = minted[i].op => r.id \in minted[i].beside

Naming == OpNames /\ CacheKnown /\ QueuedCached /\ MintedFirst

\* A process has an environment of its own, which its steps name; it knows their operations.
EnvOwn ==
  \A p \in Procs : up[p] =>
    env[p] <= ids /\ \A q \in Procs : up[q] /\ env[q] = env[p] => q = p
StepOwn ==
  \A p \in Procs : up[p] =>
    /\ \A r \in Owed(p, "step") : r.with = env[p]
    /\ \A r \in Known(p, "step") :
         r.with = env[p] => \E o \in Known(p, "operation") : o.id = r.ref

\* Only a process that is up has statements queued or a tag to assign.
UpQueued == \A p \in Procs : todo[p] # <<>> \/ tagging[p] # None => up[p]

Stepping == EnvOwn /\ StepOwn

Detail == DetailTyped /\ Assigning /\ Untagging /\ UpQueued /\ Naming /\ Stepping

-----------------------------------------------------------------------------
(* The writer thread *)

\* A row of a table from which nothing is deleted goes from the queue to the database.
LEMMA WrittenRows ==
  ASSUME Inv, NEW p \in Procs, Write(p), NEW tab, tab \notin {"note", "target", "assigned", "tag"}
  PROVE  /\ Rows(tab)' \subseteq Known(p, tab)
         /\ Owed(p, tab)' \subseteq Owed(p, tab)
         /\ \A r \in Known(p, tab) :
              r \in Known(p, tab)' \/ (\E u \in Rows(tab)' : u.id = r.id /\ u \in Owed(p, tab))
         /\ \A r \in Rows(tab) :
              r \in Rows(tab)' \/ (\E u \in Rows(tab)' : u.id = r.id /\ u \in Owed(p, tab))
         /\ \A q \in Procs : q # p => Owed(q, tab)' = Owed(q, tab)
<1> DEFINE q == todo[p]
           s == q[1]
<1>1. /\ q \in Seq(Stmts) /\ q # <<>> /\ s \in Stmts /\ Shaped(s) /\ db' = Applied(s)
      /\ \A o \in Procs : o # p => todo'[o] = todo[o]
      /\ \/ todo'[p] = Tail(q)
         \/ todo'[p] = <<>> /\ db' = db /\ \A i \in DOMAIN q : q[i].row.tab = "tag"
  BY WrittenQueue
<1>2. db \subseteq AllRows
  BY DEF Inv, Typed
<1>3. /\ PutRows(Tail(q), tab) \subseteq PutRows(q, tab)
      /\ \A u \in PutRows(q, tab) : u \in PutRows(Tail(q), tab) \/ (u = s.row /\ s.op = "put")
      /\ s.op = "put" => s.row \in PutRows(q, s.row.tab)
  BY <1>1, RestRows
<1> HIDE DEF s
<1>4. /\ \A r \in Applied(s) : r \in db \/ (s.op \in {"put", "edit"} /\ r = s.row)
      /\ s.op = "put" => s.row \in Applied(s)
      /\ \A r \in db : KeyOf(r) # KeyOf(s.row) => r \in Applied(s)
  BY <1>1, <1>2, AppliedRows
<1>5. Rows(tab)' = {r \in Applied(s) : r.tab = tab}
  BY <1>1 DEF Rows
<1>6. \A u \in PutRows(q, tab) : u.tab = tab
  BY DEF PutRows
<1>7. s.row.tab = tab => s.op = "put"
  BY <1>1 DEF Shaped, Stmts
<1>8. Owed(p, tab) = PutRows(q, tab) /\ Owed(p, tab)' = PutRows(todo'[p], tab)
  BY DEF Owed
<1> HIDE DEF q
<1>9. Rows(tab)' \subseteq Known(p, tab)
  <2> SUFFICES ASSUME NEW r \in Applied(s), r.tab = tab PROVE r \in Known(p, tab)
    BY <1>5
  <2>1. CASE r \in db
    BY <2>1 DEF Known, Rows
  <2>2. CASE r = s.row
    <3>1. s.row \in PutRows(q, tab)
      BY <1>3, <1>7, <2>2
    <3> QED
      BY <1>8, <2>2, <3>1 DEF Known
  <2> QED
    BY <1>4, <2>1, <2>2
<1>10. PutRows(todo'[p], tab) \subseteq PutRows(q, tab)
  <2>1. CASE todo'[p] = Tail(q)
    BY <1>3, <2>1
  <2>2. CASE todo'[p] = <<>>
    BY <2>2, NoRows
  <2> QED
    BY <1>1, <2>1, <2>2
<1>11. ASSUME NEW u \in PutRows(q, tab)
       PROVE  u \in PutRows(todo'[p], tab) \/ (u = s.row /\ s.op = "put")
  <2>1. CASE todo'[p] = Tail(q)
    BY <1>3, <2>1
  <2>2. CASE \A i \in DOMAIN q : q[i].row.tab = "tag"
    BY <2>2 DEF PutRows
  <2> QED
    BY <1>1, <2>1, <2>2
<1>12. s.op = "put" /\ s.row.tab = tab => s.row \in Rows(tab)' /\ s.row \in Owed(p, tab)
  BY <1>3, <1>4, <1>5, <1>8
<1>13. ASSUME NEW r \in Rows(tab)
       PROVE  r \in Rows(tab)' \/ (\E u \in Rows(tab)' : u.id = r.id /\ u \in Owed(p, tab))
  <2>1. r \in db /\ r.tab = tab
    BY DEF Rows
  <2>2. CASE KeyOf(r) # KeyOf(s.row)
    BY <1>4, <1>5, <2>1, <2>2
  <2>3. CASE KeyOf(r) = KeyOf(s.row)
    <3>1. s.row.tab = tab /\ s.row.id = r.id
      BY <2>1, <2>3 DEF KeyOf
    <3> QED
      BY <1>7, <1>12, <3>1
  <2> QED
    BY <2>2, <2>3
<1>14. ASSUME NEW r \in Owed(p, tab)
       PROVE  r \in Known(p, tab)' \/ (\E u \in Rows(tab)' : u.id = r.id /\ u \in Owed(p, tab))
  <2>1. CASE r \in PutRows(todo'[p], tab)
    BY <1>8, <2>1 DEF Known
  <2>2. CASE r = s.row /\ s.op = "put"
    BY <1>6, <1>8, <1>12, <2>2
  <2> QED
    BY <1>8, <1>11, <2>1, <2>2
<1>15. \A o \in Procs : o # p => Owed(o, tab)' = Owed(o, tab)
  BY <1>1 DEF Owed
<1>16. Rows(tab)' \subseteq Known(p, tab)'
  BY DEF Known
<1> QED
  BY <1>8, <1>9, <1>10, <1>13, <1>14, <1>15, <1>16 DEF Known

\* Write: operations stay what they are.
LEMMA WriteOps ==
  ASSUME Inv, OpNames, NEW p \in Procs, Write(p)
  PROVE  /\ OpRows' \subseteq OpRows
         /\ Rows("operation") \subseteq Rows("operation")'
         /\ Rows("operation")' \subseteq OpRows
         /\ \A q \in Procs : Known(q, "operation") \subseteq Known(q, "operation")'
         /\ \A q \in Procs : Owed(q, "operation")' \subseteq Owed(q, "operation")
<1> DEFINE T == "operation"
           D == Rows(T)
<1>1. /\ D' \subseteq Known(p, T)
      /\ Owed(p, T)' \subseteq Owed(p, T)
      /\ \A r \in Known(p, T) :
           r \in Known(p, T)' \/ (\E u \in D' : u.id = r.id /\ u \in Owed(p, T))
      /\ \A r \in D : r \in D' \/ (\E u \in D' : u.id = r.id /\ u \in Owed(p, T))
      /\ \A q \in Procs : q # p => Owed(q, T)' = Owed(q, T)
  BY WrittenRows
<1> HIDE DEF D, T
<1>2. D \subseteq OpRows /\ \A q \in Procs : Owed(q, T) \subseteq OpRows
  BY DEF OpRows, T, D
<1>3. \A r, q \in OpRows : r.id = q.id => r = q
  BY DEF OpNames
<1>4. D \subseteq D'
  BY <1>1, <1>2, <1>3
<1>5. Known(p, T) \subseteq Known(p, T)'
  <2>1. Known(p, T) \subseteq OpRows /\ D' \subseteq Known(p, T)'
    BY <1>2 DEF Known, D
  <2> QED
    BY <1>1, <1>2, <1>3, <2>1
<1>6. \A q \in Procs : Owed(q, T)' \subseteq Owed(q, T)
  BY <1>1
<1>7. D' \subseteq OpRows
  BY <1>1, <1>2 DEF Known, D
<1>8. \A q \in Procs : Known(q, T) \subseteq Known(q, T)'
  <2> SUFFICES ASSUME NEW q \in Procs, q # p PROVE Known(q, T) \subseteq Known(q, T)'
    BY <1>5
  <2>1. Owed(q, T)' = Owed(q, T)
    BY <1>1
  <2> QED
    BY <1>4, <2>1 DEF Known, D
<1>9. OpRows' \subseteq OpRows
  BY <1>2, <1>6, <1>7 DEF OpRows, D, T
<1> QED
  BY <1>4, <1>6, <1>7, <1>8, <1>9 DEF D, T

\* Write: names.
LEMMA WriteNaming ==
  ASSUME Inv, Naming, NEW p \in Procs, Write(p)
  PROVE  Naming'
<1>1. /\ OpRows' \subseteq OpRows
      /\ \A q \in Procs : Known(q, "operation") \subseteq Known(q, "operation")'
      /\ \A q \in Procs : Owed(q, "operation")' \subseteq Owed(q, "operation")
  BY WriteOps DEF Naming
<1>2. UNCHANGED <<up, cache, minted>>
  BY DEF Write
<1>3. OpNames'
  BY <1>1 DEF Naming, OpNames
<1>4. CacheKnown'
  BY <1>1, <1>2 DEF Naming, CacheKnown
<1>5. QueuedCached'
  BY <1>1, <1>2 DEF Naming, QueuedCached
<1>6. MintedFirst'
  BY <1>1, <1>2 DEF Naming, MintedFirst
<1> QED
  BY <1>3, <1>4, <1>5, <1>6 DEF Naming

\* Write: a step that is stored is one of the process that queued it.
LEMMA WriteStepping ==
  ASSUME Inv, OpNames, UpQueued, Stepping, NEW p \in Procs, Write(p)
  PROVE  Stepping' /\ UpQueued'
<1> DEFINE T == "step"
<1>1. /\ Rows(T)' \subseteq Known(p, T)
      /\ Owed(p, T)' \subseteq Owed(p, T)
      /\ \A q \in Procs : q # p => Owed(q, T)' = Owed(q, T)
  BY WrittenRows
<1> HIDE DEF T
<1>2. \A q \in Procs : Known(q, "operation") \subseteq Known(q, "operation")'
  BY WriteOps
<1>3. UNCHANGED <<up, env, ids>> /\ todo[p] # <<>>
  BY DEF Write
<1>4. up[p]
  BY <1>3 DEF UpQueued
<1>5. EnvOwn'
  BY <1>3 DEF Stepping, EnvOwn
<1>6. \A q \in Procs : Owed(q, T)' \subseteq Owed(q, T)
  BY <1>1
<1>7. ASSUME NEW q \in Procs, up[q], NEW r \in Known(q, T)', r.with = env[q]
      PROVE  \E o \in Known(q, "operation")' : o.id = r.ref
  <2>1. r \in Known(q, T)
    <3>1. CASE r \in Owed(q, T)'
      BY <1>6, <3>1 DEF Known
    <3>2. CASE r \in Rows(T)'
      <4>1. r \in Known(p, T)
        BY <1>1, <3>2
      <4>2. CASE r \in Rows(T)
        BY <4>2 DEF Known
      <4>3. CASE r \in Owed(p, T)
        <5>1. r.with = env[p]
          BY <1>4, <4>3 DEF Stepping, StepOwn, T
        <5>2. q = p
          BY <1>4, <1>7, <5>1 DEF Stepping, EnvOwn
        <5> QED
          BY <4>1, <5>2
      <4> QED
        BY <4>1, <4>2, <4>3 DEF Known
    <3> QED
      BY <3>1, <3>2 DEF Known
  <2>2. \E o \in Known(q, "operation") : o.id = r.ref
    BY <1>7, <2>1 DEF Stepping, StepOwn, T
  <2> QED
    BY <1>2, <2>2
<1>8. StepOwn'
  <2>1. \A q \in Procs : up'[q] => \A r \in Owed(q, T)' : r.with = env'[q]
    BY <1>3, <1>6 DEF Stepping, StepOwn, T
  <2>2. \A q \in Procs : up'[q] => \A r \in Known(q, T)' :
          r.with = env'[q] => \E o \in Known(q, "operation")' : o.id = r.ref
    BY <1>3, <1>7
  <2> QED
    BY <2>1, <2>2 DEF StepOwn, T
<1>9. UpQueued'
  <2>1. \A q \in Procs : q # p => todo'[q] = todo[q] /\ tagging'[q] = tagging[q]
    BY WrittenQueue
  <2> QED
    BY <1>3, <1>4, <2>1 DEF UpQueued
<1> QED
  BY <1>5, <1>8, <1>9 DEF Stepping

\* Write: an assignment is stored once, and deleted by those that found it.
LEMMA WriteAssigning ==
  ASSUME Inv, DetailTyped, Assigning, Untagging, NEW p \in Procs, Write(p)
  PROVE  DetailTyped' /\ Assigning' /\ Untagging'
<1> DEFINE q == todo[p]
           s == q[1]
           T == "assigned"
           K == Keys(db)
           L == Keys(db)'
<1>1. /\ q \in Seq(Stmts) /\ q # <<>> /\ s \in Stmts /\ Shaped(s)
      /\ \A o \in Procs : o # p => todo'[o] = todo[o] /\ tagging'[o] = tagging[o]
      /\ \/ todo'[p] = Tail(q) /\ tagging'[p] = tagging[p]
         \/ /\ todo'[p] = <<>> /\ tagging[p] # None /\ db' = db
            /\ \A i \in DOMAIN q : q[i].row.tab = "tag"
  BY WrittenQueue
<1>2. UNCHANGED <<sync, untag, minted, ids>>
  BY DEF Write
<1>3. DetailTyped'
  BY <1>2 DEF DetailTyped
<1>4. /\ PutRows(Tail(q), T) \subseteq PutRows(q, T)
      /\ s.op = "put" => s.row \in PutRows(q, s.row.tab)
      /\ \A a : Unassigns(q, a) => Unassigns(Tail(q), a) \/ s = Del("assigned", a)
  BY <1>1, RestRows
<1>5. /\ s.op = "put" => L = K \cup {KeyOf(s.row)}
      /\ s.op \in {"edit", "seek"} => L = K
      /\ s.op = "del" => L = K \ {KeyOf(s.row)}
  BY WriteKeys
<1>6. /\ \A o \in Procs : Owed(o, T) = PutRows(todo[o], T)
      /\ \A o \in Procs : Owed(o, T)' = PutRows(todo'[o], T)
  BY DEF Owed
<1>7. Len(q) = 1 => PutRows(todo'[p], T) = {}
  <2>1. Len(q) = 1 => todo'[p] = <<>>
    BY <1>1, LastTail
  <2> QED
    BY <2>1, NoRows
<1> HIDE DEF q, s, T, K, L
<1>8. \A o \in Procs : Owed(o, T)' \subseteq Owed(o, T)
  <2>1. PutRows(todo'[p], T) \subseteq PutRows(q, T)
    <3>1. CASE todo'[p] = Tail(q)
      BY <1>4, <3>1
    <3>2. CASE todo'[p] = <<>>
      BY <3>2, NoRows
    <3> QED
      BY <1>1, <3>1, <3>2
  <2> QED
    BY <1>1, <1>6, <2>1 DEF q
<1>9. \A a : <<"assigned", a>> \in L => <<"assigned", a>> \in K
                                        \/ \E r \in Owed(p, T) : r.id = a
  <2> SUFFICES ASSUME NEW a, <<"assigned", a>> \in L, <<"assigned", a>> \notin K
               PROVE  \E r \in Owed(p, T) : r.id = a
    OBVIOUS
  <2>1. s.op = "put" /\ KeyOf(s.row) = <<"assigned", a>>
    BY <1>1, <1>5 DEF Stmts
  <2>2. s.row.tab = T /\ s.row.id = a
    BY <2>1 DEF KeyOf, T
  <2> QED
    BY <1>4, <1>6, <2>1, <2>2 DEF q
<1>10. Assigning'
  <2> SUFFICES ASSUME NEW o \in Procs, NEW r \in Owed(o, T)'
               PROVE  /\ Len(todo'[o]) = 1 /\ sync'[o]
                      /\ <<"assigned", r.id>> \notin L
                      /\ \A x \in Procs : r.id \notin untag'[x]
                      /\ \A x \in Procs : x # o => \A u \in Owed(x, T)' : u.id # r.id
    BY DEF Assigning, T, L
  <2>1. r \in Owed(o, T)
    BY <1>8
  <2>2. /\ Len(todo[o]) = 1 /\ sync[o]
        /\ <<"assigned", r.id>> \notin K
        /\ \A x \in Procs : r.id \notin untag[x]
        /\ \A x \in Procs : x # o => \A u \in Owed(x, T) : u.id # r.id
    BY <2>1 DEF Assigning, T, K
  <2>3. o # p
    BY <1>6, <1>7, <2>2 DEF q
  <2>4. <<"assigned", r.id>> \notin L
    BY <1>9, <2>2, <2>3
  <2> QED
    BY <1>1, <1>2, <1>8, <2>2, <2>3, <2>4
<1>11. Untagging'
  <2> SUFFICES ASSUME NEW o \in Procs
               PROVE  /\ untag'[o] # {} => tagging'[o] = None
                      /\ \A a \in untag'[o] : <<"assigned", a>> \in L => Unassigns(todo'[o], a)
    BY DEF Untagging, L
  <2>1. untag[o] # {} => tagging[o] = None
    BY DEF Untagging
  <2>2. untag'[o] # {} => tagging'[o] = None
    BY <1>1, <1>2, <2>1
  <2>3. ASSUME NEW a \in untag[o], <<"assigned", a>> \in L PROVE Unassigns(todo'[o], a)
    <3>1. <<"assigned", a>> \in K
      BY <1>9, <2>3 DEF Assigning, T
    <3>2. Unassigns(todo[o], a)
      BY <3>1 DEF Untagging, K
    <3>3. CASE o # p
      BY <1>1, <3>2, <3>3
    <3>4. CASE o = p
      <4>1. todo'[p] = Tail(q)
        BY <1>1, <2>1, <2>3, <3>4
      <4>2. s # Del("assigned", a)
        <5>1. Del("assigned", a).op = "del" /\ KeyOf(Del("assigned", a).row) = <<"assigned", a>>
          BY DEF Del, Row, KeyOf
        <5> QED
          BY <1>5, <2>3, <5>1
      <4> QED
        BY <1>4, <3>2, <3>4, <4>1, <4>2 DEF q
    <3> QED
      BY <3>3, <3>4
  <2> QED
    BY <1>2, <2>2, <2>3
<1> QED
  BY <1>3, <1>10, <1>11

\* Rows that are queued are typed, like those that are stored.
LEMMA OwedTyped ==
  ASSUME Typed, NEW q \in Procs, NEW tab, NEW r \in Owed(q, tab)
  PROVE  r \in AllRows /\ r.tab = tab /\ r.id \in Nat /\ r.id <= ids
<1>1. todo[q] \in Seq(Stmts) /\ r \in PutRows(todo[q], tab)
  BY DEF Typed, Owed
<1>2. r \in AllRows /\ r.tab = tab /\ \E i \in DOMAIN todo[q] : todo[q][i].op = "put" /\ todo[q][i].row = r
  BY <1>1, PutRowFacts
<1> QED
  BY <1>2 DEF Typed, AllRows

\* What the list of new operations holds.
LEMMA MintedTyped ==
  ASSUME DetailTyped
  PROVE  \A i \in DOMAIN minted : minted[i].op \in Nat /\ minted[i].op <= ids
<1> DEFINE R == [op : Nat, beside : SUBSET Nat]
<1>1. \A r \in R : r.op \in Nat
  OBVIOUS
<1>2. minted \in Seq(R)
  BY DEF DetailTyped
<1> HIDE DEF R
<1>3. \A i \in DOMAIN minted : minted[i] \in R
  BY <1>2
<1> QED
  BY <1>1, <1>3 DEF DetailTyped

-----------------------------------------------------------------------------
(* The calls that queue no operation and no step *)

\* Neither what is stored nor what is queued of them changes.
LEMMA SameRows ==
  ASSUME Inv, Naming, Stepping, UNCHANGED <<db, up, env, cache, minted>>,
         ids' \in Nat, ids <= ids',
         \A q \in Procs : /\ Owed(q, "operation")' = Owed(q, "operation")
                          /\ Owed(q, "step")' = Owed(q, "step")
  PROVE  Naming' /\ Stepping'
<1>1. \A q \in Procs : /\ Known(q, "operation")' = Known(q, "operation")
                       /\ Known(q, "step")' = Known(q, "step")
  BY DEF Known, Rows
<1>2. OpRows' = OpRows
  BY DEF OpRows, Rows
<1>3. OpNames'
  BY <1>2 DEF Naming, OpNames
<1>4. CacheKnown'
  BY <1>1 DEF Naming, CacheKnown
<1>5. QueuedCached'
  BY DEF Naming, QueuedCached
<1>6. MintedFirst'
  BY <1>2 DEF Naming, MintedFirst
<1>7. EnvOwn'
  <2>1. \A q \in Procs : up[q] => env[q] \in Nat /\ env[q] <= ids
    BY DEF Stepping, EnvOwn, Inv, Typed
  <2>2. ids \in Nat /\ \A n \in Nat : n <= ids => n <= ids'
    BY BeforeCall DEF Inv, Typed
  <2> QED
    BY <2>1, <2>2 DEF Stepping, EnvOwn
<1>8. StepOwn'
  BY <1>1 DEF Stepping, StepOwn
<1> QED
  BY <1>3, <1>4, <1>5, <1>6, <1>7, <1>8 DEF Naming, Stepping

\* Such a call of a process.
Plain(p, t) ==
  /\ t \in Seq(Stmts)
  /\ Queue(p, t, TRUE)
  /\ \A tab \in {"operation", "step"} : PutRows(t, tab) = {}

\* It leaves names and steps alone.
LEMMA PlainSteps ==
  ASSUME Inv, Naming, Stepping, UpQueued, NEW p \in Procs, NEW t, Plain(p, t), up[p],
         UNCHANGED <<db, up, env, cache, minted>>, ids' \in Nat, ids <= ids',
         \A q \in Procs : q # p => tagging'[q] = tagging[q]
  PROVE  Naming' /\ Stepping' /\ UpQueued'
<1>1. /\ t \in Seq(Stmts) /\ todo' = [todo EXCEPT ![p] = @ \o t] /\ Typed
      /\ PutRows(t, "operation") = {} /\ PutRows(t, "step") = {}
  BY DEF Plain, Queue, Inv
<1>2. /\ \A q \in Procs : q # p => todo'[q] = todo[q]
      /\ \A tab : Owed(p, tab)' = Owed(p, tab) \cup PutRows(t, tab)
      /\ \A q \in Procs : q # p => \A tab : Owed(q, tab)' = Owed(q, tab)
  BY <1>1, CallRows
<1>3. \A q \in Procs : /\ Owed(q, "operation")' = Owed(q, "operation")
                       /\ Owed(q, "step")' = Owed(q, "step")
  BY <1>1, <1>2
<1>4. UpQueued'
  BY <1>2 DEF UpQueued
<1> QED
  BY <1>3, <1>4, SameRows

\* What a call of p may do that queues no assignment: it was not waiting for one.
LEMMA NoAssignment ==
  ASSUME Inv, Detail, NEW p \in Procs, NEW t \in Seq(Stmts), NEW waits \in BOOLEAN,
         Queue(p, t, waits), sync[p] => todo[p] = <<>>, untag[p] = {}, UNCHANGED <<db, untag>>,
         ids' \in Nat, ids <= ids', PutRows(t, "assigned") = {},
         \A q \in Procs : q # p => tagging'[q] = tagging[q],
         minted' \in Seq([op : Nat, beside : SUBSET Nat]),
         \A i \in DOMAIN minted' : minted'[i].op <= ids'
  PROVE  DetailTyped' /\ Assigning' /\ Untagging'
<1>1. todo' = [todo EXCEPT ![p] = @ \o t] /\ sync' = [sync EXCEPT ![p] = waits] /\ Typed
  BY DEF Queue, Inv
<1>2. /\ \A q \in Procs : q # p => todo'[q] = todo[q]
      /\ \A tab : Owed(p, tab)' = Owed(p, tab) \cup PutRows(t, tab)
      /\ \A q \in Procs : q # p => \A tab : Owed(q, tab)' = Owed(q, tab)
  BY <1>1, CallRows
<1>3. DetailTyped /\ Assigning /\ Untagging
  BY DEF Detail
<1>4. Owed(p, "assigned") = {}
  <2> SUFFICES ASSUME NEW r \in Owed(p, "assigned") PROVE FALSE
    OBVIOUS
  <2>1. Len(todo[p]) = 1 /\ sync[p]
    BY <1>3 DEF Assigning
  <2>2. todo[p] = <<>>
    BY <2>1
  <2> QED
    BY <2>1, <2>2
<1>5. Owed(p, "assigned")' = {}
  BY <1>2, <1>4
<1>6. Keys(db)' = Keys(db)
  BY DEF Keys
<1>7. \A q \in Procs : q # p => sync'[q] = sync[q]
  BY <1>1, <1>3 DEF DetailTyped
<1>8. DetailTyped'
  <2>1. \A q \in Procs : \A a \in untag[q] : a <= ids'
    <3>1. \A q \in Procs : \A a \in untag[q] : a \in Nat /\ a <= ids
      BY <1>3 DEF DetailTyped
    <3>2. \A a \in Nat : a <= ids => a <= ids'
      BY <1>1 DEF Typed
    <3> QED
      BY <3>1, <3>2
  <2> QED
    BY <1>1, <1>3, <2>1 DEF DetailTyped
<1>9. Assigning'
  <2> SUFFICES ASSUME NEW o \in Procs, NEW r \in Owed(o, "assigned")'
               PROVE  /\ Len(todo'[o]) = 1 /\ sync'[o]
                      /\ <<"assigned", r.id>> \notin Keys(db)'
                      /\ \A q \in Procs : r.id \notin untag'[q]
                      /\ \A q \in Procs : q # o => \A u \in Owed(q, "assigned")' : u.id # r.id
    BY DEF Assigning
  <2>1. o # p /\ r \in Owed(o, "assigned")
    BY <1>2, <1>5
  <2>2. \A q \in Procs : \A u \in Owed(q, "assigned")' : u \in Owed(q, "assigned")
    BY <1>2, <1>5
  <2> QED
    BY <1>2, <1>3, <1>6, <1>7, <2>1, <2>2 DEF Assigning
<1>10. Untagging'
  <2> SUFFICES ASSUME NEW o \in Procs
               PROVE  /\ untag'[o] # {} => tagging'[o] = None
                      /\ \A a \in untag'[o] : <<"assigned", a>> \in Keys(db)' => Unassigns(todo'[o], a)
    BY DEF Untagging
  <2>1. CASE o = p
    BY <2>1
  <2>2. CASE o # p
    BY <1>2, <1>3, <1>6, <2>2 DEF Untagging
  <2> QED
    BY <2>1, <2>2
<1> QED
  BY <1>8, <1>9, <1>10

\* Rows of short queues.
LEMMA ShortRows ==
  ASSUME NEW a \in Stmts, NEW b \in Stmts, NEW tab
  PROVE  /\ a.op # "put" \/ a.row.tab # tab => PutRows(<<a>>, tab) = {}
         /\ (a.op # "put" \/ a.row.tab # tab) /\ (b.op # "put" \/ b.row.tab # tab)
              => PutRows(<<a, b>>, tab) = {}
         /\ a.op = "put" /\ a.row.tab = tab => PutRows(<<a>>, tab) = {a.row}
<1>1. DOMAIN <<a>> = {1} /\ <<a>>[1] = a /\ DOMAIN <<a, b>> = {1, 2} /\ <<a, b>>[1] = a /\ <<a, b>>[2] = b
  BY ShortSeqs
<1>2. a.op # "put" \/ a.row.tab # tab => PutRows(<<a>>, tab) = {}
  BY <1>1 DEF PutRows
<1>3. (a.op # "put" \/ a.row.tab # tab) /\ (b.op # "put" \/ b.row.tab # tab)
         => PutRows(<<a, b>>, tab) = {}
  BY <1>1 DEF PutRows
<1>4. a.op = "put" /\ a.row.tab = tab => PutRows(<<a>>, tab) = {a.row}
  BY <1>1 DEF PutRows
<1> QED
  BY <1>2, <1>3, <1>4

\* A call of two statements about rows of other tables.
LEMMA PairDetail ==
  ASSUME Inv, Detail, NEW p \in Procs, up[p], NEW a \in Stmts, NEW b \in Stmts,
         NEW t \in {<<a>>, <<a, b>>}, Queue(p, t, TRUE),
         {a.row.tab, b.row.tab} \cap {"operation", "step", "assigned"} = {},
         sync[p] => todo[p] = <<>>, untag[p] = {}, ids' \in Nat, ids <= ids',
         UNCHANGED <<db, up, env, cache, untag, minted>>,
         \A q \in Procs : q # p => tagging'[q] = tagging[q]
  PROVE  Detail'
<1>1. t \in Seq(Stmts)
  <2>1. <<a>> \in Seq(Stmts) /\ <<a, b>> \in Seq(Stmts)
    OBVIOUS
  <2> QED
    BY <2>1
<1>2. \A tab \in {"operation", "step", "assigned"} : PutRows(t, tab) = {}
  BY ShortRows
<1> HIDE DEF Queue
<1>3. Plain(p, t)
  BY <1>1, <1>2 DEF Plain
<1>4. Naming' /\ Stepping' /\ UpQueued'
  BY <1>3, PlainSteps DEF Detail
<1>5. /\ minted' \in Seq([op : Nat, beside : SUBSET Nat])
      /\ \A i \in DOMAIN minted' : minted'[i].op <= ids'
  <2>1. DetailTyped
    BY DEF Detail
  <2>2. /\ minted \in Seq([op : Nat, beside : SUBSET Nat])
        /\ \A i \in DOMAIN minted : minted[i].op \in Nat /\ minted[i].op <= ids
    BY <2>1, MintedTyped DEF DetailTyped
  <2>3. \A n \in Nat : n <= ids => n <= ids'
    BY DEF Inv, Typed
  <2> QED
    BY <2>1, <2>2, <2>3
<1>6. DetailTyped' /\ Assigning' /\ Untagging'
  BY <1>1, <1>2, <1>5, NoAssignment
<1> QED
  BY <1>4, <1>6 DEF Detail

\* What a call starts from.
LEMMA MayFacts ==
  ASSUME Inv, NEW kind, NEW p \in Procs, NEW n \in Nat, May(kind, p, n)
  PROVE  /\ sync[p] => todo[p] = <<>>
         /\ tagging[p] = None /\ untag[p] = {}
         /\ ids \in Nat /\ ids' = ids + n /\ ids' \in Nat /\ ids <= ids'
  BY BeforeCall DEF May

\* Annotate, UpdateNote, RemoveNote: rows of notes.
LEMMA NoteDetail ==
  ASSUME Inv, Detail, NEW p \in Procs,
         Annotate(p) \/ \E n \in Notes : UpdateNote(p, n) \/ RemoveNote(p, n)
  PROVE  Detail'
<1>1. CASE Annotate(p)
  <2> DEFINE n == ids + 1
             a == Put(Row("note", n, None, 0))
             b == Put(Row("target", n, n, None))
  <2>1. /\ sync[p] => todo[p] = <<>>
        /\ tagging[p] = None /\ untag[p] = {}
        /\ ids \in Nat /\ ids' \in Nat /\ ids <= ids'
    BY <1>1, MayFacts DEF Annotate
  <2>2. n \in Nat
    BY <2>1
  <2>3. /\ up[p] /\ Queue(p, <<a, b>>, TRUE)
        /\ UNCHANGED <<db, up, env, cache, untag, minted>> /\ tagging' = tagging
    BY <1>1 DEF Annotate, NoteRows
  <2> HIDE DEF n
  <2>4. a \in Stmts /\ b \in Stmts
    BY <2>2, RowTyped DEF Tables, Ids
  <2>5. a.row.tab = "note" /\ b.row.tab = "target"
    BY RowFacts
  <2> HIDE DEF a, b
  <2> QED
    BY <2>1, <2>3, <2>4, <2>5, PairDetail
<1>2. ASSUME NEW n \in Notes, UpdateNote(p, n) PROVE Detail'
  <2> DEFINE a == Edit(Row("note", n, None, 1))
  <2>1. /\ sync[p] => todo[p] = <<>>
        /\ tagging[p] = None /\ untag[p] = {}
        /\ ids \in Nat /\ ids' \in Nat /\ ids <= ids'
    BY <1>2, MayFacts DEF UpdateNote
  <2>2. n \in Nat
    BY NotesFacts
  <2>3. /\ up[p] /\ Queue(p, <<a>>, TRUE)
        /\ UNCHANGED <<db, up, env, cache, untag, minted>> /\ tagging' = tagging
    BY <1>2 DEF UpdateNote
  <2>4. a \in Stmts
    BY <2>2, RowTyped DEF Tables, Ids
  <2>5. a.row.tab = "note"
    BY DEF Edit, Row
  <2> HIDE DEF a
  <2> QED
    BY <2>1, <2>3, <2>4, <2>5, PairDetail
<1>3. ASSUME NEW n \in Notes, RemoveNote(p, n) PROVE Detail'
  <2> DEFINE a == Del("target", n)
             b == Del("note", n)
  <2>1. /\ sync[p] => todo[p] = <<>>
        /\ tagging[p] = None /\ untag[p] = {}
        /\ ids \in Nat /\ ids' \in Nat /\ ids <= ids'
    BY <1>3, MayFacts DEF RemoveNote
  <2>2. n \in Nat
    BY NotesFacts
  <2>3. /\ up[p] /\ Queue(p, <<a, b>>, TRUE)
        /\ UNCHANGED <<db, up, env, cache, untag, minted>> /\ tagging' = tagging
    BY <1>3 DEF RemoveNote
  <2>4. a \in Stmts /\ b \in Stmts
    BY <2>2, RowTyped DEF Tables, Ids
  <2>5. a.row.tab = "target" /\ b.row.tab = "note"
    BY DEF Del, Row
  <2> HIDE DEF a, b
  <2> QED
    BY <2>1, <2>3, <2>4, <2>5, PairDetail
<1> QED
  BY <1>1, <1>2, <1>3

\* Pipeline, Tag: rows of a pipeline, of a tag.
LEMMA LabelDetail ==
  ASSUME Inv, Detail, NEW p \in Procs, Pipeline(p) \/ Tag(p)
  PROVE  Detail'
<1> DEFINE n == ids + 1
<1>1. CASE Pipeline(p)
  <2> DEFINE a == Put(Row("pipeline", n, hist[p], None))
             b == Put(Row("fragment", n, n, None))
  <2>1. /\ sync[p] => todo[p] = <<>>
        /\ tagging[p] = None /\ untag[p] = {}
        /\ ids \in Nat /\ ids' \in Nat /\ ids <= ids'
    BY <1>1, MayFacts DEF Pipeline
  <2>2. n \in Nat /\ hist[p] \in Ids
    BY <2>1 DEF Inv, Typed
  <2>3. /\ up[p] /\ Queue(p, <<a, b>>, TRUE)
        /\ UNCHANGED <<db, up, env, cache, untag, minted>> /\ tagging' = tagging
    BY <1>1 DEF Pipeline, PipelineRows
  <2> HIDE DEF n
  <2>4. a \in Stmts /\ b \in Stmts
    BY <2>2, RowTyped DEF Tables, Ids
  <2>5. a.row.tab = "pipeline" /\ b.row.tab = "fragment"
    BY RowFacts
  <2> HIDE DEF a, b
  <2> QED
    BY <2>1, <2>3, <2>4, <2>5, PairDetail
<1>2. CASE Tag(p)
  <2> DEFINE a == Seek(Row("tag", n, None, 0))
             b == Put(Row("tag", n, None, 0))
  <2>1. /\ sync[p] => todo[p] = <<>>
        /\ tagging[p] = None /\ untag[p] = {}
        /\ ids \in Nat /\ ids' \in Nat /\ ids <= ids'
    BY <1>2, MayFacts DEF Tag
  <2>2. n \in Nat
    BY <2>1
  <2>3. /\ up[p] /\ Queue(p, <<a, b>>, TRUE)
        /\ UNCHANGED <<db, up, env, cache, untag, minted>>
    BY <1>2 DEF Tag
  <2>4. \A q \in Procs : q # p => tagging'[q] = tagging[q]
    BY <1>2 DEF Tag, Inv, Typed
  <2> HIDE DEF n
  <2>5. a \in Stmts /\ b \in Stmts
    BY <2>2, RowTyped DEF Tables, Ids
  <2>6. a.row.tab = "tag" /\ b.row.tab = "tag"
    BY RowFacts DEF Seek
  <2> HIDE DEF a, b
  <2> QED
    BY <2>1, <2>3, <2>4, <2>5, <2>6, PairDetail
<1> QED
  BY <1>1, <1>2

\* Assign: the assignment has a new number, and its caller waits for it.
LEMMA AssignDetail ==
  ASSUME Inv, Detail, NEW p \in Procs, Assign(p)
  PROVE  Detail'
<1> DEFINE n == ids + 1
           u == Row("assigned", n, tagging[p], None)
           t == <<Put(u)>>
<1>1. /\ todo[p] = <<>> /\ tagging[p] # None /\ ids' = n /\ Queue(p, t, TRUE)
      /\ tagging' = [tagging EXCEPT ![p] = None]
      /\ UNCHANGED <<db, up, env, cache, untag, minted>>
  BY DEF Assign
<1>2. ids \in Nat /\ n \in Nat /\ ids <= n /\ Typed /\ tagging[p] \in Ids
  BY BeforeCall DEF Inv, Typed
<1>3. DetailTyped /\ Assigning /\ Untagging /\ UpQueued /\ Naming /\ Stepping
  BY DEF Detail
<1>4. up[p]
  BY <1>1, <1>3 DEF UpQueued
<1>5. \A q \in Procs : q # p => tagging'[q] = tagging[q]
  BY <1>1, <1>2 DEF Typed
<1>6. u.id = n /\ u.tab = "assigned" /\ Put(u).op = "put" /\ Put(u).row = u
  BY RowFacts
<1>7. Put(u) \in Stmts
  BY <1>2, RowTyped DEF Tables, Ids
<1> HIDE DEF u, n
<1>8. /\ t \in Seq(Stmts) /\ Len(t) = 1
      /\ PutRows(t, "assigned") = {u}
      /\ \A tab \in {"operation", "step"} : PutRows(t, tab) = {}
  <2>1. t \in Seq(Stmts) /\ Len(t) = 1
    BY <1>7
  <2>2. PutRows(t, "assigned") = {u}
    BY <1>6, <1>7, ShortRows
  <2>3. \A tab \in {"operation", "step"} : PutRows(t, tab) = {}
    BY <1>6, <1>7, ShortRows
  <2> QED
    BY <2>1, <2>2, <2>3
<1> HIDE DEF t
<1>9. Plain(p, t)
  BY <1>1, <1>8 DEF Plain
<1>10. Naming' /\ Stepping' /\ UpQueued'
  BY <1>1, <1>2, <1>3, <1>4, <1>5, <1>9, PlainSteps
<1>11. todo' = [todo EXCEPT ![p] = @ \o t] /\ sync' = [sync EXCEPT ![p] = TRUE]
  BY <1>1 DEF Queue
<1>12. /\ todo'[p] = todo[p] \o t
       /\ \A q \in Procs : q # p => todo'[q] = todo[q]
       /\ Owed(p, "assigned")' = Owed(p, "assigned") \cup {u}
       /\ \A q \in Procs : q # p => Owed(q, "assigned")' = Owed(q, "assigned")
  <2>1. /\ todo'[p] = todo[p] \o t
        /\ \A q \in Procs : q # p => todo'[q] = todo[q]
        /\ \A tab : Owed(p, tab)' = Owed(p, tab) \cup PutRows(t, tab)
        /\ \A q \in Procs : q # p => \A tab : Owed(q, tab)' = Owed(q, tab)
    BY <1>2, <1>8, <1>11, CallRows
  <2> QED
    BY <1>8, <2>1
<1>13. Len(todo'[p]) = 1 /\ Owed(p, "assigned")' = {u}
  <2>1. todo'[p] = t
    BY <1>1, <1>8, <1>12
  <2>2. Owed(p, "assigned") = {}
    BY <1>1, NoRows DEF Owed
  <2> QED
    BY <1>8, <1>12, <2>1, <2>2
<1>14. untag[p] = {} /\ sync'[p] /\ \A q \in Procs : q # p => sync'[q] = sync[q]
  BY <1>1, <1>3, <1>11 DEF Untagging, DetailTyped
<1>15. DetailTyped'
  <2>1. \A m \in Nat : m <= ids => m <= ids'
    BY <1>1, <1>2
  <2>2. \A q \in Procs : \A a \in untag[q] : a \in Nat /\ a <= ids
    BY <1>3 DEF DetailTyped
  <2>3. \A i \in DOMAIN minted : minted[i].op \in Nat /\ minted[i].op <= ids
    BY <1>3, MintedTyped
  <2> QED
    BY <1>1, <1>3, <1>11, <2>1, <2>2, <2>3 DEF DetailTyped
<1>16. /\ \A q \in Procs : n \notin untag[q] /\ \A r \in Owed(q, "assigned") : r.id # n
       /\ <<"assigned", n>> \notin Keys(db)
  <2>1. \A m \in Nat : m <= ids => m # n
    BY <1>2 DEF n
  <2>2. \A q \in Procs : n \notin untag[q]
    BY <1>3, <2>1 DEF DetailTyped
  <2>3. ASSUME NEW q \in Procs, NEW r \in Owed(q, "assigned") PROVE r.id # n
    <3>1. r.id \in Nat /\ r.id <= ids
      BY <1>2, OwedTyped
    <3> QED
      BY <2>1, <3>1
  <2>4. <<"assigned", n>> \notin Keys(db)
    BY <1>2, <2>1 DEF Keys, KeyOf, Typed, AllRows
  <2> QED
    BY <2>2, <2>3, <2>4
<1>17. Keys(db)' = Keys(db)
  BY <1>1 DEF Keys
<1>18. Assigning'
  <2> SUFFICES ASSUME NEW o \in Procs, NEW r \in Owed(o, "assigned")'
               PROVE  /\ Len(todo'[o]) = 1 /\ sync'[o]
                      /\ <<"assigned", r.id>> \notin Keys(db)
                      /\ \A q \in Procs : r.id \notin untag[q]
                      /\ \A q \in Procs : q # o => \A v \in Owed(q, "assigned")' : v.id # r.id
    BY <1>1, <1>17 DEF Assigning
  <2>1. CASE o = p
    <3>1. r.id = n
      BY <1>6, <1>13, <2>1
    <3> QED
      BY <1>12, <1>13, <1>14, <1>16, <2>1, <3>1
  <2>2. CASE o # p
    <3>1. r \in Owed(o, "assigned")
      BY <1>12, <2>2
    <3>2. r.id # n
      BY <1>16, <3>1
    <3>3. /\ Len(todo[o]) = 1 /\ sync[o]
          /\ <<"assigned", r.id>> \notin Keys(db)
          /\ \A q \in Procs : r.id \notin untag[q]
          /\ \A q \in Procs : q # o => \A v \in Owed(q, "assigned") : v.id # r.id
      BY <1>3, <3>1 DEF Assigning
    <3>4. \A q \in Procs : q # o => \A v \in Owed(q, "assigned")' : v.id # r.id
      BY <1>6, <1>12, <1>13, <3>2, <3>3
    <3> QED
      BY <1>12, <1>14, <2>2, <3>3, <3>4
  <2> QED
    BY <2>1, <2>2
<1>19. Untagging'
  <2> SUFFICES ASSUME NEW o \in Procs
               PROVE  /\ untag[o] # {} => tagging'[o] = None
                      /\ \A a \in untag[o] : <<"assigned", a>> \in Keys(db) => Unassigns(todo'[o], a)
    BY <1>1, <1>17 DEF Untagging
  <2>1. CASE o = p
    BY <1>14, <2>1
  <2>2. CASE o # p
    BY <1>3, <1>5, <1>12, <2>2 DEF Untagging
  <2> QED
    BY <2>1, <2>2
<1> QED
  BY <1>10, <1>15, <1>18, <1>19 DEF Detail

\* The sequence SetToSeq makes of a finite set has all of it.
LEMMA SetToSeqOnto ==
  ASSUME NEW S, IsFiniteSet(S)
  PROVE  /\ Cardinality(S) \in Nat
         /\ \A i \in 1..Cardinality(S) : SetToSeq(S)[i] \in S
         /\ \A x \in S : \E i \in 1..Cardinality(S) : SetToSeq(S)[i] = x
<1> DEFINE n == Cardinality(S)
           f == SetToSeq(S)
<1>1. n \in Nat /\ ExistsBijection(1..n, S)
  BY FS_CardinalityType
<1>2. f \in [1..n -> S] /\ IsInjective(f)
  <2>1. \E g \in [1..n -> S] : IsInjective(g)
    BY <1>1 DEF ExistsBijection, Bijection, Injection, IsInjective
  <2> QED
    BY <2>1 DEF SetToSeq
<1>3. Cardinality(1..n) = n
  BY <1>1, FS_Interval
<1> HIDE DEF f
<1>4. f \in Surjection(1..n, S)
  <2>1. f \in Injection(1..n, S)
    BY <1>2 DEF Injection
  <2> QED
    BY <1>3, <2>1, FS_Injection
<1> QED
  BY <1>1, <1>2, <1>4 DEF Surjection, f

\* Untag: a deletion for each assignment found, of which none is still to be stored.
LEMMA UntagDetail ==
  ASSUME Inv, Detail, NEW p \in Procs, Untag(p)
  PROVE  Detail'
<1> DEFINE as == {a.id : a \in {r \in Rows("assigned") : Key("tag", r.ref)}}
           t  == Unassign(as)
<1>0. /\ sync[p] => todo[p] = <<>>
      /\ tagging[p] = None /\ untag[p] = {}
      /\ ids \in Nat /\ ids' = ids + 0
  BY MayFacts DEF Untag
<1>1. /\ sync[p] => todo[p] = <<>>
      /\ tagging[p] = None /\ untag[p] = {}
      /\ ids \in Nat /\ ids' = ids
  BY <1>0
<1>2. /\ up[p] /\ Queue(p, t, TRUE) /\ untag' = [untag EXCEPT ![p] = as] /\ ids' = ids
      /\ UNCHANGED <<db, up, env, cache, minted, tagging>>
  <2> HIDE DEF t
  <2>1. up[p] /\ UNCHANGED <<db, up, env, cache, minted, tagging>>
    BY DEF Untag
  <2>2. Queue(p, t, TRUE) /\ untag' = [untag EXCEPT ![p] = as]
    BY DEF Untag, t
  <2> QED
    BY <1>1, <2>1, <2>2
<1>3. DetailTyped /\ Assigning /\ Untagging /\ UpQueued /\ Naming /\ Stepping /\ Typed
  BY DEF Detail, Inv
<1>4. as \subseteq 0..ids /\ \A a \in as : <<"assigned", a>> \in Keys(db)
  BY <1>3 DEF Typed, Rows, AllRows, Keys, KeyOf
<1> HIDE DEF as
<1>5. IsFiniteSet(as) /\ \A a \in as : a \in Nat /\ a <= ids
  <2>1. IsFiniteSet(0..ids)
    BY <1>1, FS_Interval
  <2>2. IsFiniteSet(as)
    BY <1>4, <2>1, FS_Subset
  <2>3. \A a \in 0..ids : a \in Nat /\ a <= ids
    BY <1>1
  <2> QED
    BY <1>4, <2>2, <2>3
<1>6. /\ Cardinality(as) \in Nat
      /\ \A i \in 1..Cardinality(as) : SetToSeq(as)[i] \in as
      /\ \A a \in as : \E i \in 1..Cardinality(as) : SetToSeq(as)[i] = a
  BY <1>5, SetToSeqOnto
<1>7. /\ DOMAIN t = 1..Cardinality(as)
      /\ \A i \in DOMAIN t : \E a \in as : t[i] = Del("assigned", a)
      /\ \A a \in as : \E i \in DOMAIN t : t[i] = Del("assigned", a)
  BY <1>6 DEF Unassign
<1>8. t \in Seq(Stmts)
  <2>1. \A a \in as : Del("assigned", a) \in Stmts
    BY <1>5, RowTyped DEF Tables, Ids
  <2>2. \A i \in 1..Cardinality(as) : t[i] \in Stmts
    BY <1>7, <2>1
  <2>3. t = [i \in 1..Cardinality(as) |-> t[i]]
    BY DEF Unassign
  <2> HIDE DEF t
  <2>4. t \in [1..Cardinality(as) -> Stmts]
    BY <2>2, <2>3
  <2>5. Cardinality(as) \in Nat
    BY <1>6
  <2> QED
    BY <2>4, <2>5, SeqDef
<1> HIDE DEF t
<1>9. \A tab : PutRows(t, tab) = {}
  <2>1. \A a : Del("assigned", a).op = "del"
    BY DEF Del
  <2>2. \A i \in DOMAIN t : t[i].op # "put"
    BY <1>7, <2>1
  <2> QED
    BY <2>2 DEF PutRows
<1>10. Plain(p, t)
  BY <1>2, <1>8, <1>9 DEF Plain
<1>11. Naming' /\ Stepping' /\ UpQueued'
  BY <1>1, <1>2, <1>3, <1>10, PlainSteps
<1>12. todo' = [todo EXCEPT ![p] = @ \o t] /\ sync' = [sync EXCEPT ![p] = TRUE]
  BY <1>2 DEF Queue
<1>13. /\ \A q \in Procs : q # p => todo'[q] = todo[q]
       /\ \A tab : Owed(p, tab)' = Owed(p, tab) \cup PutRows(t, tab)
       /\ \A q \in Procs : q # p => \A tab : Owed(q, tab)' = Owed(q, tab)
       /\ \A a : Unassigns(t, a) \/ Unassigns(todo[p], a) => Unassigns(todo'[p], a)
  BY <1>3, <1>8, <1>12, CallRows
<1>14. Owed(p, "assigned") = {}
  <2> SUFFICES ASSUME NEW r \in Owed(p, "assigned") PROVE FALSE
    OBVIOUS
  <2>1. Len(todo[p]) = 1 /\ sync[p]
    BY <1>3 DEF Assigning
  <2>2. todo[p] = <<>>
    BY <1>1, <2>1
  <2> QED
    BY <2>1, <2>2
<1>15. \A q \in Procs : /\ Owed(q, "assigned")' = Owed(q, "assigned")
                        /\ q # p => sync'[q] = sync[q] /\ untag'[q] = untag[q]
  <2>1. Owed(p, "assigned")' = Owed(p, "assigned")
    BY <1>9, <1>13
  <2>2. \A q \in Procs : q # p => Owed(q, "assigned")' = Owed(q, "assigned")
    BY <1>13
  <2>3. \A q \in Procs : q # p => sync'[q] = sync[q] /\ untag'[q] = untag[q]
    BY <1>2, <1>3, <1>12 DEF DetailTyped
  <2> QED
    BY <2>1, <2>2, <2>3
<1>16. untag'[p] = as /\ Keys(db)' = Keys(db)
  BY <1>2, <1>3 DEF DetailTyped, Keys
<1>17. DetailTyped'
  <2>1. as \subseteq Nat /\ \A a \in as : a <= ids
    BY <1>5
  <2>2. untag' \in [Procs -> SUBSET Nat]
    BY <1>2, <1>3, <2>1 DEF DetailTyped
  <2>3. \A q \in Procs : \A a \in untag'[q] : a <= ids
    BY <1>3, <1>15, <1>16, <2>1 DEF DetailTyped
  <2> QED
    BY <1>2, <1>3, <1>12, <2>2, <2>3 DEF DetailTyped
<1>18. Assigning'
  <2> SUFFICES ASSUME NEW o \in Procs, NEW r \in Owed(o, "assigned")'
               PROVE  /\ Len(todo'[o]) = 1 /\ sync'[o]
                      /\ <<"assigned", r.id>> \notin Keys(db)'
                      /\ \A q \in Procs : r.id \notin untag'[q]
                      /\ \A q \in Procs : q # o => \A v \in Owed(q, "assigned")' : v.id # r.id
    BY DEF Assigning
  <2>1. o # p /\ r \in Owed(o, "assigned")
    BY <1>14, <1>15
  <2>2. /\ Len(todo[o]) = 1 /\ sync[o]
        /\ <<"assigned", r.id>> \notin Keys(db)
        /\ \A q \in Procs : r.id \notin untag[q]
        /\ \A q \in Procs : q # o => \A v \in Owed(q, "assigned") : v.id # r.id
    BY <1>3, <2>1 DEF Assigning
  <2>3. r.id \notin as
    BY <1>4, <2>2
  <2>4. \A q \in Procs : r.id \notin untag'[q]
    BY <1>15, <1>16, <2>2, <2>3
  <2>5. \A q \in Procs : q # o => \A v \in Owed(q, "assigned")' : v.id # r.id
    BY <1>15, <2>2
  <2> QED
    BY <1>13, <1>15, <1>16, <2>1, <2>2, <2>4, <2>5
<1>19. Untagging'
  <2> SUFFICES ASSUME NEW o \in Procs
               PROVE  /\ untag'[o] # {} => tagging[o] = None
                      /\ \A a \in untag'[o] : <<"assigned", a>> \in Keys(db) => Unassigns(todo'[o], a)
    BY <1>2, <1>16 DEF Untagging
  <2>1. CASE o = p
    <3>1. \A a \in as : Unassigns(t, a)
      BY <1>7 DEF Unassigns
    <3> QED
      BY <1>1, <1>13, <1>16, <2>1, <3>1
  <2>2. CASE o # p
    BY <1>3, <1>13, <1>15, <2>2 DEF Untagging
  <2> QED
    BY <2>1, <2>2
<1> QED
  BY <1>11, <1>17, <1>18, <1>19 DEF Detail

-----------------------------------------------------------------------------
(* A process ends, starts, or runs a step *)

\* Untagged, or nothing at all: an untag call is over.
LEMMA StillDetail ==
  ASSUME Inv, Detail, UNCHANGED <<db, up, env, cache, todo, sync, tagging, minted, ids>>,
         UNCHANGED untag \/ \E p \in Procs : untag' = [untag EXCEPT ![p] = {}]
  PROVE  Detail'
<1>1. \A q \in Procs : untag'[q] \subseteq untag[q]
  BY DEF Detail, DetailTyped
<1>2. untag' \in [Procs -> SUBSET Nat]
  BY DEF Detail, DetailTyped
<1>3. Naming' /\ Stepping' /\ UpQueued'
  <2>1. \A q \in Procs : /\ Owed(q, "operation")' = Owed(q, "operation")
                         /\ Owed(q, "step")' = Owed(q, "step")
    BY DEF Owed
  <2>2. ids \in Nat
    BY DEF Inv, Typed
  <2> QED
    BY <2>1, <2>2, SameRows DEF Detail, UpQueued
<1>4. DetailTyped'
  BY <1>1, <1>2 DEF Detail, DetailTyped
<1>5. Assigning'
  <2>1. Keys(db)' = Keys(db) /\ \A q \in Procs : Owed(q, "assigned")' = Owed(q, "assigned")
    BY DEF Keys, Owed
  <2>2. Assigning /\ UNCHANGED <<todo, sync>>
    BY DEF Detail
  <2> SUFFICES ASSUME NEW o \in Procs, NEW r \in Owed(o, "assigned")'
               PROVE  /\ Len(todo'[o]) = 1 /\ sync'[o]
                      /\ <<"assigned", r.id>> \notin Keys(db)'
                      /\ \A q \in Procs : r.id \notin untag'[q]
                      /\ \A q \in Procs : q # o => \A u \in Owed(q, "assigned")' : u.id # r.id
    BY DEF Assigning
  <2>3. r \in Owed(o, "assigned")
    BY <2>1
  <2> QED
    BY <1>1, <2>1, <2>2, <2>3 DEF Assigning
<1>6. Untagging'
  BY <1>1 DEF Detail, Untagging
<1> QED
  BY <1>3, <1>4, <1>5, <1>6 DEF Detail

\* Exit, Crash: what the process had queued is lost.
LEMMA EndsDetail ==
  ASSUME Inv, Detail, NEW p \in Procs, Ends(p)
  PROVE  Detail'
<1>1. DetailTyped /\ Assigning /\ Untagging /\ UpQueued /\ Naming /\ Stepping /\ Typed
  BY DEF Detail, Inv
<1>2. /\ todo'[p] = <<>> /\ ~up'[p] /\ tagging'[p] = None /\ untag'[p] = {}
      /\ \A q \in Procs : q # p => /\ todo'[q] = todo[q] /\ up'[q] = up[q] /\ sync'[q] = sync[q]
                                   /\ tagging'[q] = tagging[q] /\ untag'[q] = untag[q]
      /\ sync' \in [Procs -> BOOLEAN] /\ untag' \in [Procs -> SUBSET Nat]
      /\ UNCHANGED <<db, hist, env, cache, minted, ids>>
  BY <1>1 DEF Ends, Typed, DetailTyped
<1>3. /\ \A tab : Owed(p, tab)' = {}
      /\ \A q \in Procs : q # p => \A tab : Owed(q, tab)' = Owed(q, tab)
      /\ \A q \in Procs : q # p => \A tab : Known(q, tab)' = Known(q, tab)
  <2>1. \A tab : Owed(p, tab)' = {}
    BY <1>2, NoRows DEF Owed
  <2>2. \A q \in Procs : q # p => \A tab : Owed(q, tab)' = Owed(q, tab)
    BY <1>2 DEF Owed
  <2>3. \A tab : Rows(tab)' = Rows(tab)
    BY <1>2 DEF Rows
  <2> QED
    BY <2>1, <2>2, <2>3 DEF Known
<1>4. DetailTyped'
  <2>1. \A q \in Procs : \A a \in untag'[q] : a <= ids
    BY <1>1, <1>2 DEF DetailTyped
  <2> QED
    BY <1>1, <1>2, <2>1 DEF DetailTyped
<1>5. Assigning'
  <2>1. Keys(db)' = Keys(db)
    BY <1>2 DEF Keys
  <2>2. \A q \in Procs : /\ Owed(q, "assigned")' \subseteq Owed(q, "assigned")
                         /\ untag'[q] \subseteq untag[q]
    BY <1>2, <1>3
  <2> SUFFICES ASSUME NEW o \in Procs, NEW r \in Owed(o, "assigned")'
               PROVE  /\ Len(todo'[o]) = 1 /\ sync'[o]
                      /\ <<"assigned", r.id>> \notin Keys(db)
                      /\ \A q \in Procs : r.id \notin untag'[q]
                      /\ \A q \in Procs : q # o => \A v \in Owed(q, "assigned")' : v.id # r.id
    BY <2>1 DEF Assigning
  <2>3. o # p /\ r \in Owed(o, "assigned")
    BY <1>3, <2>2
  <2>4. /\ Len(todo[o]) = 1 /\ sync[o]
        /\ <<"assigned", r.id>> \notin Keys(db)
        /\ \A q \in Procs : r.id \notin untag[q]
        /\ \A q \in Procs : q # o => \A v \in Owed(q, "assigned") : v.id # r.id
    BY <1>1, <2>3 DEF Assigning
  <2> QED
    BY <1>2, <2>2, <2>3, <2>4
<1>6. Untagging'
  <2>1. Keys(db)' = Keys(db)
    BY <1>2 DEF Keys
  <2> QED
    BY <1>1, <1>2, <2>1 DEF Untagging
<1>7. UpQueued'
  BY <1>1, <1>2 DEF UpQueued
<1>8. Naming'
  <2>1. OpRows' \subseteq OpRows
    <3>1. \A q \in Procs : Owed(q, "operation")' \subseteq Owed(q, "operation")
      BY <1>3
    <3>2. Rows("operation")' = Rows("operation")
      BY <1>2 DEF Rows
    <3> QED
      BY <3>1, <3>2 DEF OpRows
  <2>2. OpNames' /\ MintedFirst'
    BY <1>1, <1>2, <2>1 DEF Naming, OpNames, MintedFirst
  <2>3. CacheKnown'
    BY <1>1, <1>2, <1>3 DEF Naming, CacheKnown
  <2>4. QueuedCached'
    BY <1>1, <1>2, <1>3 DEF Naming, QueuedCached
  <2> QED
    BY <2>2, <2>3, <2>4 DEF Naming
<1>9. Stepping'
  <2>1. EnvOwn'
    BY <1>1, <1>2 DEF Stepping, EnvOwn
  <2>2. StepOwn'
    BY <1>1, <1>2, <1>3 DEF Stepping, StepOwn
  <2> QED
    BY <2>1, <2>2 DEF Stepping
<1> QED
  BY <1>4, <1>5, <1>6, <1>7, <1>8, <1>9 DEF Detail

\* The environment of a stored step is one that was given out.
LEMMA StepWith ==
  ASSUME Inv
  PROVE  \A r \in Rows("step") : r.with \in Nat /\ r.with <= ids
<1> SUFFICES ASSUME NEW r \in Rows("step") PROVE r.with \in Nat /\ r.with <= ids
  OBVIOUS
<1>1. r \in db /\ r.tab = "step"
  BY DEF Rows
<1>2. <<"env", r.with>> \in Keys(db)
  BY <1>1 DEF Inv, Ordered, Stored, Needs
<1>3. PICK e \in db : e.id = r.with
  BY <1>2 DEF Keys, KeyOf
<1> QED
  BY <1>3 DEF Inv, Typed, AllRows

\* Five statements.
LEMMA FiveRows ==
  ASSUME NEW a \in Stmts, NEW b \in Stmts, NEW c \in Stmts, NEW d \in Stmts, NEW e \in Stmts
  PROVE  /\ <<a, b, c, d, e>> \in Seq(Stmts)
         /\ \A tab : PutRows(<<a, b, c, d, e>>, tab) = {s.row : s \in {u \in {a, b, c, d, e} :
                                                       u.op = "put" /\ u.row.tab = tab}}
<1> DEFINE t == <<a, b, c, d, e>>
<1>1. /\ t \in Seq(Stmts) /\ DOMAIN t = {1, 2, 3, 4, 5}
      /\ t[1] = a /\ t[2] = b /\ t[3] = c /\ t[4] = d /\ t[5] = e
  BY ShortSeqs
<1> HIDE DEF t
<1>2. /\ \A i \in DOMAIN t : t[i] \in {a, b, c, d, e}
      /\ \A u \in {a, b, c, d, e} : \E i \in DOMAIN t : t[i] = u
  BY <1>1
<1>3. ASSUME NEW tab
      PROVE  PutRows(t, tab) = {s.row : s \in {u \in {a, b, c, d, e} :
                                               u.op = "put" /\ u.row.tab = tab}}
  BY <1>1, <1>2 DEF PutRows
<1> QED
  BY <1>1, <1>3 DEF t

\* The rows that Open queues are of none of the tables here.
LEMMA OpenRows ==
  ASSUME Inv, NEW p \in Procs, NEW fresh \in BOOLEAN, Open(p, fresh)
  PROVE  \E t \in Seq(Stmts) :
           Queue(p, t, TRUE) /\ \A tab \in {"operation", "step", "assigned"} : PutRows(t, tab) = {}
<1>1. ids \in Nat
  BY BeforeCall
<1>2. CASE Existing(fresh) = None
  <2> DEFINE h == ids + 2
             e == ids + 1
             t == Opening(h, e)
  <2>1. h \in Nat /\ e \in Nat /\ Queue(p, t, TRUE)
    <3>1. Queue(p, t, TRUE)
      BY <1>2 DEF Open
    <3>2. h \in Nat /\ e \in Nat
      BY <1>1
    <3> HIDE DEF t, h, e, Queue
    <3> QED
      BY <3>1, <3>2
  <2> HIDE DEF h, e
  <2>2. /\ Put(Row("history", h, None, None)) \in Stmts /\ Put(Row("branch", h, h, None)) \in Stmts
        /\ Put(Row("state", h, h, None)) \in Stmts /\ Put(Row("agent", 0, h, None)) \in Stmts
        /\ Put(Row("env", e, h, None)) \in Stmts
    BY <2>1, RowTyped DEF Tables, Ids
  <2>3. t = <<Put(Row("history", h, None, None)), Put(Row("branch", h, h, None)),
              Put(Row("state", h, h, None)), Put(Row("agent", 0, h, None)), Put(Row("env", e, h, None))>>
    BY DEF Opening
  <2> HIDE DEF t
  <2>4. t \in Seq(Stmts)
    BY <2>2, <2>3
  <2>5. ASSUME NEW tab \in {"operation", "step", "assigned"} PROVE PutRows(t, tab) = {}
    <3>1. \A i \in DOMAIN t : t[i].row.tab \in {"history", "branch", "state", "agent", "env"}
      BY <2>3 DEF Put, Row
    <3> QED
      BY <3>1 DEF PutRows
  <2> QED
    BY <2>1, <2>4, <2>5
<1>3. CASE Existing(fresh) # None
  <2> DEFINE h == newest
             e == ids + 1
             a == Put(Row("agent", 0, h, None))
             b == Put(Row("env", e, h, None))
  <2>1. Existing(fresh) = h
    BY <1>3 DEF Existing
  <2>2. h \in Ids /\ e \in Nat /\ Queue(p, <<a, b>>, TRUE)
    <3>1. Queue(p, <<a, b>>, TRUE)
      BY <1>3, <2>1 DEF Open
    <3>2. h \in Ids
      BY DEF Inv, Typed
    <3>3. e \in Nat
      BY <1>1
    <3> HIDE DEF a, b
    <3> QED
      BY <3>1, <3>2, <3>3
  <2> HIDE DEF h, e
  <2>3. a \in Stmts /\ b \in Stmts
    BY <2>2, RowTyped DEF Tables, Ids
  <2>4. a.row.tab = "agent" /\ b.row.tab = "env"
    BY RowFacts
  <2> HIDE DEF a, b
  <2>5. \A tab \in {"operation", "step", "assigned"} : PutRows(<<a, b>>, tab) = {}
    BY <2>3, <2>4, ShortRows
  <2>6. <<a, b>> \in Seq(Stmts)
    BY <2>3
  <2> QED
    BY <2>2, <2>5, <2>6
<1> QED
  BY <1>2, <1>3

\* Open: a new environment, and an empty cache.
LEMMA OpenDetail ==
  ASSUME Inv, Detail, NEW p \in Procs, NEW fresh \in BOOLEAN, Open(p, fresh)
  PROVE  Detail'
<1>1. PICK t \in Seq(Stmts) :
        Queue(p, t, TRUE) /\ \A tab \in {"operation", "step", "assigned"} : PutRows(t, tab) = {}
  BY OpenRows
<1>2. /\ sync[p] => todo[p] = <<>>
      /\ tagging[p] = None /\ untag[p] = {}
      /\ ids \in Nat /\ ids' = ids + 2 /\ ids' \in Nat /\ ids <= ids'
  BY MayFacts DEF Open
<1>3. /\ DetailTyped /\ Assigning /\ Untagging /\ UpQueued /\ Naming /\ Stepping /\ Typed
      /\ ~up[p] /\ up' = [up EXCEPT ![p] = TRUE] /\ env' = [env EXCEPT ![p] = ids + 1]
      /\ cache' = [cache EXCEPT ![p] = [f \in Functions |-> None]]
      /\ UNCHANGED <<db, tagging, untag, minted>>
  BY DEF Open, Detail, Inv
<1>4. /\ up'[p] /\ env'[p] = ids + 1 /\ \A f \in Functions : cache'[p][f] = None
      /\ \A q \in Procs : q # p => up'[q] = up[q] /\ env'[q] = env[q] /\ cache'[q] = cache[q]
  BY <1>3 DEF Typed
<1>5. todo' = [todo EXCEPT ![p] = @ \o t]
  BY <1>1 DEF Queue
<1>6. /\ \A q \in Procs : q # p => todo'[q] = todo[q]
      /\ \A tab : Owed(p, tab)' = Owed(p, tab) \cup PutRows(t, tab)
      /\ \A q \in Procs : q # p => \A tab : Owed(q, tab)' = Owed(q, tab)
  BY <1>3, <1>5, CallRows
<1>7. \A tab : Owed(p, tab) = {}
  <2>1. todo[p] = <<>>
    BY <1>3 DEF UpQueued
  <2> QED
    BY <2>1, NoRows DEF Owed
<1>8. /\ Owed(p, "operation")' = {} /\ Owed(p, "step")' = {}
      /\ \A q \in Procs : Owed(q, "operation")' = Owed(q, "operation")
                          /\ Owed(q, "step")' = Owed(q, "step")
      /\ \A tab : Rows(tab)' = Rows(tab)
  <2>1. PutRows(t, "operation") = {} /\ PutRows(t, "step") = {}
    BY <1>1
  <2>2. \A tab : Rows(tab)' = Rows(tab)
    BY <1>3 DEF Rows
  <2> QED
    BY <1>6, <1>7, <2>1, <2>2
<1>9. /\ \A q \in Procs : Known(q, "operation")' = Known(q, "operation")
      /\ \A q \in Procs : Known(q, "step")' = Known(q, "step")
      /\ OpRows' = OpRows
  BY <1>8 DEF Known, OpRows
<1>10. DetailTyped' /\ Assigning' /\ Untagging'
  <2>1. \A q \in Procs : q # p => tagging'[q] = tagging[q]
    BY <1>3
  <2>2. /\ minted' \in Seq([op : Nat, beside : SUBSET Nat])
        /\ \A i \in DOMAIN minted' : minted'[i].op <= ids'
    <3>1. \A i \in DOMAIN minted : minted[i].op \in Nat /\ minted[i].op <= ids
      BY <1>3, MintedTyped
    <3>2. \A n \in Nat : n <= ids => n <= ids'
      BY <1>2
    <3> QED
      BY <1>3, <3>1, <3>2 DEF DetailTyped
  <2>3. PutRows(t, "assigned") = {}
    BY <1>1
  <2> QED
    BY <1>1, <1>2, <1>3, <2>1, <2>2, <2>3, NoAssignment
<1>11. UpQueued'
  BY <1>3, <1>4, <1>6 DEF UpQueued
<1>12. Naming'
  <2>1. OpNames' /\ MintedFirst'
    BY <1>3, <1>9 DEF Naming, OpNames, MintedFirst
  <2>2. CacheKnown'
    BY <1>3, <1>4, <1>9 DEF Naming, CacheKnown
  <2>3. QueuedCached'
    BY <1>3, <1>4, <1>8 DEF Naming, QueuedCached
  <2> QED
    BY <2>1, <2>2, <2>3 DEF Naming
<1>13. \A q \in Procs : up[q] => env[q] \in Nat /\ env[q] <= ids /\ env[q] <= ids' /\ env[q] # ids + 1
  <2>1. \A q \in Procs : up[q] => env[q] \in Nat /\ env[q] <= ids
    BY <1>3 DEF Typed, Stepping, EnvOwn
  <2>2. \A n \in Nat : n <= ids => n <= ids' /\ n # ids + 1
    BY <1>2
  <2> QED
    BY <2>1, <2>2
<1>14. EnvOwn'
  <2>1. ids + 1 <= ids'
    BY <1>2
  <2> SUFFICES ASSUME NEW o \in Procs, up'[o]
               PROVE  env'[o] <= ids' /\ \A q \in Procs : up'[q] /\ env'[q] = env'[o] => q = o
    BY DEF EnvOwn
  <2>2. CASE o = p
    BY <1>4, <1>13, <2>1, <2>2
  <2>3. CASE o # p
    BY <1>3, <1>4, <1>13, <2>3 DEF Stepping, EnvOwn
  <2> QED
    BY <2>2, <2>3
<1>15. StepOwn'
  <2> SUFFICES ASSUME NEW o \in Procs, up'[o]
               PROVE  /\ \A r \in Owed(o, "step")' : r.with = env'[o]
                      /\ \A r \in Known(o, "step")' :
                           r.with = env'[o] => \E u \in Known(o, "operation")' : u.id = r.ref
    BY DEF StepOwn
  <2>1. CASE o = p
    <3>1. \A r \in Known(o, "step")' : r \in Rows("step")
      BY <1>8, <1>9, <2>1 DEF Known
    <3>2. \A n \in Nat : n <= ids => n # ids + 1
      BY <1>2
    <3>3. \A r \in Known(o, "step")' : r.with # env'[o]
      BY <1>4, <2>1, <3>1, <3>2, StepWith
    <3> QED
      BY <1>8, <2>1, <3>3
  <2>2. CASE o # p
    BY <1>3, <1>4, <1>8, <1>9, <2>2 DEF Stepping, StepOwn
  <2> QED
    BY <2>1, <2>2
<1> QED
  BY <1>10, <1>11, <1>12, <1>14, <1>15 DEF Detail, Stepping

\* Trace: the rows of a step.
RowsOfStep(h, e, s, o, f) ==
  <<Put(Row("state", s, h, None)), Put(Row("step", s, o, e)), Put(Row("type", o, None, None)),
    Put(Cached(o, f)), Put(Row("active", h, s, None))>>

\* What they are, table by table.
LEMMA TraceRows ==
  ASSUME NEW h \in Nat, NEW e \in Nat, NEW s \in Nat, NEW o \in Nat, NEW f \in Functions
  PROVE  /\ RowsOfStep(h, e, s, o, f) \in Seq(Stmts)
         /\ PutRows(RowsOfStep(h, e, s, o, f), "operation") = {Cached(o, f)}
         /\ PutRows(RowsOfStep(h, e, s, o, f), "step") = {Row("step", s, o, e)}
         /\ PutRows(RowsOfStep(h, e, s, o, f), "assigned") = {}
<1> DEFINE a == Put(Row("state", s, h, None))
           b == Put(Row("step", s, o, e))
           c == Put(Row("type", o, None, None))
           d == Put(Cached(o, f))
           g == Put(Row("active", h, s, None))
           t == RowsOfStep(h, e, s, o, f)
<1>1. a \in Stmts /\ b \in Stmts /\ c \in Stmts /\ d \in Stmts /\ g \in Stmts
  BY RowTyped DEF Tables, Ids, Cached
<1>2. /\ a.op = "put" /\ b.op = "put" /\ c.op = "put" /\ d.op = "put" /\ g.op = "put"
      /\ a.row.tab = "state" /\ b.row.tab = "step" /\ c.row.tab = "type" /\ d.row.tab = "operation"
      /\ g.row.tab = "active"
      /\ b.row = Row("step", s, o, e) /\ d.row = Cached(o, f)
  BY RowFacts DEF Cached
<1>3. t = <<a, b, c, d, g>>
  BY DEF RowsOfStep
<1> HIDE DEF a, b, c, d, g, t
<1>4. /\ t \in Seq(Stmts)
      /\ \A tab : PutRows(t, tab) = {x.row : x \in {u \in {a, b, c, d, g} :
                                                    u.op = "put" /\ u.row.tab = tab}}
  <2>1. /\ <<a, b, c, d, g>> \in Seq(Stmts)
        /\ \A tab : PutRows(<<a, b, c, d, g>>, tab) = {x.row : x \in {u \in {a, b, c, d, g} :
                                                                     u.op = "put" /\ u.row.tab = tab}}
    BY <1>1, FiveRows
  <2> QED
    BY <1>3, <2>1
<1>5. PutRows(t, "operation") = {d.row}
  BY <1>2, <1>4
<1>6. PutRows(t, "step") = {b.row}
  BY <1>2, <1>4
<1>7. PutRows(t, "assigned") = {}
  BY <1>2, <1>4
<1> QED
  BY <1>2, <1>4, <1>5, <1>6, <1>7 DEF t

\* An operation that a step takes from the cache or the database is there already.
LEMMA OperationKnown ==
  ASSUME Inv, Naming, NEW p \in Procs, up[p], NEW f \in Functions, NEW o \in Operations(p, f)
  PROVE  \/ o <= ids /\ Cached(o, f) \in Known(p, "operation")
         \/ o = ids + 2 /\ cache[p][f] = None /\ OperationsOf(f) = {}
<1>1. CASE cache[p][f] # None
  <2>1. o = cache[p][f]
    BY <1>1 DEF Operations
  <2>2. Cached(o, f) \in Known(p, "operation")
    BY <1>1, <2>1 DEF Naming, CacheKnown
  <2> QED
    BY <1>1, <2>1, <2>2 DEF Inv, Typed
<1>2. CASE cache[p][f] = None /\ OperationsOf(f) # {}
  <2>1. o \in OperationsOf(f)
    BY <1>2 DEF Operations
  <2>2. PICK r \in Rows("operation") : r.id = o /\ r.with = f
    BY <2>1 DEF OperationsOf
  <2>3. r.ref = r.id /\ r.tab = "operation" /\ r \in AllRows /\ r.id <= ids
    BY DEF Naming, OpNames, OpRows, Rows, Inv, Typed
  <2>4. r = Cached(o, f)
    BY <2>2, <2>3 DEF Cached, Row, AllRows
  <2> QED
    BY <2>2, <2>3, <2>4 DEF Known
<1>3. CASE cache[p][f] = None /\ OperationsOf(f) = {}
  BY <1>3 DEF Operations
<1> QED
  BY <1>1, <1>2, <1>3
\* The identifiers of the operations of a name that a process has queued.
LEMMA QueuedRows ==
  ASSUME Inv, NEW q \in Procs, NEW f
  PROVE  Queued(f, q) = {r.id : r \in {u \in Owed(q, "operation") : u.with = f}}
<1>1. todo[q] \in Seq(Stmts) /\ Waits(Keys(db), todo[q])
  BY DEF Inv, Typed, Ordered, InOrder
<1>2. ASSUME NEW i \in DOMAIN todo[q], todo[q][i].row.tab = "operation" PROVE todo[q][i].op = "put"
  <2>1. todo[q][i] \in Stmts /\ Shaped(todo[q][i])
    BY <1>1 DEF Waits
  <2> QED
    BY <1>2, <2>1 DEF Shaped, Stmts
<1>3. ASSUME NEW x \in Queued(f, q)
      PROVE  x \in {r.id : r \in {u \in Owed(q, "operation") : u.with = f}}
  <2>1. PICK i \in DOMAIN todo[q] : /\ todo[q][i].row.tab = "operation" /\ todo[q][i].row.with = f
                                    /\ x = todo[q][i].row.id
    BY DEF Queued
  <2>2. todo[q][i].row \in Owed(q, "operation")
    BY <1>2, <2>1 DEF Owed, PutRows
  <2> QED
    BY <2>1, <2>2
<1>4. ASSUME NEW r \in Owed(q, "operation"), r.with = f PROVE r.id \in Queued(f, q)
  <2>1. PICK i \in DOMAIN todo[q] : todo[q][i].row.tab = "operation" /\ r = todo[q][i].row
    BY DEF Owed, PutRows
  <2> QED
    BY <1>4, <2>1 DEF Queued
<1> QED
  BY <1>3, <1>4

\* A stored operation whose type is there is found by its name.
LEMMA OperationFound ==
  ASSUME Inv, NEW r \in Rows("operation")
  PROVE  Key("type", r.ref) /\ r.id \in OperationsOf(r.with)
<1>1. r \in db /\ r.tab = "operation"
  BY DEF Rows
<1>2. <<"type", r.ref>> \in Keys(db)
  BY <1>1 DEF Inv, Ordered, Stored, Needs
<1>3. Key("type", r.ref)
  BY <1>2 DEF Keys, KeyOf, Key
<1> QED
  BY <1>3 DEF OperationsOf

\* Trace: an operation of the name is taken, or one with a new number.
LEMMA TraceNaming ==
  ASSUME Inv, DetailTyped, Naming, NEW p \in Procs, up[p], NEW f \in Functions, NEW o \in Operations(p, f),
         UNCHANGED <<db, up>>, cache' = [cache EXCEPT ![p][f] = o],
         Owed(p, "operation")' = Owed(p, "operation") \cup {Cached(o, f)},
         \A q \in Procs : q # p => Owed(q, "operation")' = Owed(q, "operation"),
         minted' = IF o = ids + 2
                   THEN Append(minted, [op |-> o, beside |-> UNION {Queued(f, q) : q \in Procs \ {p}}])
                   ELSE minted
  PROVE  Naming'
<1> DEFINE c == Cached(o, f)
           beside == UNION {Queued(f, q) : q \in Procs \ {p}}
<1>1. /\ Typed /\ ids \in Nat
      /\ OpNames /\ CacheKnown /\ QueuedCached /\ MintedFirst
  BY DEF Inv, Typed, Naming
<1>2. \/ o \in Nat /\ o <= ids /\ c \in Known(p, "operation")
      \/ o = ids + 2 /\ o \in Nat /\ cache[p][f] = None /\ OperationsOf(f) = {}
  <2>1. c \in Known(p, "operation") => o \in Nat
    <3>1. c \in Rows("operation") => c \in AllRows
      BY <1>1 DEF Typed, Rows
    <3>2. c \in Owed(p, "operation") => c \in AllRows
      BY <1>1, OwedTyped
    <3>3. c.id = o
      BY DEF Cached, Row
    <3> QED
      BY <3>1, <3>2, <3>3 DEF Known, AllRows
  <2> HIDE DEF c
  <2>2. \/ o <= ids /\ c \in Known(p, "operation")
        \/ o = ids + 2 /\ cache[p][f] = None /\ OperationsOf(f) = {}
    BY OperationKnown DEF c
  <2> QED
    BY <1>1, <2>1, <2>2
<1>3. c.id = o /\ c.ref = o /\ c.with = f
  BY DEF Cached, Row
<1> HIDE DEF c, beside
<1>4. /\ Known(p, "operation")' = Known(p, "operation") \cup {c}
      /\ \A q \in Procs : q # p => Known(q, "operation")' = Known(q, "operation")
      /\ OpRows' = OpRows \cup {c}
  <2>1. Rows("operation")' = Rows("operation")
    BY DEF Rows
  <2>2. /\ Owed(p, "operation")' = Owed(p, "operation") \cup {c}
        /\ \A q \in Procs : q # p => Owed(q, "operation")' = Owed(q, "operation")
    BY DEF c
  <2> QED
    BY <2>1, <2>2 DEF Known, OpRows
<1>5. \A r \in OpRows : r \in AllRows /\ r.id \in Nat /\ r.id <= ids
  <2>1. \A r \in Rows("operation") : r \in AllRows /\ r.id \in Nat /\ r.id <= ids
    BY <1>1 DEF Typed, Rows, AllRows
  <2>2. \A q \in Procs : \A r \in Owed(q, "operation") : r \in AllRows /\ r.id \in Nat /\ r.id <= ids
    BY <1>1, OwedTyped
  <2> QED
    BY <2>1, <2>2 DEF OpRows
<1>6. Known(p, "operation") \subseteq OpRows
  BY DEF Known, OpRows
<1>7. c \in OpRows \/ \A r \in OpRows : r.id # o
  <2>1. CASE c \in Known(p, "operation")
    BY <1>6, <2>1
  <2>2. CASE o = ids + 2
    BY <1>1, <1>5, <2>2
  <2> QED
    BY <1>2, <2>1, <2>2
<1>8. OpNames'
  <2> SUFFICES ASSUME NEW r \in OpRows \cup {c}
               PROVE  /\ r.ref = r.id /\ r.with \in Functions
                      /\ \A q \in OpRows \cup {c} : q.id = r.id => q = r
    BY <1>4 DEF OpNames
  <2>1. CASE c \in OpRows
    BY <1>1, <2>1 DEF OpNames
  <2>2. CASE \A u \in OpRows : u.id # o
    BY <1>1, <1>3, <2>2 DEF OpNames
  <2> QED
    BY <1>7, <2>1, <2>2
<1>9. /\ cache'[p][f] = o
      /\ \A g \in Functions : g # f => cache'[p][g] = cache[p][g]
      /\ \A q \in Procs : q # p => cache'[q] = cache[q]
  BY <1>1 DEF Typed
<1>10. CacheKnown'
  <2> SUFFICES ASSUME NEW q \in Procs, NEW g \in Functions, up[q], cache'[q][g] # None
               PROVE  Cached(cache'[q][g], g) \in Known(q, "operation")'
    BY DEF CacheKnown
  <2>1. CASE q = p /\ g = f
    BY <1>4, <1>9, <2>1 DEF c
  <2>2. CASE ~(q = p /\ g = f)
    <3>1. cache'[q][g] = cache[q][g]
      BY <1>9, <2>2
    <3>2. Cached(cache[q][g], g) \in Known(q, "operation")
      BY <1>1, <3>1 DEF CacheKnown
    <3> QED
      BY <1>4, <3>1, <3>2
  <2> QED
    BY <2>1, <2>2
<1>11. QueuedCached'
  <2>1. o # None
    BY <1>2, SessionsAssumption
  <2> SUFFICES ASSUME NEW q \in Procs, NEW r \in Owed(q, "operation")' PROVE cache'[q][r.with] # None
    BY DEF QueuedCached
  <2>2. CASE r \in Owed(q, "operation")
    <3>1. cache[q][r.with] # None /\ r \in OpRows
      BY <1>1, <2>2 DEF QueuedCached, OpRows
    <3>2. r.with \in Functions
      BY <1>1, <3>1 DEF OpNames
    <3>3. CASE q = p /\ r.with = f
      BY <1>9, <2>1, <3>3
    <3>4. CASE ~(q = p /\ r.with = f)
      BY <1>9, <3>1, <3>2, <3>4
    <3> QED
      BY <3>3, <3>4
  <2>3. CASE q = p /\ r = c
    BY <1>3, <1>9, <2>1, <2>3
  <2> QED
    BY <2>2, <2>3 DEF c
<1>12. MintedFirst'
  <2>1. CASE o <= ids /\ o \in Nat /\ c \in Known(p, "operation")
    <3>1. OpRows' = OpRows
      BY <1>4, <1>6, <2>1
    <3>2. minted' = minted
      BY <1>1, <2>1
    <3> QED
      BY <1>1, <3>1, <3>2 DEF MintedFirst
  <2>2. CASE o = ids + 2 /\ o \in Nat /\ cache[p][f] = None /\ OperationsOf(f) = {}
    <3> DEFINE R == [op : Nat, beside : SUBSET Nat]
               m == [op |-> o, beside |-> beside]
    <3>1. minted \in Seq(R) /\ minted' = Append(minted, m)
      BY <2>2 DEF DetailTyped, beside
    <3>2. m.op = o /\ m.beside = beside
      OBVIOUS
    <3>3. \A i \in DOMAIN minted : minted[i].op \in Nat /\ minted[i].op <= ids
      BY MintedTyped
    <3> HIDE DEF R, m
    <3>4. \A i \in DOMAIN minted' : (i \in DOMAIN minted /\ minted'[i] = minted[i]) \/ minted'[i] = m
      BY <3>1
    <3>5. ASSUME NEW i \in DOMAIN minted', NEW r \in OpRows', NEW q \in OpRows',
                 r.with = q.with, r.id < q.id, q.id = minted'[i].op
          PROVE  r.id \in minted'[i].beside
      <4>1. \A u \in OpRows' : (u \in OpRows /\ u.id \in Nat /\ u.id <= ids) \/ (u = c /\ u.id = o)
        BY <1>3, <1>4, <1>5
      <4>2. CASE i \in DOMAIN minted /\ minted'[i] = minted[i]
        <5>1. minted[i].op \in Nat /\ minted[i].op <= ids
          BY <3>3, <4>2
        <5>2. q \in OpRows
          BY <1>1, <2>2, <3>5, <4>1, <4>2, <5>1
        <5>3. r \in OpRows
          BY <1>1, <1>5, <2>2, <3>5, <4>1, <5>2
        <5> QED
          BY <1>1, <3>5, <4>2, <5>2, <5>3 DEF MintedFirst
      <4>3. CASE minted'[i] = m
        <5>1. q.id = o
          BY <3>2, <3>5, <4>3
        <5>2. q = c /\ r \in OpRows
          BY <1>1, <2>2, <3>5, <4>1, <5>1
        <5>3. r.with = f
          BY <1>3, <3>5, <5>2
        <5>4. r \notin Rows("operation")
          BY <2>2, <5>3, OperationFound
        <5>5. PICK x \in Procs : r \in Owed(x, "operation")
          BY <5>2, <5>4 DEF OpRows
        <5>6. x # p
          BY <1>1, <2>2, <5>3, <5>5 DEF QueuedCached
        <5>7. r.id \in Queued(f, x)
          BY <5>3, <5>5, QueuedRows
        <5>8. r.id \in beside
          BY <5>6, <5>7 DEF beside
        <5> QED
          BY <3>2, <4>3, <5>8
      <4> QED
        BY <3>4, <4>2, <4>3
    <3> QED
      BY <3>5 DEF MintedFirst
  <2> QED
    BY <1>2, <2>1, <2>2
<1> QED
  BY <1>8, <1>10, <1>11, <1>12 DEF Naming
\* Trace: the step is one of this process, which queues its operation with it.
LEMMA TraceDetail ==
  ASSUME Inv, Detail, NEW p \in Procs, NEW f \in Functions, Trace(p, f)
  PROVE  Detail'
<1>1. /\ sync[p] => todo[p] = <<>>
      /\ tagging[p] = None /\ untag[p] = {}
      /\ ids \in Nat /\ ids' = ids + 2 /\ ids' \in Nat /\ ids <= ids'
  BY MayFacts DEF Trace
<1>2. DetailTyped /\ Assigning /\ Untagging /\ UpQueued /\ Naming /\ Stepping /\ Typed
  BY DEF Detail, Inv
<1>3. up[p] /\ UNCHANGED <<db, up, env, tagging, untag>>
  BY DEF Trace
<1> DEFINE h == hist[p]
           e == env[p]
           s == ids + 1
           beside == UNION {Queued(f, q) : q \in Procs \ {p}}
<1>4. h \in Nat /\ e \in Nat /\ s \in Nat
  <2>1. hist[p] \in 0..ids /\ env[p] \in Nat
    BY <1>3, BeforeCall
  <2> QED
    BY <1>1, <2>1
<1>5. PICK o \in Operations(p, f) :
        /\ cache' = [cache EXCEPT ![p][f] = o]
        /\ Queue(p, StepRows(p, s, o, f), FALSE)
        /\ minted' = IF o = ids + 2 THEN Append(minted, [op |-> o, beside |-> beside]) ELSE minted
  BY DEF Trace
<1>6. o \in Nat
  BY <1>3, OperationsFacts
<1> DEFINE t == StepRows(p, s, o, f)
           c == Cached(o, f)
           r0 == Row("step", s, o, e)
<1>7. t = RowsOfStep(h, e, s, o, f)
  BY DEF StepRows, RowsOfStep, Cached
<1>8. Queue(p, t, FALSE)
  BY <1>5
<1> HIDE DEF t, h, s, Queue
<1>9. /\ t \in Seq(Stmts)
      /\ PutRows(t, "operation") = {c}
      /\ PutRows(t, "step") = {r0}
      /\ PutRows(t, "assigned") = {}
  <2> HIDE DEF e
  <2>1. t = RowsOfStep(h, e, s, o, f)
    BY <1>7 DEF e
  <2>2. h \in Nat /\ e \in Nat /\ s \in Nat /\ o \in Nat
    BY <1>4, <1>6 DEF e
  <2>3. /\ RowsOfStep(h, e, s, o, f) \in Seq(Stmts)
        /\ PutRows(RowsOfStep(h, e, s, o, f), "operation") = {Cached(o, f)}
        /\ PutRows(RowsOfStep(h, e, s, o, f), "step") = {Row("step", s, o, e)}
        /\ PutRows(RowsOfStep(h, e, s, o, f), "assigned") = {}
    BY <2>2, TraceRows
  <2> QED
    BY <2>1, <2>3
<1>10. r0.with = e /\ r0.ref = o /\ c.id = o
  BY DEF Cached, Row
<1> HIDE DEF c, r0, e, beside
<1>11. todo' = [todo EXCEPT ![p] = @ \o t]
  BY <1>8 DEF Queue
<1>12. /\ \A q \in Procs : q # p => todo'[q] = todo[q]
       /\ \A tab : Owed(p, tab)' = Owed(p, tab) \cup PutRows(t, tab)
       /\ \A q \in Procs : q # p => \A tab : Owed(q, tab)' = Owed(q, tab)
  BY <1>2, <1>9, <1>11, CallRows
<1>13. /\ Owed(p, "operation")' = Owed(p, "operation") \cup {c}
       /\ Owed(p, "step")' = Owed(p, "step") \cup {r0}
       /\ \A q \in Procs : q # p => Owed(q, "operation")' = Owed(q, "operation")
       /\ \A q \in Procs : q # p => Owed(q, "step")' = Owed(q, "step")
  BY <1>9, <1>12
<1>14. DetailTyped' /\ Assigning' /\ Untagging'
  <2> DEFINE R == [op : Nat, beside : SUBSET Nat]
             m == [op |-> o, beside |-> beside]
  <2>1. beside \subseteq Nat
    <3>1. \A q \in Procs : Queued(f, q) \subseteq Nat
      <4> SUFFICES ASSUME NEW q \in Procs, NEW x \in Queued(f, q) PROVE x \in Nat
        OBVIOUS
      <4>1. PICK r \in Owed(q, "operation") : x = r.id
        BY QueuedRows
      <4> QED
        BY <1>2, <4>1, OwedTyped
    <3> QED
      BY <3>1 DEF beside
  <2>2. m \in R /\ m.op = o
    BY <1>6, <2>1
  <2>3. minted \in Seq(R) /\ \A i \in DOMAIN minted : minted[i].op <= ids'
    <3>1. minted \in Seq(R)
      BY <1>2 DEF DetailTyped
    <3>2. \A i \in DOMAIN minted : minted[i].op \in Nat /\ minted[i].op <= ids
      BY <1>2, MintedTyped
    <3>3. \A n \in Nat : n <= ids => n <= ids'
      BY <1>1
    <3> QED
      BY <3>1, <3>2, <3>3
  <2>4. minted' = IF o = ids + 2 THEN Append(minted, m) ELSE minted
    BY <1>5
  <2> HIDE DEF R, m
  <2>5. CASE o = ids + 2
    <3>1. minted' = Append(minted, m) /\ minted' \in Seq(R)
      BY <2>2, <2>3, <2>4, <2>5
    <3>2. \A i \in DOMAIN minted' : minted'[i] = m \/ (i \in DOMAIN minted /\ minted'[i] = minted[i])
      BY <2>2, <2>3, <3>1
    <3>3. m.op <= ids'
      BY <1>1, <2>2, <2>5
    <3>4. \A i \in DOMAIN minted' : minted'[i].op <= ids'
      BY <2>3, <3>2, <3>3
    <3> QED
      BY <1>1, <1>3, <1>8, <1>9, <3>1, <3>4, NoAssignment DEF R
  <2>6. CASE o # ids + 2
    <3>1. minted' = minted
      BY <2>4, <2>6
    <3>2. minted' \in Seq(R) /\ \A i \in DOMAIN minted' : minted'[i].op <= ids'
      BY <2>3, <3>1
    <3> QED
      BY <1>1, <1>3, <1>8, <1>9, <3>2, NoAssignment DEF R
  <2> QED
    BY <2>5, <2>6
<1>15. UpQueued'
  BY <1>2, <1>3, <1>12 DEF UpQueued
<1>16. Naming'
  <2>1. Owed(p, "operation")' = Owed(p, "operation") \cup {Cached(o, f)}
    BY <1>13 DEF c
  <2>2. minted' = IF o = ids + 2
                  THEN Append(minted, [op |-> o, beside |-> UNION {Queued(f, q) : q \in Procs \ {p}}])
                  ELSE minted
    BY <1>5 DEF beside
  <2>3. UNCHANGED <<db, up>> /\ cache' = [cache EXCEPT ![p][f] = o]
    BY <1>3, <1>5
  <2> QED
    BY <1>2, <1>3, <1>13, <2>1, <2>2, <2>3, TraceNaming
<1>17. EnvOwn'
  <2>1. \A q \in Procs : up[q] => env[q] \in Nat /\ env[q] <= ids
    BY <1>2 DEF Stepping, EnvOwn, Typed
  <2>2. \A n \in Nat : n <= ids => n <= ids'
    BY <1>1
  <2> QED
    BY <1>2, <1>3, <2>1, <2>2 DEF Stepping, EnvOwn
<1>18. StepOwn'
  <2>1. \A tab : Rows(tab)' = Rows(tab)
    BY <1>3 DEF Rows
  <2>2. /\ Known(p, "step")' = Known(p, "step") \cup {r0}
        /\ Known(p, "operation")' = Known(p, "operation") \cup {c}
        /\ \A q \in Procs : q # p => /\ Known(q, "step")' = Known(q, "step")
                                     /\ Known(q, "operation")' = Known(q, "operation")
    BY <1>13, <2>1 DEF Known
  <2> SUFFICES ASSUME NEW q \in Procs, up[q]
               PROVE  /\ \A r \in Owed(q, "step")' : r.with = env[q]
                      /\ \A r \in Known(q, "step")' :
                           r.with = env[q] => \E u \in Known(q, "operation")' : u.id = r.ref
    BY <1>3 DEF StepOwn
  <2>3. /\ \A r \in Owed(q, "step") : r.with = env[q]
        /\ \A r \in Known(q, "step") :
             r.with = env[q] => \E u \in Known(q, "operation") : u.id = r.ref
    BY <1>2 DEF Stepping, StepOwn
  <2>4. CASE q = p
    <3>1. \A r \in Owed(p, "step")' : r.with = env[p]
      BY <1>10, <1>13, <2>3, <2>4 DEF e
    <3>2. ASSUME NEW r \in Known(p, "step")', r.with = env[p]
          PROVE  \E u \in Known(p, "operation")' : u.id = r.ref
      <4>1. CASE r = r0
        BY <1>10, <2>2, <4>1
      <4>2. CASE r \in Known(p, "step")
        BY <2>2, <2>3, <2>4, <3>2, <4>2
      <4> QED
        BY <2>2, <4>1, <4>2
    <3> QED
      BY <2>4, <3>1, <3>2
  <2>5. CASE q # p
    BY <1>13, <2>2, <2>3, <2>5
  <2> QED
    BY <2>4, <2>5
<1> QED
  BY <1>14, <1>15, <1>16, <1>17, <1>18 DEF Detail, Stepping

-----------------------------------------------------------------------------
(* The invariant *)

\* At first nothing is stored or queued.
LEMMA InitDetail == Init => Detail
<1> SUFFICES ASSUME Init PROVE Detail
  OBVIOUS
<1>1. /\ \A p \in Procs : todo[p] = <<>> /\ ~up[p] /\ tagging[p] = None /\ untag[p] = {}
      /\ db = {} /\ minted = <<>>
  BY DEF Init
<1>2. (\A p \in Procs : \A tab : Owed(p, tab) = {}) /\ \A tab : Rows(tab) = {}
  BY <1>1, NoRows DEF Owed, Rows
<1>3. DetailTyped
  <2>1. minted \in Seq([op : Nat, beside : SUBSET Nat]) /\ DOMAIN minted = {}
    BY <1>1
  <2>2. sync \in [Procs -> BOOLEAN] /\ untag \in [Procs -> SUBSET Nat]
    BY DEF Init
  <2> QED
    BY <1>1, <2>1, <2>2 DEF DetailTyped
<1>4. Assigning
  BY <1>2 DEF Assigning
<1>5. Untagging
  BY <1>1 DEF Untagging
<1>6. UpQueued
  BY <1>1 DEF UpQueued
<1>7. OpRows = {}
  BY <1>2 DEF OpRows
<1>8. Naming
  BY <1>1, <1>2, <1>7 DEF Naming, OpNames, CacheKnown, QueuedCached, MintedFirst
<1>9. Stepping
  BY <1>1, <1>2 DEF Stepping, EnvOwn, StepOwn
<1> QED
  BY <1>3, <1>4, <1>5, <1>6, <1>8, <1>9 DEF Detail

\* Each action keeps the invariant.
LEMMA NextDetail ==
  ASSUME Inv, Detail, [Next]_vars
  PROVE  Detail'
<1>1. CASE UNCHANGED vars
  BY <1>1, StillDetail DEF vars
<1>2. CASE Next
  <2>1. PICK p \in Procs :
          \/ Write(p) \/ Assign(p) \/ Untagged(p) \/ Exit(p) \/ Crash(p)
          \/ \E fresh \in BOOLEAN : Open(p, fresh)
          \/ \E f \in Functions : Trace(p, f)
          \/ Annotate(p) \/ Pipeline(p) \/ Tag(p) \/ Untag(p)
          \/ \E n \in Notes : UpdateNote(p, n) \/ RemoveNote(p, n)
    BY <1>2 DEF Next
  <2>2. CASE Write(p)
    <3>1. Naming' /\ Stepping' /\ UpQueued'
      BY <2>2, WriteNaming, WriteStepping DEF Detail, Naming
    <3>2. DetailTyped' /\ Assigning' /\ Untagging'
      BY <2>2, WriteAssigning DEF Detail
    <3> QED
      BY <3>1, <3>2 DEF Detail
  <2>3. CASE Assign(p)
    BY <2>3, AssignDetail
  <2>4. CASE Untagged(p)
    <3>1. /\ UNCHANGED <<db, up, env, cache, todo, sync, tagging, minted, ids>>
          /\ untag' = [untag EXCEPT ![p] = {}]
      BY <2>4 DEF Untagged
    <3> QED
      BY <3>1, StillDetail
  <2>5. CASE Exit(p) \/ Crash(p)
    <3>1. Ends(p)
      BY <2>5 DEF Exit, Crash
    <3> QED
      BY <3>1, EndsDetail
  <2>6. ASSUME NEW fresh \in BOOLEAN, Open(p, fresh) PROVE Detail'
    BY <2>6, OpenDetail
  <2>7. ASSUME NEW f \in Functions, Trace(p, f) PROVE Detail'
    BY <2>7, TraceDetail
  <2>8. CASE Annotate(p) \/ \E n \in Notes : UpdateNote(p, n) \/ RemoveNote(p, n)
    BY <2>8, NoteDetail
  <2>9. CASE Pipeline(p) \/ Tag(p)
    BY <2>9, LabelDetail
  <2>10. CASE Untag(p)
    BY <2>10, UntagDetail
  <2> QED
    BY <2>1, <2>2, <2>3, <2>4, <2>5, <2>6, <2>7, <2>8, <2>9, <2>10
<1> QED
  BY <1>1, <1>2

\* Names, steps and tags stay as the invariant says.
THEOREM DetailInvariance == Spec => [](Inv /\ Detail)
<1>1. Init => Inv /\ Detail
  BY InitInv, InitDetail
<1>2. (Inv /\ Detail) /\ [Next]_vars => (Inv /\ Detail)'
  BY NextInv, NextDetail
<1> QED
  BY <1>1, <1>2, PTL DEF Spec

-----------------------------------------------------------------------------
(* The properties *)

\* When untag returns, no assignment of the name that it could see is left, under
\* whichever of several tags of that name, whatever other processes assigned or
\* deleted in the meantime (annotations.py, _untag).
THEOREM UntagRemovesAllHolds == Spec => []UntagRemovesAll
<1>1. Inv /\ Detail => UntagRemovesAll
  <2> SUFFICES ASSUME Inv, Detail, NEW p \in Procs, todo[p] = <<>>, NEW a \in untag[p],
                      Key("assigned", a)
               PROVE  FALSE
    BY DEF UntagRemovesAll
  <2>1. <<"assigned", a>> \in Keys(db)
    BY KeyFacts
  <2>2. Unassigns(todo[p], a)
    BY <2>1 DEF Detail, Untagging
  <2> QED
    BY <2>2, NoRows
<1> QED
  BY DetailInvariance, <1>1, PTL

\* A function has one operation row, except when another process had its own queued at
\* the time, however many processes trace it and whenever they die
\* (runtime.py:989, _get_or_create_operation).
THEOREM OneOperationPerNameHolds == Spec => []OneOperationPerName
<1>1. Detail => OneOperationPerName
  BY DEF Detail, Naming, MintedFirst, OneOperationPerName, OpRows
<1> QED
  BY DetailInvariance, <1>1, PTL

\* The details of a stored step can be read, or only its operation is missing: still to
\* come from the process that runs, or lost with the process that died (storage.py,
\* load_state_detail, load_step_detail).
THEOREM DetailCompleteHolds == Spec => []DetailComplete
<1>1. Inv /\ Detail => DetailComplete
  <2> SUFFICES ASSUME Inv, Detail, NEW r \in Rows("step")
               PROVE  /\ HasOrigin(r)
                      /\ \/ HasDetail(r)
                         \/ {p \in Procs : up[p] /\ env[p] = r.with} = {}
                         \/ \E p \in {p \in Procs : up[p] /\ env[p] = r.with} :
                              \E f \in Functions : r.ref \in Queued(f, p)
    BY DEF DetailComplete
  <2>1. r \in db /\ r.tab = "step"
    BY DEF Rows
  <2>2. {<<"state", r.id>>, <<"env", r.with>>, <<"agent", 0>>} \subseteq Keys(db)
    BY <2>1 DEF Inv, Ordered, Stored, Needs
  <2>3. HasOrigin(r)
    <3>1. PICK s \in db : s.tab = "state" /\ s.id = r.id
      BY <2>2 DEF Keys, KeyOf
    <3>2. <<"branch", s.ref>> \in Keys(db)
      BY <3>1 DEF Inv, Ordered, Stored, Needs
    <3>3. Key("branch", s.ref) /\ Key("agent", 0) /\ Key("env", r.with)
      BY <2>2, <3>2, KeyFacts
    <3> QED
      BY <3>1, <3>3 DEF HasOrigin, Rows
  <2>4. ASSUME NEW p \in Procs, up[p], env[p] = r.with, ~HasDetail(r)
        PROVE  \E f \in Functions : r.ref \in Queued(f, p)
    <3>1. PICK o \in Known(p, "operation") : o.id = r.ref
      BY <2>4 DEF Detail, Stepping, StepOwn, Known
    <3>2. o \in OpRows
      BY DEF Known, OpRows
    <3>3. o.with \in Functions
      BY <3>2 DEF Detail, Naming, OpNames
    <3>4. o \notin Rows("operation")
      <4> SUFFICES ASSUME o \in Rows("operation") PROVE FALSE
        OBVIOUS
      <4>1. Key("type", o.ref)
        BY OperationFound
      <4> QED
        BY <2>3, <2>4, <3>1, <4>1 DEF HasDetail
    <3>5. o \in Owed(p, "operation")
      BY <3>4 DEF Known
    <3>6. o.id \in Queued(o.with, p)
      BY <3>5, QueuedRows
    <3> QED
      BY <3>1, <3>3, <3>6
  <2> QED
    BY <2>3, <2>4
<1> QED
  BY DetailInvariance, <1>1, PTL
===============================================================================
