--------------------------- MODULE HistoriesProofs ---------------------------
(***************************************************************************)
(* Theorems about Histories, for any calls, categories and bounds.  The    *)
(* lines, chains and runs of the model are recursive functions over the    *)
(* tree: that they exist (RecursionExists) and what they compute is proved *)
(* first, of any tree t, from the fact that a state follows from one made  *)
(* before it, by arguing about the least number for which a claim fails.   *)
(* The invariant Inv then says of the tree that it is one and where the    *)
(* positions in it are (Typed), what last holds (LastHere), and what the   *)
(* reviewer (Reviewed) and the copies (Copied) hold of a tree that has     *)
(* grown since.                                                            *)
(***************************************************************************)
EXTENDS Histories, Recursions, SequenceTheorems

-----------------------------------------------------------------------------
(* Trees: what made can be, and the way to a state in its first k rows *)

Entry == [input : Nat, branch : Nat, call : Calls, rows : SUBSET {"own", "link"}]

\* Every state follows from one that was made before it.
IsTree(t) == t \in Seq(Entry) /\ \A n \in DOMAIN t : t[n].input < n

Nodes(t) == 0..Len(t)
Known(t, k) == {n \in DOMAIN t : 2 * n <= k}
Line(t, k, s) ==
  LET up[n \in Nodes(t)] == IF n \in Known(t, k) THEN Append(up[t[n].input], n) ELSE <<n>>
  IN  up[s]

\* The fields of a tree's entries.
LEMMA TreeFacts ==
  ASSUME NEW t, IsTree(t)
  PROVE  /\ Len(t) \in Nat /\ DOMAIN t = 1..Len(t)
         /\ \A n \in DOMAIN t :
              /\ n \in Nodes(t) /\ n # 0 /\ t[n].input \in Nodes(t) /\ t[n].input < n
              /\ t[n].branch \in Nat /\ t[n].call \in Calls
              /\ t[n].rows \in SUBSET {"own", "link"}
<1>1. Len(t) \in Nat /\ DOMAIN t = 1..Len(t)
  BY DEF IsTree
<1>2. \A n \in DOMAIN t : t[n] \in Entry /\ t[n].input < n
  BY DEF IsTree
<1>3. ASSUME NEW n \in DOMAIN t
      PROVE  /\ n \in Nodes(t) /\ n # 0 /\ t[n].input \in Nodes(t) /\ t[n].input < n
             /\ t[n].branch \in Nat /\ t[n].call \in Calls
             /\ t[n].rows \in SUBSET {"own", "link"}
  <2>1. /\ t[n].input \in Nat /\ t[n].input < n /\ t[n].branch \in Nat /\ t[n].call \in Calls
        /\ t[n].rows \in SUBSET {"own", "link"}
    BY <1>2 DEF Entry
  <2> QED
    BY <1>1, <2>1 DEF Nodes
<1> QED
  BY <1>1, <1>3

\* The way to a state goes on from the way to its input.
LEMMA LineUnfolds ==
  ASSUME NEW t, IsTree(t), NEW k
  PROVE  \A n \in Nodes(t) :
           /\ Line(t, k, n) \in Seq(Nodes(t))
           /\ Line(t, k, n) = IF n \in Known(t, k) THEN Append(Line(t, k, t[n].input), n) ELSE <<n>>
<1> DEFINE V == Seq(Nodes(t))
           Ends == Nodes(t) \ Known(t, k)
           rank == [n \in Nodes(t) |-> n]
           next == [n \in Nodes(t) |-> IF n \in Known(t, k) THEN t[n].input ELSE n]
           base == [n \in Nodes(t) |-> <<n>>]
           step == [n \in Nodes(t) |-> [p \in V |-> Append(p, n)]]
           Is(up) == up = [n \in Nodes(t) |->
                       IF n \in Known(t, k) THEN Append(up[t[n].input], n) ELSE <<n>>]
<1>1. Len(t) \in Nat
  BY TreeFacts
<1>2. \A n \in Known(t, k) : n \in Nodes(t) /\ t[n].input \in Nodes(t) /\ t[n].input < n
  BY TreeFacts DEF Known
<1>3. rank \in [Nodes(t) -> 0..Len(t)] /\ next \in [Nodes(t) -> Nodes(t)]
  BY <1>2 DEF Nodes
<1>4. base \in [Nodes(t) -> V] /\ step \in [Nodes(t) -> [V -> V]]
  <2>1. \A n \in Nodes(t) : <<n>> \in V
    OBVIOUS
  <2>2. \A n \in Nodes(t) : \A p \in V : Append(p, n) \in V
    OBVIOUS
  <2> HIDE DEF V
  <2> QED
    BY <2>1, <2>2
<1>5. \A n \in Nodes(t) : n \notin Ends => rank[next[n]] < rank[n]
  BY <1>2
<1>6. PICK f \in [Nodes(t) -> V] :
        \A n \in Nodes(t) : f[n] = IF n \in Ends THEN base[n] ELSE step[n][f[next[n]]]
  <2> HIDE DEF V, Ends, rank, next, base, step
  <2>1. Recursion(Len(t), Nodes(t), V, Ends, rank, next, base, step)
    BY <1>1, <1>3, <1>4, <1>5 DEF Recursion
  <2> QED
    BY <2>1, RecursionExists
<1>7. ASSUME NEW n \in Nodes(t)
      PROVE  f[n] = IF n \in Known(t, k) THEN Append(f[t[n].input], n) ELSE <<n>>
  <2>1. CASE n \in Known(t, k)
    <3>1. n \notin Ends /\ next[n] = t[n].input /\ t[n].input \in Nodes(t)
      BY <2>1, <1>2
    <3>2. f[t[n].input] \in V
      BY <3>1
    <3>3. step[n][f[t[n].input]] = Append(f[t[n].input], n)
      BY <3>2
    <3> HIDE DEF V, Ends, rank, next, base, step
    <3> QED
      BY <1>6, <2>1, <3>1, <3>3
  <2>2. CASE n \notin Known(t, k)
    <3>1. n \in Ends /\ base[n] = <<n>>
      BY <2>2
    <3> HIDE DEF V, Ends, rank, next, base, step
    <3> QED
      BY <1>6, <2>2, <3>1
  <2> QED
    BY <2>1, <2>2
<1>8. Is(f)
  <2>1. f = [n \in Nodes(t) |-> f[n]]
    OBVIOUS
  <2> QED
    BY <1>7, <2>1
<1> DEFINE up == CHOOSE g : Is(g)
<1>9. Is(up)
  <2> HIDE DEF Is
  <2> QED
    BY <1>8
<1>10. \A n \in Nodes(t) :
         up[n] = IF n \in Known(t, k) THEN Append(up[t[n].input], n) ELSE <<n>>
  <2> HIDE DEF up
  <2> QED
    BY <1>9
<1>11. \A n \in Nodes(t) : up[n] \in V
  <2> DEFINE S == {n \in Nodes(t) : up[n] \in V}
  <2>1. ASSUME NEW n \in 0..Len(t), \A j \in 0..Len(t) : j < n => j \in S
        PROVE  n \in S
    <3>1. n \in Nodes(t)
      BY DEF Nodes
    <3>2. CASE n \in Known(t, k)
      <4>1. t[n].input \in S
        BY <1>2, <2>1, <3>2 DEF Nodes
      <4>2. up[n] = Append(up[t[n].input], n)
        BY <1>10, <3>1, <3>2
      <4> HIDE DEF up
      <4>3. Append(up[t[n].input], n) \in V
        BY <3>1, <4>1
      <4> QED
        BY <3>1, <4>2, <4>3
    <3>3. CASE n \notin Known(t, k)
      <4>1. up[n] = <<n>>
        BY <1>10, <3>1, <3>3
      <4>2. <<n>> \in V
        BY <3>1
      <4> QED
        BY <3>1, <4>1, <4>2
    <3> QED
      BY <3>2, <3>3
  <2> HIDE DEF S
  <2>2. \A i \in 0..Len(t) : i \in S
    BY <1>1, <2>1, Smaller
  <2> QED
    BY <2>2 DEF S, Nodes
<1>12. \A n : Line(t, k, n) = up[n]
  BY DEF Line
<1> HIDE DEF up
<1> QED
  <2> SUFFICES ASSUME NEW n \in Nodes(t)
               PROVE  /\ Line(t, k, n) \in V
                      /\ Line(t, k, n) = IF n \in Known(t, k)
                                          THEN Append(Line(t, k, t[n].input), n) ELSE <<n>>
    OBVIOUS
  <2>1. Line(t, k, n) = up[n] /\ Line(t, k, t[n].input) = up[t[n].input]
    BY <1>12
  <2> QED
    BY <1>10, <1>11, <2>1

\* What a way to n is: it ends at n, goes from input to state, and starts where the
\* stored steps do.
Way(t, k, n, p) ==
  /\ p \in Seq(Nodes(t)) /\ Len(p) \in 1..(n + 1) /\ p[Len(p)] = n
  /\ \A i \in 1..Len(p) : p[i] <= n
  /\ \A i \in 2..Len(p) : p[i] \in Known(t, k) /\ t[p[i]].input = p[i - 1]
  /\ p[1] \notin Known(t, k)

\* The elements of a sequence with one more at its end.
LEMMA AppendAt ==
  ASSUME NEW A, NEW p \in Seq(A), NEW e \in A
  PROVE  /\ Append(p, e) \in Seq(A) /\ Len(p) \in Nat /\ Len(Append(p, e)) = Len(p) + 1
         /\ \A i \in 1..Len(p) : p[i] \in A /\ Append(p, e)[i] = p[i]
         /\ Append(p, e)[Len(p) + 1] = e
  OBVIOUS

\* A way is extended by a state that follows from its end.
LEMMA WayExtended ==
  ASSUME NEW t, IsTree(t), NEW k, NEW n \in Known(t, k),
         NEW p, Way(t, k, t[n].input, p)
  PROVE  Way(t, k, n, Append(p, n))
<1> DEFINE m == t[n].input
           q == Append(p, n)
<1>1. n \in Nodes(t) /\ n \in Nat /\ m \in Nodes(t) /\ m \in Nat /\ m < n
  BY TreeFacts DEF Known, Nodes
<1>2. /\ p \in Seq(Nodes(t)) /\ Len(p) \in 1..(m + 1) /\ p[Len(p)] = m
      /\ \A i \in 1..Len(p) : p[i] <= m
      /\ \A i \in 2..Len(p) : p[i] \in Known(t, k) /\ t[p[i]].input = p[i - 1]
      /\ p[1] \notin Known(t, k)
  BY DEF Way
<1>3. /\ q \in Seq(Nodes(t)) /\ Len(p) \in Nat /\ Len(q) = Len(p) + 1
      /\ \A i \in 1..Len(p) : p[i] \in Nodes(t) /\ q[i] = p[i]
      /\ q[Len(p) + 1] = n
  BY <1>1, <1>2, AppendAt
<1> HIDE DEF m, q
<1>4. Len(q) \in 1..(n + 1) /\ q[Len(q)] = n
  BY <1>1, <1>2, <1>3
<1>5. ASSUME NEW i \in 1..Len(q)
      PROVE  q[i] <= n
  <2>1. CASE i = Len(p) + 1
    BY <1>1, <1>3, <2>1
  <2>2. CASE i # Len(p) + 1
    <3>1. i \in 1..Len(p)
      BY <1>3, <2>2
    <3>2. p[i] \in Nodes(t) /\ q[i] = p[i]
      BY <1>3, <3>1
    <3>3. p[i] \in Nat
      BY <3>2 DEF Nodes
    <3>4. p[i] <= m
      BY <1>2, <3>1
    <3> QED
      BY <1>1, <3>2, <3>3, <3>4
  <2> QED
    BY <2>1, <2>2
<1>6. ASSUME NEW i \in 2..Len(q)
      PROVE  q[i] \in Known(t, k) /\ t[q[i]].input = q[i - 1]
  <2>1. CASE i = Len(p) + 1
    <3>1. i - 1 = Len(p) /\ Len(p) \in 1..Len(p)
      BY <1>2, <1>3, <2>1
    <3>2. q[i - 1] = m
      BY <1>2, <1>3, <3>1
    <3> QED
      BY <1>3, <2>1, <3>2 DEF m
  <2>2. CASE i # Len(p) + 1
    <3>1. i \in 2..Len(p) /\ i \in 1..Len(p) /\ i - 1 \in 1..Len(p)
      BY <1>3, <2>2
    <3>2. q[i] = p[i] /\ q[i - 1] = p[i - 1]
      BY <1>3, <3>1
    <3> QED
      BY <1>2, <3>1, <3>2
  <2> QED
    BY <2>1, <2>2
<1>7. q[1] \notin Known(t, k)
  <2>1. 1 \in 1..Len(p)
    BY <1>2, <1>3
  <2> QED
    BY <1>2, <1>3, <2>1
<1> QED
  BY <1>3, <1>4, <1>5, <1>6, <1>7 DEF Way, q

\* The line to a state is a way to it.
LEMMA LineIsWay ==
  ASSUME NEW t, IsTree(t), NEW k
  PROVE  \A n \in Nodes(t) : Way(t, k, n, Line(t, k, n))
<1> DEFINE S == {n \in Nodes(t) : Way(t, k, n, Line(t, k, n))}
<1>1. Len(t) \in Nat
  BY TreeFacts
<1>2. ASSUME NEW n \in 0..Len(t), \A j \in 0..Len(t) : j < n => j \in S
      PROVE  n \in S
  <2>1. n \in Nodes(t) /\ n \in Nat
    BY <1>1 DEF Nodes
  <2>2. Line(t, k, n) = IF n \in Known(t, k) THEN Append(Line(t, k, t[n].input), n) ELSE <<n>>
    BY <2>1, LineUnfolds
  <2>3. CASE n \in Known(t, k)
    <3>1. t[n].input \in S
      <4>1. t[n].input \in Nodes(t) /\ t[n].input < n
        BY <2>3, TreeFacts DEF Known
      <4> QED
        BY <1>2, <4>1 DEF Nodes
    <3>2. Way(t, k, t[n].input, Line(t, k, t[n].input))
      BY <3>1
    <3>3. Way(t, k, n, Append(Line(t, k, t[n].input), n))
      BY <2>3, <3>2, WayExtended
    <3> QED
      BY <2>1, <2>2, <2>3, <3>3
  <2>4. CASE n \notin Known(t, k)
    <3>1. Way(t, k, n, <<n>>)
      <4>1. <<n>> \in Seq(Nodes(t)) /\ Len(<<n>>) = 1 /\ <<n>>[1] = n
        BY <2>1
      <4>2. 1 \in 1..(n + 1) /\ \A i \in 1..1 : i = 1
        BY <2>1
      <4>3. \A i \in 2..1 : FALSE
        OBVIOUS
      <4> DEFINE p == <<n>>
      <4> HIDE DEF p
      <4>4. p \in Seq(Nodes(t)) /\ Len(p) = 1 /\ p[1] = n
        BY <4>1 DEF p
      <4>5. Way(t, k, n, p)
        BY <2>1, <2>4, <4>2, <4>3, <4>4 DEF Way
      <4> QED
        BY <4>5 DEF p
    <3> QED
      BY <2>1, <2>2, <2>4, <3>1
  <2> QED
    BY <2>3, <2>4
<1> HIDE DEF S
<1>3. \A i \in 0..Len(t) : i \in S
  BY <1>1, <1>2, Smaller
<1> QED
  BY <1>3 DEF S, Nodes

\* What lies on a line.
LEMMA OnLine ==
  ASSUME NEW t, IsTree(t), NEW k
  PROVE  \A n \in Nodes(t) : \A s :
           Contains(Line(t, k, n), s) <=>
             (s = n \/ (n \in Known(t, k) /\ Contains(Line(t, k, t[n].input), s)))
<1> SUFFICES ASSUME NEW n \in Nodes(t), NEW s
             PROVE  Contains(Line(t, k, n), s) <=>
                      (s = n \/ (n \in Known(t, k) /\ Contains(Line(t, k, t[n].input), s)))
  OBVIOUS
<1>1. Line(t, k, n) = IF n \in Known(t, k) THEN Append(Line(t, k, t[n].input), n) ELSE <<n>>
  BY LineUnfolds
<1>2. CASE n \in Known(t, k)
  <2> DEFINE p == Line(t, k, t[n].input)
             q == Line(t, k, n)
  <2>1. p \in Seq(Nodes(t))
    <3>1. t[n].input \in Nodes(t)
      BY <1>2, TreeFacts DEF Known
    <3> QED
      BY <3>1, LineUnfolds
  <2>2. q = Append(p, n)
    BY <1>1, <1>2
  <2> HIDE DEF p, q
  <2>3. /\ Len(p) \in Nat /\ Len(q) = Len(p) + 1
        /\ \A i \in 1..Len(p) : q[i] = p[i]
        /\ q[Len(p) + 1] = n
    BY <2>1, <2>2, AppendAt
  <2>4. Contains(q, s) => s = n \/ Contains(p, s)
    <3> SUFFICES ASSUME NEW i \in 1..Len(q), q[i] = s, s # n
                 PROVE  Contains(p, s)
      BY DEF Contains
    <3>1. i \in 1..Len(p)
      BY <2>3
    <3> QED
      BY <2>3, <3>1 DEF Contains
  <2>5. s = n => Contains(q, s)
    <3>1. Len(p) + 1 \in 1..Len(q)
      BY <2>3
    <3> QED
      BY <2>3, <3>1 DEF Contains
  <2>6. Contains(p, s) => Contains(q, s)
    <3> SUFFICES ASSUME NEW i \in 1..Len(p), p[i] = s
                 PROVE  Contains(q, s)
      BY DEF Contains
    <3>1. i \in 1..Len(q)
      BY <2>3
    <3> QED
      BY <2>3, <3>1 DEF Contains
  <2> QED
    BY <1>2, <2>4, <2>5, <2>6 DEF p, q
<1>3. CASE n \notin Known(t, k)
  <2>1. Contains(<<n>>, s) <=> s = n
    <3>1. Len(<<n>>) = 1 /\ <<n>>[1] = n
      OBVIOUS
    <3>2. \A i \in 1..1 : i = 1
      OBVIOUS
    <3>3. 1 \in 1..1
      OBVIOUS
    <3> DEFINE p == <<n>>
    <3> HIDE DEF p
    <3>4. Len(p) = 1 /\ p[1] = n
      BY <3>1 DEF p
    <3>5. Contains(p, s) <=> s = n
      BY <3>2, <3>3, <3>4 DEF Contains
    <3> QED
      BY <3>5 DEF p
  <2> QED
    BY <1>1, <1>3, <2>1
<1> QED
  BY <1>2, <1>3

\* What lies on the way to a state of a line lies on the line.
LEMMA OnLineBelow ==
  ASSUME NEW t, IsTree(t), NEW k
  PROVE  \A n \in Nodes(t) : \A x \in Nodes(t) : \A s :
           Contains(Line(t, k, n), x) /\ Contains(Line(t, k, x), s) => Contains(Line(t, k, n), s)
<1> DEFINE Below(n) == \A x \in Nodes(t) : \A s :
             Contains(Line(t, k, n), x) /\ Contains(Line(t, k, x), s) => Contains(Line(t, k, n), s)
           S == {n \in Nodes(t) : Below(n)}
<1>1. Len(t) \in Nat
  BY TreeFacts
<1>2. ASSUME NEW n \in 0..Len(t), \A j \in 0..Len(t) : j < n => j \in S
      PROVE  n \in S
  <2>1. n \in Nodes(t)
    BY DEF Nodes
  <2>2. ASSUME NEW x \in Nodes(t), NEW s,
               Contains(Line(t, k, n), x), Contains(Line(t, k, x), s)
        PROVE  Contains(Line(t, k, n), s)
    <3>1. CASE x = n
      BY <2>2, <3>1
    <3>2. CASE x # n
      <4>1. n \in Known(t, k) /\ Contains(Line(t, k, t[n].input), x)
        BY <2>1, <2>2, <3>2, OnLine
      <4>2. t[n].input \in Nodes(t) /\ t[n].input < n
        BY <4>1, TreeFacts DEF Known
      <4>3. Below(t[n].input)
        BY <1>2, <4>2 DEF Nodes
      <4>4. Contains(Line(t, k, t[n].input), s)
        BY <2>2, <4>1, <4>3
      <4> QED
        BY <2>1, <4>1, <4>4, OnLine
    <3> QED
      BY <3>1, <3>2
  <2> QED
    BY <2>1, <2>2
<1> HIDE DEF S
<1>3. \A i \in 0..Len(t) : i \in S
  BY <1>1, <1>2, Smaller
<1> QED
  BY <1>3 DEF S, Nodes

\* The line to a state stays what it is while the tree grows and rows are stored, as
\* long as the steps on it were stored, or not, before.
LEMMA SameLine ==
  ASSUME NEW t, IsTree(t), NEW u, IsTree(u), Len(t) <= Len(u), \A n \in DOMAIN t : u[n] = t[n],
         NEW k \in Nat, NEW j \in Nat, NEW s \in Nodes(t),
         \A n \in 1..s : 2 * n <= k <=> 2 * n <= j
  PROVE  Line(u, j, s) = Line(t, k, s)
<1> DEFINE S == {n \in Nodes(t) : Line(u, j, n) = Line(t, k, n)}
<1>1. /\ Len(t) \in Nat /\ Len(u) \in Nat /\ DOMAIN t = 1..Len(t) /\ DOMAIN u = 1..Len(u)
      /\ s \in 0..Len(t) /\ s \in Nat
  BY TreeFacts DEF Nodes
<1>2. ASSUME NEW n \in 0..s, \A i \in 0..s : i < n => i \in S
      PROVE  n \in S
  <2>1. n \in Nodes(t) /\ n \in Nodes(u)
    BY <1>1 DEF Nodes
  <2>2. n \in Known(t, k) <=> n \in Known(u, j)
    <3>1. CASE n = 0
      BY <1>1, <3>1 DEF Known
    <3>2. CASE n # 0
      <4>1. n \in 1..s /\ n \in DOMAIN t /\ n \in DOMAIN u
        BY <1>1, <3>2
      <4>2. 2 * n <= k <=> 2 * n <= j
        BY <4>1
      <4> QED
        BY <4>1, <4>2 DEF Known
    <3> QED
      BY <3>1, <3>2
  <2>3. Line(t, k, n) = IF n \in Known(t, k) THEN Append(Line(t, k, t[n].input), n) ELSE <<n>>
    BY <2>1, LineUnfolds
  <2>4. Line(u, j, n) = IF n \in Known(u, j) THEN Append(Line(u, j, u[n].input), n) ELSE <<n>>
    BY <2>1, LineUnfolds
  <2>5. CASE n \in Known(t, k)
    <3>1. u[n] = t[n] /\ n \in DOMAIN t
      BY <2>5 DEF Known
    <3>2. t[n].input \in Nodes(t) /\ t[n].input < n
      BY <3>1, TreeFacts
    <3>3. t[n].input \in S
      BY <1>1, <1>2, <3>2 DEF Nodes
    <3>4. Line(u, j, u[n].input) = Line(t, k, t[n].input)
      BY <3>1, <3>3
    <3> QED
      BY <2>1, <2>2, <2>3, <2>4, <2>5, <3>4
  <2>6. CASE n \notin Known(t, k)
    BY <2>1, <2>2, <2>3, <2>4, <2>6
  <2> QED
    BY <2>5, <2>6
<1> HIDE DEF S
<1>3. \A i \in 0..s : i \in S
  BY <1>1, <1>2, Smaller
<1> QED
  BY <1>1, <1>3 DEF S

-----------------------------------------------------------------------------
(* The calls on the way to a state *)


\* The parameters of the nearest call of f on the way back from s.
Latest(t, f, s) ==
  LET back[n \in Nodes(t)] ==
        IF n \notin DOMAIN t THEN None
        ELSE IF t[n].call.func = f THEN t[n].call.par ELSE back[t[n].input]
  IN  back[s]

\* It is the state's own call, or that of its input.
LEMMA LatestUnfolds ==
  ASSUME NEW t, IsTree(t), NEW f
  PROVE  \A n \in Nodes(t) :
           Latest(t, f, n) = IF n \notin DOMAIN t THEN None
                             ELSE IF t[n].call.func = f THEN t[n].call.par
                             ELSE Latest(t, f, t[n].input)
<1> DEFINE V == {t[n].call.par : n \in DOMAIN t} \cup {None}
           Ends == {n \in Nodes(t) : n \notin DOMAIN t \/ t[n].call.func = f}
           rank == [n \in Nodes(t) |-> n]
           next == [n \in Nodes(t) |-> IF n \in DOMAIN t THEN t[n].input ELSE n]
           base == [n \in Nodes(t) |-> IF n \in DOMAIN t THEN t[n].call.par ELSE None]
           step == [n \in Nodes(t) |-> [p \in V |-> p]]
           Is(back) == back = [n \in Nodes(t) |->
                         IF n \notin DOMAIN t THEN None
                         ELSE IF t[n].call.func = f THEN t[n].call.par ELSE back[t[n].input]]
<1>1. Len(t) \in Nat
  BY TreeFacts
<1>2. \A n \in DOMAIN t : n \in Nodes(t) /\ t[n].input \in Nodes(t) /\ t[n].input < n
  BY TreeFacts
<1>3. rank \in [Nodes(t) -> 0..Len(t)] /\ next \in [Nodes(t) -> Nodes(t)]
  BY <1>2 DEF Nodes
<1>4. base \in [Nodes(t) -> V] /\ step \in [Nodes(t) -> [V -> V]]
  OBVIOUS
<1>5. \A n \in Nodes(t) : n \notin Ends => rank[next[n]] < rank[n]
  BY <1>2
<1>6. PICK g \in [Nodes(t) -> V] :
        \A n \in Nodes(t) : g[n] = IF n \in Ends THEN base[n] ELSE step[n][g[next[n]]]
  <2> HIDE DEF V, Ends, rank, next, base, step
  <2>1. Recursion(Len(t), Nodes(t), V, Ends, rank, next, base, step)
    BY <1>1, <1>3, <1>4, <1>5 DEF Recursion
  <2> QED
    BY <2>1, RecursionExists
<1>7. ASSUME NEW n \in Nodes(t)
      PROVE  g[n] = IF n \notin DOMAIN t THEN None
                    ELSE IF t[n].call.func = f THEN t[n].call.par ELSE g[t[n].input]
  <2>1. CASE n \in Ends
    <3>1. g[n] = base[n]
      <4> HIDE DEF V, Ends, rank, next, base, step
      <4> QED
        BY <1>6, <2>1
    <3> QED
      BY <2>1, <3>1
  <2>2. CASE n \notin Ends
    <3>1. n \in DOMAIN t /\ t[n].call.func # f /\ next[n] = t[n].input /\ t[n].input \in Nodes(t)
      BY <2>2, <1>2
    <3>2. g[t[n].input] \in V
      BY <3>1
    <3>3. step[n][g[t[n].input]] = g[t[n].input]
      BY <3>2
    <3> HIDE DEF V, Ends, rank, next, base, step
    <3> QED
      BY <1>6, <2>2, <3>1, <3>3
  <2> QED
    BY <2>1, <2>2
<1>8. Is(g)
  <2>1. g = [n \in Nodes(t) |-> g[n]]
    OBVIOUS
  <2> QED
    BY <1>7, <2>1
<1> DEFINE back == CHOOSE h : Is(h)
<1>9. Is(back)
  <2> HIDE DEF Is
  <2> QED
    BY <1>8
<1>10. \A n \in Nodes(t) :
         back[n] = IF n \notin DOMAIN t THEN None
                   ELSE IF t[n].call.func = f THEN t[n].call.par ELSE back[t[n].input]
  <2> HIDE DEF back
  <2> QED
    BY <1>9
<1>11. \A n : Latest(t, f, n) = back[n]
  BY DEF Latest
<1> HIDE DEF back
<1> QED
  BY <1>10, <1>11

\* The states on a line, as a set.
LEMMA RangeOfLine ==
  ASSUME NEW t, IsTree(t), NEW k
  PROVE  \A n \in Nodes(t) : \A x :
           /\ x \in Range(Line(t, k, n)) <=> Contains(Line(t, k, n), x)
           /\ Contains(Line(t, k, n), x) => x \in Nodes(t) /\ x <= n
<1> SUFFICES ASSUME NEW n \in Nodes(t), NEW x
             PROVE  /\ x \in Range(Line(t, k, n)) <=> Contains(Line(t, k, n), x)
                    /\ Contains(Line(t, k, n), x) => x \in Nodes(t) /\ x <= n
  OBVIOUS
<1> DEFINE p == Line(t, k, n)
<1>1. p \in Seq(Nodes(t)) /\ \A i \in 1..Len(p) : p[i] <= n
  BY LineIsWay DEF Way
<1> HIDE DEF p
<1>2. DOMAIN p = 1..Len(p) /\ \A i \in 1..Len(p) : p[i] \in Nodes(t)
  BY <1>1
<1>3. x \in Range(p) <=> Contains(p, x)
  BY <1>2 DEF Range, Contains
<1>4. Contains(p, x) => x \in Nodes(t) /\ x <= n
  BY <1>1, <1>2 DEF Contains
<1> QED
  BY <1>3, <1>4 DEF p

\* The calls of f on the way to s in a tree all of whose rows are stored.
CallsOn(t, f, s) == {n \in Range(Line(t, 2 * Len(t), s)) \ {0} : t[n].call.func = f}

\* They are those on the way to the input, and that of the state itself.
LEMMA CallsOnUnfolds ==
  ASSUME NEW t, IsTree(t), NEW f
  PROVE  \A n \in Nodes(t) :
           /\ CallsOn(t, f, n) \subseteq 1..n
           /\ n \notin DOMAIN t => CallsOn(t, f, n) = {}
           /\ n \in DOMAIN t => CallsOn(t, f, n) =
                CallsOn(t, f, t[n].input) \cup (IF t[n].call.func = f THEN {n} ELSE {})
<1> SUFFICES ASSUME NEW n \in Nodes(t)
             PROVE  /\ CallsOn(t, f, n) \subseteq 1..n
                    /\ n \notin DOMAIN t => CallsOn(t, f, n) = {}
                    /\ n \in DOMAIN t => CallsOn(t, f, n) =
                         CallsOn(t, f, t[n].input) \cup (IF t[n].call.func = f THEN {n} ELSE {})
  OBVIOUS
<1> DEFINE k == 2 * Len(t)
<1>1. Len(t) \in Nat /\ DOMAIN t = 1..Len(t) /\ n \in Nat
  BY TreeFacts DEF Nodes
<1>2. \A m : m \in Known(t, k) <=> m \in DOMAIN t
  BY <1>1 DEF Known
<1>3. \A x : x \in CallsOn(t, f, n) <=>
               Contains(Line(t, k, n), x) /\ x # 0 /\ t[x].call.func = f
  BY RangeOfLine DEF CallsOn
<1>4. CallsOn(t, f, n) \subseteq 1..n
  <2> SUFFICES ASSUME NEW x \in CallsOn(t, f, n)
               PROVE  x \in 1..n
    OBVIOUS
  <2>1. x \in Nodes(t) /\ x <= n /\ x # 0
    BY <1>3, RangeOfLine
  <2> QED
    BY <1>1, <2>1 DEF Nodes
<1>5. ASSUME n \notin DOMAIN t
      PROVE  CallsOn(t, f, n) = {}
  <2>1. n = 0
    BY <1>1, <1>5 DEF Nodes
  <2> QED
    BY <1>4, <2>1
<1>6. ASSUME n \in DOMAIN t
      PROVE  CallsOn(t, f, n) =
               CallsOn(t, f, t[n].input) \cup (IF t[n].call.func = f THEN {n} ELSE {})
  <2> DEFINE m == t[n].input
  <2>1. m \in Nodes(t) /\ n # 0
    BY <1>6, TreeFacts
  <2> HIDE DEF m
  <2>2. \A x : x \in CallsOn(t, f, m) <=>
                 Contains(Line(t, k, m), x) /\ x # 0 /\ t[x].call.func = f
    BY <2>1, RangeOfLine DEF CallsOn
  <2>3. \A x : Contains(Line(t, k, n), x) <=> x = n \/ Contains(Line(t, k, m), x)
    BY <1>2, <1>6, OnLine DEF m
  <2>4. \A x : x \in CallsOn(t, f, n) <=>
                 x \in CallsOn(t, f, m) \/ (x = n /\ t[n].call.func = f)
    BY <1>3, <2>1, <2>2, <2>3
  <2> QED
    BY <2>4 DEF m
<1> QED
  BY <1>4, <1>5, <1>6

\* The nearest call on the way back is the latest on the way.
LEMMA LatestIsLast ==
  ASSUME NEW t, IsTree(t), NEW f
  PROVE  \A n \in Nodes(t) :
           Latest(t, f, n) = IF CallsOn(t, f, n) = {} THEN None
                             ELSE t[Max(CallsOn(t, f, n))].call.par
<1> DEFINE Is(n) == Latest(t, f, n) = IF CallsOn(t, f, n) = {} THEN None
                                      ELSE t[Max(CallsOn(t, f, n))].call.par
           S == {n \in Nodes(t) : Is(n)}
<1>1. Len(t) \in Nat
  BY TreeFacts
<1>2. ASSUME NEW n \in 0..Len(t), \A j \in 0..Len(t) : j < n => j \in S
      PROVE  n \in S
  <2>1. n \in Nodes(t) /\ n \in Nat
    BY <1>1 DEF Nodes
  <2>2. CASE n \notin DOMAIN t
    <3>1. Latest(t, f, n) = None
      BY <2>1, <2>2, LatestUnfolds
    <3>2. CallsOn(t, f, n) = {}
      BY <2>1, <2>2, CallsOnUnfolds
    <3> QED
      BY <2>1, <3>1, <3>2
  <2>3. CASE n \in DOMAIN t
    <3> DEFINE m == t[n].input
    <3>1. m \in Nodes(t) /\ m < n /\ m \in 0..Len(t) /\ n # 0
      BY <2>3, TreeFacts DEF Nodes
    <3>2. Is(m)
      BY <1>2, <3>1
    <3>3. CallsOn(t, f, n) =
            CallsOn(t, f, m) \cup (IF t[n].call.func = f THEN {n} ELSE {})
      BY <2>1, <2>3, CallsOnUnfolds
    <3>4. Latest(t, f, n) = IF t[n].call.func = f THEN t[n].call.par ELSE Latest(t, f, m)
      BY <2>1, <2>3, LatestUnfolds
    <3>5. CASE t[n].call.func = f
      <4>1. CallsOn(t, f, n) \subseteq 0..n /\ n \in CallsOn(t, f, n)
        <5>1. CallsOn(t, f, n) \subseteq 1..n
          BY <2>1, CallsOnUnfolds
        <5>2. n \in CallsOn(t, f, n)
          BY <3>3, <3>5
        <5> QED
          BY <5>1, <5>2
      <4>2. Max(CallsOn(t, f, n)) \in CallsOn(t, f, n) /\ n <= Max(CallsOn(t, f, n))
        BY <2>1, <4>1, MaxOf
      <4>3. Max(CallsOn(t, f, n)) = n
        BY <4>1, <4>2
      <4> QED
        BY <2>1, <3>4, <3>5, <4>1, <4>3
    <3>6. CASE t[n].call.func # f
      <4>1. CallsOn(t, f, n) = CallsOn(t, f, m)
        BY <3>3, <3>6
      <4> QED
        BY <2>1, <3>2, <3>4, <3>6, <4>1
    <3> QED
      BY <3>5, <3>6
  <2> QED
    BY <2>2, <2>3
<1> HIDE DEF S
<1>3. \A i \in 0..Len(t) : i \in S
  BY <1>1, <1>2, Smaller
<1> QED
  BY <1>3 DEF S, Nodes

\* u is t with states added.
Grown(t, u) ==
  IsTree(t) /\ IsTree(u) /\ Len(t) <= Len(u) /\ \A n \in DOMAIN t : u[n] = t[n]

\* States added later change nothing of what was called on the way to a state.
LEMMA LatestStable ==
  ASSUME NEW t, NEW u, Grown(t, u), NEW f
  PROVE  \A n \in Nodes(t) : Latest(u, f, n) = Latest(t, f, n)
<1> DEFINE S == {n \in Nodes(t) : Latest(u, f, n) = Latest(t, f, n)}
<1>1. IsTree(t) /\ IsTree(u) /\ Len(t) <= Len(u) /\ \A n \in DOMAIN t : u[n] = t[n]
  BY DEF Grown
<1>2. Len(t) \in Nat /\ Len(u) \in Nat /\ DOMAIN t = 1..Len(t) /\ DOMAIN u = 1..Len(u)
  BY <1>1, TreeFacts
<1>3. ASSUME NEW n \in 0..Len(t), \A j \in 0..Len(t) : j < n => j \in S
      PROVE  n \in S
  <2>1. n \in Nodes(t) /\ n \in Nodes(u) /\ n \in Nat
    BY <1>1, <1>2 DEF Nodes
  <2>2. n \in DOMAIN t <=> n \in DOMAIN u
    BY <1>1, <1>2
  <2>3. Latest(t, f, n) = IF n \notin DOMAIN t THEN None
                          ELSE IF t[n].call.func = f THEN t[n].call.par
                          ELSE Latest(t, f, t[n].input)
    BY <1>1, <2>1, LatestUnfolds
  <2>4. Latest(u, f, n) = IF n \notin DOMAIN u THEN None
                          ELSE IF u[n].call.func = f THEN u[n].call.par
                          ELSE Latest(u, f, u[n].input)
    BY <1>1, <2>1, LatestUnfolds
  <2>5. CASE n \in DOMAIN t
    <3>1. t[n].input \in 0..Len(t) /\ t[n].input < n
      BY <1>1, <2>5, TreeFacts DEF Nodes
    <3>2. Latest(u, f, t[n].input) = Latest(t, f, t[n].input)
      BY <1>3, <3>1
    <3>3. u[n] = t[n]
      BY <1>1, <2>5
    <3> QED
      BY <2>1, <2>2, <2>3, <2>4, <2>5, <3>2, <3>3
  <2>6. CASE n \notin DOMAIN t
    BY <2>1, <2>2, <2>3, <2>4, <2>6
  <2> QED
    BY <2>5, <2>6
<1> HIDE DEF S
<1>4. \A i \in 0..Len(t) : i \in S
  BY <1>2, <1>3, Smaller
<1> QED
  BY <1>4 DEF S, Nodes

-----------------------------------------------------------------------------
(* The history, growing *)

Typed ==
  /\ IsTree(made) /\ Len(made) <= MaxStates
  /\ forks \in Seq(Nat) /\ branch \in Nat
  /\ current \in States /\ pending \in States \cup {None}
  /\ stored \in 0..(2 * Len(made))
  /\ last \in [Functions -> {c.par : c \in Calls} \cup {None}]

\* The model's operators on the tree it has.
LEMMA TreeNow ==
  /\ States = Nodes(made) /\ \A k : GraphSteps(k) = Known(made, k)
  /\ \A k, s : Path(k, s) = Line(made, k, s)
  /\ \A f, s : CallsOf(f, s) = CallsOn(made, f, s)
<1>1. States = Nodes(made) /\ \A k : GraphSteps(k) = Known(made, k)
  BY DEF States, Nodes, GraphSteps, Known
<1>2. \A k, s : Path(k, s) = Line(made, k, s)
  BY DEF Path, Line, States, Nodes, GraphSteps, Known
<1>3. \A f, s : CallsOf(f, s) = CallsOn(made, f, s)
  BY <1>2 DEF CallsOf, CallsOn
<1> QED
  BY <1>1, <1>2, <1>3

\* The same after a step.
LEMMA TreeNext ==
  /\ States' = Nodes(made') /\ \A k : GraphSteps(k)' = Known(made', k)
  /\ \A k, s : Path(k, s)' = Line(made', k, s)
<1>1. States' = Nodes(made') /\ \A k : GraphSteps(k)' = Known(made', k)
  BY DEF States, Nodes, GraphSteps, Known
<1>2. \A k, s : Path(k, s)' = Line(made', k, s)
  BY DEF Path, Line, States, Nodes, GraphSteps, Known
<1> QED
  BY <1>1, <1>2

Input == IF pending = None THEN current ELSE pending

\* What a recorded call does to the tree.
Recorded(call) ==
  /\ Len(made) < MaxStates
  /\ Grown(made, made') /\ Len(made') = Len(made) + 1
  /\ made'[Len(made) + 1].input = Input /\ made'[Len(made) + 1].call = call
  /\ forks' \in Seq(Nat) /\ branch' \in Nat
  /\ current' = Len(made) + 1
  /\ last' = [last EXCEPT ![call.func] = call.par]
  /\ \/ pending' = None
     \/ /\ pending' \in DOMAIN made
        /\ made[pending'].input = Input /\ made[pending'].call = call

\* A sequence with one more entry is a tree if the entry follows from a state.
LEMMA TreeAppended ==
  ASSUME NEW t, IsTree(t), NEW e \in Entry, e.input \in Nodes(t)
  PROVE  /\ Grown(t, Append(t, e)) /\ Len(Append(t, e)) = Len(t) + 1
         /\ Append(t, e)[Len(t) + 1] = e
<1> DEFINE u == Append(t, e)
<1>1. /\ u \in Seq(Entry) /\ Len(t) \in Nat /\ Len(u) = Len(t) + 1
      /\ \A i \in 1..Len(t) : t[i] \in Entry /\ u[i] = t[i]
      /\ u[Len(t) + 1] = e
  BY AppendAt DEF IsTree
<1> HIDE DEF u
<1>2. DOMAIN t = 1..Len(t) /\ DOMAIN u = 1..Len(u)
  BY <1>1, TreeFacts
<1>3. ASSUME NEW n \in DOMAIN u
      PROVE  u[n].input < n
  <2>1. CASE n = Len(t) + 1
    BY <1>1, <2>1 DEF Nodes
  <2>2. CASE n # Len(t) + 1
    <3>1. n \in DOMAIN t /\ n \in 1..Len(t)
      BY <1>1, <1>2, <2>2
    <3>2. t[n].input < n
      BY <3>1, TreeFacts
    <3> QED
      BY <1>1, <3>1, <3>2
  <2> QED
    BY <2>1, <2>2
<1>4. IsTree(u)
  BY <1>1, <1>3 DEF IsTree
<1>5. Grown(t, u)
  BY <1>1, <1>2, <1>4 DEF Grown
<1> QED
  BY <1>1, <1>5 DEF u

\* _resolve_input_state and the insert of the step: one state more, on a branch there is.
LEMMA RecordFacts ==
  ASSUME Typed, NEW call \in Calls, Record(call)
  PROVE  Recorded(call)
<1> DEFINE repeats == {n \in GraphSteps(stored) : made[n].input = Input /\ made[n].call = call}
           nothing == IF \E n \in DOMAIN made : HasOwn(n) THEN {} ELSE {"link"}
           e == [input |-> Input, branch |-> branch', call |-> call,
                 rows |-> Outputs[call.func] \ nothing]
<1>1. /\ Len(made) < MaxStates
      /\ \/ pending = None /\ UNCHANGED <<branch, pending, forks>>
         \/ /\ pending # None /\ repeats # {}
            /\ \E n \in repeats : pending' = n /\ branch' = made[n].branch
            /\ UNCHANGED forks
         \/ /\ pending # None /\ repeats = {}
            /\ forks' = Append(forks, Input)
            /\ branch' = Len(forks')
            /\ pending' = None
      /\ made' = Append(made, e)
      /\ current' = Len(made')
      /\ last' = [last EXCEPT ![call.func] = call.par]
  BY DEF Record, Input
<1>2. IsTree(made) /\ forks \in Seq(Nat) /\ branch \in Nat /\ Input \in Nodes(made) /\ Input \in Nat
  BY DEF Typed, Input, States, Nodes
<1>3. \A n \in repeats : /\ n \in DOMAIN made /\ made[n].branch \in Nat
                         /\ made[n].input = Input /\ made[n].call = call
  BY <1>2, TreeFacts DEF GraphSteps
<1> HIDE DEF repeats
<1>4. /\ forks' \in Seq(Nat) /\ branch' \in Nat
      /\ \/ pending' = None
         \/ /\ pending' \in DOMAIN made
            /\ made[pending'].input = Input /\ made[pending'].call = call
  <2>1. CASE pending = None /\ UNCHANGED <<branch, pending, forks>>
    BY <1>2, <2>1
  <2>2. CASE (\E n \in repeats : pending' = n /\ branch' = made[n].branch) /\ UNCHANGED forks
    BY <1>2, <1>3, <2>2
  <2>3. CASE forks' = Append(forks, Input) /\ branch' = Len(forks') /\ pending' = None
    BY <1>2, <2>3
  <2> QED
    BY <1>1, <2>1, <2>2, <2>3
<1>5. e \in Entry /\ e.input = Input /\ e.call = call
  <2>1. Outputs[call.func] \in SUBSET {"own", "link"}
    BY HistoriesAssumption
  <2>2. Outputs[call.func] \ nothing \in SUBSET {"own", "link"}
    BY <2>1
  <2> QED
    BY <1>2, <1>4, <2>2 DEF Entry
<1> HIDE DEF e
<1>6. Grown(made, made') /\ Len(made') = Len(made) + 1 /\ made'[Len(made) + 1] = e
  BY <1>1, <1>2, <1>5, TreeAppended
<1> QED
  BY <1>1, <1>4, <1>5, <1>6 DEF Recorded

\* The tree stays one, and the positions in it and in its rows are there.
LEMMA TypedAfterRecord ==
  ASSUME Typed, NEW call \in Calls, Recorded(call), UNCHANGED stored
  PROVE  Typed'
<1>1. Len(made) \in Nat /\ DOMAIN made = 1..Len(made)
  BY TreeFacts DEF Typed
<1>2. IsTree(made') /\ Len(made') <= MaxStates
  <2>1. IsTree(made') /\ Len(made') = Len(made) + 1 /\ Len(made) < MaxStates
    BY DEF Recorded, Grown
  <2> QED
    BY <1>1, <2>1, HistoriesAssumption
<1>3. current' \in States' /\ pending' \in States' \cup {None}
  BY <1>1 DEF Recorded, States
<1>4. stored' \in 0..(2 * Len(made'))
  BY <1>1 DEF Recorded, Typed
<1>5. last' \in [Functions -> {c.par : c \in Calls} \cup {None}]
  <2>1. call.func \in Functions
    BY HistoriesAssumption DEF Functions
  <2> QED
    BY <2>1 DEF Recorded, Typed
<1> QED
  BY <1>2, <1>3, <1>4, <1>5 DEF Typed, Recorded

\* checkout leaves the tree alone and moves to a state of it.
LEMMA TypedAfterCheckout ==
  ASSUME Typed, NEW s \in States, CheckedOut(s), UNCHANGED stored
  PROVE  Typed'
<1>1. Len(made) \in Nat /\ DOMAIN made = 1..Len(made)
  BY TreeFacts DEF Typed
<1>2. branch' \in Nat
  <2>1. CASE s = 0
    BY <2>1 DEF CheckedOut, BranchOf
  <2>2. CASE s # 0
    <3>1. s \in DOMAIN made
      BY <1>1, <2>2 DEF States
    <3>2. made[s].branch \in Nat
      BY <3>1, TreeFacts DEF Typed
    <3> QED
      BY <2>2, <3>2 DEF CheckedOut, BranchOf
  <2> QED
    BY <2>1, <2>2
<1>3. last' \in [Functions -> {c.par : c \in Calls} \cup {None}]
  <2>1. ASSUME NEW f \in Functions
        PROVE  (IF CallsOf(f, s) = {} THEN None ELSE made[Max(CallsOf(f, s))].call.par)
                 \in {c.par : c \in Calls} \cup {None}
    <3>1. CASE CallsOf(f, s) # {}
      <4>1. CallsOf(f, s) \subseteq 1..s /\ s \in Nat /\ s <= Len(made)
        BY <1>1, TreeNow, CallsOnUnfolds DEF Typed, States
      <4>2. CallsOf(f, s) \subseteq 0..s
        BY <4>1
      <4>3. Max(CallsOf(f, s)) \in CallsOf(f, s)
        BY <3>1, <4>1, <4>2, MaxOf
      <4>4. Max(CallsOf(f, s)) \in DOMAIN made
        BY <1>1, <4>1, <4>3
      <4>5. made[Max(CallsOf(f, s))].call \in Calls
        BY <4>4, TreeFacts DEF Typed
      <4> QED
        BY <3>1, <4>5
    <3> QED
      BY <3>1
  <2> QED
    BY <2>1 DEF CheckedOut
<1> QED
  BY <1>2, <1>3 DEF Typed, CheckedOut, States

\* The history variable last is what the tree says of the current state, and of the
\* state the next step starts from.
LastHere ==
  \A f \in Functions :
    /\ Latest(made, f, current) = last[f]
    /\ pending # None => Latest(made, f, pending) = last[f]

\* The new state follows from the one whose calls were counted, so last is brought
\* up to date by the call alone; a call that repeats a step leaves the repeated step
\* behind as the next one's input, and its calls are the same.
LEMMA LastAfterRecord ==
  ASSUME Typed, LastHere, NEW call \in Calls, Recorded(call)
  PROVE  LastHere'
<1> SUFFICES ASSUME NEW f \in Functions
             PROVE  /\ Latest(made', f, current') = last'[f]
                    /\ pending' # None => Latest(made', f, pending') = last'[f]
  BY DEF LastHere, Functions
<1> DEFINE t == made
           u == made'
           n == Len(made) + 1
<1>1. Grown(t, u) /\ IsTree(t) /\ IsTree(u)
  BY DEF Recorded, Grown
<1>2. Len(t) \in Nat /\ Len(u) = n /\ DOMAIN u = 1..n
  BY <1>1, TreeFacts DEF Recorded
<1>3. Input \in Nodes(t) /\ Latest(t, f, Input) = last[f]
  BY DEF Typed, LastHere, Input, States, Nodes
<1>4. last'[f] = IF f = call.func THEN call.par ELSE last[f]
  BY HistoriesAssumption DEF Recorded, Typed, Functions
<1>5. u[n].input = Input /\ u[n].call = call /\ n \in DOMAIN u /\ n \in Nodes(u)
  BY <1>2 DEF Recorded, Nodes
<1> HIDE DEF t, u, n
<1>6. Latest(u, f, n) = IF call.func = f THEN call.par ELSE Latest(u, f, Input)
  BY <1>1, <1>5, LatestUnfolds
<1>7. Latest(u, f, Input) = last[f]
  BY <1>1, <1>3, LatestStable
<1>8. Latest(u, f, current') = last'[f]
  <2>1. current' = n
    BY DEF Recorded, n
  <2> QED
    BY <1>4, <1>6, <1>7, <2>1
<1>9. ASSUME pending' # None
      PROVE  Latest(u, f, pending') = last'[f]
  <2> DEFINE p == pending'
  <2>1. p \in DOMAIN t /\ t[p].input = Input /\ t[p].call = call
    BY <1>9 DEF Recorded, t
  <2>2. p \in Nodes(t)
    BY <1>1, <2>1, TreeFacts
  <2> HIDE DEF p
  <2>3. Latest(t, f, p) = IF call.func = f THEN call.par ELSE Latest(t, f, Input)
    BY <1>1, <2>1, <2>2, LatestUnfolds
  <2>4. Latest(u, f, p) = Latest(t, f, p)
    BY <1>1, <2>2, LatestStable
  <2> QED
    BY <1>3, <1>4, <2>3, <2>4 DEF p
<1> QED
  BY <1>8, <1>9 DEF u

\* checkout recomputes last from the greatest step of each function on the way.
LEMMA LastAfterCheckout ==
  ASSUME Typed, NEW s \in States, CheckedOut(s)
  PROVE  LastHere'
<1> SUFFICES ASSUME NEW f \in Functions
             PROVE  /\ Latest(made', f, current') = last'[f]
                    /\ pending' # None => Latest(made', f, pending') = last'[f]
  BY DEF LastHere, Functions
<1>1. current' = s /\ pending' = s /\ made' = made
  BY DEF CheckedOut
<1>2. last'[f] = IF CallsOf(f, s) = {} THEN None ELSE made[Max(CallsOf(f, s))].call.par
  BY DEF CheckedOut
<1>3. Latest(made, f, s) = IF CallsOn(made, f, s) = {} THEN None
                           ELSE made[Max(CallsOn(made, f, s))].call.par
  BY TreeNow, LatestIsLast DEF Typed
<1>4. CallsOf(f, s) = CallsOn(made, f, s)
  BY TreeNow
<1>5. Latest(made, f, s) = last'[f]
  BY <1>2, <1>3, <1>4
<1> QED
  BY <1>1, <1>5

\* With every row stored, load_last_step_params goes through the whole tree.
LEMMA LastParamsNow ==
  ASSUME Typed, LastHere
  PROVE  LastCallFound
<1> SUFFICES ASSUME stored = 2 * Len(made), NEW f \in Functions
             PROVE  LastParams(f, current) = last[f]
  BY DEF LastCallFound
<1>1. Len(made) \in Nat /\ DOMAIN made = 1..Len(made)
  BY TreeFacts DEF Typed
<1>2. GraphSteps(stored) = DOMAIN made
  BY <1>1 DEF GraphSteps
<1>3. LastParams(f, current) = Latest(made, f, current)
  BY <1>2 DEF LastParams, Latest, States, Nodes
<1> QED
  BY <1>3 DEF LastHere

-----------------------------------------------------------------------------
(* The reviewer *)

\* A sequence of states that goes from input to state and starts where the first k
\* rows do.
Walk(t, k, p) ==
  /\ p \in Seq(Nodes(t))
  /\ \A i \in 2..Len(p) : p[i] \in DOMAIN t /\ t[p[i]].input = p[i - 1]
  /\ Len(p) > 0 => p[1] \notin Known(t, k)

Reviewer == [path : Seq(Nat), index : Nat, rows : Nat, asked : Nat \cup {None}]

\* The reviewer's path is such a walk in the graph it read, its position is on it, and
\* is that of the state asked for.
Reviewed ==
  review # None =>
    /\ review \in Reviewer /\ Walk(made, review.rows, review.path)
    /\ review.index \in DOMAIN review.path
    /\ review.asked # None => review.path[review.index] = review.asked

\* States that are added later leave a walk a walk.
LEMMA WalkStable ==
  ASSUME NEW t, NEW u, Grown(t, u), NEW k \in Nat, NEW p, Walk(t, k, p)
  PROVE  Walk(u, k, p)
<1>1. IsTree(t) /\ IsTree(u) /\ Len(t) <= Len(u) /\ \A n \in DOMAIN t : u[n] = t[n]
  BY DEF Grown
<1>2. Len(t) \in Nat /\ Len(u) \in Nat /\ DOMAIN t = 1..Len(t) /\ DOMAIN u = 1..Len(u)
  BY <1>1, TreeFacts
<1>3. p \in Seq(Nodes(u)) /\ Len(p) \in Nat
  <2>1. Nodes(t) \subseteq Nodes(u) /\ p \in Seq(Nodes(t))
    BY <1>1, <1>2 DEF Nodes, Walk
  <2> QED
    BY <2>1
<1>4. ASSUME NEW i \in 2..Len(p)
      PROVE  p[i] \in DOMAIN u /\ u[p[i]].input = p[i - 1]
  <2>1. p[i] \in DOMAIN t /\ t[p[i]].input = p[i - 1]
    BY DEF Walk
  <2> QED
    BY <1>1, <1>2, <2>1
<1>5. ASSUME Len(p) > 0
      PROVE  p[1] \notin Known(u, k)
  <2>1. p[1] \notin Known(t, k) /\ p[1] \in 0..Len(t)
    BY <1>3, <1>5 DEF Walk, Nodes
  <2> QED
    BY <1>2, <2>1 DEF Known
<1> QED
  BY <1>3, <1>4, <1>5 DEF Walk

\* The end of the path for s is a state whose line s is on.
LEMMA TipLeadsThrough ==
  ASSUME Typed, NEW k \in Nat, NEW s \in GraphStates(k)
  PROVE  Tip(k, s) \in Nodes(made) /\ Contains(Line(made, k, Tip(k, s)), s)
<1> DEFINE T == {n \in GraphStates(k) : BranchOf(n) = BranchOf(s)}
           latest == Max(T)
<1>1. IsTree(made) /\ Len(made) \in Nat /\ \A m, n : Path(m, n) = Line(made, m, n)
  BY TreeFacts, TreeNow DEF Typed
<1>2. T \subseteq 0..Len(made) /\ T # {} /\ s \in Nodes(made)
  BY DEF GraphStates, States, Nodes
<1>3. latest \in Nodes(made)
  <2> HIDE DEF T
  <2>1. Max(T) \in T
    BY <1>1, <1>2, MaxOf
  <2> QED
    BY <1>2, <2>1 DEF Nodes
<1>4. Tip(k, s) = IF Contains(Path(k, latest), s) THEN latest ELSE s
  BY DEF Tip
<1> HIDE DEF latest
<1>5. CASE Contains(Path(k, latest), s)
  BY <1>1, <1>3, <1>4, <1>5
<1>6. CASE ~Contains(Path(k, latest), s)
  <2>1. Contains(Line(made, k, s), s)
    BY <1>1, <1>2, OnLine
  <2> QED
    BY <1>2, <1>4, <1>6, <2>1
<1> QED
  BY <1>5, <1>6

\* _plan puts the reviewer on a walk, at the state asked for.
LEMMA PlannedOnWalk ==
  ASSUME Typed, NEW k \in Nat, NEW path, Walk(made, k, path), NEW s \in GraphStates(k)
  PROVE  LET r == Planned(k, path, s)
         IN  /\ r \in Reviewer /\ r.rows = k /\ Walk(made, k, r.path)
             /\ r.index \in DOMAIN r.path /\ r.path[r.index] = s /\ r.asked = s
<1> DEFINE kept == IF Contains(path, s) THEN path ELSE Path(k, Tip(k, s))
           I == {i \in 1..Len(kept) : kept[i] = s}
           r == Planned(k, path, s)
<1>1. Walk(made, k, kept) /\ Contains(kept, s)
  <2>1. CASE Contains(path, s)
    BY <2>1
  <2>2. CASE ~Contains(path, s)
    <3>1. kept = Line(made, k, Tip(k, s))
      BY <2>2, TreeNow
    <3>2. Tip(k, s) \in Nodes(made) /\ Contains(Line(made, k, Tip(k, s)), s)
      BY TipLeadsThrough
    <3>3. Way(made, k, Tip(k, s), Line(made, k, Tip(k, s)))
      BY <3>2, LineIsWay DEF Typed
    <3>4. Walk(made, k, Line(made, k, Tip(k, s)))
      BY <3>3 DEF Way, Walk, Known
    <3> QED
      BY <3>1, <3>2, <3>4
  <2> QED
    BY <2>1, <2>2
<1>2. /\ r.path = kept /\ r.rows = k /\ r.asked = s /\ r.index = IF I # {} THEN Min(I) ELSE 0
      /\ r = [path |-> r.path, index |-> r.index, rows |-> r.rows, asked |-> r.asked]
  BY DEF Planned, SelectInSeq
<1> HIDE DEF kept, r
<1>3. Len(kept) \in Nat /\ DOMAIN kept = 1..Len(kept)
  BY <1>1 DEF Walk
<1>4. I # {} /\ I \in SUBSET Nat
  BY <1>1, <1>3 DEF Contains
<1>5. r.index \in I
  <2> HIDE DEF I
  <2> QED
    BY <1>2, <1>4, MinOf
<1>6. r \in Reviewer
  <2>1. kept \in Seq(Nat) /\ s \in Nat
    <3>1. Nodes(made) \subseteq Nat /\ kept \in Seq(Nodes(made)) /\ s \in Nodes(made)
      BY <1>1 DEF Walk, Nodes, GraphStates, States
    <3> QED
      BY <3>1
  <2>2. r.index \in Nat
    BY <1>4, <1>5
  <2> QED
    BY <1>2, <2>1, <2>2 DEF Reviewer
<1> QED
  BY <1>1, <1>2, <1>3, <1>5, <1>6 DEF r

\* review() plans a path from nothing.
LEMMA ReviewedAfterOpen ==
  ASSUME Typed, NEW s \in States, Open(s)
  PROVE  Reviewed'
<1>1. /\ s \in GraphStates(stored) /\ stored \in Nat /\ made' = made
      /\ review' = Planned(stored, <<>>, s)
  BY DEF Open, tree, Typed
<1>2. Walk(made, stored, <<>>)
  <2>1. /\ <<>> \in Seq(Nodes(made)) /\ Len(<<>>) = 0
        /\ ~(Len(<<>>) > 0) /\ \A i \in 2..Len(<<>>) : FALSE
    OBVIOUS
  <2> DEFINE p == <<>>
  <2>2. p \in Seq(Nodes(made)) /\ ~(Len(p) > 0) /\ \A i \in 2..Len(p) : FALSE
    BY <2>1
  <2> HIDE DEF p
  <2>3. Walk(made, stored, p)
    BY <2>2 DEF Walk
  <2> QED
    BY <2>3 DEF p
<1> DEFINE r == Planned(stored, <<>>, s)
<1>3. /\ r \in Reviewer /\ r.rows = stored /\ Walk(made, stored, r.path)
      /\ r.index \in DOMAIN r.path /\ r.path[r.index] = s /\ r.asked = s
  BY <1>1, <1>2, PlannedOnWalk
<1> HIDE DEF r
<1>4. review' = r
  BY <1>1 DEF r
<1> QED
  BY <1>1, <1>3, <1>4 DEF Reviewed

\* Moving along the path forgets the state asked for.
LEMMA ReviewedAfterMove ==
  ASSUME Reviewed, review # None, UNCHANGED made, NEW i, Move(i)
  PROVE  Reviewed'
<1> DEFINE r == [review EXCEPT !.index = i, !.asked = None]
<1>1. review \in Reviewer /\ Walk(made, review.rows, review.path) /\ i \in DOMAIN review.path
  BY DEF Reviewed, Move
<1>2. i \in Nat
  BY <1>1 DEF Reviewer
<1>3. /\ r \in Reviewer /\ r.path = review.path /\ r.rows = review.rows /\ r.index = i
      /\ r.asked = None
  BY <1>1, <1>2 DEF Reviewer
<1>4. review' = r
  BY DEF Move
<1> HIDE DEF r
<1> QED
  BY <1>1, <1>3, <1>4 DEF Reviewed

\* goto keeps the path or plans another, in the graph the reviewer read.
LEMMA ReviewedAfterGoto ==
  ASSUME Typed, Reviewed, review # None, UNCHANGED made, NEW s \in States, Goto(s)
  PROVE  Reviewed'
<1> DEFINE k == review.rows
           r == Planned(k, review.path, s)
<1>1. review \in Reviewer /\ Walk(made, k, review.path) /\ s \in GraphStates(k) /\ review' = r
  BY DEF Reviewed, Goto
<1>2. k \in Nat
  BY <1>1 DEF Reviewer
<1> HIDE DEF k
<1>3. /\ r \in Reviewer /\ r.rows = k /\ Walk(made, k, r.path)
      /\ r.index \in DOMAIN r.path /\ r.path[r.index] = s /\ r.asked = s
  BY <1>1, <1>2, PlannedOnWalk
<1> HIDE DEF r
<1> QED
  BY <1>1, <1>3 DEF Reviewed

\* A reviewer keeps its place while the history grows beside it.
LEMMA ReviewedBeside ==
  ASSUME Reviewed, Grown(made, made'), UNCHANGED review
  PROVE  Reviewed'
<1> SUFFICES ASSUME review # None
             PROVE  /\ review \in Reviewer /\ Walk(made', review.rows, review.path)
                    /\ review.index \in DOMAIN review.path
                    /\ review.asked # None => review.path[review.index] = review.asked
  BY DEF Reviewed
<1>1. /\ review \in Reviewer /\ Walk(made, review.rows, review.path)
      /\ review.index \in DOMAIN review.path
      /\ review.asked # None => review.path[review.index] = review.asked
  BY DEF Reviewed
<1>2. review.rows \in Nat
  BY <1>1 DEF Reviewer
<1>3. Walk(made', review.rows, review.path)
  BY <1>1, <1>2, WalkStable
<1> QED
  BY <1>1, <1>3

\* So the property about the reviewer holds.
LEMMA CursorNow ==
  ASSUME Reviewed
  PROVE  CursorOnPath
<1> SUFFICES ASSUME review # None
             PROVE  /\ review.index \in DOMAIN review.path
                    /\ \A i \in 2..Len(review.path) :
                         made[review.path[i]].input = review.path[i - 1]
                    /\ review.path[1] = 0 \/ review.path[1] \notin GraphSteps(review.rows)
                    /\ review.asked # None => review.path[review.index] = review.asked
  BY DEF CursorOnPath
<1>1. /\ review \in Reviewer /\ Walk(made, review.rows, review.path)
      /\ review.index \in DOMAIN review.path
      /\ review.asked # None => review.path[review.index] = review.asked
  BY DEF Reviewed
<1>2. Len(review.path) > 0
  BY <1>1 DEF Reviewer
<1>3. review.path[1] \notin GraphSteps(review.rows)
  BY <1>1, <1>2, TreeNow DEF Walk
<1> QED
  BY <1>1, <1>3 DEF Walk

-----------------------------------------------------------------------------
(* Curated copies *)

Own(t, n) == "own" \in t[n].rows

\* Back from s to the nearest state with an artifact row of its own.
Ancestors(t, s) ==
  LET up[n \in Nodes(t)] ==
        IF n = 0 THEN <<>>
        ELSE IF Own(t, n) THEN <<n>> ELSE Append(up[t[n].input], n)
  IN  up[s]

\* The chain to a state: none at the root, the state alone if it has a row of its own,
\* and otherwise the chain to its input with the state.
LEMMA BackUnfolds ==
  ASSUME NEW t, IsTree(t)
  PROVE  \A n \in Nodes(t) :
           Ancestors(t, n) = IF n = 0 THEN <<>>
                         ELSE IF Own(t, n) THEN <<n>> ELSE Append(Ancestors(t, t[n].input), n)
<1> DEFINE V == Seq(Nodes(t))
           Ends == {n \in Nodes(t) : n = 0 \/ Own(t, n)}
           rank == [n \in Nodes(t) |-> n]
           next == [n \in Nodes(t) |-> IF n = 0 THEN 0 ELSE t[n].input]
           base == [n \in Nodes(t) |-> IF n = 0 THEN <<>> ELSE <<n>>]
           step == [n \in Nodes(t) |-> [p \in V |-> Append(p, n)]]
           Is(up) == up = [n \in Nodes(t) |->
                       IF n = 0 THEN <<>>
                       ELSE IF Own(t, n) THEN <<n>> ELSE Append(up[t[n].input], n)]
<1>1. Len(t) \in Nat /\ DOMAIN t = 1..Len(t) /\ 0 \in Nodes(t)
  BY TreeFacts DEF Nodes
<1>2. \A n \in Nodes(t) : n # 0 => t[n].input \in Nodes(t) /\ t[n].input < n
  BY <1>1, TreeFacts DEF Nodes
<1>3. rank \in [Nodes(t) -> 0..Len(t)] /\ next \in [Nodes(t) -> Nodes(t)]
  BY <1>1, <1>2 DEF Nodes
<1>4. base \in [Nodes(t) -> V] /\ step \in [Nodes(t) -> [V -> V]]
  <2>1. \A n \in Nodes(t) : <<n>> \in V
    OBVIOUS
  <2>2. \A n \in Nodes(t) : \A p \in V : Append(p, n) \in V
    OBVIOUS
  <2>3. <<>> \in V
    OBVIOUS
  <2> HIDE DEF V
  <2> QED
    BY <2>1, <2>2, <2>3
<1>5. \A n \in Nodes(t) : n \notin Ends => rank[next[n]] < rank[n]
  BY <1>2
<1>6. PICK f \in [Nodes(t) -> V] :
        \A n \in Nodes(t) : f[n] = IF n \in Ends THEN base[n] ELSE step[n][f[next[n]]]
  <2> HIDE DEF V, Ends, rank, next, base, step
  <2>1. Recursion(Len(t), Nodes(t), V, Ends, rank, next, base, step)
    BY <1>1, <1>3, <1>4, <1>5 DEF Recursion
  <2> QED
    BY <2>1, RecursionExists
<1>7. ASSUME NEW n \in Nodes(t)
      PROVE  f[n] = IF n = 0 THEN <<>>
                    ELSE IF Own(t, n) THEN <<n>> ELSE Append(f[t[n].input], n)
  <2>1. CASE n \notin Ends
    <3>1. n # 0 /\ ~Own(t, n) /\ next[n] = t[n].input /\ t[n].input \in Nodes(t)
      BY <2>1, <1>2
    <3>2. f[t[n].input] \in V
      BY <3>1
    <3>3. step[n][f[t[n].input]] = Append(f[t[n].input], n)
      BY <3>2
    <3> HIDE DEF V, Ends, rank, next, base, step
    <3> QED
      BY <1>6, <2>1, <3>1, <3>3
  <2>2. CASE n \in Ends
    <3>1. n = 0 \/ Own(t, n)
      BY <2>2
    <3>2. base[n] = IF n = 0 THEN <<>> ELSE <<n>>
      OBVIOUS
    <3> HIDE DEF V, Ends, rank, next, base, step
    <3> QED
      BY <1>6, <2>2, <3>1, <3>2
  <2> QED
    BY <2>1, <2>2
<1>8. Is(f)
  <2>1. f = [n \in Nodes(t) |-> f[n]]
    OBVIOUS
  <2> QED
    BY <1>7, <2>1
<1> DEFINE up == CHOOSE g : Is(g)
<1>9. Is(up)
  <2> HIDE DEF Is
  <2> QED
    BY <1>8
<1>10. \A n \in Nodes(t) :
         up[n] = IF n = 0 THEN <<>>
                 ELSE IF Own(t, n) THEN <<n>> ELSE Append(up[t[n].input], n)
  <2> HIDE DEF up
  <2> QED
    BY <1>9
<1>11. \A n : Ancestors(t, n) = up[n]
  BY DEF Ancestors
<1> HIDE DEF up
<1> QED
  BY <1>10, <1>11

\* c is what is left of the line p after its first d states.
Suffix(c, p, d) == Len(p) = d + Len(c) /\ \A i \in 1..Len(c) : c[i] = p[d + i]

\* What a chain to n is: the end of the line to it, and only its first state can have a
\* row of its own.
Chained(t, n, c) ==
  /\ c \in Seq(Nodes(t)) /\ \A i \in 1..Len(c) : c[i] # 0
  /\ \E d \in Nat : Suffix(c, Line(t, 2 * Len(t), n), d)
  /\ \A i \in 2..Len(c) : ~Own(t, c[i])

\* A chain is extended by a state that has no row of its own.
LEMMA ChainedExtended ==
  ASSUME NEW t, IsTree(t), NEW n \in DOMAIN t, ~Own(t, n),
         NEW c, Chained(t, t[n].input, c)
  PROVE  Chained(t, n, Append(c, n))
<1> DEFINE k == 2 * Len(t)
           p == Line(t, k, t[n].input)
           q == Line(t, k, n)
           e == Append(c, n)
<1>1. PICK d \in Nat : Suffix(c, p, d)
  BY DEF Chained
<1>2. n \in Nodes(t) /\ t[n].input \in Nodes(t) /\ n \in Known(t, k)
  BY TreeFacts DEF Known
<1>3. p \in Seq(Nodes(t)) /\ q = Append(p, n)
  BY <1>2, LineUnfolds
<1>4. /\ c \in Seq(Nodes(t)) /\ (\A i \in 1..Len(c) : c[i] # 0) /\ n # 0
      /\ \A i \in 2..Len(c) : ~Own(t, c[i])
  BY TreeFacts DEF Chained
<1> HIDE DEF k, p, q, e
<1>5. /\ Len(p) \in Nat /\ Len(q) = Len(p) + 1
      /\ \A i \in 1..Len(p) : q[i] = p[i]
      /\ q[Len(p) + 1] = n
  BY <1>2, <1>3, AppendAt
<1>6. /\ e \in Seq(Nodes(t)) /\ Len(c) \in Nat /\ Len(e) = Len(c) + 1
      /\ \A i \in 1..Len(c) : e[i] = c[i]
      /\ e[Len(c) + 1] = n
  BY <1>2, <1>4, AppendAt DEF e
<1>7. Len(p) = d + Len(c) /\ \A i \in 1..Len(c) : c[i] = p[d + i]
  BY <1>1 DEF Suffix
<1>8. ASSUME NEW i \in 1..Len(e)
      PROVE  e[i] = q[d + i] /\ e[i] # 0 /\ (i > 1 => ~Own(t, e[i]))
  <2>1. CASE i = Len(c) + 1
    <3>1. d + i = Len(p) + 1
      BY <1>5, <1>6, <1>7, <2>1
    <3> QED
      BY <1>4, <1>5, <1>6, <2>1, <3>1
  <2>2. CASE i # Len(c) + 1
    <3>1. i \in 1..Len(c) /\ d + i \in 1..Len(p) /\ (i > 1 => i \in 2..Len(c))
      BY <1>6, <1>7, <2>2
    <3> QED
      BY <1>4, <1>5, <1>6, <1>7, <3>1
  <2> QED
    BY <2>1, <2>2
<1>9. Suffix(e, q, d)
  BY <1>5, <1>6, <1>7, <1>8 DEF Suffix
<1>10. \A i \in 2..Len(e) : ~Own(t, e[i])
  BY <1>6, <1>8
<1> QED
  BY <1>6, <1>8, <1>9, <1>10 DEF Chained, e, q, k

\* load_ancestor_chain returns a chain.
LEMMA BackIsChain ==
  ASSUME NEW t, IsTree(t)
  PROVE  \A n \in Nodes(t) : Chained(t, n, Ancestors(t, n))
<1> DEFINE S == {n \in Nodes(t) : Chained(t, n, Ancestors(t, n))}
           k == 2 * Len(t)
<1>1. Len(t) \in Nat /\ DOMAIN t = 1..Len(t)
  BY TreeFacts
<1>2. ASSUME NEW n \in 0..Len(t), \A j \in 0..Len(t) : j < n => j \in S
      PROVE  n \in S
  <2>1. n \in Nodes(t) /\ n \in Nat
    BY <1>1 DEF Nodes
  <2>2. Ancestors(t, n) = IF n = 0 THEN <<>>
                      ELSE IF Own(t, n) THEN <<n>> ELSE Append(Ancestors(t, t[n].input), n)
    BY <2>1, BackUnfolds
  <2> DEFINE q == Line(t, k, n)
  <2>3. q \in Seq(Nodes(t)) /\ Len(q) \in 1..(n + 1) /\ q[Len(q)] = n
    BY <2>1, LineIsWay DEF Way
  <2>4. CASE n = 0
    <3> DEFINE c == <<>>
    <3>1. c \in Seq(Nodes(t)) /\ Len(c) = 0 /\ (\A i \in 1..0 : FALSE) /\ \A i \in 2..0 : FALSE
      OBVIOUS
    <3> HIDE DEF c
    <3>2. Suffix(c, q, Len(q)) /\ Len(q) \in Nat
      <4> HIDE DEF q
      <4> QED
        BY <2>3, <3>1 DEF Suffix
    <3>3. Chained(t, n, c)
      BY <3>1, <3>2 DEF Chained
    <3> QED
      BY <2>1, <2>2, <2>4, <3>3 DEF c
  <2>5. CASE n # 0 /\ Own(t, n)
    <3> DEFINE c == <<n>>
    <3>1. c \in Seq(Nodes(t)) /\ Len(c) = 1 /\ c[1] = n /\ (\A i \in 1..1 : i = 1) /\ \A i \in 2..1 : FALSE
      BY <2>1
    <3> HIDE DEF c
    <3>2. Suffix(c, q, Len(q) - 1) /\ Len(q) - 1 \in Nat
      <4> HIDE DEF q
      <4>1. (Len(q) - 1) + 1 = Len(q)
        BY <2>3
      <4> QED
        BY <2>3, <3>1, <4>1 DEF Suffix
    <3>3. (\A i \in 1..Len(c) : c[i] # 0) /\ \A i \in 2..Len(c) : ~Own(t, c[i])
      <4> HIDE DEF q
      <4> QED
        BY <2>5, <3>1
    <3>4. \E d \in Nat : Suffix(c, q, d)
      <4> HIDE DEF q
      <4> QED
        BY <3>2
    <3>5. Chained(t, n, c)
      BY <3>1, <3>3, <3>4 DEF Chained
    <3> QED
      BY <2>1, <2>2, <2>5, <3>5 DEF c
  <2>6. CASE n # 0 /\ ~Own(t, n)
    <3>1. n \in DOMAIN t
      BY <1>1, <2>6
    <3>2. t[n].input \in 0..Len(t) /\ t[n].input < n
      BY <3>1, TreeFacts DEF Nodes
    <3>3. Chained(t, t[n].input, Ancestors(t, t[n].input))
      BY <1>2, <3>2
    <3>4. Chained(t, n, Append(Ancestors(t, t[n].input), n))
      BY <2>6, <3>1, <3>3, ChainedExtended
    <3> QED
      BY <2>1, <2>2, <2>6, <3>4
  <2> QED
    BY <2>4, <2>5, <2>6
<1> HIDE DEF S
<1>3. \A i \in 0..Len(t) : i \in S
  BY <1>1, <1>2, Smaller
<1> QED
  BY <1>3 DEF S, Nodes

\* p is the end of the way to the state s, and its first state is the only one with a
\* row of its own.
Stretch(t, k, s, p) ==
  /\ s \in Known(t, k)
  /\ p \in Seq(DOMAIN t) /\ Len(p) >= 1 /\ p[Len(p)] = s
  /\ \E d \in 0..MaxStates : p = SubSeq(Line(t, k, s), d + 1, d + Len(p))
  /\ \A i \in 1..Len(p) : Own(t, p[i]) <=> i = 1

\* The rows copied so far: the states of the way p in order, and for all or all but
\* the last the artifact row.
Part(t, p, c) ==
  /\ Len(c.rows) <= Len(c.from) /\ Len(c.from) <= Len(p)
  /\ \A i \in 1..Len(c.from) : c.from[i] = p[i]
  /\ \A i \in 1..Len(c.rows) : "own" \in c.rows[i] <=> Own(t, c.from[i])

\* A copy with an active state is all of the way to its finding.
Whole(t, k, c) ==
  c.active # 0 =>
    /\ Stretch(t, k, c.finding, c.from)
    /\ c.active = Len(c.from) /\ c.active = Len(c.rows)
    /\ Part(t, c.from, c)

CopyRecord == [finding : Nat, from : Seq(Nat), rows : Seq(SUBSET {"own", "link"}), active : Nat]
CopyingRecord == [finding : Nat, steps : Seq(Nat), into : Nat]

\* The copy being made goes along the way to its finding.
UnderWay(t, k, w) ==
  w # None =>
    /\ w \in CopyingRecord /\ w.into \in 0..Len(copies)
    /\ Stretch(t, k, w.finding, w.steps)
    /\ w.into # 0 => /\ copies[w.into].finding = w.finding /\ copies[w.into].active = 0
                     /\ Part(t, w.steps, copies[w.into])

Copied ==
  /\ copies \in Seq(CopyRecord)
  /\ \A i \in DOMAIN copies : Whole(made, stored, copies[i])
  /\ UnderWay(made, stored, copying)

\* A way stays what it is while the tree grows and rows are stored.
LEMMA StretchStable ==
  ASSUME NEW t, NEW u, Grown(t, u), NEW k \in Nat, NEW j \in Nat, k <= j,
         NEW s, NEW p, Stretch(t, k, s, p)
  PROVE  Stretch(u, j, s, p)
<1>1. /\ s \in Known(t, k) /\ p \in Seq(DOMAIN t) /\ Len(p) >= 1 /\ p[Len(p)] = s
      /\ \E d \in 0..MaxStates : p = SubSeq(Line(t, k, s), d + 1, d + Len(p))
      /\ \A i \in 1..Len(p) : Own(t, p[i]) <=> i = 1
  BY DEF Stretch
<1>2. IsTree(t) /\ IsTree(u) /\ Len(t) <= Len(u) /\ \A n \in DOMAIN t : u[n] = t[n]
  BY DEF Grown
<1>3. /\ Len(t) \in Nat /\ Len(u) \in Nat /\ DOMAIN t = 1..Len(t) /\ DOMAIN u = 1..Len(u)
      /\ s \in Nodes(t)
  BY <1>1, <1>2, TreeFacts DEF Known
<1>4. s \in Known(u, j) /\ \A n \in 1..s : 2 * n <= k <=> 2 * n <= j
  <2>1. s \in 1..Len(t) /\ 2 * s <= k
    BY <1>1, <1>3 DEF Known
  <2>2. s \in DOMAIN u /\ 2 * s <= j
    BY <1>2, <1>3, <2>1
  <2>3. \A n \in 1..s : 2 * n <= k /\ 2 * n <= j
    BY <2>1
  <2> QED
    BY <2>2, <2>3 DEF Known
<1>5. Line(u, j, s) = Line(t, k, s)
  <2>1. \A n \in 1..s : u[n] = t[n]
    BY <1>1, <1>2, <1>3 DEF Known
  <2>2. s \in Nodes(t) /\ \A n \in 1..s : 2 * n <= k <=> 2 * n <= j
    BY <1>3, <1>4
  <2> QED
    BY <1>2, <1>3, <2>1, <2>2, SameLine
<1>6. DOMAIN t \subseteq DOMAIN u
  BY <1>2, <1>3
<1>7. p \in Seq(DOMAIN u)
  BY <1>1, <1>6
<1>8. \A i \in 1..Len(p) : Own(u, p[i]) <=> i = 1
  <2>1. \A i \in 1..Len(p) : p[i] \in DOMAIN t
    BY <1>1
  <2> QED
    BY <1>1, <1>2, <2>1 DEF Own
<1> QED
  BY <1>1, <1>4, <1>5, <1>7, <1>8 DEF Stretch

\* So do the rows copied along it.
LEMMA PartStable ==
  ASSUME NEW t, NEW u, Grown(t, u), NEW p \in Seq(DOMAIN t), NEW c \in CopyRecord, Part(t, p, c)
  PROVE  Part(u, p, c)
<1>1. \A n \in DOMAIN t : Own(u, n) <=> Own(t, n)
  BY DEF Grown, Own
<1>2. ASSUME NEW i \in 1..Len(c.rows)
      PROVE  c.from[i] \in DOMAIN t
  <2>1. Len(c.rows) \in Nat /\ Len(c.from) \in Nat /\ Len(p) \in Nat
    BY DEF CopyRecord
  <2>2. i \in 1..Len(c.from) /\ i \in 1..Len(p) /\ c.from[i] = p[i]
    BY <2>1 DEF Part
  <2> QED
    BY <2>2
<1> QED
  BY <1>1, <1>2 DEF Part

\* Copies made earlier, and the one being made, stay what they are while the history
\* grows.
LEMMA CopiedBeside ==
  ASSUME Copied, Grown(made, made'), stored \in Nat, stored' \in Nat, stored <= stored',
         UNCHANGED <<copies, copying>>
  PROVE  Copied'
<1>1. ASSUME NEW i \in DOMAIN copies
      PROVE  Whole(made', stored', copies[i])
  <2>1. Whole(made, stored, copies[i]) /\ copies[i] \in CopyRecord
    BY DEF Copied
  <2>2. SUFFICES ASSUME copies[i].active # 0
                 PROVE  Whole(made', stored', copies[i])
    BY DEF Whole
  <2>3. /\ Stretch(made, stored, copies[i].finding, copies[i].from)
        /\ Part(made, copies[i].from, copies[i])
        /\ copies[i].active = Len(copies[i].from) /\ copies[i].active = Len(copies[i].rows)
    BY <2>1, <2>2 DEF Whole
  <2>4. Stretch(made', stored', copies[i].finding, copies[i].from)
    BY <2>3, StretchStable
  <2>5. copies[i].from \in Seq(DOMAIN made)
    BY <2>3 DEF Stretch
  <2>6. Part(made', copies[i].from, copies[i])
    BY <2>1, <2>3, <2>5, PartStable
  <2> QED
    BY <2>3, <2>4, <2>6 DEF Whole
<1>2. UnderWay(made', stored', copying)
  <2>1. SUFFICES ASSUME copying # None
                 PROVE  UnderWay(made', stored', copying)
    BY DEF UnderWay
  <2>2. /\ copying \in CopyingRecord /\ copying.into \in 0..Len(copies)
        /\ Stretch(made, stored, copying.finding, copying.steps)
        /\ copying.into # 0 => /\ copies[copying.into].finding = copying.finding
                               /\ copies[copying.into].active = 0
                               /\ Part(made, copying.steps, copies[copying.into])
    BY <2>1 DEF Copied, UnderWay
  <2>3. Stretch(made', stored', copying.finding, copying.steps)
    BY <2>2, StretchStable
  <2>4. copying.steps \in Seq(DOMAIN made)
    BY <2>2 DEF Stretch
  <2>5. ASSUME copying.into # 0
        PROVE  Part(made', copying.steps, copies[copying.into])
    <3>1. copies[copying.into] \in CopyRecord
      <4>1. copying.into \in DOMAIN copies
        BY <2>2, <2>5 DEF Copied
      <4> QED
        BY <4>1 DEF Copied
    <3> QED
      BY <2>2, <2>4, <2>5, <3>1, PartStable
  <2> QED
    BY <2>2, <2>3, <2>5 DEF UnderWay
<1>3. UnderWay(made, stored, copying)' <=> UnderWay(made', stored', copying)
  BY DEF UnderWay
<1> QED
  BY <1>1, <1>2, <1>3 DEF Copied

\* A sequence that is a suffix of another is a part of it.
LEMMA SuffixIsPart ==
  ASSUME NEW A, NEW c \in Seq(A), NEW p \in Seq(A), NEW d \in Nat, Suffix(c, p, d)
  PROVE  c = SubSeq(p, d + 1, d + Len(c))
<1> DEFINE q == SubSeq(p, d + 1, d + Len(c))
<1>1. Len(c) \in Nat /\ Len(p) = d + Len(c) /\ \A i \in 1..Len(c) : c[i] = p[d + i]
  BY DEF Suffix
<1>2. \A i \in (d + 1)..(d + Len(c)) : p[i] \in A
  BY <1>1
<1>3. /\ q \in Seq(A)
      /\ Len(q) = IF d + 1 <= d + Len(c) THEN (d + Len(c)) - (d + 1) + 1 ELSE 0
      /\ \A i \in 1..((d + Len(c)) - (d + 1) + 1) : q[i] = p[(d + 1) + i - 1]
  <2>1. d + 1 \in Int /\ d + Len(c) \in Int
    BY <1>1
  <2> QED
    BY <1>2, <2>1, SubSeqProperties
<1> HIDE DEF q
<1>4. Len(q) = Len(c)
  BY <1>1, <1>3
<1>5. ASSUME NEW i \in 1..Len(c)
      PROVE  c[i] = q[i]
  <2>1. i \in 1..((d + Len(c)) - (d + 1) + 1) /\ (d + 1) + i - 1 = d + i
    BY <1>1
  <2> QED
    BY <1>1, <1>3, <2>1
<1> QED
  BY <1>3, <1>4, <1>5, SeqEqual DEF q

\* The chain to a state that can be copied is such a way.
LEMMA ChainIsStretch ==
  ASSUME Typed, NEW s \in States, CanCopy(s)
  PROVE  Stretch(made, stored, s, Chain(s)) /\ Chain(s) \in Seq(Nat) /\ s \in Nat
<1> DEFINE C == Chain(s)
           p == Line(made, 2 * Len(made), s)
<1>1. IsTree(made) /\ Len(made) \in Nat /\ DOMAIN made = 1..Len(made) /\ s \in Nodes(made)
  BY TreeFacts DEF Typed, States, Nodes
<1>2. C = Ancestors(made, s)
  BY DEF Chain, Ancestors, States, Nodes, HasOwn, Own
<1>3. C \in Seq(Nodes(made)) /\ (\A i \in 1..Len(C) : C[i] # 0) /\ \A i \in 2..Len(C) : ~Own(made, C[i])
  BY <1>1, <1>2, BackIsChain DEF Chained
<1>4. PICK d \in Nat : Suffix(C, p, d)
  BY <1>1, <1>2, BackIsChain DEF Chained
<1>5. p \in Seq(Nodes(made)) /\ Len(p) \in 1..(s + 1) /\ p[Len(p)] = s
  BY <1>1, LineIsWay DEF Way
<1>6. s \in Known(made, stored) /\ HasOwn(Head(C)) /\ C # <<>>
  BY TreeNow DEF CanCopy
<1>7. p = Line(made, stored, s)
  <2>1. stored \in Nat /\ 2 * s <= stored /\ s \in 1..Len(made)
    BY <1>1, <1>6 DEF Typed, Known
  <2>2. \A n \in 1..s : 2 * n <= stored <=> 2 * n <= 2 * Len(made)
    BY <1>1, <2>1
  <2> QED
    BY <1>1, <2>1, <2>2, SameLine
<1> HIDE DEF C, p
<1>8. Len(C) \in Nat /\ Len(p) = d + Len(C) /\ \A i \in 1..Len(C) : C[i] = p[d + i]
  BY <1>3, <1>4 DEF Suffix
<1>9. Len(C) >= 1 /\ Head(C) = C[1]
  BY <1>3, <1>6
<1>10. C[Len(C)] = s
  BY <1>5, <1>8, <1>9
<1>11. d \in 0..MaxStates
  <2>1. s <= MaxStates
    BY <1>1, HistoriesAssumption DEF Typed, Nodes
  <2> QED
    BY <1>1, <1>5, <1>8, <1>9, <2>1, HistoriesAssumption DEF Nodes
<1>12. C = SubSeq(p, d + 1, d + Len(C))
  BY <1>3, <1>4, <1>5, SuffixIsPart
<1>13. \A i \in 1..Len(C) : Own(made, C[i]) <=> i = 1
  <2>1. Own(made, C[1])
    BY <1>6, <1>9 DEF HasOwn, Own
  <2> QED
    BY <1>3, <1>8, <2>1
<1>14. C \in Seq(DOMAIN made) /\ C \in Seq(Nat)
  <2>1. \A i \in 1..Len(C) : C[i] \in DOMAIN made /\ C[i] \in Nat
    BY <1>1, <1>3 DEF Nodes
  <2> QED
    BY <1>3, <2>1
<1>15. s \in Nat
  BY <1>1 DEF Nodes
<1>16. Stretch(made, stored, s, C)
  BY <1>6, <1>7, <1>9, <1>10, <1>11, <1>12, <1>13, <1>14 DEF Stretch
<1> QED
  BY <1>14, <1>15, <1>16 DEF C

\* The copy is begun.
LEMMA CopiedAfterRead ==
  ASSUME Typed, Copied, NEW s \in States, ReadChain(s)
  PROVE  Copied'
<1>1. /\ CanCopy(s) /\ made' = made /\ stored' = stored /\ copies' = copies
      /\ copying' = [finding |-> s, steps |-> Chain(s), into |-> 0]
  BY DEF ReadChain, tree
<1>2. Stretch(made, stored, s, Chain(s)) /\ Chain(s) \in Seq(Nat) /\ s \in Nat
  BY <1>1, ChainIsStretch
<1>3. /\ copying'.finding = s /\ copying'.steps = Chain(s) /\ copying'.into = 0
      /\ copying' \in CopyingRecord
  BY <1>1, <1>2 DEF CopyingRecord
<1>4. 0 \in 0..Len(copies')
  BY <1>1 DEF Copied
<1>5. UnderWay(made, stored, copying)'
  BY <1>1, <1>2, <1>3, <1>4 DEF UnderWay
<1> QED
  BY <1>1, <1>5 DEF Copied

\* A statement that changes one copy leaves the others alone.
LEMMA OneCopied ==
  ASSUME Copied, NEW w \in DOMAIN copies, NEW c \in CopyRecord,
         UNCHANGED <<made, stored>>, copies' = [copies EXCEPT ![w] = c],
         Whole(made, stored, c)
  PROVE  /\ copies' \in Seq(CopyRecord) /\ Len(copies') = Len(copies) /\ copies'[w] = c
         /\ \A i \in DOMAIN copies' : Whole(made', stored', copies'[i])
<1>1. copies \in Seq(CopyRecord) /\ \A i \in DOMAIN copies : Whole(made, stored, copies[i])
  BY DEF Copied
<1>2. copies' \in Seq(CopyRecord) /\ Len(copies') = Len(copies) /\ DOMAIN copies' = DOMAIN copies
  BY <1>1
<1>3. \A i \in DOMAIN copies : copies'[i] = IF i = w THEN c ELSE copies[i]
  BY <1>1
<1> QED
  BY <1>1, <1>2, <1>3

\* What is known of the copy under way.
LEMMA CopyAtWork ==
  ASSUME Copied, copying # None
  PROVE  /\ copying \in CopyingRecord /\ copying.into \in 0..Len(copies) /\ Len(copies) \in Nat
         /\ Stretch(made, stored, copying.finding, copying.steps)
         /\ copying.into # 0 =>
              /\ copying.into \in DOMAIN copies /\ copies[copying.into] \in CopyRecord
              /\ copies[copying.into].finding = copying.finding
              /\ copies[copying.into].active = 0
              /\ Part(made, copying.steps, copies[copying.into])
<1>1. /\ copying \in CopyingRecord /\ copying.into \in 0..Len(copies) /\ copies \in Seq(CopyRecord)
      /\ Stretch(made, stored, copying.finding, copying.steps)
      /\ copying.into # 0 => /\ copies[copying.into].finding = copying.finding
                             /\ copies[copying.into].active = 0
                             /\ Part(made, copying.steps, copies[copying.into])
  BY DEF Copied, UnderWay
<1>2. copying.into # 0 => copying.into \in DOMAIN copies
  BY <1>1
<1> QED
  BY <1>1, <1>2

\* The rows of a new history are those of no step.
LEMMA CopiedAfterHistory ==
  ASSUME Copied, copying # None, NewHistory, UNCHANGED <<made, stored>>
  PROVE  Copied'
<1> DEFINE c == [finding |-> copying.finding, from |-> <<>>, rows |-> <<>>, active |-> 0]
           n == Len(copies) + 1
<1>1. /\ copying \in CopyingRecord /\ Len(copies) \in Nat /\ copies \in Seq(CopyRecord)
      /\ Stretch(made, stored, copying.finding, copying.steps)
      /\ \A i \in DOMAIN copies : Whole(made, stored, copies[i])
  BY CopyAtWork DEF Copied
<1>2. copies' = Append(copies, c) /\ copying' = [copying EXCEPT !.into = Len(copies')]
  BY DEF NewHistory
<1>3. /\ c \in CopyRecord /\ c.finding = copying.finding /\ c.active = 0
      /\ Len(c.from) = 0 /\ Len(c.rows) = 0
  <2>1. copying.finding \in Nat
    BY <1>1 DEF CopyingRecord
  <2>2. <<>> \in Seq(Nat) /\ <<>> \in Seq(SUBSET {"own", "link"}) /\ Len(<<>>) = 0
    OBVIOUS
  <2> QED
    BY <2>1, <2>2 DEF CopyRecord
<1> HIDE DEF c
<1>4. /\ copies' \in Seq(CopyRecord) /\ Len(copies') = n
      /\ \A i \in 1..Len(copies) : copies'[i] = copies[i]
      /\ copies'[n] = c
  BY <1>1, <1>2, <1>3, AppendAt
<1>5. /\ copying'.finding = copying.finding /\ copying'.steps = copying.steps /\ copying'.into = n
      /\ copying' \in CopyingRecord
  <2>1. copying' = [copying EXCEPT !.into = n]
    BY <1>2, <1>4
  <2>2. n \in Nat
    BY <1>1
  <2> HIDE DEF n
  <2> QED
    BY <1>1, <2>1, <2>2 DEF CopyingRecord
<1>6. Part(made, copying.steps, c)
  <2>1. Len(copying.steps) >= 1 /\ (\A i \in 1..0 : FALSE)
    BY <1>1 DEF Stretch
  <2>2. Len(copying.steps) \in Nat
    BY <1>1 DEF CopyingRecord
  <2> QED
    BY <1>3, <2>1, <2>2 DEF Part
<1>7. UnderWay(made, stored, copying)'
  <2>1. n \in 0..Len(copies')
    BY <1>1, <1>4
  <2> QED
    BY <1>1, <1>3, <1>4, <1>5, <1>6, <2>1 DEF UnderWay
<1>8. ASSUME NEW i \in DOMAIN copies'
      PROVE  Whole(made', stored', copies'[i])
  <2>1. CASE i = n
    BY <1>3, <1>4, <2>1 DEF Whole
  <2>2. CASE i # n
    <3>1. i \in 1..Len(copies) /\ i \in DOMAIN copies
      BY <1>1, <1>4, <2>2
    <3> QED
      BY <1>1, <1>4, <3>1
  <2> QED
    BY <2>1, <2>2
<1> QED
  BY <1>4, <1>7, <1>8 DEF Copied

\* A statement about the copy under way keeps what is known if the copy still goes
\* along the way to its finding.
LEMMA CopiedOn ==
  ASSUME Copied, copying # None, copying.into # 0, NEW c \in CopyRecord,
         UNCHANGED <<made, stored, copying>>, copies' = [copies EXCEPT ![copying.into] = c],
         c.finding = copying.finding, c.active = 0, Part(made, copying.steps, c)
  PROVE  Copied'
<1>1. /\ copying \in CopyingRecord /\ copying.into \in 0..Len(copies) /\ copying.into \in DOMAIN copies
      /\ Stretch(made, stored, copying.finding, copying.steps)
  BY CopyAtWork
<1>2. Whole(made, stored, c)
  BY DEF Whole
<1>3. /\ copies' \in Seq(CopyRecord) /\ Len(copies') = Len(copies) /\ copies'[copying.into] = c
      /\ \A i \in DOMAIN copies' : Whole(made', stored', copies'[i])
  BY <1>1, <1>2, OneCopied
<1>4. UnderWay(made, stored, copying)'
  BY <1>1, <1>3 DEF UnderWay
<1> QED
  BY <1>3, <1>4 DEF Copied

\* The next state of the way is copied.
LEMMA CopiedAfterStep ==
  ASSUME Copied, copying # None, CopyStep, UNCHANGED <<made, stored>>
  PROVE  Copied'
<1> DEFINE w == copying.into
           p == copying.steps
           o == copies[w]
           n == Len(o.from) + 1
           c == [o EXCEPT !.from = Append(o.from, p[n])]
<1>1. /\ w # 0 /\ Len(o.rows) = Len(o.from) /\ Len(o.from) < Len(p) /\ copying' = copying
      /\ copies' = [copies EXCEPT ![w].from = Append(o.from, p[n])]
  BY DEF CopyStep
<1>2. /\ o \in CopyRecord /\ o.finding = copying.finding /\ o.active = 0
      /\ Part(made, p, o) /\ p \in Seq(Nat) /\ w \in DOMAIN copies
  BY <1>1, CopyAtWork DEF CopyingRecord
<1>3. copies' = [copies EXCEPT ![w] = c]
  BY <1>1, <1>2
<1>4. c.finding = o.finding /\ c.active = o.active /\ c.rows = o.rows /\ c.from = Append(o.from, p[n])
  BY <1>2 DEF CopyRecord
<1>5. o.from \in Seq(Nat) /\ Len(o.from) \in Nat /\ Len(p) \in Nat /\ p[n] \in Nat
  <2>1. o.from \in Seq(Nat) /\ Len(o.from) \in Nat /\ Len(p) \in Nat
    BY <1>2 DEF CopyRecord
  <2>2. n \in 1..Len(p)
    BY <1>1, <2>1
  <2> HIDE DEF p, n, o
  <2> QED
    BY <1>2, <2>1, <2>2
<1>6. c \in CopyRecord
  <2>1. c.from \in Seq(Nat)
    BY <1>4, <1>5
  <2> QED
    BY <1>2, <2>1 DEF CopyRecord
<1>7. /\ Len(c.from) = n /\ c.from[n] = p[n] /\ \A i \in 1..Len(o.from) : c.from[i] = o.from[i]
  <2> HIDE DEF c, p, o
  <2> QED
    BY <1>4, <1>5, AppendAt
<1>8. Part(made, p, c)
  <2> HIDE DEF c, p, o
  <2>1. Len(c.rows) <= Len(c.from) /\ Len(c.from) <= Len(p)
    BY <1>1, <1>4, <1>5, <1>7
  <2>2. ASSUME NEW i \in 1..Len(c.from)
        PROVE  c.from[i] = p[i]
    <3>1. CASE i = n
      BY <1>7, <3>1
    <3>2. CASE i # n
      <4>1. i \in 1..Len(o.from)
        BY <1>5, <1>7, <3>2
      <4> QED
        BY <1>2, <1>7, <4>1 DEF Part
    <3> QED
      BY <3>1, <3>2
  <2>3. \A i \in 1..Len(c.rows) : "own" \in c.rows[i] <=> Own(made, c.from[i])
    BY <1>1, <1>2, <1>4, <1>7 DEF Part
  <2> QED
    BY <2>1, <2>2, <2>3 DEF Part
<1> HIDE DEF c
<1> QED
  BY <1>1, <1>2, <1>3, <1>4, <1>6, <1>8, CopiedOn

\* The artifact row copied for a state has data of its own if the state has.
LEMMA PickedOwn ==
  ASSUME IsTree(made), NEW n \in DOMAIN made
  PROVE  Picked(n) \in SUBSET {"own", "link"} /\ ("own" \in Picked(n) <=> Own(made, n))
<1>1. made[n].rows \in SUBSET {"own", "link"}
  BY TreeFacts
<1> QED
  BY <1>1 DEF Picked, HasOwn, Own

\* The artifact row of the state copied last.
LEMMA CopiedAfterArtifact ==
  ASSUME Typed, Copied, copying # None, CopyArtifact, UNCHANGED <<made, stored>>
  PROVE  Copied'
<1> DEFINE w == copying.into
           p == copying.steps
           o == copies[w]
           m == Len(o.rows) + 1
           c == [o EXCEPT !.rows = Append(o.rows, Picked(o.from[m]))]
<1>1. /\ w # 0 /\ Len(o.rows) < Len(o.from) /\ copying' = copying
      /\ copies' = [copies EXCEPT ![w].rows = Append(o.rows, Picked(o.from[m]))]
  BY DEF CopyArtifact
<1>2. /\ o \in CopyRecord /\ o.finding = copying.finding /\ o.active = 0
      /\ Part(made, p, o) /\ p \in Seq(DOMAIN made) /\ w \in DOMAIN copies
  BY <1>1, CopyAtWork DEF Stretch
<1>3. copies' = [copies EXCEPT ![w] = c]
  BY <1>1, <1>2
<1>4. /\ c.finding = o.finding /\ c.active = o.active /\ c.from = o.from
      /\ c.rows = Append(o.rows, Picked(o.from[m]))
  BY <1>2 DEF CopyRecord
<1>5. /\ o.rows \in Seq(SUBSET {"own", "link"}) /\ Len(o.rows) \in Nat /\ Len(o.from) \in Nat
      /\ Len(p) \in Nat
  BY <1>2 DEF CopyRecord
<1>6. m \in 1..Len(o.from) /\ o.from[m] \in DOMAIN made
  <2> HIDE DEF o, p
  <2>1. m \in 1..Len(o.from) /\ Len(o.from) <= Len(p)
    BY <1>1, <1>2, <1>5 DEF Part
  <2>2. m \in 1..Len(p) /\ o.from[m] = p[m]
    BY <1>2, <1>5, <2>1 DEF Part
  <2> HIDE DEF m
  <2> QED
    BY <1>2, <2>1, <2>2
<1>7. /\ Picked(o.from[m]) \in SUBSET {"own", "link"}
      /\ "own" \in Picked(o.from[m]) <=> Own(made, o.from[m])
  BY <1>6, PickedOwn DEF Typed
<1>8. c \in CopyRecord
  <2>1. c.rows \in Seq(SUBSET {"own", "link"})
    BY <1>4, <1>5, <1>7
  <2> QED
    BY <1>2, <2>1 DEF CopyRecord
<1>9. /\ Len(c.rows) = m /\ c.rows[m] = Picked(o.from[m])
      /\ \A i \in 1..Len(o.rows) : c.rows[i] = o.rows[i]
  <2> HIDE DEF c, o
  <2> QED
    BY <1>4, <1>5, <1>7, AppendAt
<1>10. Part(made, p, c)
  <2> HIDE DEF c, p, o
  <2>1. Len(c.rows) <= Len(c.from) /\ Len(c.from) <= Len(p)
    BY <1>2, <1>4, <1>5, <1>6, <1>9 DEF Part
  <2>2. \A i \in 1..Len(c.from) : c.from[i] = p[i]
    BY <1>2, <1>4 DEF Part
  <2>3. ASSUME NEW i \in 1..Len(c.rows)
        PROVE  "own" \in c.rows[i] <=> Own(made, c.from[i])
    <3>1. CASE i = m
      BY <1>4, <1>7, <1>9, <3>1
    <3>2. CASE i # m
      <4>1. i \in 1..Len(o.rows)
        BY <1>5, <1>9, <3>2
      <4> QED
        BY <1>2, <1>4, <1>9, <4>1 DEF Part
    <3> QED
      BY <3>1, <3>2
  <2> QED
    BY <2>1, <2>2, <2>3 DEF Part
<1> HIDE DEF c
<1> QED
  BY <1>1, <1>2, <1>3, <1>4, <1>8, <1>10, CopiedOn

\* The active state is set when the rows of all steps are there.
LEMMA CopiedAfterActive ==
  ASSUME Copied, copying # None, SetActive, UNCHANGED <<made, stored>>
  PROVE  Copied'
<1> DEFINE w == copying.into
           p == copying.steps
           o == copies[w]
           c == [o EXCEPT !.active = Len(o.from)]
<1>1. /\ w # 0 /\ Len(o.rows) = Len(p) /\ copying' = None
      /\ copies' = [copies EXCEPT ![w].active = Len(o.from)]
  BY DEF SetActive, AllCopied
<1>2. /\ o \in CopyRecord /\ o.finding = copying.finding
      /\ Part(made, p, o) /\ p \in Seq(Nat) /\ w \in DOMAIN copies
      /\ Stretch(made, stored, copying.finding, p)
  BY <1>1, CopyAtWork DEF CopyingRecord
<1>3. copies' = [copies EXCEPT ![w] = c]
  BY <1>1, <1>2
<1>4. c.finding = o.finding /\ c.active = Len(o.from) /\ c.from = o.from /\ c.rows = o.rows
  BY <1>2 DEF CopyRecord
<1>5. o.from \in Seq(Nat) /\ Len(o.rows) \in Nat /\ Len(o.from) \in Nat /\ Len(p) \in Nat
  BY <1>2 DEF CopyRecord
<1>6. Len(o.from) = Len(p) /\ \A i \in 1..Len(p) : o.from[i] = p[i]
  <2> HIDE DEF o, p
  <2> QED
    BY <1>1, <1>2, <1>5 DEF Part
<1>7. o.from = p
  <2> HIDE DEF o, p
  <2> QED
    BY <1>2, <1>5, <1>6, SeqEqual
<1>8. c \in CopyRecord
  BY <1>2, <1>5 DEF CopyRecord
<1>9. Part(made, c.from, c)
  <2> HIDE DEF c, o, p
  <2> QED
    BY <1>2, <1>4, <1>7 DEF Part
<1>10. Whole(made, stored, c)
  <2> HIDE DEF c, o, p
  <2> QED
    BY <1>1, <1>2, <1>4, <1>6, <1>7, <1>9 DEF Whole
<1>11. /\ copies' \in Seq(CopyRecord)
       /\ \A i \in DOMAIN copies' : Whole(made', stored', copies'[i])
  <2> HIDE DEF c, o, p
  <2> QED
    BY <1>2, <1>3, <1>8, <1>10, OneCopied
<1>12. UnderWay(made, stored, copying)'
  BY <1>1 DEF UnderWay
<1> QED
  BY <1>11, <1>12 DEF Copied

\* So every statement of a copy, and its failure, keeps it.
LEMMA CopiedAfterCopying ==
  ASSUME Typed, Copied, Copying
  PROVE  Copied'
<1>1. copying # None /\ UNCHANGED <<made, stored>>
  BY DEF Copying, tree
<1>2. ASSUME CopyFails
      PROVE  Copied'
  BY <1>1, <1>2 DEF CopyFails, Copied, UnderWay
<1> QED
  BY <1>1, <1>2, CopiedAfterHistory, CopiedAfterStep, CopiedAfterArtifact, CopiedAfterActive DEF Copying

\* So the property about copies holds.
LEMMA CopiesNow ==
  ASSUME Copied
  PROVE  CopiesReplayable
<1> SUFFICES ASSUME NEW c \in Range(copies), c.active # 0
             PROVE  /\ c.active = Len(c.from) /\ c.active = Len(c.rows)
                    /\ c.from[c.active] = c.finding
                    /\ \E k \in 0..MaxStates :
                         c.from = SubSeq(Path(stored, c.finding), k + 1, k + c.active)
                    /\ {i \in DOMAIN c.rows : "own" \in c.rows[i]} = {1}
  BY DEF CopiesReplayable
<1>1. Whole(made, stored, c) /\ c \in CopyRecord
  BY DEF Copied, Range
<1>2. /\ Stretch(made, stored, c.finding, c.from)
      /\ c.active = Len(c.from) /\ c.active = Len(c.rows)
      /\ Part(made, c.from, c)
  BY <1>1 DEF Whole
<1>3. /\ Len(c.from) >= 1 /\ c.from[Len(c.from)] = c.finding
      /\ \E d \in 0..MaxStates : c.from = SubSeq(Line(made, stored, c.finding), d + 1, d + Len(c.from))
      /\ \A i \in 1..Len(c.from) : Own(made, c.from[i]) <=> i = 1
  BY <1>2 DEF Stretch
<1>4. DOMAIN c.rows = 1..Len(c.from) /\ 1 \in 1..Len(c.from)
  BY <1>1, <1>2, <1>3 DEF CopyRecord
<1>5. \A i \in 1..Len(c.from) : "own" \in c.rows[i] <=> i = 1
  BY <1>2, <1>3 DEF Part
<1>6. {i \in DOMAIN c.rows : "own" \in c.rows[i]} = {1}
  BY <1>4, <1>5
<1>7. \E k \in 0..MaxStates : c.from = SubSeq(Path(stored, c.finding), k + 1, k + c.active)
  BY <1>2, <1>3, TreeNow
<1> QED
  BY <1>2, <1>3, <1>6, <1>7

-----------------------------------------------------------------------------
(* Pruned views *)

\* A step that is shown has nothing hidden above it.
LEMMA HiddenBelow ==
  ASSUME Typed, NEW n \in GraphSteps(stored), n \notin Hidden,
         NEW x, Contains(Path(stored, n), x)
  PROVE  x \notin Hidden
<1>1. IsTree(made) /\ \A s : Path(stored, s) = Line(made, stored, s)
  BY TreeNow DEF Typed
<1>2. n \in Nodes(made)
  BY <1>1, TreeFacts DEF GraphSteps
<1>3. x \in Nodes(made)
  BY <1>1, <1>2, RangeOfLine
<1>4. ASSUME x \in Seed
      PROVE  FALSE
  BY <1>4 DEF Hidden
<1>5. ASSUME NEW s \in Seed, Contains(Path(stored, x), s)
      PROVE  FALSE
  <2>1. Contains(Path(stored, n), s)
    BY <1>1, <1>2, <1>3, <1>5, OnLineBelow
  <2> QED
    BY <2>1 DEF Hidden
<1> QED
  BY <1>4, <1>5 DEF Hidden

\* A pruned view hides a state only with everything below it.
LEMMA HidesWhatIsBelow ==
  ASSUME Typed
  PROVE  /\ \A n \in VisibleSteps : Range(Path(stored, n)) \cap Hidden = {}
         /\ \A n \in VisibleStates \cap GraphSteps(stored) : n \in VisibleSteps
<1>1. IsTree(made) /\ \A s : Path(stored, s) = Line(made, stored, s)
  BY TreeNow DEF Typed
<1>2. \A n \in GraphSteps(stored) :
        /\ n \in Nodes(made) /\ n \in Known(made, stored) /\ made[n].input \in Nodes(made)
  BY <1>1, TreeFacts DEF GraphSteps, Known
<1>3. ASSUME NEW n \in VisibleSteps
      PROVE  Range(Path(stored, n)) \cap Hidden = {}
  <2>1. n \in GraphSteps(stored) /\ n \notin Hidden
    BY DEF VisibleSteps
  <2>2. \A x : x \in Range(Path(stored, n)) => x \notin Hidden
    BY <1>1, <1>2, <2>1, RangeOfLine, HiddenBelow
  <2> QED
    BY <2>2
<1>4. ASSUME NEW n \in VisibleStates \cap GraphSteps(stored)
      PROVE  n \in VisibleSteps
  <2> DEFINE m == made[n].input
  <2>1. n \in GraphSteps(stored) /\ n \notin Hidden /\ m \in Nodes(made)
    BY <1>2 DEF VisibleStates
  <2>2. Contains(Line(made, stored, m), m)
    BY <1>1, <2>1, OnLine
  <2>3. Contains(Line(made, stored, n), m)
    BY <1>1, <1>2, <2>1, <2>2, OnLine
  <2>4. m \notin Hidden
    BY <1>1, <2>1, <2>3, HiddenBelow
  <2> QED
    BY <2>1, <2>4 DEF VisibleSteps
<1> QED
  BY <1>3, <1>4

\* The function of the definition of Edges.
Run ==
  LET run[n \in VisibleSteps] ==
        IF \E m \in VisibleSteps : Joined(n, m)
        THEN <<n>> \o run[CHOOSE m \in VisibleSteps : Joined(n, m)]
        ELSE <<n>>
  IN  run
Follower(n) == CHOOSE m \in VisibleSteps : Joined(n, m)
Firsts == {m \in VisibleSteps : ~\E p \in VisibleSteps : Joined(p, m)}

\* A step is joined to one that follows from its state.
LEMMA JoinedFacts ==
  ASSUME Typed
  PROVE  /\ VisibleSteps \subseteq 1..Len(made)
         /\ \A n, m \in VisibleSteps : Joined(n, m) => made[m].input = n /\ n < m
         /\ \A n \in VisibleSteps : (\E m \in VisibleSteps : Joined(n, m)) =>
              Follower(n) \in VisibleSteps /\ Joined(n, Follower(n))
<1>1. VisibleSteps \subseteq 1..Len(made) /\ \A m \in VisibleSteps : made[m].input < m
  <2>1. \A m \in VisibleSteps : m \in DOMAIN made
    BY DEF VisibleSteps, GraphSteps
  <2> QED
    BY <2>1, TreeFacts DEF Typed
<1>2. ASSUME NEW n \in VisibleSteps, NEW m \in VisibleSteps, Joined(n, m)
      PROVE  made[m].input = n /\ n < m
  <2>1. m \in Kids(n)
    BY <1>2 DEF Joined
  <2> QED
    BY <1>1, <2>1 DEF Kids
<1>3. ASSUME NEW n \in VisibleSteps, NEW m \in VisibleSteps, Joined(n, m)
      PROVE  Follower(n) \in VisibleSteps /\ Joined(n, Follower(n))
  BY <1>3 DEF Follower
<1> QED
  BY <1>1, <1>2, <1>3

\* A run goes on while the step is joined to one.
LEMMA RunUnfolds ==
  ASSUME Typed
  PROVE  \A n \in VisibleSteps :
           Run[n] = IF \E m \in VisibleSteps : Joined(n, m)
                    THEN <<n>> \o Run[Follower(n)] ELSE <<n>>
<1> DEFINE D == VisibleSteps
           N == Len(made)
           V == Seq(D)
           Ends == {n \in D : ~\E m \in D : Joined(n, m)}
           rank == [n \in D |-> N - n]
           next == [n \in D |-> IF n \in Ends THEN n ELSE Follower(n)]
           base == [n \in D |-> <<n>>]
           step == [n \in D |-> [p \in V |-> <<n>> \o p]]
           Is(run) == run = [n \in D |->
                        IF \E m \in D : Joined(n, m)
                        THEN <<n>> \o run[CHOOSE m \in D : Joined(n, m)] ELSE <<n>>]
<1>1. N \in Nat
  BY TreeFacts DEF Typed
<1>2. /\ \A n \in D : n \in 1..N
      /\ \A n, m \in D : Joined(n, m) => made[m].input = n /\ n < m
      /\ \A n \in D : n \notin Ends => Follower(n) \in D /\ Joined(n, Follower(n))
  BY JoinedFacts
<1>3. rank \in [D -> 0..N] /\ next \in [D -> D]
  <2>1. \A n \in D : N - n \in 0..N
    BY <1>1, <1>2
  <2>2. \A n \in D : (IF n \in Ends THEN n ELSE Follower(n)) \in D
    BY <1>2
  <2> HIDE DEF D, Ends
  <2> QED
    BY <2>1, <2>2
<1>4. base \in [D -> V] /\ step \in [D -> [V -> V]]
  <2> HIDE DEF D
  <2>1. \A n \in D : <<n>> \in V
    OBVIOUS
  <2>2. \A n \in D : \A p \in V : <<n>> \o p \in V
    OBVIOUS
  <2> HIDE DEF V
  <2> QED
    BY <2>1, <2>2
<1>5. ASSUME NEW n \in D, n \notin Ends
      PROVE  rank[next[n]] < rank[n]
  <2>1. Follower(n) \in D /\ n < Follower(n) /\ next[n] = Follower(n)
    BY <1>2, <1>5
  <2>2. rank[n] = N - n /\ rank[Follower(n)] = N - Follower(n)
    BY <2>1
  <2> QED
    BY <1>1, <1>2, <2>1, <2>2
<1>6. PICK f \in [D -> V] :
        \A n \in D : f[n] = IF n \in Ends THEN base[n] ELSE step[n][f[next[n]]]
  <2> HIDE DEF D, V, Ends, rank, next, base, step, N
  <2>1. Recursion(N, D, V, Ends, rank, next, base, step)
    BY <1>1, <1>3, <1>4, <1>5 DEF Recursion
  <2> QED
    BY <2>1, RecursionExists
<1>7. ASSUME NEW n \in D
      PROVE  f[n] = IF \E m \in D : Joined(n, m) THEN <<n>> \o f[Follower(n)] ELSE <<n>>
  <2>1. CASE n \notin Ends
    <3>1. (\E m \in D : Joined(n, m)) /\ next[n] = Follower(n) /\ Follower(n) \in D
      BY <2>1, <1>2
    <3>2. f[Follower(n)] \in V
      BY <3>1
    <3>3. step[n][f[Follower(n)]] = <<n>> \o f[Follower(n)]
      BY <3>2
    <3> HIDE DEF D, V, Ends, rank, next, base, step
    <3> QED
      BY <1>6, <2>1, <3>1, <3>3
  <2>2. CASE n \in Ends
    <3>1. (~\E m \in D : Joined(n, m)) /\ base[n] = <<n>>
      BY <2>2
    <3> HIDE DEF D, V, Ends, rank, next, base, step
    <3> QED
      BY <1>6, <2>2, <3>1
  <2> QED
    BY <2>1, <2>2
<1>8. Is(f)
  <2>1. f = [n \in D |-> f[n]]
    OBVIOUS
  <2>2. \A n \in D : f[n] = IF \E m \in D : Joined(n, m)
                            THEN <<n>> \o f[CHOOSE m \in D : Joined(n, m)] ELSE <<n>>
    BY <1>7 DEF Follower
  <2> HIDE DEF D, V
  <2> QED
    BY <2>1, <2>2
<1> DEFINE run == CHOOSE g : Is(g)
<1>9. Is(run)
  <2> HIDE DEF Is
  <2> QED
    BY <1>8
<1>10. \A n \in D :
         run[n] = IF \E m \in D : Joined(n, m) THEN <<n>> \o run[Follower(n)] ELSE <<n>>
  <2> HIDE DEF run
  <2> QED
    BY <1>9 DEF Follower
<1>11. Run = run
  BY DEF Run
<1> HIDE DEF run
<1> QED
  BY <1>10, <1>11

\* What a run is: a line of shown steps, each joined to the next, up to the last that
\* is joined to any.
RunFrom(n, e) ==
  /\ e \in Seq(VisibleSteps) /\ Len(e) >= 1 /\ e[1] = n
  /\ \A i \in 2..Len(e) : Joined(e[i - 1], e[i])
  /\ \A m \in VisibleSteps : ~Joined(e[Len(e)], m)

\* A run is extended by a step joined to its first.
LEMMA RunExtended ==
  ASSUME NEW n \in VisibleSteps, NEW m \in VisibleSteps, Joined(n, m), NEW p, RunFrom(m, p)
  PROVE  RunFrom(n, <<n>> \o p)
<1> DEFINE e == <<n>> \o p
<1>1. /\ p \in Seq(VisibleSteps) /\ Len(p) \in Nat /\ Len(p) >= 1 /\ p[1] = m
      /\ \A i \in 2..Len(p) : Joined(p[i - 1], p[i])
      /\ \A l \in VisibleSteps : ~Joined(p[Len(p)], l)
  BY DEF RunFrom
<1>2. /\ e \in Seq(VisibleSteps) /\ Len(e) = Len(p) + 1 /\ e[1] = n
      /\ \A i \in 1..Len(p) : e[i + 1] = p[i]
  <2> DEFINE a == <<n>>
             D == VisibleSteps
  <2>1. a \in Seq(D) /\ Len(a) = 1 /\ a[1] = n
    OBVIOUS
  <2> HIDE DEF a, D
  <2>2. p \in Seq(D)
    BY <1>1 DEF D
  <2>3. a \o p \in Seq(D) /\ Len(a \o p) = Len(a) + Len(p)
    BY <2>1, <2>2, ConcatProperties
  <2>4. \A i \in 1..(Len(a) + Len(p)) : (a \o p)[i] = IF i <= Len(a) THEN a[i] ELSE p[i - Len(a)]
    BY <2>1, <2>2, ConcatProperties
  <2>5. 1 \in 1..(1 + Len(p)) /\ \A i \in 1..Len(p) :
          i + 1 \in 1..(1 + Len(p)) /\ ~(i + 1 <= 1) /\ (i + 1) - 1 = i
    BY <1>1
  <2>6. \A i \in 1..(1 + Len(p)) : (a \o p)[i] = IF i <= 1 THEN a[i] ELSE p[i - 1]
    BY <2>1, <2>4
  <2>7. (a \o p)[1] = n
    BY <2>1, <2>5, <2>6
  <2>8. ASSUME NEW i \in 1..Len(p)
        PROVE  (a \o p)[i + 1] = p[i]
    <3>1. i + 1 \in 1..(1 + Len(p)) /\ ~(i + 1 <= 1) /\ (i + 1) - 1 = i
      BY <2>5
    <3>2. (a \o p)[i + 1] = p[(i + 1) - 1]
      BY <2>6, <3>1
    <3> QED
      BY <3>1, <3>2
  <2> QED
    BY <1>1, <2>1, <2>3, <2>7, <2>8 DEF a, D
<1> HIDE DEF e
<1>3. ASSUME NEW i \in 2..Len(e)
      PROVE  Joined(e[i - 1], e[i])
  <2>1. CASE i = 2
    <3>1. e[i - 1] = n /\ 1 \in 1..Len(p) /\ i = 1 + 1
      BY <1>1, <1>2, <2>1
    <3>2. e[i] = m
      BY <1>1, <1>2, <3>1
    <3> QED
      BY <3>1, <3>2
  <2>2. CASE i # 2
    <3>1. i - 1 \in 2..Len(p) /\ i - 1 \in 1..Len(p) /\ i - 2 \in 1..Len(p)
          /\ (i - 1) + 1 = i /\ (i - 2) + 1 = i - 1 /\ (i - 1) - 1 = i - 2
      BY <1>1, <1>2, <2>2
    <3>2. e[i] = p[i - 1] /\ e[i - 1] = p[i - 2]
      BY <1>2, <3>1
    <3>3. Joined(p[(i - 1) - 1], p[i - 1])
      BY <1>1, <3>1
    <3> QED
      BY <3>1, <3>2, <3>3
  <2> QED
    BY <2>1, <2>2
<1>4. e[Len(e)] = p[Len(p)] /\ Len(e) >= 1
  <2>1. Len(p) \in 1..Len(p)
    BY <1>1
  <2> QED
    BY <1>1, <1>2, <2>1
<1> QED
  BY <1>1, <1>2, <1>3, <1>4 DEF RunFrom, e

\* The function computes runs.
LEMMA RunIsRun ==
  ASSUME Typed
  PROVE  \A n \in VisibleSteps : RunFrom(n, Run[n])
<1> DEFINE S == {r \in 0..Len(made) : \A n \in VisibleSteps : Len(made) - n = r => RunFrom(n, Run[n])}
<1>1. Len(made) \in Nat
  BY TreeFacts DEF Typed
<1>2. /\ \A n \in VisibleSteps : n \in 1..Len(made)
      /\ \A n, m \in VisibleSteps : Joined(n, m) => made[m].input = n /\ n < m
      /\ \A n \in VisibleSteps : (\E m \in VisibleSteps : Joined(n, m)) =>
           Follower(n) \in VisibleSteps /\ Joined(n, Follower(n))
  BY JoinedFacts
<1>3. ASSUME NEW r \in 0..Len(made), \A j \in 0..Len(made) : j < r => j \in S
      PROVE  r \in S
  <2> SUFFICES ASSUME NEW n \in VisibleSteps, Len(made) - n = r
               PROVE  RunFrom(n, Run[n])
    OBVIOUS
  <2>1. CASE \E m \in VisibleSteps : Joined(n, m)
    <3>1. Follower(n) \in VisibleSteps /\ Joined(n, Follower(n)) /\ n < Follower(n)
      BY <1>2, <2>1
    <3>2. Len(made) - Follower(n) \in 0..Len(made) /\ Len(made) - Follower(n) < r
      BY <1>1, <1>2, <3>1
    <3>3. RunFrom(Follower(n), Run[Follower(n)])
      BY <1>3, <3>1, <3>2
    <3>4. RunFrom(n, <<n>> \o Run[Follower(n)])
      BY <3>1, <3>3, RunExtended
    <3>5. Run[n] = <<n>> \o Run[Follower(n)]
      BY <2>1, RunUnfolds
    <3> QED
      BY <3>4, <3>5
  <2>2. CASE ~\E m \in VisibleSteps : Joined(n, m)
    <3> DEFINE e == <<n>>
               D == VisibleSteps
    <3>1. e \in Seq(D) /\ Len(e) = 1 /\ e[1] = n /\ \A i \in 2..1 : FALSE
      OBVIOUS
    <3> HIDE DEF e, D
    <3>2. RunFrom(n, e)
      BY <2>2, <3>1 DEF RunFrom, D
    <3>3. Run[n] = e
      BY <2>2, RunUnfolds DEF e
    <3> QED
      BY <3>2, <3>3
  <2> QED
    BY <2>1, <2>2
<1> HIDE DEF S
<1>4. \A r \in 0..Len(made) : r \in S
  BY <1>1, <1>3, Smaller
<1>5. ASSUME NEW n \in VisibleSteps
      PROVE  RunFrom(n, Run[n])
  <2>1. Len(made) - n \in 0..Len(made)
    BY <1>1, <1>2
  <2>2. Len(made) - n \in S
    BY <1>4, <2>1
  <2> QED
    BY <2>2 DEF S
<1> QED
  BY <1>5

\* Every step that is shown is in a run from a first step: the run does not end before it.
LEMMA EveryStepInRun ==
  ASSUME Typed
  PROVE  \A n \in VisibleSteps : \E p \in Firsts : Contains(Run[p], n)
<1> DEFINE S == {n \in 0..Len(made) : n \in VisibleSteps => \E p \in Firsts : Contains(Run[p], n)}
<1>1. Len(made) \in Nat
  BY TreeFacts DEF Typed
<1>2. /\ \A n \in VisibleSteps : n \in 1..Len(made)
      /\ \A n, m \in VisibleSteps : Joined(n, m) => made[m].input = n /\ n < m
  BY JoinedFacts
<1>3. ASSUME NEW n \in 0..Len(made), \A j \in 0..Len(made) : j < n => j \in S
      PROVE  n \in S
  <2> SUFFICES ASSUME n \in VisibleSteps
               PROVE  \E p \in Firsts : Contains(Run[p], n)
    OBVIOUS
  <2>1. CASE n \in Firsts
    <3>1. Len(Run[n]) >= 1 /\ Run[n][1] = n /\ Len(Run[n]) \in Nat
      BY RunIsRun DEF RunFrom
    <3>2. Contains(Run[n], n)
      BY <3>1 DEF Contains
    <3> QED
      BY <2>1, <3>2
  <2>2. CASE n \notin Firsts
    <3>1. PICK q \in VisibleSteps : Joined(q, n)
      BY <2>2 DEF Firsts
    <3>2. q \in S
      BY <1>1, <1>2, <1>3, <3>1
    <3>3. PICK p \in Firsts : Contains(Run[p], q)
      BY <3>2
    <3> DEFINE e == Run[p]
    <3>4. RunFrom(p, e)
      BY RunIsRun DEF Firsts
    <3> HIDE DEF e
    <3>5. PICK i \in 1..Len(e) : e[i] = q
      BY <3>3 DEF Contains, e
    <3>6. Len(e) \in Nat /\ e \in Seq(VisibleSteps)
      BY <3>4 DEF RunFrom
    <3>7. i # Len(e)
      BY <3>1, <3>4, <3>5 DEF RunFrom
    <3>8. i + 1 \in 2..Len(e) /\ i + 1 \in 1..Len(e) /\ (i + 1) - 1 = i
      BY <3>6, <3>7
    <3>9. Joined(q, e[i + 1])
      <4>1. Joined(e[(i + 1) - 1], e[i + 1])
        BY <3>4, <3>8 DEF RunFrom
      <4> QED
        BY <3>5, <3>8, <4>1
    <3>10. e[i + 1] = n
      BY <3>1, <3>9 DEF Joined
    <3>11. Contains(e, n)
      BY <3>8, <3>10 DEF Contains
    <3> QED
      BY <3>11 DEF e
  <2> QED
    BY <2>1, <2>2
<1> HIDE DEF S
<1>4. \A n \in 0..Len(made) : n \in S
  BY <1>1, <1>3, Smaller
<1>5. ASSUME NEW n \in VisibleSteps
      PROVE  \E p \in Firsts : Contains(Run[p], n)
  <2>1. n \in 0..Len(made)
    BY <1>1, <1>2
  <2> QED
    BY <1>4, <2>1 DEF S
<1> QED
  BY <1>5

\* The state before a step of a run is in the run, unless the step is the first.
LEMMA RunBackwards ==
  ASSUME Typed, NEW p \in Firsts, NEW n, Contains(Run[p], n)
  PROVE  /\ n \in VisibleSteps
         /\ n # p => /\ made[n].input \in VisibleSteps /\ Joined(made[n].input, n)
                     /\ Contains(Run[p], made[n].input)
<1> DEFINE e == Run[p]
<1>1. RunFrom(p, e)
  BY RunIsRun DEF Firsts
<1>2. PICK i \in 1..Len(e) : e[i] = n
  BY DEF Contains
<1> HIDE DEF e
<1>3. Len(e) \in Nat /\ e[1] = p /\ \A j \in 1..Len(e) : e[j] \in VisibleSteps
  BY <1>1 DEF RunFrom
<1>4. ASSUME n # p
      PROVE  /\ made[n].input \in VisibleSteps /\ Joined(made[n].input, n)
             /\ Contains(e, made[n].input)
  <2>1. i \in 2..Len(e) /\ i - 1 \in 1..Len(e)
    BY <1>2, <1>3, <1>4
  <2>2. Joined(e[i - 1], n)
    BY <1>1, <1>2, <2>1 DEF RunFrom
  <2>3. e[i - 1] \in VisibleSteps /\ n \in VisibleSteps
    BY <1>2, <1>3, <2>1
  <2>4. made[n].input = e[i - 1]
    BY <2>2, <2>3, JoinedFacts
  <2> QED
    BY <2>1, <2>2, <2>3, <2>4 DEF Contains
<1> QED
  BY <1>2, <1>3, <1>4 DEF e

\* It is in one only: two runs that share a step share all before it.
LEMMA OneRun ==
  ASSUME Typed
  PROVE  \A n : \A p, q \in Firsts : Contains(Run[p], n) /\ Contains(Run[q], n) => p = q
<1> DEFINE S == {n \in 0..Len(made) :
                   \A p, q \in Firsts : Contains(Run[p], n) /\ Contains(Run[q], n) => p = q}
<1>1. Len(made) \in Nat /\ \A n \in VisibleSteps : n \in 1..Len(made)
  BY TreeFacts, JoinedFacts DEF Typed
<1>2. ASSUME NEW n \in 0..Len(made), \A j \in 0..Len(made) : j < n => j \in S
      PROVE  n \in S
  <2> SUFFICES ASSUME NEW p \in Firsts, NEW q \in Firsts,
                      Contains(Run[p], n), Contains(Run[q], n)
               PROVE  p = q
    OBVIOUS
  <2> DEFINE m == made[n].input
  <2>1. /\ n # p => m \in VisibleSteps /\ Joined(m, n) /\ Contains(Run[p], m)
        /\ n # q => m \in VisibleSteps /\ Joined(m, n) /\ Contains(Run[q], m)
        /\ n \in VisibleSteps
    BY RunBackwards
  <2> HIDE DEF m
  <2>2. CASE n = p \/ n = q
    <3>1. n \in Firsts
      BY <2>2
    <3>2. \A l \in VisibleSteps : ~Joined(l, n)
      BY <3>1 DEF Firsts
    <3> QED
      BY <2>1, <2>2, <3>2
  <2>3. CASE n # p /\ n # q
    <3>1. m < n /\ m \in 0..Len(made)
      <4>1. m \in VisibleSteps /\ n \in VisibleSteps /\ Joined(m, n)
        BY <2>1, <2>3
      <4>2. m < n
        BY <4>1, JoinedFacts
      <4>3. m \in 1..Len(made)
        BY <1>1, <4>1
      <4> QED
        BY <1>1, <4>2, <4>3
    <3>2. m \in S
      BY <1>2, <3>1
    <3> QED
      BY <2>1, <2>3, <3>2
  <2> QED
    BY <2>2, <2>3
<1> HIDE DEF S
<1>3. \A n \in 0..Len(made) : n \in S
  BY <1>1, <1>2, Smaller
<1>4. ASSUME NEW n, NEW p \in Firsts, NEW q \in Firsts,
             Contains(Run[p], n), Contains(Run[q], n)
      PROVE  p = q
  <2>1. n \in VisibleSteps
    BY <1>4, RunBackwards
  <2>2. n \in S
    BY <1>1, <1>3, <2>1
  <2> QED
    BY <1>4, <2>2 DEF S
<1> QED
  BY <1>4

\* The steps of a run are of one category.
LEMMA OneCategory ==
  ASSUME NEW n, NEW e, RunFrom(n, e)
  PROVE  \A i \in 1..Len(e) : CategoryOf(e[i]) = CategoryOf(e[1])
<1> DEFINE S == {i \in 0..Len(e) : i # 0 => CategoryOf(e[i]) = CategoryOf(e[1])}
<1>1. Len(e) \in Nat /\ \A i \in 2..Len(e) : Joined(e[i - 1], e[i])
  BY DEF RunFrom
<1>2. ASSUME NEW i \in 0..Len(e), \A j \in 0..Len(e) : j < i => j \in S
      PROVE  i \in S
  <2>1. CASE i = 0 \/ i = 1
    BY <2>1
  <2>2. CASE i # 0 /\ i # 1
    <3>1. i \in 2..Len(e) /\ i - 1 \in 0..Len(e) /\ i - 1 < i /\ i - 1 # 0
      BY <1>1, <2>2
    <3>2. CategoryOf(e[i - 1]) = CategoryOf(e[1])
      BY <1>2, <3>1
    <3>3. CategoryOf(e[i - 1]) = CategoryOf(e[i])
      BY <1>1, <3>1 DEF Joined
    <3> QED
      BY <3>2, <3>3
  <2> QED
    BY <2>1, <2>2
<1> HIDE DEF S
<1>3. \A i \in 0..Len(e) : i \in S
  BY <1>1, <1>2, Smaller
<1> QED
  BY <1>1, <1>3 DEF S

\* So the property about views holds in every state with a well-formed tree, whatever
\* the view hides.
LEMMA ViewNow ==
  ASSUME Typed
  PROVE  ViewAccountsForSteps
<1>1. Edges = {Run[p] : p \in Firsts}
  BY DEF Edges, Run, Firsts
<1>2. ASSUME NEW n \in VisibleSteps
      PROVE  Cardinality({e \in Edges : Contains(e, n)}) = 1
  <2>1. PICK p \in Firsts : Contains(Run[p], n)
    BY EveryStepInRun
  <2>2. {e \in Edges : Contains(e, n)} = {Run[p]}
    <3>1. \A q \in Firsts : Contains(Run[q], n) => q = p
      BY <2>1, OneRun
    <3> QED
      BY <1>1, <2>1, <3>1
  <2> QED
    BY <2>2, FS_Singleton
<1>3. ASSUME NEW e \in Edges, NEW i \in 2..Len(e)
      PROVE  Kids(e[i - 1]) = {e[i]} /\ CategoryOf(e[i]) = CategoryOf(e[1])
  <2>1. PICK p \in Firsts : e = Run[p]
    BY <1>1
  <2>2. RunFrom(p, e)
    BY <2>1, RunIsRun DEF Firsts
  <2>3. Kids(e[i - 1]) = {e[i]}
    BY <2>2 DEF RunFrom, Joined
  <2>4. i \in 1..Len(e)
    OBVIOUS
  <2> QED
    BY <2>2, <2>3, <2>4, OneCategory
<1> QED
  BY <1>2, <1>3, HidesWhatIsBelow DEF ViewAccountsForSteps

-----------------------------------------------------------------------------
(* The invariant *)

Inv == Typed /\ LastHere /\ Reviewed /\ Copied

\* It holds of the history with the root only.
LEMMA InitInv == Init => Inv
<1> SUFFICES ASSUME Init
             PROVE  Inv
  OBVIOUS
<1>1. made = <<>> /\ forks = <<>> /\ copies = <<>> /\ review = None /\ copying = None
  BY DEF Init
<1>2. IsTree(made) /\ Len(made) = 0
  <2>1. <<>> \in Seq(Entry) /\ Len(<<>>) = 0 /\ DOMAIN <<>> = {}
    OBVIOUS
  <2> QED
    BY <1>1, <2>1 DEF IsTree
<1>3. Typed
  <2>1. forks \in Seq(Nat)
    BY <1>1
  <2> QED
    BY <1>2, <2>1, HistoriesAssumption DEF Init, Typed, States
<1>4. LastHere
  <2>1. 0 \in Nodes(made) /\ 0 \notin DOMAIN made
    BY <1>2, TreeFacts DEF Nodes
  <2>2. \A f : Latest(made, f, 0) = None
    BY <1>2, <2>1, LatestUnfolds
  <2> QED
    BY <2>2 DEF Init, LastHere
<1>5. Reviewed
  BY <1>1 DEF Reviewed
<1>6. Copied
  <2>1. <<>> \in Seq(CopyRecord) /\ DOMAIN <<>> = {}
    OBVIOUS
  <2> QED
    BY <1>1, <2>1 DEF Copied, UnderWay
<1> QED
  BY <1>3, <1>4, <1>5, <1>6 DEF Inv

\* A recorded call keeps it.
LEMMA RecordKeeps ==
  ASSUME Inv, NEW call \in Calls, Record(call), UNCHANGED <<stored, review, copies, copying>>
  PROVE  Inv'
<1>1. Typed /\ LastHere /\ Reviewed /\ Copied
  BY DEF Inv
<1>2. Recorded(call) /\ Grown(made, made')
  BY <1>1, RecordFacts DEF Recorded
<1>3. Typed'
  BY <1>1, <1>2, TypedAfterRecord
<1>4. LastHere'
  BY <1>1, <1>2, LastAfterRecord
<1>5. Reviewed'
  BY <1>1, <1>2, ReviewedBeside
<1>6. Copied'
  <2>1. stored \in Nat /\ stored' \in Nat /\ stored <= stored'
    BY <1>1 DEF Typed
  <2> QED
    BY <1>1, <1>2, <2>1, CopiedBeside
<1> QED
  BY <1>3, <1>4, <1>5, <1>6 DEF Inv

\* A checkout keeps it.
LEMMA CheckoutKeeps ==
  ASSUME Inv, NEW s \in States, CheckedOut(s), UNCHANGED <<stored, review, copies, copying>>
  PROVE  Inv'
<1>1. Typed /\ LastHere /\ Reviewed /\ Copied
  BY DEF Inv
<1>2. made' = made
  BY DEF CheckedOut
<1>3. Typed' /\ LastHere'
  BY <1>1, TypedAfterCheckout, LastAfterCheckout
<1>4. Reviewed' /\ Copied'
  BY <1>1, <1>2 DEF Reviewed, Copied, UnderWay
<1> QED
  BY <1>3, <1>4 DEF Inv

\* Where the tree and the rows stay what they are, what is left are the reviewer and
\* the copies.
LEMMA TreeKept ==
  ASSUME Inv, UNCHANGED <<tree, stored>>
  PROVE  /\ Typed' /\ LastHere' /\ made' = made
         /\ UNCHANGED review => Reviewed'
         /\ UNCHANGED <<copies, copying>> => Copied'
<1>1. /\ made' = made /\ forks' = forks /\ current' = current /\ branch' = branch
      /\ pending' = pending /\ last' = last /\ stored' = stored
  BY DEF tree
<1>2. Typed' /\ LastHere'
  BY <1>1 DEF Inv, Typed, LastHere, States
<1>3. UNCHANGED review => Reviewed'
  BY <1>1 DEF Inv, Reviewed
<1>4. UNCHANGED <<copies, copying>> => Copied'
  BY <1>1 DEF Inv, Copied, UnderWay
<1> QED
  BY <1>1, <1>2, <1>3, <1>4

\* Every step keeps it.
LEMMA NextInv == Inv /\ [Next]_vars => Inv'
<1> SUFFICES ASSUME Inv, [Next]_vars
             PROVE  Inv'
  OBVIOUS
<1>0. Typed /\ LastHere /\ Reviewed /\ Copied
  BY DEF Inv
<1>1. ASSUME NEW call \in Calls, TraceStep(call)
      PROVE  Inv'
  BY <1>1, RecordKeeps DEF TraceStep
<1>2. ASSUME NEW s \in States, Checkout(s)
      PROVE  Inv'
  BY <1>2, CheckoutKeeps DEF Checkout
<1>3. ASSUME NEW s \in States, Open(s)
      PROVE  Inv'
  <2>1. Reviewed'
    BY <1>0, <1>3, ReviewedAfterOpen
  <2> QED
    BY <1>3, <2>1, TreeKept DEF Open, Inv
<1>4. ASSUME NEW s \in States, ReadChain(s)
      PROVE  Inv'
  <2>1. Copied'
    BY <1>0, <1>4, CopiedAfterRead
  <2> QED
    BY <1>4, <2>1, TreeKept DEF ReadChain, Inv
<1>5. CASE Write
  <2>1. /\ stored < 2 * Len(made) /\ stored' = stored + 1 /\ made' = made /\ review' = review
        /\ copies' = copies /\ copying' = copying /\ forks' = forks /\ current' = current /\ branch' = branch
        /\ pending' = pending /\ last' = last
    BY <1>5 DEF Write, tree
  <2>2. Len(made) \in Nat /\ IsTree(made) /\ stored \in 0..(2 * Len(made))
    BY <1>0, TreeFacts DEF Typed
  <2>3. stored' \in 0..(2 * Len(made))
    BY <2>1, <2>2
  <2>4. Typed' /\ LastHere' /\ Reviewed'
    BY <1>0, <2>1, <2>3 DEF Typed, LastHere, Reviewed, States
  <2>5. Copied'
    <3>1. Grown(made, made') /\ stored \in Nat /\ stored' \in Nat /\ stored <= stored'
      BY <2>1, <2>2 DEF Grown
    <3> QED
      BY <1>0, <2>1, <3>1, CopiedBeside
  <2> QED
    BY <2>4, <2>5 DEF Inv
<1>6. CASE ReplayState
  BY <1>6, TreeKept DEF ReplayState, Inv
<1>7. CASE ReplayPipeline
  BY <1>7, TreeKept DEF ReplayPipeline, Inv
<1>8. CASE ReplayStep
  <2>1. UNCHANGED <<stored, review, copies, copying>>
    BY <1>8 DEF ReplayStep
  <2>2. ASSUME NEW call \in Calls, Record(call)
        PROVE  Inv'
    BY <2>1, <2>2, RecordKeeps
  <2>3. CASE UNCHANGED tree
    BY <2>1, <2>3, TreeKept DEF Inv
  <2> QED
    BY <1>8, <2>2, <2>3 DEF ReplayStep
<1>9. CASE Reviewing
  <2>1. review # None /\ UNCHANGED <<tree, stored, copies, copying>>
    BY <1>9 DEF Reviewing
  <2>2. /\ Typed' /\ LastHere' /\ Copied' /\ UNCHANGED made
    BY <2>1, TreeKept
  <2>3. \A i : Move(i) => Reviewed'
    BY <1>0, <2>1, <2>2, ReviewedAfterMove
  <2>4. \A s \in States : Goto(s) => Reviewed'
    BY <1>0, <2>1, <2>2, ReviewedAfterGoto
  <2>5. Reviewed'
    BY <1>9, <2>3, <2>4 DEF Reviewing, Back, Forward, First, ToLast
  <2> QED
    BY <2>2, <2>5 DEF Inv
<1>10. CASE ReviewerRestore
  <2> DEFINE s == review.path[review.index]
  <2>1. review # None /\ CheckedOut(s) /\ UNCHANGED <<stored, review, copies, copying>>
    BY <1>10 DEF ReviewerRestore
  <2>2. s \in States
    <3>1. review.path \in Seq(Nodes(made)) /\ review.index \in DOMAIN review.path
      BY <1>0, <2>1 DEF Reviewed, Walk
    <3> QED
      BY <3>1, TreeNow
  <2> HIDE DEF s
  <2> QED
    BY <2>1, <2>2, CheckoutKeeps
<1>11. CASE SaveView
  BY <1>11, TreeKept DEF SaveView, Inv
<1>12. CASE Copying
  <2>1. Copied'
    BY <1>0, <1>12, CopiedAfterCopying
  <2> QED
    BY <1>12, <2>1, TreeKept DEF Copying, Inv
<1>13. CASE UNCHANGED vars
  BY <1>13, TreeKept DEF vars, Inv
<1> QED
  BY <1>1, <1>2, <1>3, <1>4, <1>5, <1>6, <1>7, <1>8, <1>9, <1>10, <1>11, <1>12, <1>13 DEF Next

\* The invariant: the tree, the parameters of the latest calls, the reviewer and the
\* copies are in order in every state.
THEOREM HistoryInvariance == Spec => []Inv
BY InitInv, NextInv, PTL DEF Spec

\* Wherever the reviewer is, it stands on a line of the tree, at the state asked for,
\* whatever was recorded since it was opened (review.py:35-62).
THEOREM CursorOnPathHolds == Spec => []CursorOnPath
<1>1. Inv => CursorOnPath
  BY CursorNow DEF Inv
<1> QED
  BY <1>1, HistoryInvariance, PTL

\* A pruned view hides a state only with everything below it, and every step it shows
\* is in exactly one edge (pruning.py:24-43, 51-129).
THEOREM ViewAccountsForStepsHolds == Spec => []ViewAccountsForSteps
<1>1. Inv => ViewAccountsForSteps
  BY ViewNow DEF Inv
<1> QED
  BY <1>1, HistoryInvariance, PTL

\* A curated copy with an active state is all of the way to its finding from the data it
\* starts from, and holds that data, whatever failed while it was written (storage.py:588-691, introspection.py:299-313).
THEOREM CopiesReplayableHolds == Spec => []CopiesReplayable
<1>1. Inv => CopiesReplayable
  BY CopiesNow DEF Inv
<1> QED
  BY <1>1, HistoryInvariance, PTL

\* last_call_params gives the parameters the function was last called with on the way
\* to the current state, once every row is stored (runtime.py:479-508).
THEOREM LastCallFoundHolds == Spec => []LastCallFound
<1>1. Inv => LastCallFound
  BY LastParamsNow DEF Inv
<1> QED
  BY <1>1, HistoryInvariance, PTL
==============================================================================
