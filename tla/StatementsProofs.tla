--------------------------- MODULE StatementsProofs ---------------------------
(***************************************************************************)
(* Theorems about Statements, for any number of names, of targets and of   *)
(* statements.  A statement is first reduced to a few facts about the step *)
(* it makes (Told), and the invariant is proved from those.                *)
(***************************************************************************)
EXTENDS Statements, SequenceTheorems, TLAPS

Object == [kind : Kinds, ver : Nat, shape : Nat, kept : Nat \cup {None}]
Mark   == [obj : Nat, ver : Nat, shape : Nat \cup {None}]
Standing == {"current", "none", "unknown", "unsplit"}

Typed ==
  /\ objs \in Seq(Object)
  /\ ns \in [Names -> DOMAIN objs \cup {None}]
  /\ bound \in [Names -> Mark \cup {None}]
  /\ stands \in [Names -> Standing]

\* A binding is of an object there is, at a version that was stored and no later one,
\* and looks no newer than it; what has a fingerprint is tracked.
Marked ==
  \A x \in Names : bound[x] # None =>
     /\ bound[x].obj \in DOMAIN objs
     /\ objs[bound[x].obj].kept # None
     /\ bound[x].ver <= objs[bound[x].obj].kept
     /\ bound[x].shape # None => bound[x].shape <= objs[bound[x].obj].shape
     /\ objs[bound[x].obj].kind \in {"frame", "small"} => bound[x].shape # None

\* What was stored last of an object is a version it had.
KeptOld == \A o \in DOMAIN objs : objs[o].kept # None => objs[o].kept <= objs[o].ver

\* What a name is to be bound to can be stored.
CurrentStorable == \A x \in Names : stands[x] = "current" => objs[ns[x]].kind # "sealed"

Inv == Typed /\ Marked /\ KeptOld /\ CurrentStorable /\ BoundToCurrent /\ NoneLeft

-----------------------------------------------------------------------------
(* The shapes of statements *)

\* A statement with one target, and one with two names.
One(s, to, x) ==
  /\ Len(s.left) = 1 /\ s.left[1] = Target(to, x) /\ DOMAIN s.left = {1}
  /\ Binds(s) = IF to = "name" THEN {x} ELSE {}
  /\ Stores(s) = IF to = "name" THEN {} ELSE {x}
  /\ Single(s, "name") <=> to = "name"
  /\ Single(s, "item") <=> to = "item"
Two(s, x, y) ==
  /\ Len(s.left) = 2 /\ DOMAIN s.left = {1, 2}
  /\ s.left[1] = Target("name", x) /\ s.left[2] = Target("name", y)
  /\ Binds(s) = {x, y} /\ Stores(s) = {} /\ ~Single(s, "name") /\ ~Single(s, "item")
NoTarget(s) ==
  Len(s.left) = 0 /\ Binds(s) = {} /\ Stores(s) = {} /\ ~Single(s, "name") /\ ~Single(s, "item")

Tos == {"name", "item", "deep"}

\* Targets are what the model says they are.
LEMMA OneTarget ==
  ASSUME NEW s, NEW to \in Tos, NEW x \in Names, s.left = <<Target(to, x)>>
  PROVE  One(s, to, x)
<1>1. Len(s.left) = 1 /\ s.left[1] = Target(to, x) /\ DOMAIN s.left = {1}
  OBVIOUS
<1>2. Range(s.left) = {Target(to, x)}
  BY <1>1 DEF Range
<1>3. Target(to, x).to = to /\ Target(to, x).x = x
  BY DEF Target
<1>4. Binds(s) = IF to = "name" THEN {x} ELSE {}
  BY <1>2, <1>3 DEF Binds
<1>5. Stores(s) = IF to = "name" THEN {} ELSE {x}
  BY <1>2, <1>3 DEF Stores
<1> QED
  BY <1>1, <1>3, <1>4, <1>5 DEF One, Single

\* Two names, which may be the same.
LEMMA TwoTargets ==
  ASSUME NEW s, NEW x \in Names, NEW y \in Names,
         s.left = <<Target("name", x), Target("name", y)>>
  PROVE  Two(s, x, y)
<1>1. /\ Len(s.left) = 2 /\ DOMAIN s.left = {1, 2}
      /\ s.left[1] = Target("name", x) /\ s.left[2] = Target("name", y)
  OBVIOUS
<1>2. Range(s.left) = {Target("name", x), Target("name", y)}
  BY <1>1 DEF Range
<1>3. \A z : Target("name", z).to = "name" /\ Target("name", z).x = z
  BY DEF Target
<1>4. Binds(s) = {x, y}
  BY <1>2, <1>3 DEF Binds
<1>5. Stores(s) = {}
  BY <1>2, <1>3 DEF Stores
<1> QED
  BY <1>1, <1>4, <1>5 DEF Two, Single

\* A call on its own assigns to nothing.
LEMMA NoTargets ==
  ASSUME NEW s, s.left = <<>>
  PROVE  NoTarget(s)
<1>1. Len(s.left) = 0 /\ DOMAIN s.left = {}
  OBVIOUS
<1>2. Range(s.left) = {}
  BY <1>1 DEF Range
<1> QED
  BY <1>1, <1>2 DEF NoTarget, Binds, Stores, Single

\* The left sides there are.
LEMMA Lefts ==
  ASSUME NEW left \in Targets
  PROVE  \/ \E to \in Tos, x \in Names : left = <<Target(to, x)>>
         \/ \E x \in Names, y \in Names : left = <<Target("name", x), Target("name", y)>>
BY TargetsAssumption DEF Tos

\* What an expression can be.
LEMMA Calls ==
  ASSUME NEW e \in CallExprs
  PROVE  /\ e.kind = "call" /\ e.root \in Names \cup {None}
         /\ e.name \in {"step", "look", "never"} /\ e.inplace \in BOOLEAN
         /\ e.inplace => e.root \in Names /\ e.name = "step"
<1>1. ASSUME NEW r \in Names \cup {None}, NEW n \in {"step", "look", "never"},
             e = Expr("call", r, n, FALSE)
      PROVE  /\ e.kind = "call" /\ e.root = r /\ e.name = n /\ e.inplace = FALSE
  BY <1>1 DEF Expr
<1>2. ASSUME NEW r \in Names, e = Expr("call", r, "step", TRUE)
      PROVE  e.kind = "call" /\ e.root = r /\ e.name = "step" /\ e.inplace = TRUE
  BY <1>2 DEF Expr
<1>3. CASE e \in {Expr("call", r, n, FALSE) : r \in Names \cup {None}, n \in {"step", "look", "never"}}
  <2>1. PICK r \in Names \cup {None}, n \in {"step", "look", "never"} : e = Expr("call", r, n, FALSE)
    BY <1>3 DEF Expr
  <2> QED
    BY <1>1, <2>1
<1>4. CASE e \in {Expr("call", r, "step", TRUE) : r \in Names}
  <2>1. PICK r \in Names : e = Expr("call", r, "step", TRUE)
    BY <1>4
  <2> QED
    BY <1>2, <2>1
<1> QED
  BY <1>3, <1>4 DEF CallExprs, Expr

\* The other expressions all have a root.
LEMMA Others ==
  ASSUME NEW e \in OtherExprs
  PROVE  /\ e.kind \in {"subscript", "name", "operator"} /\ e.root \in Names
         /\ e.name = "step" /\ e.inplace = FALSE
BY DEF OtherExprs, Expr

\* Every statement has one of these shapes.
IsAssign(s) == s.form = "assign" /\ (s.expr \in CallExprs \/ s.expr \in OtherExprs)
IsLoop(s)   == s.form = "loop" /\ s.expr.kind = "operator" /\ s.expr.root \in Names /\ s.expr.inplace = FALSE
IsBlock(s)  == s.form = "block" /\ s.expr.kind = "operator" /\ s.expr.root = None /\ s.expr.inplace = FALSE
Shape(s) ==
  \/ /\ IsAssign(s) \/ IsBlock(s)
     /\ \E to \in Tos, x \in Names : One(s, to, x)
  \/ IsAssign(s) /\ \E x \in Names, y \in Names : Two(s, x, y)
  \/ s.form = "expr" /\ s.expr \in CallExprs /\ NoTarget(s)
  \/ IsLoop(s) /\ \E to \in Tos, x \in Names : One(s, to, x) /\ (to = "name" \/ x # s.expr.root)

\* Each statement has one of the shapes.
LEMMA Shapes ==
  ASSUME NEW s \in Statement
  PROVE  Shape(s)
<1>1. ASSUME NEW left \in Targets, NEW e \in CallExprs \cup OtherExprs,
             s = Stmt("assign", left, e)
      PROVE  Shape(s)
  <2>1. s.left = left /\ IsAssign(s)
    BY <1>1 DEF Stmt, IsAssign
  <2>2. CASE \E to \in Tos, x \in Names : left = <<Target(to, x)>>
    <3>1. PICK to \in Tos, x \in Names : left = <<Target(to, x)>>
      BY <2>2
    <3>2. One(s, to, x)
      BY <2>1, <3>1, OneTarget
    <3> QED
      BY <2>1, <3>2 DEF Shape
  <2>3. CASE \E x \in Names, y \in Names : left = <<Target("name", x), Target("name", y)>>
    <3>1. PICK x \in Names, y \in Names : left = <<Target("name", x), Target("name", y)>>
      BY <2>3
    <3>2. Two(s, x, y)
      BY <2>1, <3>1, TwoTargets
    <3> QED
      BY <2>1, <3>2 DEF Shape
  <2> QED
    BY <2>2, <2>3, Lefts
<1>2. ASSUME NEW e \in CallExprs, s = Stmt("expr", <<>>, e)
      PROVE  Shape(s)
  <2>1. s.left = <<>> /\ s.form = "expr" /\ s.expr = e
    BY <1>2 DEF Stmt
  <2> QED
    BY <2>1, NoTargets DEF Shape
<1> DEFINE Assigning == {l \in Targets : Len(l) = 1}
<1>3. ASSUME NEW left \in Assigning
      PROVE  \E to \in Tos, x \in Names : left = <<Target(to, x)>>
  <2>1. \A x, y : Len(<<Target("name", x), Target("name", y)>>) = 2
    OBVIOUS
  <2> QED
    BY <1>3, <2>1, Lefts
<1>4. ASSUME NEW left \in Assigning,
             s = Stmt("block", left, Expr("operator", None, "step", FALSE))
      PROVE  Shape(s)
  <2>1. s.left = left /\ IsBlock(s)
    BY <1>4 DEF Stmt, Expr, IsBlock
  <2>2. PICK to \in Tos, x \in Names : left = <<Target(to, x)>>
    BY <1>3
  <2>3. One(s, to, x)
    BY <2>1, <2>2, OneTarget
  <2> QED
    BY <2>1, <2>3 DEF Shape
<1>5. ASSUME NEW left \in Assigning, NEW r \in Names,
             s = Stmt("loop", left, Expr("operator", r, "step", FALSE)),
             s.left[1].to = "name" \/ s.left[1].x # s.expr.root
      PROVE  Shape(s)
  <2>1. s.left = left /\ IsLoop(s)
    BY <1>5 DEF Stmt, Expr, IsLoop
  <2>2. PICK to \in Tos, x \in Names : left = <<Target(to, x)>>
    BY <1>3
  <2>3. One(s, to, x)
    BY <2>1, <2>2, OneTarget
  <2>4. s.left[1].to = to /\ s.left[1].x = x
    BY <2>1, <2>2 DEF Target
  <2>5. to = "name" \/ x # s.expr.root
    BY <1>5, <2>4
  <2> QED
    BY <2>1, <2>3, <2>5 DEF Shape
<1>6. CASE s \in {Stmt("assign", left, e) : left \in Targets, e \in CallExprs \cup OtherExprs}
  BY <1>1, <1>6
<1>7. CASE s \in {Stmt("expr", <<>>, e) : e \in CallExprs}
  BY <1>2, <1>7
<1>8. CASE s \in {Stmt("block", left, Expr("operator", None, "step", FALSE)) : left \in Assigning}
  BY <1>4, <1>8
<1> HIDE DEF Assigning
<1>9. CASE s \in {u \in {Stmt("loop", left, Expr("operator", r, "step", FALSE)) :
                         left \in Assigning, r \in Names} :
                   u.left[1].to = "name" \/ u.left[1].x # u.expr.root}
  <2>1. PICK left \in Assigning, r \in Names : s = Stmt("loop", left, Expr("operator", r, "step", FALSE))
    BY <1>9 DEF Stmt, Expr
  <2>2. s.left[1].to = "name" \/ s.left[1].x # s.expr.root
    BY <1>9
  <2> QED
    BY <1>5, <2>1, <2>2
<1> QED
  BY <1>6, <1>7, <1>8, <1>9 DEF Statement, Assigning, Stmt, Expr
-----------------------------------------------------------------------------
(* What a statement does to the objects *)

Yields  == Kinds \cup {"pair", "unsplit", "nothing", "root"}
Changes == {"none", "hidden", "seen", "large", "sealed"}
Both    == {"pair", "unsplit"}
More(yields) == IF yields \in Both THEN 2 ELSE IF yields \in Kinds THEN 1 ELSE 0

\* An object as it is after a statement that may have changed it.
Next1(a, b) ==
  /\ (b.kind = "frame") <=> (a.kind = "frame")
  /\ b.kind \in {"frame", "small"} => a.kind \in {"frame", "small"}
  /\ b.kept = a.kept /\ b.ver >= a.ver /\ b.shape >= a.shape

\* The fields of an object.
LEMMA ObjectFields ==
  ASSUME NEW a \in Object
  PROVE  /\ a.kind \in Kinds /\ a.ver \in Nat /\ a.shape \in Nat /\ a.kept \in Nat \cup {None}
         /\ a.kept # None => a.kept \in Nat
BY DEF Object

\* New objects have no version stored.
LEMMA NewObject ==
  ASSUME NEW k \in Kinds
  PROVE  New(k) \in Object /\ New(k).kept = None /\ New(k).kind = k
BY DEF New, Object

\* A statement changes the objects it names, never backwards, and adds new ones that were not stored.
LEMMA AfterFacts ==
  ASSUME Typed, NEW s \in Statement, NEW yields \in Yields, NEW change \in Changes,
         Possible(s, yields, change)
  PROVE  LET after == After(s, yields, change)
         IN  /\ after \in Seq(Object)
             /\ Len(after) = Len(objs) + More(yields)
             /\ \A o \in DOMAIN objs :
                  /\ o \in DOMAIN after
                  /\ Next1(objs[o], after[o])
                  /\ o \notin Changed(s) \/ change = "none" => after[o] = objs[o]
                  /\ o \in Changed(s) /\ change \notin {"none", "hidden"}
                       => after[o].shape = objs[o].shape + 1
             /\ \A o \in DOMAIN after : o \notin DOMAIN objs => after[o].kept = None
<1> DEFINE mid(o) ==
             IF o \notin Changed(s) \/ change = "none" THEN objs[o]
             ELSE [objs[o] EXCEPT !.ver = @ + 1, !.shape = IF change = "hidden" THEN @ ELSE @ + 1,
                                  !.kind = IF change \in {"large", "sealed"} THEN change ELSE @]
           first == [o \in DOMAIN objs |-> mid(o)]
           more == CASE yields \in Both -> <<New("frame"), New("frame")>>
                     [] yields \in Kinds -> <<New(yields)>>
                     [] yields \in {"root", "nothing"} -> <<>>
           after == first \o more
<1>0. objs \in Seq(Object) /\ DOMAIN objs = 1..Len(objs) /\ Len(objs) \in Nat
  BY DEF Typed
<1>1. ASSUME NEW o \in DOMAIN objs
      PROVE  /\ mid(o) \in Object
             /\ Next1(objs[o], mid(o))
             /\ o \notin Changed(s) \/ change = "none" => mid(o) = objs[o]
             /\ o \in Changed(s) /\ change \notin {"none", "hidden"}
                  => mid(o).shape = objs[o].shape + 1
  <2>1. objs[o] \in Object
    BY <1>0
  <2>2. o # None
    BY <1>0, StatementsAssumption
  <2>3. change \in {"large", "sealed"} /\ o \in Changed(s) => objs[o].kind = "small"
    BY DEF Possible
  <2> DEFINE a == objs[o]
  <2>4. CASE o \notin Changed(s) \/ change = "none"
    BY <2>1, <2>4, ObjectFields DEF Next1
  <2>5. CASE ~(o \notin Changed(s) \/ change = "none")
    <3> DEFINE n == IF change = "hidden" THEN a.shape ELSE a.shape + 1
               v == a.ver + 1
               k == IF change \in {"large", "sealed"} THEN change ELSE a.kind
    <3>1. mid(o) = [a EXCEPT !.ver = v, !.shape = n, !.kind = k]
      BY <2>5
    <3>2. /\ a \in Object /\ v \in Nat /\ v >= a.ver
          /\ n \in Nat /\ n >= a.shape
      BY <2>1, ObjectFields
    <3>6. k \in Kinds /\ a.kind \in Kinds
      BY <2>1, ObjectFields DEF Kinds
    <3>7. /\ (k = "frame") <=> (a.kind = "frame")
          /\ k \in {"frame", "small"} => a.kind \in {"frame", "small"}
      BY <2>3, <2>5
    <3> HIDE DEF mid, n, a, v, k
    <3> DEFINE b == [a EXCEPT !.ver = v, !.shape = n, !.kind = k]
    <3>a. b \in Object /\ b.ver = v /\ b.shape = n /\ b.kind = k /\ b.kept = a.kept
      BY <3>2, <3>6 DEF Object
    <3>b. mid(o) = b
      BY <3>1
    <3> HIDE DEF b
    <3>3. /\ mid(o).kind = k /\ mid(o).kept = a.kept /\ mid(o).ver = v
          /\ mid(o).shape = n /\ mid(o) \in Object
      BY <3>a, <3>b
    <3>4. Next1(a, mid(o))
      BY <3>2, <3>3, <3>7 DEF Next1
    <3>5. change # "hidden" => mid(o).shape = a.shape + 1
      BY <3>3 DEF n
    <3> QED
      BY <2>5, <3>3, <3>4, <3>5 DEF a
  <2> QED
    BY <2>4, <2>5
<1> HIDE DEF mid
<1>2. first \in Seq(Object) /\ Len(first) = Len(objs) /\ DOMAIN first = 1..Len(objs)
  BY <1>0, <1>1
<1>3. more \in Seq(Object) /\ Len(more) = More(yields) /\ \A i \in DOMAIN more : more[i].kept = None
  <2>1. \A k \in Kinds : New(k) \in Object /\ New(k).kept = None
    BY NewObject
  <2>2. CASE yields \in Both
    <3>0. yields \notin Kinds /\ yields \notin {"root", "nothing"}
      BY <2>2 DEF Both, Kinds
    <3>1. more = <<New("frame"), New("frame")>>
      BY <2>2, <3>0, Zenon
    <3> DEFINE n == New("frame")
    <3>2. More(yields) = 2 /\ n \in Object /\ n.kept = None
      BY <2>1, <2>2 DEF More, Kinds
    <3>3. more = <<n, n>>
      BY <3>1
    <3> HIDE DEF more, n
    <3> QED
      BY <3>2, <3>3
  <2>3. CASE yields \in Kinds
    <3>0. yields \notin Both /\ yields \notin {"root", "nothing"}
      BY <2>3 DEF Both, Kinds
    <3>1. more = <<New(yields)>>
      BY <2>3, <3>0, Zenon
    <3> DEFINE n == New(yields)
    <3>2. More(yields) = 1 /\ n \in Object /\ n.kept = None
      BY <2>1, <2>3, <3>0 DEF More
    <3>3. more = <<n>>
      BY <3>1
    <3> HIDE DEF more, n
    <3> QED
      BY <3>2, <3>3
  <2>4. CASE yields \in {"root", "nothing"}
    <3>0. yields \notin Both /\ yields \notin Kinds
      BY <2>4 DEF Both, Kinds
    <3>1. more = <<>>
      BY <2>4, <3>0
    <3> HIDE DEF more
    <3>2. More(yields) = 0 /\ DOMAIN more = {}
      BY <2>4, <3>0, <3>1 DEF More
    <3> QED
      BY <3>1, <3>2, EmptySeq
  <2> QED
    BY <2>2, <2>3, <2>4 DEF Yields, Both
<1>4. \A o \in DOMAIN objs : first[o] = mid(o)
  OBVIOUS
<1> HIDE DEF first, more
<1>5. after \in Seq(Object) /\ Len(after) = Len(objs) + More(yields) /\ DOMAIN after = 1..Len(after)
  <2>1. after \in Seq(Object) /\ Len(after) = Len(first) + Len(more)
    BY <1>2, <1>3, ConcatProperties
  <2> HIDE DEF after
  <2>2. DOMAIN after = 1..Len(after)
    BY <2>1, LenProperties
  <2> QED
    BY <1>2, <1>3, <2>1, <2>2
<1>6. ASSUME NEW o \in DOMAIN objs PROVE o \in DOMAIN after /\ after[o] = mid(o)
  BY <1>0, <1>2, <1>3, <1>4, <1>5, ConcatProperties
<1>7. ASSUME NEW o \in DOMAIN after, o \notin DOMAIN objs PROVE after[o].kept = None
  <2>1. o \in Nat /\ o > Len(first) /\ o <= Len(first) + Len(more)
    BY <1>0, <1>2, <1>3, <1>5, <1>7
  <2>2. Len(first) \in Nat /\ Len(more) \in Nat /\ DOMAIN more = 1..Len(more)
    BY <1>2, <1>3, LenProperties
  <2>3. o \in 1..Len(first) + Len(more) /\ ~(o <= Len(first)) /\ o - Len(first) \in DOMAIN more
    BY <2>1, <2>2
  <2>4. \A k \in 1..Len(first) + Len(more) :
          (first \o more)[k] = IF k <= Len(first) THEN first[k] ELSE more[k - Len(first)]
    BY <1>2, <1>3, ConcatProperties
  <2>5. after[o] = more[o - Len(first)]
    BY <2>3, <2>4
  <2> QED
    BY <1>3, <2>3, <2>5
<1>8. After(s, yields, change) = after
  BY DEF After, after, first, more, mid, Both
<1> HIDE DEF after
<1> QED
  BY <1>1, <1>5, <1>6, <1>7, <1>8
-----------------------------------------------------------------------------
(* What the names refer to *)

Root(s) == IF s.expr.root = None THEN None ELSE ns[s.expr.root]

\* The expression of a statement.
LEMMA Expressions ==
  ASSUME NEW s \in Statement
  PROVE  /\ s.expr.kind \in {"call", "subscript", "name", "operator"}
         /\ s.expr.root \in Names \cup {None}
         /\ s.expr.kind # "call" => ~s.expr.inplace
         /\ s.expr.inplace \in BOOLEAN
         /\ s.expr.inplace => s.expr.kind = "call" /\ s.expr.root \in Names /\ s.expr.name = "step"
         /\ s.expr.kind = "call" => s.form \in {"assign", "expr"}
         /\ s.expr.kind \in {"name", "subscript"} => s.form = "assign" /\ s.expr.root \in Names
         /\ s.form \in {"assign", "expr", "block", "loop"}
<1>1. Shape(s)
  BY Shapes
<1>2. CASE s.expr \in CallExprs /\ s.form \in {"assign", "expr"}
  BY <1>2, Calls
<1>3. CASE s.expr \in OtherExprs /\ s.form = "assign"
  BY <1>3, Others
<1>4. CASE IsBlock(s) \/ IsLoop(s)
  BY <1>4 DEF IsBlock, IsLoop
<1> QED
  BY <1>1, <1>2, <1>3, <1>4 DEF Shape, IsAssign

\* A value is an object there is after the statement, or none.
LEMMA ValueFacts ==
  ASSUME Typed, NEW s \in Statement, NEW yields \in Yields, NEW change \in Changes,
         Possible(s, yields, change),
         NEW i \in 1..2, yields \notin Both => i = 1
  PROVE  /\ Value(s, yields, i) \in DOMAIN After(s, yields, change) \cup {None}
         /\ Root(s) \in DOMAIN objs \cup {None}
         /\ yields = "root" \/ s.expr.inplace => Value(s, yields, i) = Root(s) /\ Root(s) # None
         /\ yields = "nothing" /\ ~s.expr.inplace => Value(s, yields, i) = None
         /\ yields # "nothing" => Value(s, yields, i) # None
<1> DEFINE after == After(s, yields, change)
           e == s.expr
<1>0. /\ Len(objs) \in Nat /\ DOMAIN objs = 1..Len(objs)
      /\ ns \in [Names -> DOMAIN objs \cup {None}]
  BY DEF Typed
<1>1. /\ after \in Seq(Object) /\ Len(after) = Len(objs) + More(yields)
      /\ \A o \in DOMAIN objs : o \in DOMAIN after
  BY AfterFacts
<1>2. DOMAIN after = 1..(Len(objs) + More(yields))
  BY <1>1, LenProperties
<1> HIDE DEF after
<1>3. e.root \in Names \cup {None} /\ Root(s) \in DOMAIN objs \cup {None}
  BY <1>0, Expressions DEF Root
<1>4. ASSUME yields = "root" \/ e.inplace
      PROVE  Root(s) # None /\ e.root \in Names /\ Root(s) = ns[e.root]
  <2>1. CASE e.inplace
    <3>1. e.kind = "call" /\ e.root \in Names
      BY <2>1, Expressions
    <3>2. Frame(Root(s))
      BY <2>1, <3>1 DEF Possible, Root
    <3> QED
      BY <3>1, <3>2, StatementsAssumption DEF Root, Frame
  <2>2. CASE yields = "root" /\ ~e.inplace
    <3>1. CASE e.kind = "call"
      <4>1. Root(s) # None
        BY <2>2, <3>1 DEF Possible, Root
      <4> QED
        BY <1>3, <4>1, StatementsAssumption DEF Root
    <3>2. CASE e.kind # "call"
      <4>1. e.kind = "name"
        BY <2>2, <3>2 DEF Possible
      <4>2. s.form = "assign" /\ e.root \in Names
        BY <4>1, Expressions
      <4>3. Root(s) # None
        BY <4>2, StatementsAssumption DEF Possible, Root
      <4> QED
        BY <4>2, <4>3, StatementsAssumption DEF Root
    <3> QED
      BY <3>1, <3>2
  <2> QED
    BY <1>4, <2>1, <2>2
<1>5. CASE yields = "root" \/ e.inplace
  <2>1. Value(s, yields, i) = Root(s) /\ Root(s) # None
    BY <1>4, <1>5 DEF Value
  <2> QED
    BY <1>1, <1>3, <1>5, <2>1 DEF after
<1>6. CASE yields = "nothing" /\ ~e.inplace
  BY <1>3, <1>6 DEF Value
<1>7. CASE ~(yields = "root" \/ e.inplace) /\ yields # "nothing"
  <2>1. Value(s, yields, i) = Len(objs) + i
    BY <1>7 DEF Value
  <2>2. i <= More(yields) /\ More(yields) \in Nat
    BY <1>7 DEF More, Yields, Both
  <2>3. Len(objs) + i \in DOMAIN after /\ Len(objs) + i # None
    BY <1>0, <1>2, <2>2, StatementsAssumption
  <2> QED
    BY <1>3, <1>7, <2>1, <2>3 DEF after
<1> QED
  BY <1>5, <1>6, <1>7
\* A statement binds its names and leaves the others.
LEMMA ReboundFacts ==
  ASSUME Typed, NEW s \in Statement, NEW yields \in Yields, NEW change \in Changes,
         Possible(s, yields, change)
  PROVE  LET refers == Rebound(s, yields)
         IN  /\ refers \in [Names -> DOMAIN After(s, yields, change) \cup {None}]
             /\ \A x \in Names : x \notin Binds(s) /\ ~(s.form = "loop" /\ x = s.expr.root)
                                   => refers[x] = ns[x]
             /\ \A x \in Names : x \in Binds(s) /\ Len(s.left) = 1
                                   => refers[x] = Value(s, yields, 1)
             /\ \A x \in Binds(s) \cap Names : yields # "nothing" => refers[x] # None
<1> DEFINE D == DOMAIN After(s, yields, change) \cup {None}
           at(x) == CHOOSE i \in DOMAIN s.left : s.left[i] = Target("name", x)
           new(x) == IF x \in Binds(s) THEN Value(s, yields, at(x))
                     ELSE IF s.form = "loop" /\ x = s.expr.root THEN None ELSE ns[x]
<1>1. Rebound(s, yields) = [x \in Names |-> new(x)]
  BY DEF Rebound
<1>2. /\ DOMAIN objs \subseteq D /\ None \in D /\ ns \in [Names -> DOMAIN objs \cup {None}]
  BY AfterFacts DEF Typed
<1>3. ASSUME NEW x \in Binds(s)
      PROVE  at(x) \in 1..2 /\ (yields \notin Both => at(x) = 1) /\ (Len(s.left) = 1 => at(x) = 1)
  <2>1. Shape(s)
    BY Shapes
  <2>2. CASE \E to \in Tos, y \in Names : One(s, to, y)
    <3>1. PICK to \in Tos, y \in Names : One(s, to, y)
      BY <2>2
    <3>2. x = y /\ to = "name" /\ DOMAIN s.left = {1} /\ s.left[1] = Target("name", x)
      BY <1>3, <3>1 DEF One
    <3>3. at(x) = 1
      BY <3>2
    <3> HIDE DEF at
    <3> QED
      BY <3>3
  <2>3. CASE \E y \in Names, z \in Names : Two(s, y, z)
    <3>1. PICK y \in Names, z \in Names : Two(s, y, z)
      BY <2>3
    <3>2. /\ DOMAIN s.left = {1, 2} /\ Len(s.left) = 2
          /\ s.left[1] = Target("name", x) \/ s.left[2] = Target("name", x)
      BY <1>3, <3>1 DEF Two
    <3>3. at(x) \in {1, 2}
      BY <3>2
    <3>4. yields \in Both
      BY <3>2 DEF Possible, Both
    <3> HIDE DEF at
    <3> QED
      BY <3>2, <3>3, <3>4
  <2>4. CASE NoTarget(s)
    BY <1>3, <2>4 DEF NoTarget
  <2> QED
    BY <2>1, <2>2, <2>3, <2>4 DEF Shape
<1> HIDE DEF at
<1>4. ASSUME NEW x \in Names PROVE new(x) \in D
  <2>1. CASE x \in Binds(s)
    <3>1. Value(s, yields, at(x)) \in D
      BY <1>3, <2>1, ValueFacts
    <3> QED
      BY <2>1, <3>1
  <2>2. CASE x \notin Binds(s)
    BY <1>2, <2>2
  <2> QED
    BY <2>1, <2>2
<1>5. ASSUME NEW x \in Names, x \in Binds(s), Len(s.left) = 1 PROVE new(x) = Value(s, yields, 1)
  BY <1>3, <1>5
<1>7. ASSUME NEW x \in Names, x \in Binds(s), yields # "nothing" PROVE new(x) # None
  <2>1. Value(s, yields, at(x)) # None
    BY <1>3, <1>7, ValueFacts
  <2> QED
    BY <1>7, <2>1
<1>6. ASSUME NEW x \in Names, x \notin Binds(s), ~(s.form = "loop" /\ x = s.expr.root)
      PROVE  new(x) = ns[x]
  BY <1>6
<1> HIDE DEF new
<1> QED
  BY <1>1, <1>4, <1>5, <1>6, <1>7

-----------------------------------------------------------------------------
(* The steps a statement is rewritten to *)

\* The rewriter makes one of five steps of a statement.
AStep(s) ==
  LET w == Rewritten(s)
  IN  \/ s.form = "assign" /\ Single(s, "item") /\ w = Step("setitem", Stores(s))
      \/ /\ s.form = "assign" /\ ~Single(s, "item") /\ s.expr.kind = "call"
         /\ s.expr.name # "never" /\ w = Step("call", Assigned(s))
      \/ /\ s.form = "assign" /\ Single(s, "name") /\ ~Single(s, "item")
         /\ s.expr.kind # "call" /\ w = Step(s.expr.kind, Binds(s))
      \/ /\ s.form = "expr" /\ s.expr.kind = "call" /\ s.expr.name = "step"
         /\ w = Step("call", IF s.expr.inplace THEN {s.expr.root} ELSE {})
      \/ s.form = "loop" /\ Mutated(s) # {} /\ w = Step("block", Mutated(s))

\* Otherwise it makes none.
NoStep(s) ==
  \/ s.form = "block"
  \/ s.form = "loop" /\ Mutated(s) = {}
  \/ s.form = "expr" /\ s.expr.name # "step"
  \/ /\ s.form = "assign" /\ ~Single(s, "item")
     /\ (s.expr.kind = "call" /\ s.expr.name = "never") \/ (s.expr.kind # "call" /\ ~Single(s, "name"))

\* Each statement is one of these steps or, left as it is, none.
LEMMA Steps ==
  ASSUME NEW s \in Statement
  PROVE  \/ AStep(s) /\ Rewritten(s).op # "plain"
         \/ NoStep(s) /\ Rewritten(s) = Plain
<1>1. Shape(s)
  BY Shapes
<1>2. \A op, told : Step(op, told).op = op
  BY DEF Step
<1>3. s.expr.kind \in {"call", "subscript", "name", "operator"}
  BY Expressions
<1>4. ~(Single(s, "item") /\ Single(s, "name"))
  BY <1>1 DEF Shape, One, Two, NoTarget
<1>5. CASE s.form = "assign"
  <2>1. Rewritten(s) = WrapAssign(s)
    BY <1>5 DEF Rewritten
  <2>2. CASE Single(s, "item")
    <3>1. Rewritten(s) = Step("setitem", Stores(s))
      BY <1>4, <2>1, <2>2 DEF WrapAssign
    <3> QED
      BY <1>2, <1>5, <2>2, <3>1 DEF AStep
  <2>3. CASE ~Single(s, "item") /\ s.expr.kind = "call"
    <3>1. Rewritten(s) = IF Omitted(s.expr, TRUE) THEN Plain ELSE Step("call", Assigned(s))
      BY <2>1, <2>3 DEF WrapAssign
    <3>2. Omitted(s.expr, TRUE) <=> s.expr.name = "never"
      BY DEF Omitted
    <3> QED
      BY <1>2, <1>5, <2>3, <3>1, <3>2 DEF AStep, NoStep
  <2>4. CASE ~Single(s, "item") /\ s.expr.kind # "call" /\ Single(s, "name")
    <3>1. Rewritten(s) = Step(s.expr.kind, Binds(s))
      BY <2>1, <2>4 DEF WrapAssign
    <3> QED
      BY <1>2, <1>3, <1>5, <2>4, <3>1 DEF AStep
  <2>5. CASE ~Single(s, "item") /\ s.expr.kind # "call" /\ ~Single(s, "name")
    <3>1. Rewritten(s) = Plain
      BY <2>1, <2>5 DEF WrapAssign
    <3> QED
      BY <1>5, <2>5, <3>1 DEF NoStep
  <2> QED
    BY <2>2, <2>3, <2>4, <2>5
<1>6. CASE s.form = "expr"
  <2>1. Rewritten(s) = WrapCall(s)
    BY <1>6 DEF Rewritten
  <2>2. s.expr.kind = "call" /\ s.expr.name \in {"step", "look", "never"}
    BY <1>1, <1>6, Calls DEF Shape, IsAssign, IsBlock, IsLoop
  <2>3. Omitted(s.expr, FALSE) <=> s.expr.name # "step"
    BY <2>2 DEF Omitted
  <2>4. CASE s.expr.name = "step"
    <3>1. Rewritten(s) = Step("call", IF s.expr.inplace THEN {s.expr.root} ELSE {})
      BY <2>1, <2>3, <2>4 DEF WrapCall
    <3> QED
      BY <1>2, <1>6, <2>2, <2>4, <3>1 DEF AStep
  <2>5. CASE s.expr.name # "step"
    <3>1. Rewritten(s) = Plain
      BY <2>1, <2>3, <2>5 DEF WrapCall
    <3> QED
      BY <1>6, <2>5, <3>1 DEF NoStep
  <2> QED
    BY <2>4, <2>5
<1>7. CASE s.form = "loop"
  <2>1. Rewritten(s) = WrapLoop(s)
    BY <1>7 DEF Rewritten
  <2>2. CASE Mutated(s) = {}
    BY <1>7, <2>1, <2>2 DEF NoStep, WrapLoop
  <2>3. CASE Mutated(s) # {}
    BY <1>2, <1>7, <2>1, <2>3 DEF AStep, WrapLoop
  <2> QED
    BY <2>2, <2>3
<1>8. CASE s.form = "block"
  BY <1>8 DEF Rewritten, NoStep
<1> QED
  BY <1>5, <1>6, <1>7, <1>8, Expressions
\* The names a deep store mentions, and those a loop leaves open.
Deep(s) == s.form = "assign" /\ Stores(s) # {} /\ ~Single(s, "item")
Lost(s, refers, changed, x) ==
  s.form = "loop" /\ (x = s.expr.root \/ (x \in Assigned(s) /\ changed[refers[x]].kind # "frame"))

Unsplit(s, yields) == yields = "unsplit" /\ s.expr.kind = "call"

\* What a step is told: objects there are, for names that were given another value, one
\* each and the one it has, unless their result is not split; and the object whose change cannot be seen.
Told(s, yields, change, outs) ==
  LET changed == After(s, yields, change)
      refers == Rebound(s, yields)
  IN  /\ \A out \in outs : out.obj \in DOMAIN changed \cup {None}
      /\ \A out \in outs : out.name \in Gives(s, yields) \cup {None}
      /\ \A x \in Gives(s, yields) :
           \/ Lost(s, refers, changed, x)
           \/ Deep(s) /\ x \in Stores(s)
           \/ Unsplit(s, yields) /\ refers[x] # None
           \/ \E out \in outs : out.name = x /\ out.obj = refers[x]
      /\ \A out \in outs, other \in outs : out.name = other.name => out = other
      /\ \A o \in Changed(s) :
           \/ Deep(s) \/ change # "hidden" \/ objs[o].kind # "frame"
           \/ \E out \in outs : out.obj = o

\* Outputs given by name, each with the object in f.
Pairs(f, T) == {[name |-> x, obj |-> f[x]] : x \in T}

\* Each has its name, each name has one, and it is the only one.
LEMMA Named ==
  ASSUME NEW f, NEW T
  PROVE  /\ \A out \in Pairs(f, T) : out.name \in T /\ out.obj = f[out.name]
         /\ \A x \in T : \E out \in Pairs(f, T) : out.name = x /\ out.obj = f[x]
         /\ \A out \in Pairs(f, T), other \in Pairs(f, T) : out.name = other.name => out = other
<1> DEFINE outs == {[name |-> x, obj |-> f[x]] : x \in T}
<1>1. ASSUME NEW out \in outs
      PROVE  out.name \in T /\ out = [name |-> out.name, obj |-> f[out.name]] /\ out.obj = f[out.name]
  OBVIOUS
<1>2. ASSUME NEW x \in T PROVE \E out \in outs : out.name = x /\ out.obj = f[x]
  <2>1. [name |-> x, obj |-> f[x]] \in outs
    OBVIOUS
  <2> QED
    BY <2>1
<1>3. ASSUME NEW out \in outs, NEW other \in outs, out.name = other.name PROVE out = other
  <2>1. out = [name |-> out.name, obj |-> f[out.name]]
    BY <1>1
  <2>2. other = [name |-> other.name, obj |-> f[other.name]]
    BY <1>1
  <2> QED
    BY <1>3, <2>1, <2>2
<1> QED
  BY <1>1, <1>2, <1>3 DEF Pairs

\* Outputs by name tell what they should if their names and objects do.
LEMMA ToldPairs ==
  ASSUME NEW s, NEW yields, NEW change, NEW f, NEW T,
         T \subseteq Gives(s, yields) \cup {None},
         \A x \in T : f[x] \in DOMAIN After(s, yields, change) \cup {None},
         \A x \in Gives(s, yields) :
           \/ Lost(s, Rebound(s, yields), After(s, yields, change), x)
           \/ Deep(s) /\ x \in Stores(s)
           \/ Unsplit(s, yields) /\ Rebound(s, yields)[x] # None
           \/ x \in T /\ f[x] = Rebound(s, yields)[x],
         \A o \in Changed(s) :
           \/ Deep(s) \/ change # "hidden" \/ objs[o].kind # "frame"
           \/ \E x \in T : f[x] = o
  PROVE  Told(s, yields, change, Pairs(f, T))
<1> DEFINE outs == Pairs(f, T)
<1>1. /\ \A out \in outs : out.name \in T /\ out.obj = f[out.name]
      /\ \A x \in T : \E out \in outs : out.name = x /\ out.obj = f[x]
      /\ \A out \in outs, other \in outs : out.name = other.name => out = other
  BY Named
<1> HIDE DEF outs
<1>2. \A out \in outs : out.obj \in DOMAIN After(s, yields, change) \cup {None}
  BY <1>1
<1>3. \A out \in outs : out.name \in Gives(s, yields) \cup {None}
  BY <1>1
<1>4. \A x \in Gives(s, yields) :
        \/ Lost(s, Rebound(s, yields), After(s, yields, change), x)
        \/ Deep(s) /\ x \in Stores(s)
        \/ Unsplit(s, yields) /\ Rebound(s, yields)[x] # None
        \/ \E out \in outs : out.name = x /\ out.obj = Rebound(s, yields)[x]
  BY <1>1
<1>5. \A o \in Changed(s) :
        \/ Deep(s) \/ change # "hidden" \/ objs[o].kind # "frame"
        \/ \E out \in outs : out.obj = o
  BY <1>1
<1>6. Told(s, yields, change, outs)
  BY <1>1, <1>2, <1>3, <1>4, <1>5 DEF Told
<1> QED
  BY <1>6 DEF outs

\* With an item, or a single name, there is one target.
LEMMA OneOrNone ==
  ASSUME NEW s \in Statement, Single(s, "item") \/ Single(s, "name")
  PROVE  Len(s.left) = 1
BY DEF Single

\* A store into an item: the objects its names have.
LEMMA ToldItem ==
  ASSUME Typed, NEW s \in Statement, NEW yields \in Yields, NEW change \in Changes,
         Possible(s, yields, change), NEW kept,
         s.form = "assign", Single(s, "item")
  PROVE  Told(s, yields, change,
              Outputs(s, Step("setitem", Stores(s)), kept, Rebound(s, yields), yields))
<1> DEFINE w == Step("setitem", Stores(s))
           changed == After(s, yields, change)
           refers == Rebound(s, yields)
           outs == Outputs(s, w, kept, refers, yields)
           f == [x \in Stores(s) |-> ns[x]]
<1>1. PICK x \in Names : Binds(s) = {} /\ Stores(s) = {x}
  BY Shapes DEF Shape, One, Two, NoTarget, IsLoop, IsBlock, IsAssign, Tos
<1>2. w.op = "setitem" /\ w.told = Stores(s)
  BY DEF Step
<1>3. outs = {[name |-> y, obj |-> ns[y]] : y \in Stores(s)}
  <2>1. yields # "unsplit"
    BY OneOrNone DEF Possible
  <2> QED
    BY <1>1, <1>2, <2>1 DEF Outputs
<1>4. outs = Pairs(f, Stores(s))
  BY <1>3 DEF Pairs
<1>5. Gives(s, yields) = {x}
  BY <1>1 DEF Gives
<1>6. Changed(s) = {ns[x]}
  BY <1>1 DEF Changed
<1>7. refers[x] = ns[x] /\ refers[x] \in DOMAIN changed \cup {None}
  BY <1>1, ReboundFacts
<1>8. f[x] = ns[x]
  BY <1>1
<1> HIDE DEF outs, f
<1>9. Told(s, yields, change, Pairs(f, Stores(s)))
  BY <1>1, <1>5, <1>6, <1>7, <1>8, ToldPairs
<1> QED
  BY <1>4, <1>9 DEF outs

\* A call whose result is assigned: its names have it, but for a deep store.
LEMMA ToldCall ==
  ASSUME Typed, NEW s \in Statement, NEW yields \in Yields, NEW change \in Changes,
         Possible(s, yields, change), NEW kept,
         s.form = "assign", ~Single(s, "item"), s.expr.kind = "call", s.expr.name # "never"
  PROVE  Told(s, yields, change,
              Outputs(s, Step("call", Assigned(s)), kept, Rebound(s, yields), yields))
<1> DEFINE w == Step("call", Assigned(s))
           changed == After(s, yields, change)
           refers == Rebound(s, yields)
           outs == Outputs(s, w, kept, refers, yields)
<1>1. w.op = "call" /\ w.told = Binds(s) \cup Stores(s)
  BY DEF Step, Assigned
<1>2. Gives(s, yields) = Binds(s) \cup Stores(s)
  BY DEF Gives
<1>3. \/ \E x \in Names : Binds(s) = {} /\ Stores(s) = {x} /\ Len(s.left) = 1
      \/ \E x \in Names : Binds(s) = {x} /\ Stores(s) = {} /\ Len(s.left) = 1
      \/ \E x \in Names, y \in Names : Binds(s) = {x, y} /\ Stores(s) = {} /\ Len(s.left) = 2
  BY Shapes DEF Shape, One, Two, NoTarget, IsLoop, IsBlock, IsAssign, Tos
<1>4. yields \in Both <=> Len(s.left) = 2
  BY DEF Possible, Both
<1>5. CASE Stores(s) # {}
  <2> DEFINE f == [x \in w.told |-> Value(s, yields, 1)]
  <2>1. PICK x \in Names : Binds(s) = {} /\ Stores(s) = {x} /\ Len(s.left) = 1
    BY <1>3, <1>5
  <2>2. Deep(s) /\ w.told = Stores(s)
    BY <1>1, <1>5, <2>1 DEF Deep
  <2>3. outs = {[name |-> y, obj |-> Value(s, yields, 1)] : y \in w.told}
    <3>1. s.expr.inplace => Value(s, yields, 1) = Root(s)
      BY <1>4, <2>1, ValueFacts
    <3>2. w.told # {}
      BY <2>1, <2>2
    <3> QED
      BY <1>1, <1>5, <3>1, <3>2 DEF Outputs, Root
  <2>4. outs = Pairs(f, w.told)
    BY <2>3 DEF Pairs
  <2>5. Value(s, yields, 1) \in DOMAIN changed \cup {None}
    BY <1>4, <2>1, ValueFacts
  <2>6. \A y \in w.told : f[y] = Value(s, yields, 1)
    OBVIOUS
  <2> HIDE DEF outs, f, w
  <2>7. Told(s, yields, change, Pairs(f, w.told))
    BY <1>2, <2>1, <2>2, <2>5, <2>6, ToldPairs
  <2> QED
    BY <2>4, <2>7 DEF outs, w
<1>6. CASE Stores(s) = {}
  <2> DEFINE f == [x \in w.told |-> refers[x]]
  <2>1. Binds(s) \subseteq Names /\ Binds(s) # {} /\ w.told = Binds(s)
    BY <1>1, <1>3, <1>6
  <2>2. \A x \in Binds(s) : refers[x] \in DOMAIN changed \cup {None}
    BY <2>1, ReboundFacts
  <2>3. \A x \in w.told : f[x] = refers[x]
    OBVIOUS
  <2>4. CASE s.expr.inplace
    <3>1. yields = "nothing" /\ s.expr.root \in Names
      BY <2>4, Expressions DEF Possible
    <3>2. Len(s.left) = 1
      BY <1>3, <1>4, <3>1 DEF Both
    <3>3. \A x \in Binds(s) : refers[x] = Root(s)
      BY <2>1, <2>4, <3>1, <3>2, ReboundFacts, ValueFacts
    <3>4. Changed(s) = {Root(s)}
      BY <1>6, <3>1, StatementsAssumption DEF Changed, Root
    <3>5. outs = {[name |-> x, obj |-> Root(s)] : x \in w.told}
      BY <1>1, <1>6, <2>1, <2>4 DEF Outputs, Root
    <3>6. outs = Pairs(f, w.told)
      <4>1. \A x \in w.told : f[x] = Root(s)
        BY <2>1, <2>3, <3>3
      <4> HIDE DEF outs, f, w
      <4>2. Pairs(f, w.told) = {[name |-> x, obj |-> Root(s)] : x \in w.told}
        BY <4>1 DEF Pairs
      <4> QED
        BY <3>5, <4>2
    <3> HIDE DEF outs, f, w
    <3>7. Told(s, yields, change, Pairs(f, w.told))
      BY <1>2, <1>6, <2>1, <2>2, <2>3, <3>3, <3>4, ToldPairs
    <3> QED
      BY <3>6, <3>7 DEF outs, w
  <2>6. CASE ~s.expr.inplace /\ yields = "unsplit"
    <3> DEFINE g == [x \in {None} |-> None]
    <3>1. outs = {[name |-> None, obj |-> None]}
      BY <1>1, <1>6, <2>1, <2>6 DEF Outputs
    <3>2. outs = Pairs(g, {None}) /\ g[None] = None
      BY <3>1 DEF Pairs
    <3>3. change # "hidden" \/ Changed(s) = {}
      BY <1>6, <2>6 DEF Possible, Changed
    <3>4. Unsplit(s, yields) /\ \A x \in Binds(s) : refers[x] # None
      BY <2>1, <2>6, ReboundFacts DEF Unsplit
    <3> HIDE DEF outs, g, w, f
    <3>5. Told(s, yields, change, Pairs(g, {None}))
      BY <1>2, <1>6, <3>2, <3>3, <3>4, ToldPairs
    <3> QED
      BY <3>2, <3>5 DEF outs, w
  <2>5. CASE ~s.expr.inplace /\ yields # "unsplit"
    <3>1. outs = {[name |-> x, obj |-> refers[x]] : x \in w.told}
      BY <1>1, <1>6, <2>1, <2>5 DEF Outputs
    <3>2. outs = Pairs(f, w.told)
      BY <3>1 DEF Pairs
    <3>3. change # "hidden" \/ Changed(s) = {}
      BY <1>6, <2>5 DEF Possible, Changed
    <3> HIDE DEF outs, f, w
    <3>4. Told(s, yields, change, Pairs(f, w.told))
      BY <1>2, <1>6, <2>1, <2>2, <2>3, <3>3, ToldPairs
    <3> QED
      BY <3>2, <3>4 DEF outs, w
  <2> QED
    BY <2>4, <2>5, <2>6
<1> QED
  BY <1>5, <1>6

\* Another value that is assigned to a name: the name has it.
LEMMA ToldValue ==
  ASSUME Typed, NEW s \in Statement, NEW yields \in Yields, NEW change \in Changes,
         Possible(s, yields, change), NEW kept,
         s.form = "assign", Single(s, "name"), s.expr.kind # "call"
  PROVE  Told(s, yields, change,
              Outputs(s, Step(s.expr.kind, Binds(s)), kept, Rebound(s, yields), yields))
<1> DEFINE w == Step(s.expr.kind, Binds(s))
           changed == After(s, yields, change)
           refers == Rebound(s, yields)
           outs == Outputs(s, w, kept, refers, yields)
           f == [x \in w.told |-> refers[x]]
<1>1. w.op = s.expr.kind /\ w.told = Binds(s) /\ w.op \in {"subscript", "name", "operator"}
  BY Expressions DEF Step
<1>2. PICK x \in Names : Binds(s) = {x} /\ Stores(s) = {}
  BY Shapes DEF Shape, One, Two, NoTarget, IsLoop, IsBlock, IsAssign, Tos
<1>3. Gives(s, yields) = {x}
  BY <1>2 DEF Gives
<1>4. Changed(s) = {}
  BY <1>2 DEF Changed
<1>5. refers[x] \in DOMAIN changed \cup {None}
  BY ReboundFacts
<1>6. outs = {[name |-> y, obj |-> refers[y]] : y \in w.told}
  <2>1. yields # "unsplit"
    BY OneOrNone DEF Possible
  <2> QED
    BY <1>1, <1>2, <2>1 DEF Outputs
<1>7. outs = Pairs(f, w.told) /\ f[x] = refers[x] /\ w.told = {x}
  BY <1>1, <1>2, <1>6 DEF Pairs
<1> HIDE DEF outs, f, w
<1>8. Told(s, yields, change, Pairs(f, w.told))
  BY <1>3, <1>4, <1>5, <1>7, ToldPairs
<1> QED
  BY <1>7, <1>8 DEF outs, w

\* A call on its own: the object it changed, under the name of its root.
LEMMA ToldExpr ==
  ASSUME Typed, NEW s \in Statement, NEW yields \in Yields, NEW change \in Changes,
         Possible(s, yields, change), NEW kept,
         s.form = "expr", s.expr.kind = "call", s.expr.name = "step"
  PROVE  Told(s, yields, change,
              Outputs(s, Step("call", IF s.expr.inplace THEN {s.expr.root} ELSE {}),
                      kept, Rebound(s, yields), yields))
<1> DEFINE w == Step("call", IF s.expr.inplace THEN {s.expr.root} ELSE {})
           changed == After(s, yields, change)
           refers == Rebound(s, yields)
           outs == Outputs(s, w, kept, refers, yields)
           r == s.expr.root
           itself == Root(s)
           turned == /\ itself # None /\ ~Frame(itself)
                     /\ yields = "root" \/ (yields = "nothing" /\ bound[r] # None)
<1>1. w.op = "call" /\ w.told = IF s.expr.inplace THEN {r} ELSE {}
  BY DEF Step
<1>2. Binds(s) = {} /\ Stores(s) = {} /\ Len(s.left) = 0
  BY Shapes DEF Shape, NoTarget, IsLoop, IsBlock, IsAssign
<1>3. yields \notin Both
  BY <1>2 DEF Possible, Both
<1>4. r \in Names \cup {None} /\ itself \in DOMAIN objs \cup {None}
      /\ Value(s, yields, 1) \in DOMAIN changed \cup {None}
  BY <1>3, Expressions, ValueFacts
<1>5. itself # None <=> r # None
  BY <1>4 DEF Possible, Root
<1>6. r # None => itself = ns[r] /\ refers[r] = ns[r] /\ r \in Names
  BY <1>2, <1>4, ReboundFacts DEF Root
<1>7. itself \in DOMAIN changed \cup {None}
  BY <1>4, AfterFacts
<1>8. Changed(s) = IF r # None THEN {itself} ELSE {}
  BY <1>2, <1>6 DEF Changed
<1> HIDE DEF turned
<1>9. Gives(s, yields) = IF r # None /\ (s.expr.inplace \/ turned) THEN {r} ELSE {}
  BY <1>2, <1>5, <1>6 DEF Gives, turned
<1> DEFINE f(v) == [x \in {r} |-> v]
           g == [x \in {None} |-> Value(s, yields, 1)]
<1>10. CASE s.expr.inplace
  <2>1. r \in Names /\ r # None
    BY <1>10, Expressions, StatementsAssumption
  <2>2. outs = {[name |-> x, obj |-> itself] : x \in {r}}
    BY <1>1, <1>2, <1>10 DEF Outputs, Root
  <2>3. outs = Pairs(f(itself), {r}) /\ f(itself)[r] = itself
    BY <2>2 DEF Pairs
  <2> HIDE DEF outs, f, w, itself, r
  <2>4. Told(s, yields, change, Pairs(f(itself), {r}))
    BY <1>6, <1>7, <1>8, <1>9, <1>10, <2>1, <2>3, ToldPairs
  <2> QED
    BY <2>3, <2>4 DEF outs, w, r
<1>11. CASE ~s.expr.inplace
  <2>1. change # "hidden" \/ Changed(s) = {}
    BY <1>2, <1>5, <1>8, <1>11 DEF Possible, Root
  <2>2. CASE turned
    <3>1. outs = {[name |-> r, obj |-> itself]}
      BY <1>1, <1>2, <1>11, <2>2 DEF Outputs, Root, turned
    <3>2. outs = Pairs(f(itself), {r}) /\ f(itself)[r] = itself
      BY <3>1 DEF Pairs
    <3>3. r # None
      BY <1>5, <2>2 DEF turned
    <3> HIDE DEF outs, f, w, itself, r
    <3>4. Told(s, yields, change, Pairs(f(itself), {r}))
      BY <1>6, <1>7, <1>9, <2>1, <2>2, <3>2, <3>3, ToldPairs
    <3> QED
      BY <3>2, <3>4 DEF outs, w, r
  <2>3. CASE ~turned
    <3>1. outs = {[name |-> None, obj |-> Value(s, yields, 1)]}
      BY <1>1, <1>2, <1>11, <2>3 DEF Outputs, Root, turned
    <3>2. outs = Pairs(g, {None}) /\ g[None] = Value(s, yields, 1)
      BY <3>1 DEF Pairs
    <3>3. Gives(s, yields) = {}
      BY <1>9, <1>11, <2>3
    <3> HIDE DEF outs, g, w, itself, r
    <3>4. Told(s, yields, change, Pairs(g, {None}))
      BY <1>4, <2>1, <3>2, <3>3, ToldPairs
    <3> QED
      BY <3>2, <3>4 DEF outs, w, r
  <2> QED
    BY <2>2, <2>3
<1> QED
  BY <1>10, <1>11

\* A loop: the frames its targets have, but for its variable.
LEMMA ToldLoop ==
  ASSUME Typed, NEW s \in Statement, NEW yields \in Yields, NEW change \in Changes,
         Possible(s, yields, change), NEW kept,
         \A o \in DOMAIN After(s, yields, change) :
           kept[o].kind = After(s, yields, change)[o].kind,
         s.form = "loop", Mutated(s) # {}
  PROVE  Told(s, yields, change,
              Outputs(s, Step("block", Mutated(s)), kept, Rebound(s, yields), yields))
<1> DEFINE w == Step("block", Mutated(s))
           changed == After(s, yields, change)
           refers == Rebound(s, yields)
           outs == Outputs(s, w, kept, refers, yields)
           T == {y \in w.told : refers[y] # None /\ kept[refers[y]].kind = "frame"}
           f == [x \in T |-> refers[x]]
<1>1. w.op = "block" /\ w.told = Assigned(s) \ {s.expr.root}
  BY DEF Step, Mutated
<1>2. /\ s.expr.kind = "operator" /\ ~s.expr.inplace
      /\ \E x \in Names :
           /\ Assigned(s) = {x} /\ Len(s.left) = 1
           /\ \/ Binds(s) = {x} /\ Stores(s) = {}
              \/ Binds(s) = {} /\ Stores(s) = {x} /\ x # s.expr.root
  BY Shapes DEF Shape, One, NoTarget, IsLoop, IsBlock, IsAssign, Tos, Assigned
<1>3. PICK x \in Names : /\ Assigned(s) = {x} /\ Len(s.left) = 1
                         /\ \/ Binds(s) = {x} /\ Stores(s) = {}
                            \/ Binds(s) = {} /\ Stores(s) = {x} /\ x # s.expr.root
  BY <1>2
<1>4. Gives(s, yields) = {x} /\ w.told = {x} /\ x # s.expr.root
  <2>1. x # s.expr.root
    BY <1>3 DEF Mutated
  <2>2. Gives(s, yields) = Binds(s) \cup Stores(s)
    BY DEF Gives
  <2> QED
    BY <1>1, <1>3, <2>1, <2>2 DEF Assigned
<1>5. refers[x] \in DOMAIN changed \cup {None}
  BY ReboundFacts
<1>6. refers[x] # None
  <2>1. CASE Binds(s) = {x}
    <3>1. yields # "nothing" /\ yields \notin Both
      BY <1>2, <1>3, <2>1 DEF Possible, Both
    <3>2. Value(s, yields, 1) # None
      BY <3>1, ValueFacts
    <3>3. refers[x] = Value(s, yields, 1)
      BY <1>3, <2>1, ReboundFacts
    <3> QED
      BY <3>2, <3>3
  <2>2. CASE Binds(s) = {} /\ Stores(s) = {x}
    <3>1. ns[x] # None
      BY <2>2 DEF Possible
    <3>2. refers[x] = ns[x]
      BY <1>4, <2>2, ReboundFacts
    <3> QED
      BY <3>1, <3>2
  <2> QED
    BY <1>3, <2>1, <2>2
<1>7. T \subseteq {x} /\ (changed[refers[x]].kind = "frame" => x \in T) /\ \A y \in T : f[y] = refers[y]
  BY <1>4, <1>5, <1>6
<1>8. outs = {[name |-> y, obj |-> refers[y]] : y \in T}
  BY <1>1 DEF Outputs
<1>9. outs = Pairs(f, T)
  BY <1>8 DEF Pairs
<1>10. Lost(s, refers, changed, x) \/ x \in T
  BY <1>3, <1>7 DEF Lost
<1>11. \A o \in Changed(s) : o = refers[x] /\ o = ns[x] /\ Stores(s) = {x}
  BY <1>2, <1>3, <1>4, ReboundFacts DEF Changed
<1>12. ASSUME NEW o \in Changed(s), objs[o].kind = "frame"
       PROVE  \E y \in T : f[y] = o
  <2>1. o \in DOMAIN objs
    BY <1>6, <1>11 DEF Typed
  <2>2. changed[o].kind = "frame"
    BY <1>12, <2>1, AfterFacts DEF Next1
  <2> QED
    BY <1>7, <1>11, <2>2
<1> HIDE DEF outs, f, w, T, refers, changed
<1>13. Told(s, yields, change, Pairs(f, T))
  BY <1>4, <1>5, <1>7, <1>10, <1>12, ToldPairs DEF refers, changed
<1> QED
  BY <1>9, <1>13 DEF outs, w, refers
\* Storing the inputs changes only what is stored of them.
LEMMA InputsFacts ==
  ASSUME NEW s, NEW w, NEW yields, NEW changed \in Seq(Object)
  PROVE  LET after == InputsKept(s, w, changed, yields)
         IN  /\ after \in Seq(Object) /\ DOMAIN after = DOMAIN changed /\ Len(after) = Len(changed)
             /\ \A o \in DOMAIN changed :
                  /\ after[o].kind = changed[o].kind
                  /\ after[o].ver = changed[o].ver
                  /\ after[o].shape = changed[o].shape
                  /\ changed[o].kept # None => after[o].kept = changed[o].kept
                  /\ changed[o].kept = None => after[o].kept \in {None, changed[o].ver}
                  /\ o \in Inputs(s, w, yields) /\ changed[o].kind = "frame" => after[o].kept # None
<1> DEFINE stored(o) == [changed[o] EXCEPT !.kept = changed[o].ver]
           at(o) == IF o \in Inputs(s, w, yields) /\ changed[o].kind = "frame" /\ changed[o].kept = None
                    THEN stored(o) ELSE changed[o]
           after == [o \in DOMAIN changed |-> at(o)]
<1>0. InputsKept(s, w, changed, yields) = after
  BY DEF InputsKept
<1>1. Len(changed) \in Nat /\ DOMAIN changed = 1..Len(changed)
  BY LenProperties
<1>2. ASSUME NEW o \in DOMAIN changed
      PROVE  /\ at(o) \in Object
             /\ at(o).kind = changed[o].kind
             /\ at(o).ver = changed[o].ver
             /\ at(o).shape = changed[o].shape
             /\ changed[o].kept # None => at(o).kept = changed[o].kept
             /\ changed[o].kept = None => at(o).kept \in {None, changed[o].ver}
             /\ o \in Inputs(s, w, yields) /\ changed[o].kind = "frame" => at(o).kept # None
  <2> DEFINE a == changed[o]
             v == changed[o].ver
             b == [a EXCEPT !.kept = v]
  <2>1. a \in Object
    OBVIOUS
  <2>2. v \in Nat /\ v = a.ver /\ v # None
    BY <2>1, ObjectFields, StatementsAssumption
  <2>3. at(o) = IF o \in Inputs(s, w, yields) /\ a.kind = "frame" /\ a.kept = None THEN b ELSE a
    OBVIOUS
  <2> HIDE DEF a, v, at
  <2>4. b \in Object /\ b.kept = v /\ b.kind = a.kind /\ b.ver = a.ver /\ b.shape = a.shape
    BY <2>1, <2>2 DEF Object
  <2> HIDE DEF b
  <2>5. CASE o \in Inputs(s, w, yields) /\ a.kind = "frame" /\ a.kept = None
    <3>1. at(o) = b
      BY <2>3, <2>5
    <3>2. /\ at(o) \in Object /\ at(o).kind = a.kind /\ at(o).ver = a.ver
          /\ at(o).shape = a.shape /\ at(o).kept = v
      BY <2>4, <3>1
    <3> QED
      BY <2>2, <2>5, <3>2 DEF a, v
  <2>6. CASE ~(o \in Inputs(s, w, yields) /\ a.kind = "frame" /\ a.kept = None)
    <3>1. at(o) = a
      BY <2>3, <2>6
    <3> QED
      BY <2>1, <2>6, <3>1 DEF a
  <2> QED
    BY <2>5, <2>6
<1> HIDE DEF at
<1>3. after \in [1..Len(changed) -> Object]
  BY <1>1, <1>2
<1>4. after \in Seq(Object) /\ Len(after) = Len(changed) /\ DOMAIN after = DOMAIN changed
  BY <1>1, <1>3
<1>5. \A o \in DOMAIN changed : after[o] = at(o)
  OBVIOUS
<1> HIDE DEF after
<1> QED
  BY <1>0, <1>2, <1>4, <1>5

\* Whether the statement is traced.
Traced(s, yields, change) ==
  LET w == Rewritten(s)
  IN  w.op # "plain" /\ OnFrame(s, w.op, After(s, yields, change)[Value(s, yields, 1)])

\* A statement is traced if it is meant to be a step.
LEMMA TracedIsStep ==
  ASSUME NEW s \in Statement, NEW yields, NEW change
  PROVE  Traced(s, yields, change)
           <=> IsStep(s, After(s, yields, change), Value(s, yields, 1))
<1> DEFINE changed == After(s, yields, change)
           v == Value(s, yields, 1)
           step == IsStep(s, changed, v)
           w == Rewritten(s)
<1>0. /\ Shape(s)
      /\ \A op, told : Step(op, told).op = op
  BY Shapes DEF Step
<1>1. s.expr.kind \in {"call", "subscript", "name", "operator"}
  BY Expressions
<1>2. ~(Single(s, "item") /\ Single(s, "name"))
  BY <1>0 DEF Shape, One, Two, NoTarget
<1>3. s.form = "loop" => (Mutated(s) # {} <=> Assigned(s) # {s.expr.root})
  <2>1. ASSUME s.form = "loop" PROVE \E x \in Names : Assigned(s) = {x}
    BY <1>0, <2>1 DEF Shape, One, IsLoop, IsBlock, IsAssign, Tos, Assigned
  <2> QED
    BY <2>1 DEF Mutated
<1>a. AStep(s) \/ (NoStep(s) /\ w.op = "plain")
  BY Steps DEF Plain
<1>4. CASE s.form = "assign" /\ Single(s, "item")
  <2>1. step <=> \A x \in Stores(s) : Frame(ns[x])
    BY <1>2, <1>4 DEF IsStep
  <2>2. w.op = "setitem"
    BY <1>0, <1>4, <1>a DEF AStep, NoStep
  <2> QED
    BY <2>1, <2>2 DEF Traced, OnFrame
<1>5. CASE s.form = "assign" /\ ~Single(s, "item") /\ s.expr.kind = "call"
  <2>1. step <=> s.expr.name # "never"
    BY <1>5 DEF IsStep
  <2>2. (w.op = "call" /\ s.expr.name # "never") \/ (w.op = "plain" /\ s.expr.name = "never")
    BY <1>0, <1>5, <1>a DEF AStep, NoStep
  <2> QED
    BY <2>1, <2>2 DEF Traced, OnFrame
<1>6. CASE s.form = "assign" /\ ~Single(s, "item") /\ s.expr.kind # "call"
  <2>1. step <=> Single(s, "name") /\ IF s.expr.kind = "subscript" THEN Frame(ns[s.expr.root])
                                     ELSE changed[v].kind = "frame"
    BY <1>6 DEF IsStep
  <2>2. (w.op = s.expr.kind /\ Single(s, "name")) \/ (w.op = "plain" /\ ~Single(s, "name"))
    BY <1>0, <1>6, <1>a DEF AStep, NoStep
  <2>3. CASE s.expr.kind = "subscript"
    BY <2>1, <2>2, <2>3 DEF Traced, OnFrame
  <2>4. CASE s.expr.kind \in {"name", "operator"}
    <3>1. OnFrame(s, s.expr.kind, changed[v]) <=> changed[v].kind = "frame"
      BY <2>4 DEF OnFrame
    <3>2. step <=> Single(s, "name") /\ changed[v].kind = "frame"
      BY <2>1, <2>4
    <3> HIDE DEF step
    <3> QED
      BY <2>2, <2>4, <3>1, <3>2 DEF Traced, step
  <2> QED
    BY <1>1, <1>6, <2>3, <2>4
<1>7. CASE s.form = "expr"
  <2>1. step <=> s.expr.name = "step"
    BY <1>7 DEF IsStep
  <2>2. (w.op = "call" /\ s.expr.name = "step") \/ (w.op = "plain" /\ s.expr.name # "step")
    BY <1>0, <1>7, <1>a DEF AStep, NoStep
  <2> QED
    BY <2>1, <2>2 DEF Traced, OnFrame
<1>8. CASE s.form = "loop"
  <2>1. step <=> Assigned(s) # {s.expr.root}
    BY <1>8 DEF IsStep
  <2>2. (w.op = "block" /\ Mutated(s) # {}) \/ (w.op = "plain" /\ Mutated(s) = {})
    BY <1>0, <1>8, <1>a DEF AStep, NoStep
  <2> QED
    BY <1>3, <1>8, <2>1, <2>2 DEF Traced, OnFrame
<1>9. CASE s.form = "block"
  <2>1. ~step
    BY <1>9 DEF IsStep
  <2>2. w.op = "plain"
    BY <1>0, <1>9, <1>a DEF AStep, NoStep
  <2> QED
    BY <2>1, <2>2 DEF Traced
<1> QED
  BY <1>4, <1>5, <1>6, <1>7, <1>8, <1>9, Expressions

\* What a traced statement is told.
LEMMA ToldFacts ==
  ASSUME Typed, NEW s \in Statement, NEW yields \in Yields, NEW change \in Changes,
         Possible(s, yields, change), Traced(s, yields, change)
  PROVE  LET w == Rewritten(s)
             after == InputsKept(s, w, After(s, yields, change), yields)
         IN  Told(s, yields, change, Outputs(s, w, after, Rebound(s, yields), yields))
<1> DEFINE w == Rewritten(s)
           changed == After(s, yields, change)
           after == InputsKept(s, w, changed, yields)
<1>1. AStep(s)
  BY Steps DEF Traced, Plain
<1>2. changed \in Seq(Object)
  BY AfterFacts
<1>3. \A o \in DOMAIN changed : after[o].kind = changed[o].kind
  BY <1>2, InputsFacts
<1> HIDE DEF after
<1>4. Told(s, yields, change, Outputs(s, w, after, Rebound(s, yields), yields))
  BY <1>1, <1>3, ToldItem, ToldCall, ToldValue, ToldExpr, ToldLoop DEF AStep
<1> QED
  BY <1>4 DEF after
\* An alias has its object stored by now, and changes nothing.
LEMMA AliasFacts ==
  ASSUME Typed, NEW s \in Statement, NEW yields \in Yields, NEW change \in Changes,
         Possible(s, yields, change), Traced(s, yields, change), Rewritten(s).op = "name"
  PROVE  LET w == Rewritten(s)
             after == InputsKept(s, w, After(s, yields, change), yields)
             outs == Outputs(s, w, after, Rebound(s, yields), yields)
         IN  /\ s.form = "assign" /\ Single(s, "name") /\ s.expr.kind = "name" /\ change = "none"
             /\ Root(s) \in DOMAIN objs /\ Root(s) = ns[s.expr.root]
             /\ \A out \in outs : out.obj = Root(s)
             /\ after[Root(s)].kept # None
<1> DEFINE w == Rewritten(s)
           changed == After(s, yields, change)
           refers == Rebound(s, yields)
           after == InputsKept(s, w, changed, yields)
           outs == Outputs(s, w, after, refers, yields)
<1>1. AStep(s)
  BY Steps DEF Traced, Plain
<1>2. \A op, told : Step(op, told).op = op /\ Step(op, told).told = told
  BY DEF Step
<1>3. /\ s.form = "assign" /\ Single(s, "name") /\ s.expr.kind = "name"
      /\ w.told = Binds(s)
  BY <1>1, <1>2 DEF AStep
<1>4. PICK x \in Names : Binds(s) = {x} /\ Stores(s) = {} /\ Len(s.left) = 1
  BY <1>3, Shapes DEF Shape, One, Two, NoTarget, IsLoop, IsBlock, IsAssign, Tos
<1>5. change = "none" /\ yields = "root"
  BY <1>3, <1>4 DEF Possible
<1>6. /\ Value(s, yields, 1) = Root(s) /\ Root(s) # None
      /\ Root(s) \in DOMAIN objs
  BY <1>5, ValueFacts
<1>7. s.expr.root \in Names /\ s.expr.root # None /\ Root(s) = ns[s.expr.root]
  BY <1>3, Expressions, StatementsAssumption DEF Root
<1>8. refers[x] = Root(s)
  BY <1>4, <1>6, ReboundFacts
<1>9. outs = {[name |-> y, obj |-> refers[y]] : y \in w.told}
  BY <1>3, <1>4, <1>5 DEF Outputs
<1>10. \A out \in outs : out.obj = Root(s)
  BY <1>3, <1>4, <1>8, <1>9
<1>11. changed[Root(s)].kind = "frame"
  BY <1>6 DEF Traced, OnFrame
<1>12. Root(s) \in Inputs(s, w, yields)
  BY <1>7 DEF Inputs
<1>13. changed \in Seq(Object) /\ Root(s) \in DOMAIN changed
  BY <1>6, AfterFacts
<1>14. after[Root(s)].kept # None
  BY <1>11, <1>12, <1>13, InputsFacts
<1> QED
  BY <1>3, <1>5, <1>6, <1>7, <1>10, <1>14

-----------------------------------------------------------------------------
(* What a step does to the objects and the bindings *)

\* An object's mark after the step.
Now(o, ver) == [obj |-> o, ver |-> ver, shape |-> Fingerprint(o, objs')]
Named0(x, outs) == \E out \in outs : out.name = x
Looks(x) ==
  LET o == bound[x].obj
  IN  /\ Tracked(x) /\ Fingerprint(o, objs') # bound[x].shape
      /\ objs'[o].kind = "frame" => o \in Range(ns')

\* Objects: what is stored of one is never an earlier version than before.
ObjectsKept(s, yields, change) ==
  LET changed == After(s, yields, change)
  IN  /\ objs' \in Seq(Object) /\ DOMAIN objs' = DOMAIN changed
      /\ \A o \in DOMAIN changed :
           /\ objs'[o].kind = changed[o].kind
           /\ objs'[o].ver = changed[o].ver
           /\ objs'[o].shape = changed[o].shape
           /\ objs'[o].kept # None => objs'[o].kept <= objs'[o].ver
      /\ \A o \in DOMAIN objs :
           objs[o].kept # None => objs'[o].kept # None /\ objs'[o].kept >= objs[o].kept

\* The version a step binds an object to: for an alias, the one stored last.
Versions(alias, now, version) ==
  \A o \in now :
    /\ version[o] \in Nat /\ objs'[o].kept # None /\ version[o] <= objs'[o].kept
    /\ ~alias => version[o] = objs'[o].ver
    /\ alias => o \in DOMAIN objs
    /\ alias /\ objs[o].kept # None => version[o] = objs[o].kept
    /\ alias /\ objs[o].kept = None => version[o] = objs[o].ver

\* The binding of a name.
Binding(x, outs, now, version) ==
  /\ \A out \in outs : out.name = x =>
       bound'[x] = IF out.obj \in now THEN Now(out.obj, version[out.obj]) ELSE None
  /\ ~Named0(x, outs) =>
       IF bound[x] = None THEN bound'[x] = None
       ELSE IF Tracked(x) /\ bound[x].obj \in now
            THEN bound'[x] = Now(bound[x].obj, version[bound[x].obj])
       ELSE IF Looks(x) THEN
            IF Storable(bound[x].obj, objs')
            THEN /\ bound'[x] = Now(bound[x].obj, objs'[bound[x].obj].ver)
                 /\ objs'[bound[x].obj].kept = objs'[bound[x].obj].ver
            ELSE bound'[x] = None
       ELSE bound'[x] = bound[x]

Effects(s, yields, change, keep, outs, now, version) ==
  LET alias == Rewritten(s).op = "name"
  IN  /\ Told(s, yields, change, outs)
      /\ now = IF alias \/ keep
               THEN {o \in {out.obj : out \in outs} \ {None} : Storable(o, objs')} ELSE {}
      /\ alias => change = "none" /\ Root(s) = ns[s.expr.root] /\ now \subseteq {Root(s)}
      /\ ObjectsKept(s, yields, change)
      /\ Versions(alias, now, version)
      /\ \A x \in Names : Binding(x, outs, now, version)
      /\ bound' \in [Names -> Mark \cup {None}]
\* Noting what was stored changes only that.
LEMMA NotedFacts ==
  ASSUME NEW after \in Seq(Object), NEW now, NEW refreshed
  PROVE  LET N == now \cup {o \in {bound[x].obj : x \in refreshed} : Storable(o, after)}
             noted == Noted(after, now, refreshed)
         IN  /\ noted \in Seq(Object) /\ DOMAIN noted = DOMAIN after
             /\ \A o \in DOMAIN after :
                  /\ noted[o].kind = after[o].kind
                  /\ noted[o].ver = after[o].ver
                  /\ noted[o].shape = after[o].shape
                  /\ noted[o].kept = IF o \in N THEN after[o].ver ELSE after[o].kept
<1> DEFINE N == now \cup {o \in {bound[x].obj : x \in refreshed} : Storable(o, after)}
           at(o) == IF o \in N THEN [after[o] EXCEPT !.kept = after[o].ver] ELSE after[o]
           noted == [o \in DOMAIN after |-> at(o)]
<1>0. Noted(after, now, refreshed) = noted
  BY DEF Noted
<1>1. Len(after) \in Nat /\ DOMAIN after = 1..Len(after)
  BY LenProperties
<1> HIDE DEF N
<1>2. ASSUME NEW o \in DOMAIN after
      PROVE  /\ at(o) \in Object
             /\ at(o).kind = after[o].kind
             /\ at(o).ver = after[o].ver
             /\ at(o).shape = after[o].shape
             /\ at(o).kept = IF o \in N THEN after[o].ver ELSE after[o].kept
  <2> DEFINE a == after[o]
             v == after[o].ver
             b == [a EXCEPT !.kept = v]
  <2>1. a \in Object
    OBVIOUS
  <2>2. v \in Nat /\ v = a.ver
    BY <2>1, ObjectFields
  <2>3. at(o) = IF o \in N THEN b ELSE a
    OBVIOUS
  <2> HIDE DEF a, v, at
  <2>4. b \in Object /\ b.kept = v /\ b.kind = a.kind /\ b.ver = a.ver /\ b.shape = a.shape
    BY <2>1, <2>2 DEF Object
  <2> HIDE DEF b
  <2>5. CASE o \in N
    <3>1. at(o) = b
      BY <2>3, <2>5
    <3> QED
      BY <2>4, <2>5, <3>1 DEF a, v
  <2>6. CASE o \notin N
    <3>1. at(o) = a
      BY <2>3, <2>6
    <3> QED
      BY <2>1, <2>6, <3>1 DEF a
  <2> QED
    BY <2>5, <2>6
<1> HIDE DEF at
<1>3. noted \in [1..Len(after) -> Object]
  BY <1>1, <1>2
<1>4. noted \in Seq(Object) /\ DOMAIN noted = DOMAIN after
  BY <1>1, <1>3
<1>5. \A o \in DOMAIN after : noted[o] = at(o)
  OBVIOUS
<1> HIDE DEF noted
<1>6. \A o \in DOMAIN after :
        /\ noted[o].kind = after[o].kind
        /\ noted[o].ver = after[o].ver
        /\ noted[o].shape = after[o].shape
        /\ noted[o].kept = IF o \in N THEN after[o].ver ELSE after[o].kept
  BY <1>2, <1>5
<1> QED
  BY <1>0, <1>4, <1>6 DEF N

\* The bindings, one name at a time.
LEMMA BindingFacts ==
  ASSUME NEW outs, NEW now, NEW version, NEW after, NEW refers, NEW x \in Names,
         \A out \in outs, other \in outs : out.name = other.name => out = other
  PROVE  LET b == Bindings(outs, now, version, after, refers)[x]
             o == bound[x].obj
         IN  /\ \A out \in outs : out.name = x =>
                  b = IF out.obj \in now THEN At(out.obj, version[out.obj], after) ELSE None
             /\ ~Named0(x, outs) =>
                  b = IF bound[x] = None THEN None
                      ELSE IF Tracked(x) /\ o \in now THEN At(o, version[o], after)
                      ELSE IF Tracked(x) /\ LookChanged(x, after, refers)
                           THEN IF Storable(o, after) THEN At(o, after[o].ver, after) ELSE None
                      ELSE bound[x]
<1> DEFINE b == Bindings(outs, now, version, after, refers)[x]
<1>1. ASSUME NEW out \in outs, out.name = x, out.obj \in now
      PROVE  b = At(out.obj, version[out.obj], after)
  <2>1. (CHOOSE u \in outs : u.name = x) = out
    BY <1>1
  <2>2. /\ \E u \in outs : u.name = x /\ u.obj \in now
        /\ ~\E u \in outs : u.name = x /\ u.obj \notin now
        /\ ~\A u \in outs : u.name # x
    BY <1>1
  <2> QED
    BY <2>1, <2>2 DEF Bindings
<1>2. ASSUME NEW out \in outs, out.name = x, out.obj \notin now
      PROVE  b = None
  <2>1. /\ ~\E u \in outs : u.name = x /\ u.obj \in now
        /\ \E u \in outs : u.name = x /\ u.obj \notin now
        /\ ~\A u \in outs : u.name # x
    BY <1>2
  <2> QED
    BY <2>1 DEF Bindings, Popped
<1>3. ASSUME ~Named0(x, outs)
      PROVE  b = IF bound[x] = None THEN None
                 ELSE IF Tracked(x) /\ bound[x].obj \in now
                      THEN At(bound[x].obj, version[bound[x].obj], after)
                 ELSE IF Tracked(x) /\ LookChanged(x, after, refers)
                      THEN IF Storable(bound[x].obj, after)
                           THEN At(bound[x].obj, after[bound[x].obj].ver, after) ELSE None
                 ELSE bound[x]
  <2>1. /\ ~\E u \in outs : u.name = x /\ u.obj \in now
        /\ ~\E u \in outs : u.name = x /\ u.obj \notin now
        /\ \A u \in outs : u.name # x
    BY <1>3 DEF Named0
  <2>2. bound[x] # None /\ ~(Tracked(x) /\ bound[x].obj \in now) =>
          (x \in Refreshed(outs, now, after, refers) <=> Tracked(x) /\ LookChanged(x, after, refers))
    BY <2>1 DEF Refreshed
  <2> QED
    BY <2>1, <2>2 DEF Bindings
<1> QED
  BY <1>1, <1>2, <1>3
\* A traced statement has these effects.
LEMMA TraceEffects ==
  ASSUME Typed, Marked, KeptOld,
         NEW s \in Statement, NEW yields \in Yields, NEW change \in Changes, NEW keep \in BOOLEAN,
         Possible(s, yields, change), Traced(s, yields, change),
         ns' = Rebound(s, yields),
         Trace(s, Rewritten(s), After(s, yields, change), Rebound(s, yields), yields, keep)
  PROVE  \E outs, now, version : Effects(s, yields, change, keep, outs, now, version)
<1> DEFINE w == Rewritten(s)
           changed == After(s, yields, change)
           refers == Rebound(s, yields)
           after == InputsKept(s, w, changed, yields)
           outs == Outputs(s, w, after, refers, yields)
           given == {out.obj : out \in outs} \ {None}
           alias == w.op = "name"
           now == IF alias \/ keep THEN {o \in given : Storable(o, after)} ELSE {}
           version == [o \in now |-> IF alias THEN after[o].kept ELSE after[o].ver]
           stored == IF alias THEN {} ELSE now
           refreshed == Refreshed(outs, now, after, refers)
           N == stored \cup {o \in {bound[x].obj : x \in refreshed} : Storable(o, after)}
<1>1. bound' = Bindings(outs, now, version, after, refers)
  BY DEF Trace
<1>2. objs' = Noted(after, stored, refreshed)
  BY DEF Trace
<1>3. Told(s, yields, change, outs)
  BY ToldFacts
<1>4. /\ changed \in Seq(Object)
      /\ \A o \in DOMAIN objs :
           /\ o \in DOMAIN changed
           /\ Next1(objs[o], changed[o])
           /\ change = "none" => changed[o] = objs[o]
      /\ \A o \in DOMAIN changed : o \notin DOMAIN objs => changed[o].kept = None
  BY AfterFacts
<1>5. /\ after \in Seq(Object) /\ DOMAIN after = DOMAIN changed
      /\ \A o \in DOMAIN changed :
           /\ after[o].kind = changed[o].kind
           /\ after[o].ver = changed[o].ver
           /\ after[o].shape = changed[o].shape
           /\ changed[o].kept # None => after[o].kept = changed[o].kept
           /\ changed[o].kept = None => after[o].kept \in {None, changed[o].ver}
  BY <1>4, InputsFacts
<1>6. /\ objs' \in Seq(Object) /\ DOMAIN objs' = DOMAIN after
      /\ \A o \in DOMAIN after :
           /\ objs'[o].kind = after[o].kind
           /\ objs'[o].ver = after[o].ver
           /\ objs'[o].shape = after[o].shape
           /\ objs'[o].kept = IF o \in N THEN after[o].ver ELSE after[o].kept
  <2>1. after \in Seq(Object)
    BY <1>5
  <2> HIDE DEF after, stored, refreshed
  <2>2. LET noted == Noted(after, stored, refreshed)
        IN  /\ noted \in Seq(Object) /\ DOMAIN noted = DOMAIN after
            /\ \A o \in DOMAIN after :
                 /\ noted[o].kind = after[o].kind
                 /\ noted[o].ver = after[o].ver
                 /\ noted[o].shape = after[o].shape
                 /\ noted[o].kept = IF o \in N THEN after[o].ver ELSE after[o].kept
    BY <2>1, NotedFacts
  <2> HIDE DEF N
  <2> QED
    BY <1>2, <2>2
<1>7. alias => /\ change = "none" /\ Root(s) \in DOMAIN objs /\ after[Root(s)].kept # None
               /\ Root(s) = ns[s.expr.root]
               /\ \A out \in outs : out.obj = Root(s)
  BY AliasFacts
<1>8. ns' = refers
  OBVIOUS
<1>9. \A x \in refreshed : bound[x].obj \notin now
  BY DEF Refreshed
<1>10. /\ \A out \in outs : out.obj \in DOMAIN changed \cup {None}
       /\ \A out \in outs, other \in outs : out.name = other.name => out = other
  BY <1>3 DEF Told
<1>11. now \subseteq DOMAIN after
  BY <1>5, <1>10
<1>12. \A o \in now : version[o] = IF alias THEN after[o].kept ELSE after[o].ver
  OBVIOUS
<1>13. alias => now \subseteq {Root(s)}
  BY <1>7
<1>14. now = IF alias \/ keep
             THEN {o \in {out.obj : out \in outs} \ {None} : Storable(o, after)} ELSE {}
  OBVIOUS
<1>15. \A x \in refreshed : x \in Names /\ Tracked(x) /\ LookChanged(x, after, refers)
                            /\ \A out \in outs : out.name # x
  BY DEF Refreshed
<1>16. \A x \in Names : Tracked(x) /\ bound[x].obj \notin now /\ ~Named0(x, outs)
                            /\ LookChanged(x, after, refers) => x \in refreshed
  BY DEF Refreshed, Named0
<1> HIDE DEF changed, refers, after, outs, given, now, version, refreshed, w
<1>20. ASSUME NEW o \in DOMAIN after
       PROVE  /\ after[o].ver \in Nat /\ after[o].shape \in Nat /\ o \in Nat
              /\ after[o].kept # None => after[o].kept \in Nat /\ after[o].kept <= after[o].ver
  <2>1. after[o] \in Object
    BY <1>5
  <2>2. after[o].ver \in Nat /\ after[o].shape \in Nat /\ (after[o].kept # None => after[o].kept \in Nat)
    BY <2>1, ObjectFields
  <2>3. o \in Nat
    BY <1>5, LenProperties
  <2>4. ASSUME after[o].kept # None PROVE after[o].kept <= after[o].ver
    <3>1. o \in DOMAIN changed
      BY <1>5
    <3>2. CASE changed[o].kept = None
      <4>1. after[o].kept = after[o].ver
        BY <1>5, <2>4, <3>1, <3>2
      <4> QED
        BY <2>2, <4>1
    <3>3. CASE changed[o].kept # None
      <4>1. o \in DOMAIN objs /\ Next1(objs[o], changed[o])
        BY <1>4, <3>1, <3>3
      <4>2. objs[o].kept = after[o].kept /\ objs[o].ver <= after[o].ver
        BY <1>5, <3>1, <3>3, <4>1 DEF Next1
      <4>3. objs[o].kept <= objs[o].ver
        BY <2>4, <4>1, <4>2 DEF KeptOld
      <4>4. objs[o] \in Object
        BY <4>1 DEF Typed
      <4>5. objs[o].ver \in Nat
        BY <4>4, ObjectFields
      <4> QED
        BY <2>2, <2>4, <4>2, <4>3, <4>5
    <3> QED
      BY <3>2, <3>3
  <2> QED
    BY <2>2, <2>3, <2>4
<1>21. ObjectsKept(s, yields, change)
  <2>1. ASSUME NEW o \in DOMAIN changed
        PROVE  /\ objs'[o].kind = changed[o].kind
               /\ objs'[o].ver = changed[o].ver
               /\ objs'[o].shape = changed[o].shape
               /\ objs'[o].kept # None => objs'[o].kept <= objs'[o].ver
    <3>1. o \in DOMAIN after
      BY <1>5
    <3>2. objs'[o].kept # None => objs'[o].kept <= objs'[o].ver
      BY <1>6, <1>20, <3>1
    <3> QED
      BY <1>5, <1>6, <3>1, <3>2
  <2>2. ASSUME NEW o \in DOMAIN objs, objs[o].kept # None
        PROVE  objs'[o].kept # None /\ objs'[o].kept >= objs[o].kept
    <3>1. o \in DOMAIN after /\ Next1(objs[o], changed[o])
      BY <1>4, <1>5
    <3>2. after[o].kept = objs[o].kept
      BY <1>4, <1>5, <2>2, <3>1 DEF Next1
    <3>3. after[o].kept \in Nat /\ after[o].kept <= after[o].ver /\ after[o].ver \in Nat
      BY <1>20, <2>2, <3>1, <3>2
    <3>4. objs'[o].kept \in {after[o].kept, after[o].ver}
      BY <1>6, <3>1
    <3> QED
      BY <3>2, <3>3, <3>4, StatementsAssumption
  <2> QED
    BY <1>5, <1>6, <2>1, <2>2 DEF ObjectsKept, changed
<1>22. Versions(alias, now, version)
  <2> SUFFICES ASSUME NEW o \in now
               PROVE  /\ version[o] \in Nat /\ objs'[o].kept # None /\ version[o] <= objs'[o].kept
                      /\ ~alias => version[o] = objs'[o].ver
                      /\ alias => o \in DOMAIN objs
                      /\ alias /\ objs[o].kept # None => version[o] = objs[o].kept
                      /\ alias /\ objs[o].kept = None => version[o] = objs[o].ver
    BY DEF Versions
  <2>1. o \in DOMAIN after /\ after[o].ver \in Nat /\ after[o].ver # None
    BY <1>11, <1>20, StatementsAssumption
  <2>2. CASE ~alias
    <3>1. o \in N
      BY <2>2
    <3>2. objs'[o].kept = after[o].ver /\ objs'[o].ver = after[o].ver
      BY <1>6, <2>1, <3>1
    <3>3. version[o] = after[o].ver
      BY <1>12, <2>2
    <3> QED
      BY <2>1, <2>2, <3>2, <3>3
  <2>3. CASE alias
    <3>1. o = Root(s) /\ o \in DOMAIN objs /\ after[o].kept # None /\ change = "none"
      BY <1>7, <1>13, <2>3
    <3>2. o \notin N
      BY <1>9, <2>3
    <3>3. objs'[o].kept = after[o].kept
      BY <1>6, <2>1, <3>2
    <3>4. version[o] = after[o].kept /\ after[o].kept \in Nat
      BY <1>12, <1>20, <2>1, <2>3, <3>1
    <3>5. o \in DOMAIN changed /\ changed[o] = objs[o]
      BY <1>4, <3>1
    <3>6. objs[o].kept # None => after[o].kept = objs[o].kept
      BY <1>5, <3>5
    <3>7. objs[o].kept = None => after[o].kept = objs[o].ver
      BY <1>5, <3>1, <3>5
    <3> QED
      BY <2>3, <3>1, <3>3, <3>4, <3>6, <3>7
  <2> QED
    BY <2>2, <2>3
<1>23. ASSUME NEW o \in DOMAIN after
       PROVE  /\ Fingerprint(o, after) = Fingerprint(o, objs')
              /\ Storable(o, after) <=> Storable(o, objs')
              /\ \A v : At(o, v, after) = Now(o, v)
  <2>1. objs'[o].kind = after[o].kind /\ objs'[o].shape = after[o].shape
    BY <1>6
  <2>2. Fingerprint(o, after) = Fingerprint(o, objs')
    BY <2>1 DEF Fingerprint
  <2>3. Storable(o, after) <=> Storable(o, objs')
    BY <2>1 DEF Storable
  <2> QED
    BY <2>2, <2>3 DEF At, Now
<1>24. ASSUME NEW x \in Names PROVE Binding(x, outs, now, version)
  <2> DEFINE o == bound[x].obj
  <2>1. /\ \A out \in outs : out.name = x =>
             bound'[x] = IF out.obj \in now THEN At(out.obj, version[out.obj], after) ELSE None
        /\ ~Named0(x, outs) =>
             bound'[x] = IF bound[x] = None THEN None
                         ELSE IF Tracked(x) /\ o \in now THEN At(o, version[o], after)
                         ELSE IF Tracked(x) /\ LookChanged(x, after, refers)
                              THEN IF Storable(o, after) THEN At(o, after[o].ver, after) ELSE None
                         ELSE bound[x]
    BY <1>1, <1>10, BindingFacts
  <2>2. \A out \in outs : out.name = x =>
             bound'[x] = IF out.obj \in now THEN Now(out.obj, version[out.obj]) ELSE None
    BY <1>11, <1>23, <2>1
  <2>3. ASSUME ~Named0(x, outs), bound[x] # None
        PROVE  /\ o \in DOMAIN after
               /\ Tracked(x) /\ LookChanged(x, after, refers) <=> Looks(x)
    <3>1. o \in DOMAIN objs
      BY <2>3 DEF Marked
    <3>2. o \in DOMAIN after
      BY <1>4, <1>5, <3>1
    <3>3. Fingerprint(o, after) = Fingerprint(o, objs') /\ objs'[o].kind = after[o].kind
      BY <1>6, <1>23, <3>2
    <3> QED
      BY <1>8, <3>2, <3>3 DEF LookChanged, Looks
  <2>4. ASSUME ~Named0(x, outs), bound[x] # None, ~(Tracked(x) /\ o \in now), Looks(x)
        PROVE  IF Storable(o, objs')
               THEN objs'[o].kept = objs'[o].ver /\ bound'[x] = Now(o, objs'[o].ver)
               ELSE bound'[x] = None
    <3>1. x \in refreshed
      BY <1>16, <2>3, <2>4
    <3>2. o \in DOMAIN after
      BY <2>3, <2>4
    <3>3. CASE Storable(o, objs')
      <4>1. Storable(o, after)
        BY <1>23, <3>2, <3>3
      <4>2. o \in N
        BY <3>1, <4>1
      <4>3. objs'[o].kept = after[o].ver /\ objs'[o].ver = after[o].ver
        BY <1>6, <3>2, <4>2
      <4>4. bound'[x] = At(o, after[o].ver, after)
        BY <2>1, <2>3, <2>4, <4>1
      <4>5. At(o, after[o].ver, after) = Now(o, after[o].ver)
        BY <1>23, <3>2
      <4> QED
        BY <3>3, <4>3, <4>4, <4>5
    <3>4. CASE ~Storable(o, objs')
      <4>1. ~Storable(o, after)
        BY <1>23, <3>2, <3>4
      <4> QED
        BY <2>1, <2>3, <2>4, <3>4, <4>1
    <3> QED
      BY <3>3, <3>4
  <2>5. ~Named0(x, outs) /\ bound[x] = None => bound'[x] = None
    BY <2>1
  <2>6. ~Named0(x, outs) /\ bound[x] # None /\ Tracked(x) /\ o \in now => bound'[x] = Now(o, version[o])
    BY <1>23, <2>1, <2>3
  <2>7. ~Named0(x, outs) /\ bound[x] # None /\ ~(Tracked(x) /\ o \in now) /\ ~Looks(x) => bound'[x] = bound[x]
    BY <2>1, <2>3
  <2> HIDE DEF o
  <2>8. ~Named0(x, outs) =>
          IF bound[x] = None THEN bound'[x] = None
          ELSE IF Tracked(x) /\ o \in now THEN bound'[x] = Now(o, version[o])
          ELSE IF Looks(x) THEN IF Storable(o, objs')
                                THEN bound'[x] = Now(o, objs'[o].ver) /\ objs'[o].kept = objs'[o].ver
                                ELSE bound'[x] = None
          ELSE bound'[x] = bound[x]
    BY <2>4, <2>5, <2>6, <2>7
  <2> QED
    BY <2>2, <2>8 DEF Binding, o
<1>25. bound' \in [Names -> Mark \cup {None}]
  <2>1. bound' = [x \in Names |-> bound'[x]]
    BY <1>1 DEF Bindings
  <2>2. \A o \in DOMAIN after, v \in Nat : Now(o, v) \in Mark
    BY <1>6, <1>20 DEF Now, Mark, Fingerprint
  <2>3. \A o \in now : version[o] \in Nat /\ Now(o, version[o]) \in Mark
    BY <1>11, <1>22, <2>2 DEF Versions
  <2>4. ASSUME NEW x \in Names PROVE bound'[x] \in Mark \cup {None}
    <3>1. Binding(x, outs, now, version)
      BY <1>24
    <3>2. CASE Named0(x, outs)
      <4>1. PICK out \in outs : out.name = x
        BY <3>2 DEF Named0
      <4>2. bound'[x] = IF out.obj \in now THEN Now(out.obj, version[out.obj]) ELSE None
        BY <3>1, <4>1 DEF Binding
      <4> QED
        BY <2>3, <4>2
    <3>3. CASE ~Named0(x, outs)
      <4>1. bound[x] \in Mark \cup {None}
        BY DEF Typed
      <4>2. CASE bound[x] # None /\ ~(Tracked(x) /\ bound[x].obj \in now) /\ Looks(x)
        <5>1. bound[x].obj \in DOMAIN after
          BY <1>4, <1>5, <4>2 DEF Marked
        <5>2. objs'[bound[x].obj].ver \in Nat
          BY <1>6, <1>20, <5>1
        <5>3. bound'[x] = Now(bound[x].obj, objs'[bound[x].obj].ver) \/ bound'[x] = None
          BY <3>1, <3>3, <4>2 DEF Binding
        <5> QED
          BY <2>2, <5>1, <5>2, <5>3
      <4>3. CASE ~(bound[x] # None /\ ~(Tracked(x) /\ bound[x].obj \in now) /\ Looks(x))
        BY <2>3, <3>1, <3>3, <4>1, <4>3 DEF Binding
      <4> QED
        BY <4>2, <4>3
    <3> QED
      BY <3>2, <3>3
  <2> QED
    BY <2>1, <2>4
<1>26. now = IF alias \/ keep
             THEN {o \in {out.obj : out \in outs} \ {None} : Storable(o, objs')} ELSE {}
  <2>1. \A o \in {out.obj : out \in outs} \ {None} : o \in DOMAIN after
    BY <1>5, <1>10
  <2>2. \A o \in {out.obj : out \in outs} \ {None} : Storable(o, after) <=> Storable(o, objs')
    BY <1>23, <2>1
  <2> QED
    BY <1>14, <2>2
<1> QED
  <2>1. Effects(s, yields, change, keep, outs, now, version)
    BY <1>3, <1>7, <1>13, <1>26, <1>21, <1>22, <1>24, <1>25 DEF Effects, w
  <2> QED
    BY <2>1
-----------------------------------------------------------------------------
(* What the names ought to be bound to *)

Touched(s, yields, change, x) == change # "none" /\ Rebound(s, yields)[x] \in Changed(s)
Traceable(s, yields, change, keep, x) ==
  LET o == Rebound(s, yields)[x]
  IN  IF Frame(o) THEN change # "hidden" \/ (~Deep(s) /\ keep) ELSE objs[o].kind = "small"
StorableNow(s, yields, change, x) == Storable(Rebound(s, yields)[x], After(s, yields, change))
GivenAs(s, yields, change, keep, x) ==
  LET o == ns[s.expr.root]
  IN  IF Rebound(s, yields)[x] = None THEN "none"
      ELSE IF s.expr.kind = "name" /\ Single(s, "name")
           THEN (IF objs[o].kept \in {None, objs[o].ver} THEN "current" ELSE "unknown")
      ELSE IF yields = "unsplit" THEN "unsplit"
      ELSE IF keep /\ StorableNow(s, yields, change, x) THEN "current" ELSE "none"
OtherAs(s, yields, change, keep, x) ==
  IF ~Touched(s, yields, change, x) \/ stands[x] # "current" THEN stands[x]
  ELSE IF ~Traceable(s, yields, change, keep, x) THEN "unknown"
  ELSE IF StorableNow(s, yields, change, x) THEN "current" ELSE "none"
LostBy(s, yields, change, x) == Lost(s, Rebound(s, yields), After(s, yields, change), x)
StandsAfter(s, yields, change, keep) ==
  Stands(s, yields, change, keep, After(s, yields, change), Rebound(s, yields))

\* After a statement that is traced, and after one that is not.
LEMMA StandsTraced ==
  ASSUME NEW s \in Statement, NEW yields, NEW change, NEW keep, NEW x \in Names,
         Traced(s, yields, change)
  PROVE  StandsAfter(s, yields, change, keep)[x] =
           IF LostBy(s, yields, change, x) \/ (Deep(s) /\ x \in Stores(s)) THEN "unknown"
           ELSE IF x \in Gives(s, yields) THEN GivenAs(s, yields, change, keep, x)
           ELSE OtherAs(s, yields, change, keep, x)
<1> DEFINE step == IsStep(s, After(s, yields, change), Value(s, yields, 1))
<1>1. step
  BY TracedIsStep
<1> HIDE DEF step
<1> QED
  BY <1>1 DEF StandsAfter, Stands, LostBy, Lost, Deep, GivenAs, OtherAs, Traceable, StorableNow, Touched, step

\* A statement that is not traced makes unknown what it gives or touches, and nothing else.
LEMMA StandsPlain ==
  ASSUME NEW s \in Statement, NEW yields, NEW change, NEW keep, NEW x \in Names,
         ~Traced(s, yields, change)
  PROVE  StandsAfter(s, yields, change, keep)[x] =
           IF LostBy(s, yields, change, x) \/ x \in Binds(s) \/ Touched(s, yields, change, x)
           THEN "unknown" ELSE stands[x]
<1> DEFINE step == IsStep(s, After(s, yields, change), Value(s, yields, 1))
<1>1. ~step
  BY TracedIsStep
<1> HIDE DEF step
<1> QED
  BY <1>1 DEF StandsAfter, Stands, LostBy, Lost, Touched, step

\* Either way a name stands for one of four.
LEMMA StandsType ==
  ASSUME Typed, NEW s \in Statement, NEW yields, NEW change, NEW keep
  PROVE  StandsAfter(s, yields, change, keep) \in [Names -> Standing]
<1> DEFINE st == StandsAfter(s, yields, change, keep)
<1>1. st = [x \in Names |-> st[x]]
  BY DEF StandsAfter, Stands
<1>2. ASSUME NEW x \in Names PROVE st[x] \in Standing
  <2>1. stands[x] \in Standing
    BY DEF Typed
  <2>2. GivenAs(s, yields, change, keep, x) \in Standing
    BY DEF GivenAs, Standing
  <2>5. OtherAs(s, yields, change, keep, x) \in Standing
    BY <2>1 DEF OtherAs, Standing
  <2>6. "unknown" \in Standing
    BY DEF Standing
  <2> HIDE DEF st
  <2>3. CASE Traced(s, yields, change)
    <3>1. \/ st[x] = "unknown" \/ st[x] = GivenAs(s, yields, change, keep, x)
          \/ st[x] = OtherAs(s, yields, change, keep, x)
      BY <2>3, StandsTraced DEF st
    <3> QED
      BY <2>2, <2>5, <2>6, <3>1
  <2>4. CASE ~Traced(s, yields, change)
    <3>1. st[x] = "unknown" \/ st[x] = stands[x]
      BY <2>4, StandsPlain DEF st
    <3> QED
      BY <2>1, <2>6, <3>1
  <2> QED
    BY <2>3, <2>4
<1> HIDE DEF st
<1> QED
  BY <1>1, <1>2 DEF st
-----------------------------------------------------------------------------
(* The invariant over a statement that is traced *)

\* Its parameters.
Traces(s, yields, change, keep) ==
  /\ Possible(s, yields, change) /\ Traced(s, yields, change)
  /\ ns' = Rebound(s, yields)
  /\ stands' = StandsAfter(s, yields, change, keep)

\* A mark is a mark.
LEMMA NowFacts ==
  ASSUME NEW o, NEW v
  PROVE  Now(o, v).obj = o /\ Now(o, v).ver = v /\ Now(o, v).shape = Fingerprint(o, objs')
BY DEF Now

\* What a fingerprint is, of an object there is.
LEMMA FingerprintFacts ==
  ASSUME NEW o, objs'[o].shape \in Nat
  PROVE  /\ Fingerprint(o, objs') \in Nat \cup {None}
         /\ Fingerprint(o, objs') # None =>
              objs'[o].kind \in {"frame", "small"} /\ Fingerprint(o, objs') = objs'[o].shape
         /\ objs'[o].kind \in {"frame", "small"} =>
              Fingerprint(o, objs') # None /\ Fingerprint(o, objs') = objs'[o].shape
BY StatementsAssumption DEF Fingerprint

\* A mark is not None.
LEMMA MarkIsSome ==
  ASSUME NEW m \in Mark
  PROVE  m # None /\ m.obj \in Nat /\ m.ver \in Nat /\ m.shape \in Nat \cup {None}
BY StatementsAssumption DEF Mark

\* What the changed objects say of the objects before.
LEMMA ObjectsAfter ==
  ASSUME Typed, NEW s \in Statement, NEW yields \in Yields, NEW change \in Changes,
         Possible(s, yields, change), ObjectsKept(s, yields, change), NEW o \in DOMAIN objs
  PROVE  /\ o \in DOMAIN objs'
         /\ (objs'[o].kind = "frame") <=> (objs[o].kind = "frame")
         /\ objs'[o].kind \in {"frame", "small"} => objs[o].kind \in {"frame", "small"}
         /\ objs'[o].kind = After(s, yields, change)[o].kind
         /\ objs[o].ver \in Nat /\ objs[o].shape \in Nat
         /\ objs'[o].ver \in Nat /\ objs'[o].shape \in Nat
         /\ objs'[o].ver >= objs[o].ver /\ objs'[o].shape >= objs[o].shape
         /\ o \notin Changed(s) \/ change = "none"
              => objs'[o].ver = objs[o].ver /\ objs'[o].kind = objs[o].kind
         /\ o \in Changed(s) /\ change \notin {"none", "hidden"}
              => objs'[o].shape = objs[o].shape + 1
<1> DEFINE changed == After(s, yields, change)
<1>1. /\ o \in DOMAIN changed
      /\ Next1(objs[o], changed[o])
      /\ o \notin Changed(s) \/ change = "none" => changed[o] = objs[o]
      /\ o \in Changed(s) /\ change \notin {"none", "hidden"}
           => changed[o].shape = objs[o].shape + 1
  BY AfterFacts
<1>2. /\ objs' \in Seq(Object) /\ o \in DOMAIN objs'
      /\ objs'[o].kind = changed[o].kind
      /\ objs'[o].ver = changed[o].ver
      /\ objs'[o].shape = changed[o].shape
  BY <1>1 DEF ObjectsKept
<1>3. objs[o] \in Object /\ objs'[o] \in Object
  BY <1>2 DEF Typed
<1>4. /\ objs[o].ver \in Nat /\ objs[o].shape \in Nat
      /\ objs'[o].ver \in Nat /\ objs'[o].shape \in Nat
  BY <1>3, ObjectFields
<1> QED
  BY <1>1, <1>2, <1>4 DEF Next1

\* A name's binding is to an object there is, at a version that was stored.
LEMMA TracedMarked ==
  ASSUME Inv, NEW s \in Statement, NEW yields \in Yields, NEW change \in Changes,
         NEW keep \in BOOLEAN, Traces(s, yields, change, keep),
         NEW outs, NEW now, NEW version, Effects(s, yields, change, keep, outs, now, version)
  PROVE  Typed' /\ Marked' /\ KeptOld'
<1>0. Possible(s, yields, change)
  BY DEF Traces
<1> DEFINE changed == After(s, yields, change)
<1>1. /\ ObjectsKept(s, yields, change) /\ Versions(Rewritten(s).op = "name", now, version)
      /\ \A x \in Names : Binding(x, outs, now, version)
      /\ bound' \in [Names -> Mark \cup {None}]
      /\ now \subseteq {out.obj : out \in outs} \ {None}
      /\ \A out \in outs : out.obj \in DOMAIN changed \cup {None}
  BY DEF Effects, Told
<1>2. objs' \in Seq(Object) /\ DOMAIN objs' = DOMAIN changed
  BY <1>1 DEF ObjectsKept
<1>3. Typed'
  <2>1. ns' \in [Names -> DOMAIN objs' \cup {None}]
    BY <1>2, ReboundFacts DEF Inv, Traces
  <2>2. stands' \in [Names -> Standing]
    BY StandsType DEF Inv, Traces
  <2> QED
    BY <1>1, <1>2, <2>1, <2>2 DEF Typed
<1>4. KeptOld'
  BY <1>1, <1>2 DEF KeptOld, ObjectsKept
<1>5. now \subseteq DOMAIN objs'
  BY <1>1, <1>2
<1>6. \A o \in DOMAIN objs' : objs'[o].shape \in Nat /\ objs'[o].ver \in Nat
  <2>1. \A o \in DOMAIN objs' : objs'[o] \in Object
    BY <1>2
  <2> QED
    BY <2>1, ObjectFields
<1>7. ASSUME NEW x \in Names, bound'[x] # None
      PROVE  /\ bound'[x].obj \in DOMAIN objs'
             /\ objs'[bound'[x].obj].kept # None
             /\ bound'[x].ver <= objs'[bound'[x].obj].kept
             /\ bound'[x].shape # None => bound'[x].shape <= objs'[bound'[x].obj].shape
             /\ objs'[bound'[x].obj].kind \in {"frame", "small"} => bound'[x].shape # None
  <2>1. Binding(x, outs, now, version)
    BY <1>1
  <2>2. ASSUME NEW o \in now, bound'[x] = Now(o, version[o])
        PROVE  /\ bound'[x].obj \in DOMAIN objs'
               /\ objs'[bound'[x].obj].kept # None
               /\ bound'[x].ver <= objs'[bound'[x].obj].kept
               /\ bound'[x].shape # None => bound'[x].shape <= objs'[bound'[x].obj].shape
               /\ objs'[bound'[x].obj].kind \in {"frame", "small"} => bound'[x].shape # None
    <3>1. /\ o \in DOMAIN objs' /\ objs'[o].kept # None /\ version[o] <= objs'[o].kept
          /\ objs'[o].shape <= objs'[o].shape
      BY <1>1, <1>5, <1>6 DEF Versions
    <3>2. bound'[x].obj = o /\ bound'[x].ver = version[o] /\ bound'[x].shape = Fingerprint(o, objs')
      BY <2>2, NowFacts
    <3>3. objs'[o].shape \in Nat
      BY <1>6, <3>1
    <3> QED
      BY <3>1, <3>2, <3>3, FingerprintFacts
  <2>3. CASE Named0(x, outs)
    <3>1. PICK out \in outs : out.name = x
      BY <2>3 DEF Named0
    <3>2. bound'[x] = IF out.obj \in now THEN Now(out.obj, version[out.obj]) ELSE None
      BY <2>1, <3>1 DEF Binding
    <3>3. out.obj \in now /\ bound'[x] = Now(out.obj, version[out.obj])
      BY <1>7, <3>2
    <3> QED
      BY <2>2, <3>3
  <2>4. CASE ~Named0(x, outs)
    <3> DEFINE o == bound[x].obj
    <3>1. bound[x] # None
      BY <1>7, <2>1, <2>4 DEF Binding
    <3>2. /\ o \in DOMAIN objs /\ objs[o].kept # None
          /\ bound[x].ver <= objs[o].kept
          /\ bound[x].shape # None => bound[x].shape <= objs[o].shape
          /\ objs[o].kind \in {"frame", "small"} => bound[x].shape # None
      BY <3>1 DEF Inv, Marked
    <3>3. /\ o \in DOMAIN objs' /\ objs'[o].shape >= objs[o].shape
          /\ objs'[o].kind \in {"frame", "small"} => objs[o].kind \in {"frame", "small"}
          /\ objs[o].shape \in Nat /\ objs'[o].shape \in Nat /\ objs'[o].ver \in Nat
      BY <1>0, <1>1, <3>2, ObjectsAfter DEF Inv
    <3>4. CASE Tracked(x) /\ o \in now
      BY <2>1, <2>2, <2>4, <3>1, <3>4 DEF Binding
    <3>5. CASE ~(Tracked(x) /\ o \in now) /\ Looks(x)
      <4>1. bound'[x] = Now(o, objs'[o].ver) /\ objs'[o].kept = objs'[o].ver
        BY <1>7, <2>1, <2>4, <3>1, <3>5 DEF Binding
      <4>2. bound'[x].obj = o /\ bound'[x].ver = objs'[o].ver /\ bound'[x].shape = Fingerprint(o, objs')
        BY <4>1, NowFacts
      <4>3. objs'[o].shape <= objs'[o].shape /\ objs'[o].ver <= objs'[o].kept /\ objs'[o].kept # None
        BY <3>3, <4>1, StatementsAssumption
      <4> QED
        BY <3>3, <4>2, <4>3, FingerprintFacts
    <3>6. CASE ~(Tracked(x) /\ o \in now) /\ ~Looks(x)
      <4>1. bound'[x] = bound[x]
        BY <2>1, <2>4, <3>1, <3>6 DEF Binding
      <4>2. bound[x].shape \in Nat \cup {None} /\ bound[x].ver \in Nat
        BY <3>1, MarkIsSome DEF Inv, Typed
      <4>3. objs'[o].kept # None /\ objs'[o].kept >= objs[o].kept
        BY <1>1, <3>2 DEF ObjectsKept
      <4>4. objs[o].kept \in Nat /\ objs'[o].kept \in Nat
        <5>1. objs[o] \in Object /\ objs'[o] \in Object
          BY <1>2, <3>2, <3>3 DEF Inv, Typed
        <5> QED
          BY <3>2, <4>3, <5>1, ObjectFields
      <4>5. /\ bound[x].ver <= objs'[o].kept
            /\ bound[x].shape # None => bound[x].shape <= objs'[o].shape
            /\ objs'[o].kind \in {"frame", "small"} => bound[x].shape # None
        BY <3>2, <3>3, <4>2, <4>3, <4>4
      <4> QED
        BY <3>3, <4>1, <4>3, <4>5
    <3> QED
      BY <3>4, <3>5, <3>6
  <2> QED
    BY <2>3, <2>4
<1>8. Marked'
  BY <1>7 DEF Marked
<1> QED
  BY <1>3, <1>4, <1>8
\* A name that is given no other value refers to what it did.
LEMMA Unmoved ==
  ASSUME Typed, NEW s \in Statement, NEW yields \in Yields, NEW change \in Changes,
         Possible(s, yields, change), NEW x \in Names,
         x \notin Binds(s), ~LostBy(s, yields, change, x)
  PROVE  Rebound(s, yields)[x] = ns[x]
BY ReboundFacts DEF LostBy, Lost

\* A single value is the first.
LEMMA OneValue ==
  ASSUME NEW yields, yields = "root"
  PROVE  yields \notin Both /\ 1 \in 1..2
BY DEF Both

\* A name that is given another value is bound to it if it was stored, to nothing if not.
LEMMA TracedGiven ==
  ASSUME Inv, NEW s \in Statement, NEW yields \in Yields, NEW change \in Changes,
         NEW keep \in BOOLEAN, Traces(s, yields, change, keep),
         NEW outs, NEW now, NEW version, Effects(s, yields, change, keep, outs, now, version),
         NEW x \in Names, x \in Gives(s, yields),
         ~LostBy(s, yields, change, x), ~(Deep(s) /\ x \in Stores(s))
  PROVE  /\ stands'[x] = "current" =>
              /\ bound'[x] # None /\ bound'[x].obj = ns'[x] /\ bound'[x].ver = objs'[ns'[x]].ver
              /\ objs'[ns'[x]].kind # "sealed"
         /\ stands'[x] = "none" => bound'[x] = None
<1> DEFINE refers == Rebound(s, yields)
           alias == Rewritten(s).op = "name"
           o == refers[x]
<1>1. stands'[x] = GivenAs(s, yields, change, keep, x)
  BY StandsTraced DEF Traces
<1>4. now = IF alias \/ keep
            THEN {u \in {v.obj : v \in outs} \ {None} : Storable(u, objs')} ELSE {}
  BY DEF Effects
<1>5. alias <=> s.expr.kind = "name" /\ Single(s, "name")
  <2>1. AStep(s)
    BY Steps DEF Traces, Traced, Plain
  <2>2. \A op, told : Step(op, told).op = op
    BY DEF Step
  <2>3. s.expr.kind = "name" => s.form = "assign"
    BY Expressions
  <2>4. ~(Single(s, "item") /\ Single(s, "name"))
    BY Shapes DEF Shape, One, Two, NoTarget
  <2> QED
    BY <2>1, <2>2, <2>3, <2>4 DEF AStep
<1>9. ns'[x] = o
  BY DEF Traces
<1>10. CASE Unsplit(s, yields) /\ o # None
  <2>1. s.expr.kind # "name" /\ yields = "unsplit"
    BY <1>10 DEF Unsplit
  <2>2. stands'[x] = "unsplit"
    BY <1>1, <1>10, <2>1 DEF GivenAs
  <2> QED
    BY <2>2
<1> SUFFICES ASSUME ~(Unsplit(s, yields) /\ o # None)
             PROVE  /\ stands'[x] = "current" =>
                         /\ bound'[x] # None /\ bound'[x].obj = ns'[x]
                         /\ bound'[x].ver = objs'[ns'[x]].ver /\ objs'[ns'[x]].kind # "sealed"
                    /\ stands'[x] = "none" => bound'[x] = None
  BY <1>10
<1>2. PICK out \in outs : out.name = x /\ out.obj = o
  BY DEF Effects, Told, LostBy
<1>3. bound'[x] = IF o \in now THEN Now(o, version[o]) ELSE None
  <2>1. Binding(x, outs, now, version)
    BY DEF Effects
  <2>2. \A u \in outs : u.name = x =>
          bound'[x] = IF u.obj \in now THEN Now(u.obj, version[u.obj]) ELSE None
    BY <2>1 DEF Binding
  <2> QED
    BY <1>2, <2>2
<1>6. o \in now <=> (alias \/ keep) /\ o # None /\ Storable(o, objs')
  BY <1>2, <1>4
<1>11. o # None => /\ o \in DOMAIN After(s, yields, change)
                   /\ objs'[o].kind = After(s, yields, change)[o].kind
  BY <1>2 DEF Effects, Told, ObjectsKept
<1>12. o # None => (Storable(o, objs') <=> StorableNow(s, yields, change, x))
  BY <1>11 DEF Storable, StorableNow
<1>13. alias => Storable(o, objs')
  <2> SUFFICES ASSUME alias PROVE Storable(o, objs')
    OBVIOUS
  <2>1. After(s, yields, change)[Value(s, yields, 1)].kind = "frame"
    BY DEF Traces, Traced, OnFrame
  <2>2. x \in Binds(s) /\ Len(s.left) = 1
    <3>1. Single(s, "name") /\ s.expr.kind = "name"
      BY <1>5
    <3>2. Len(s.left) = 1 /\ Stores(s) = {}
      BY <3>1, Shapes DEF Shape, One, Two, NoTarget, Tos
    <3>3. s.form = "assign" /\ ~s.expr.inplace
      BY <3>1, Expressions
    <3> QED
      BY <3>2, <3>3 DEF Gives
  <2>3. o = Value(s, yields, 1)
    BY <2>2, ReboundFacts DEF Traces, Inv
  <2>4. yields = "root"
    BY <1>5 DEF Traces, Possible
  <2>5. o # None
    BY <2>3, <2>4, ValueFacts, OneValue DEF Traces, Inv
  <2>6. objs'[o].kind = "frame"
    BY <1>11, <2>1, <2>3, <2>5
  <2> QED
    BY <2>6 DEF Storable
<1> HIDE DEF refers, alias, o
<1>7. ASSUME stands'[x] = "none" PROVE bound'[x] = None
  <2>1. o = None \/ (~alias /\ (~keep \/ ~StorableNow(s, yields, change, x)))
    BY <1>1, <1>5, <1>7 DEF GivenAs, o, refers
  <2> QED
    BY <1>3, <1>6, <1>12, <2>1
<1>8. ASSUME stands'[x] = "current"
      PROVE  /\ bound'[x] # None /\ bound'[x].obj = ns'[x] /\ bound'[x].ver = objs'[ns'[x]].ver
             /\ objs'[ns'[x]].kind # "sealed"
  <2>1. o # None /\ (alias \/ (keep /\ StorableNow(s, yields, change, x)))
    BY <1>1, <1>5, <1>8 DEF GivenAs, o, refers
  <2>9. Storable(o, objs')
    BY <1>12, <1>13, <2>1
  <2>2. o \in now /\ bound'[x] = Now(o, version[o])
    BY <1>3, <1>6, <2>1, <2>9
  <2>3. bound'[x].obj = o /\ bound'[x].ver = version[o]
    BY <2>2, NowFacts
  <2>4. ns'[x] = o
    BY <1>9
  <2>5. Versions(alias, now, version)
    BY DEF Effects, alias
  <2>6. version[o] = objs'[o].ver
    <3>1. CASE ~alias
      BY <2>2, <2>5, <3>1 DEF Versions
    <3>2. CASE alias
      <4>1. change = "none" /\ o = ns[s.expr.root]
        BY <2>2, <3>2 DEF Effects, alias
      <4>2. objs[o].kept \in {None, objs[o].ver}
        BY <1>1, <1>5, <1>8, <2>1, <3>2, <4>1 DEF GivenAs, o, refers
      <4>3. o \in DOMAIN objs /\ version[o] = objs[o].ver
        BY <2>2, <2>5, <3>2, <4>2 DEF Versions
      <4>4. objs'[o].ver = objs[o].ver
        BY <4>1, <4>3, ObjectsAfter DEF Effects, Inv, Traces
      <4> QED
        BY <4>3, <4>4
    <3> QED
      BY <3>1, <3>2
  <2>7. bound'[x] # None
    <3>1. o \in DOMAIN After(s, yields, change)
      BY <1>11, <2>1
    <3>2. /\ o \in DOMAIN objs' /\ objs' \in Seq(Object)
      BY <3>1 DEF Effects, ObjectsKept
    <3>3. objs'[o] \in Object /\ o \in Nat
      BY <3>2, LenProperties
    <3>4. Now(o, version[o]) \in Mark
      <4>1. version[o] \in Nat
        BY <2>2, <2>5 DEF Versions
      <4>2. objs'[o].shape \in Nat
        BY <3>3, ObjectFields
      <4> QED
        BY <3>3, <4>1, <4>2, FingerprintFacts DEF Now, Mark
    <3> QED
      BY <2>2, <3>4, MarkIsSome
  <2> QED
    BY <2>3, <2>4, <2>6, <2>7, <2>9 DEF Storable
<1> QED
  BY <1>7, <1>8

\* Any other name keeps up with its object, or with having none.
LEMMA TracedOther ==
  ASSUME Inv, NEW s \in Statement, NEW yields \in Yields, NEW change \in Changes,
         NEW keep \in BOOLEAN, Traces(s, yields, change, keep),
         NEW outs, NEW now, NEW version, Effects(s, yields, change, keep, outs, now, version),
         NEW x \in Names, x \notin Gives(s, yields),
         ~LostBy(s, yields, change, x), ~(Deep(s) /\ x \in Stores(s))
  PROVE  /\ stands'[x] = "current" =>
              /\ bound'[x] # None /\ bound'[x].obj = ns'[x] /\ bound'[x].ver = objs'[ns'[x]].ver
              /\ objs'[ns'[x]].kind # "sealed"
         /\ stands'[x] = "none" => bound'[x] = None
<1> DEFINE alias == Rewritten(s).op = "name"
           o == ns[x]
<1>1. stands'[x] = OtherAs(s, yields, change, keep, x)
  BY StandsTraced DEF Traces
<1>2. ~Named0(x, outs)
  BY StatementsAssumption DEF Effects, Told, Named0
<1>3. x \notin Binds(s)
  BY DEF Gives
<1>4. Rebound(s, yields)[x] = o /\ ns'[x] = o
  BY <1>3, Unmoved DEF Traces, Inv
<1>5. Binding(x, outs, now, version)
  BY DEF Effects
<1>8. ObjectsKept(s, yields, change) /\ Versions(alias, now, version) /\ Possible(s, yields, change)
  BY DEF Effects, Traces
<1>9. ASSUME stands[x] = "current"
      PROVE  /\ bound[x] # None /\ bound[x].obj = o /\ bound[x].ver = objs[o].ver
             /\ o \in DOMAIN objs /\ objs[o].kept # None /\ o # None
             /\ bound[x].ver <= objs[o].kept
             /\ bound[x].shape # None => bound[x].shape \in Nat /\ bound[x].shape <= objs[o].shape
             /\ objs[o].kind \in {"frame", "small"} => Tracked(x)
             /\ objs[o].kind # "sealed"
  <2>1. bound[x] # None /\ bound[x].obj = o /\ bound[x].ver = objs[o].ver
    BY <1>9 DEF Inv, BoundToCurrent
  <2>2. /\ o \in DOMAIN objs /\ objs[o].kept # None
        /\ bound[x].ver <= objs[o].kept
        /\ bound[x].shape # None => bound[x].shape <= objs[o].shape
        /\ objs[o].kind \in {"frame", "small"} => bound[x].shape # None
    BY <2>1 DEF Inv, Marked
  <2>3. bound[x].shape \in Nat \cup {None}
    BY <2>1, MarkIsSome DEF Inv, Typed
  <2>4. objs[o].kind # "sealed"
    BY <1>9 DEF Inv, CurrentStorable
  <2>5. o # None
    BY <2>2, StatementsAssumption DEF Inv, Typed
  <2> QED
    BY <2>1, <2>2, <2>3, <2>4, <2>5 DEF Tracked
<1>10. ASSUME stands[x] = "current"
       PROVE  /\ o \in DOMAIN objs'
              /\ objs[o].ver \in Nat /\ objs[o].shape \in Nat
              /\ objs'[o].ver \in Nat /\ objs'[o].shape \in Nat
              /\ objs'[o].kind = After(s, yields, change)[o].kind
              /\ (objs'[o].kind = "frame") <=> (objs[o].kind = "frame")
              /\ o \notin Changed(s) \/ change = "none"
                   => objs'[o].ver = objs[o].ver /\ objs'[o].kind = objs[o].kind
              /\ o \in Changed(s) /\ change \notin {"none", "hidden"}
                   => objs'[o].shape = objs[o].shape + 1
  <2>1. o \in DOMAIN objs
    BY <1>9, <1>10
  <2> QED
    BY <1>8, <2>1, ObjectsAfter DEF Inv
<1>11. Touched(s, yields, change, x) <=> change # "none" /\ o \in Changed(s)
  BY <1>4 DEF Touched
<1>12. o # None => (StorableNow(s, yields, change, x) <=> After(s, yields, change)[o].kind # "sealed")
  BY <1>4 DEF StorableNow, Storable
\* A change of the object of a current name is found, if it can be.
<1>13. ASSUME stands[x] = "current", Touched(s, yields, change, x),
              Traceable(s, yields, change, keep, x)
       PROVE  Tracked(x) /\ (o \in now \/ Looks(x))
  <2>1. o \in Changed(s) /\ change # "none"
    BY <1>11, <1>13
  <2>2. Frame(o) <=> objs[o].kind = "frame"
    BY <1>9, <1>13 DEF Frame
  <2>3. IF Frame(o) THEN change # "hidden" \/ (~Deep(s) /\ keep) ELSE objs[o].kind = "small"
    BY <1>4, <1>13 DEF Traceable
  <2>4. Tracked(x)
    BY <1>9, <1>13, <2>2, <2>3
  <2>5. CASE change # "hidden"
    <3>1. objs'[o].shape = objs[o].shape + 1
      BY <1>10, <1>13, <2>1, <2>5
    <3>2. bound[x].shape \in Nat /\ bound[x].shape <= objs[o].shape
      BY <1>9, <1>13, <2>4 DEF Tracked
    <3>3. objs'[o].shape # bound[x].shape /\ bound[x].shape # None
      BY <1>10, <1>13, <2>4, <3>1, <3>2 DEF Tracked
    <3>4. Fingerprint(o, objs') # bound[x].shape
      BY <1>10, <1>13, <3>3, FingerprintFacts
    <3>5. o \in Range(ns')
      <4>1. x \in DOMAIN ns'
        BY ReboundFacts DEF Traces, Inv
      <4> QED
        BY <1>4, <4>1 DEF Range
    <3> QED
      BY <1>9, <1>13, <2>4, <3>4, <3>5 DEF Looks
  <2>6. CASE change = "hidden"
    <3>1. Frame(o)
      BY <1>8, <2>1, <2>6 DEF Possible
    <3>2. ~Deep(s) /\ keep /\ objs[o].kind = "frame"
      BY <2>2, <2>3, <2>6, <3>1
    <3>3. \E out \in outs : out.obj = o
      BY <2>1, <2>6, <3>2 DEF Effects, Told
    <3>4. Storable(o, objs')
      BY <1>10, <1>13, <3>2 DEF Storable
    <3>5. o \in now
      BY <1>9, <1>13, <3>2, <3>3, <3>4 DEF Effects
    <3> QED
      BY <2>4, <3>5
  <2> QED
    BY <2>5, <2>6
<1>6. ASSUME stands'[x] = "none" PROVE bound'[x] = None
  <2>1. CASE stands[x] = "none"
    <3>1. bound[x] = None
      BY <2>1 DEF Inv, NoneLeft
    <3> QED
      BY <1>2, <1>5, <3>1 DEF Binding
  <2>2. CASE stands[x] # "none"
    <3>1. /\ stands[x] = "current" /\ Touched(s, yields, change, x)
          /\ Traceable(s, yields, change, keep, x) /\ ~StorableNow(s, yields, change, x)
      BY <1>1, <1>6, <2>2 DEF OtherAs
    <3>2. objs'[o].kind = "sealed"
      BY <1>9, <1>10, <1>12, <3>1
    <3>3. ~Storable(o, objs')
      BY <3>2 DEF Storable
    <3>4. o \notin now
      BY <3>3 DEF Effects
    <3>5. Looks(x) /\ bound[x] # None /\ bound[x].obj = o
      BY <1>9, <1>13, <3>1, <3>4
    <3> QED
      BY <1>2, <1>5, <3>3, <3>4, <3>5 DEF Binding
  <2> QED
    BY <2>1, <2>2
<1>7. ASSUME stands'[x] = "current"
      PROVE  /\ bound'[x] # None /\ bound'[x].obj = ns'[x] /\ bound'[x].ver = objs'[ns'[x]].ver
             /\ objs'[ns'[x]].kind # "sealed"
  <2>1. /\ stands[x] = "current"
        /\ Touched(s, yields, change, x) =>
             Traceable(s, yields, change, keep, x) /\ StorableNow(s, yields, change, x)
    BY <1>1, <1>7 DEF OtherAs
  <2>2. bound[x] # None /\ bound[x].obj = o /\ bound[x].ver = objs[o].ver
    BY <1>9, <2>1
  <2>3. objs'[o].kind # "sealed"
    <3>1. CASE Touched(s, yields, change, x)
      BY <1>9, <1>10, <1>12, <2>1, <3>1
    <3>2. CASE ~Touched(s, yields, change, x)
      BY <1>9, <1>10, <1>11, <2>1, <3>2
    <3> QED
      BY <3>1, <3>2
  <2>4. Storable(o, objs')
    BY <2>3 DEF Storable
  <2>6. objs[o].kept = objs[o].ver
    <3>1. objs[o].kept \in Nat /\ o \in DOMAIN objs /\ objs[o].kept # None
      <4>1. objs[o] \in Object /\ o \in DOMAIN objs /\ objs[o].kept # None
        BY <1>9, <2>1 DEF Inv, Typed
      <4> QED
        BY <4>1, ObjectFields
    <3>2. objs[o].kept <= objs[o].ver
      BY <3>1 DEF Inv, KeptOld
    <3> QED
      BY <1>9, <1>10, <2>1, <3>1, <3>2
  <2>7. \/ bound'[x] = Now(o, objs'[o].ver)
        \/ bound'[x] = bound[x] /\ objs'[o].ver = objs[o].ver
    <3>1. CASE Tracked(x) /\ o \in now
      <4>1. bound'[x] = Now(o, version[o])
        BY <1>2, <1>5, <2>2, <3>1 DEF Binding
      <4>2. CASE ~alias
        BY <1>8, <3>1, <4>1, <4>2 DEF Versions
      <4>3. CASE alias
        <5>1. version[o] = objs[o].ver
          BY <1>8, <1>9, <2>1, <2>6, <3>1, <4>3 DEF Versions
        <5>2. change = "none"
          BY <4>3 DEF Effects
        <5> QED
          BY <1>10, <2>1, <4>1, <5>1, <5>2
      <4> QED
        BY <4>2, <4>3
    <3>2. CASE ~(Tracked(x) /\ o \in now) /\ Looks(x)
      BY <1>2, <1>5, <2>2, <2>4, <3>2 DEF Binding
    <3>3. CASE ~(Tracked(x) /\ o \in now) /\ ~Looks(x)
      <4>1. bound'[x] = bound[x]
        BY <1>2, <1>5, <2>2, <3>3 DEF Binding
      <4>2. o \notin Changed(s) \/ change = "none"
        BY <1>11, <1>13, <2>1, <3>3
      <4> QED
        BY <1>10, <2>1, <4>1, <4>2
    <3> QED
      BY <3>1, <3>2, <3>3
  <2>8. CASE bound'[x] = Now(o, objs'[o].ver)
    <3>1. bound'[x].obj = o /\ bound'[x].ver = objs'[o].ver
      BY <2>8, NowFacts
    <3>2. Now(o, objs'[o].ver) \in Mark
      <4>1. o \in Nat
        BY <1>9, <2>1 DEF Inv, Typed
      <4> QED
        BY <1>10, <2>1, <4>1, FingerprintFacts DEF Now, Mark
    <3> QED
      BY <1>4, <2>3, <2>8, <3>1, <3>2, MarkIsSome
  <2>9. CASE bound'[x] = bound[x] /\ objs'[o].ver = objs[o].ver
    BY <1>4, <2>2, <2>3, <2>9
  <2> QED
    BY <2>7, <2>8, <2>9
<1> QED
  BY <1>6, <1>7
-----------------------------------------------------------------------------
(* The invariant over every statement *)

\* A traced statement keeps the invariant.
LEMMA TracedStep ==
  ASSUME Inv, NEW s \in Statement, NEW yields \in Yields, NEW change \in Changes,
         NEW keep \in BOOLEAN, Traces(s, yields, change, keep),
         NEW outs, NEW now, NEW version, Effects(s, yields, change, keep, outs, now, version)
  PROVE  Inv'
<1>1. Typed' /\ Marked' /\ KeptOld'
  BY TracedMarked
<1>2. ASSUME NEW x \in Names
      PROVE  /\ stands'[x] = "current" =>
                  /\ bound'[x] # None /\ bound'[x].obj = ns'[x] /\ bound'[x].ver = objs'[ns'[x]].ver
                  /\ objs'[ns'[x]].kind # "sealed"
             /\ stands'[x] = "none" => bound'[x] = None
  <2>1. CASE LostBy(s, yields, change, x) \/ (Deep(s) /\ x \in Stores(s))
    <3>1. stands'[x] = "unknown"
      BY <2>1, StandsTraced DEF Traces
    <3> QED
      BY <3>1
  <2>2. CASE ~LostBy(s, yields, change, x) /\ ~(Deep(s) /\ x \in Stores(s))
    <3>1. CASE x \in Gives(s, yields)
      BY <2>2, <3>1, TracedGiven
    <3>2. CASE x \notin Gives(s, yields)
      BY <2>2, <3>2, TracedOther
    <3> QED
      BY <3>1, <3>2
  <2> QED
    BY <2>1, <2>2
<1>3. BoundToCurrent'
  BY <1>2 DEF BoundToCurrent
<1>4. NoneLeft'
  BY <1>2 DEF NoneLeft
<1>5. CurrentStorable'
  BY <1>2 DEF CurrentStorable
<1> QED
  BY <1>1, <1>3, <1>4, <1>5 DEF Inv

\* A statement that is not traced leaves the bindings alone.
LEMMA PlainStep ==
  ASSUME Inv, NEW s \in Statement, NEW yields \in Yields, NEW change \in Changes,
         NEW keep \in BOOLEAN, Possible(s, yields, change), ~Traced(s, yields, change),
         ns' = Rebound(s, yields), stands' = StandsAfter(s, yields, change, keep),
         objs' = After(s, yields, change), bound' = bound
  PROVE  Inv'
<1>1. /\ objs' \in Seq(Object)
      /\ \A o \in DOMAIN objs :
           /\ o \in DOMAIN objs'
           /\ Next1(objs[o], objs'[o])
           /\ o \notin Changed(s) \/ change = "none" => objs'[o] = objs[o]
      /\ \A o \in DOMAIN objs' : o \notin DOMAIN objs => objs'[o].kept = None
  BY AfterFacts DEF Inv
<1>2. Typed'
  <2>1. ns' \in [Names -> DOMAIN objs' \cup {None}]
    BY ReboundFacts DEF Inv
  <2>2. stands' \in [Names -> Standing]
    BY StandsType DEF Inv
  <2>3. bound' \in [Names -> Mark \cup {None}]
    BY DEF Inv, Typed
  <2> QED
    BY <1>1, <2>1, <2>2, <2>3 DEF Typed
<1>3. ASSUME NEW o \in DOMAIN objs
      PROVE  /\ objs[o].ver \in Nat /\ objs'[o].ver \in Nat
             /\ objs[o].shape \in Nat /\ objs'[o].shape \in Nat
             /\ objs[o].kept # None => objs[o].kept \in Nat
  <2>1. objs[o] \in Object /\ objs'[o] \in Object
    BY <1>1 DEF Inv, Typed
  <2> QED
    BY <2>1, ObjectFields
<1>4. Marked'
  <2>1. ASSUME NEW x \in Names, bound[x] # None
        PROVE  LET o == bound[x].obj
               IN  /\ o \in DOMAIN objs' /\ objs'[o].kept # None
                   /\ bound[x].ver <= objs'[o].kept
                   /\ bound[x].shape # None => bound[x].shape <= objs'[o].shape
                   /\ objs'[o].kind \in {"frame", "small"} => bound[x].shape # None
    <3> DEFINE o == bound[x].obj
    <3>1. /\ o \in DOMAIN objs /\ objs[o].kept # None
          /\ bound[x].ver <= objs[o].kept
          /\ bound[x].shape # None => bound[x].shape <= objs[o].shape
          /\ objs[o].kind \in {"frame", "small"} => bound[x].shape # None
      BY <2>1 DEF Inv, Marked
    <3>2. /\ o \in DOMAIN objs' /\ objs'[o].kept = objs[o].kept /\ objs'[o].shape >= objs[o].shape
          /\ objs'[o].kind \in {"frame", "small"} => objs[o].kind \in {"frame", "small"}
      BY <1>1, <3>1 DEF Next1
    <3>3. bound[x].shape \in Nat \cup {None}
      BY <2>1, MarkIsSome DEF Inv, Typed
    <3>4. bound[x].shape # None => bound[x].shape <= objs'[o].shape
      BY <1>3, <3>1, <3>2, <3>3
    <3> QED
      BY <3>1, <3>2, <3>4
  <2> QED
    BY <2>1 DEF Marked
<1>5. KeptOld'
  <2>1. ASSUME NEW o \in DOMAIN objs', objs'[o].kept # None
        PROVE  objs'[o].kept <= objs'[o].ver
    <3>1. o \in DOMAIN objs
      BY <1>1, <2>1
    <3>2. objs'[o].kept = objs[o].kept /\ objs'[o].ver >= objs[o].ver
      BY <1>1, <3>1 DEF Next1
    <3>3. objs[o].kept <= objs[o].ver
      BY <2>1, <3>1, <3>2 DEF Inv, KeptOld
    <3> QED
      BY <1>3, <2>1, <3>1, <3>2, <3>3
  <2> QED
    BY <2>1 DEF KeptOld
<1>6. ASSUME NEW x \in Names
      PROVE  /\ stands'[x] = "current" =>
                  /\ bound'[x] # None /\ bound'[x].obj = ns'[x] /\ bound'[x].ver = objs'[ns'[x]].ver
                  /\ objs'[ns'[x]].kind # "sealed"
             /\ stands'[x] = "none" => bound'[x] = None
  <2>1. stands'[x] = IF LostBy(s, yields, change, x) \/ x \in Binds(s)
                        \/ Touched(s, yields, change, x)
                     THEN "unknown" ELSE stands[x]
    BY StandsPlain
  <2>2. CASE LostBy(s, yields, change, x) \/ x \in Binds(s) \/ Touched(s, yields, change, x)
    <3>1. stands'[x] = "unknown"
      BY <2>1, <2>2
    <3> QED
      BY <3>1
  <2>3. CASE ~(LostBy(s, yields, change, x) \/ x \in Binds(s) \/ Touched(s, yields, change, x))
    <3>1. stands'[x] = stands[x]
      BY <2>1, <2>3
    <3>2. ns'[x] = ns[x] /\ Rebound(s, yields)[x] = ns[x]
      BY <2>3, Unmoved DEF Inv
    <3>3. ns[x] \notin Changed(s) \/ change = "none"
      BY <2>3, <3>2 DEF Touched
    <3>4. ASSUME stands'[x] = "none" PROVE bound'[x] = None
      BY <3>1, <3>4 DEF Inv, NoneLeft
    <3>5. ASSUME stands'[x] = "current"
          PROVE  /\ bound'[x] # None /\ bound'[x].obj = ns'[x] /\ bound'[x].ver = objs'[ns'[x]].ver
                 /\ objs'[ns'[x]].kind # "sealed"
      <4>1. /\ bound[x] # None /\ bound[x].obj = ns[x] /\ bound[x].ver = objs[ns[x]].ver
            /\ objs[ns[x]].kind # "sealed"
        BY <3>1, <3>5 DEF Inv, BoundToCurrent, CurrentStorable
      <4>2. ns[x] \in DOMAIN objs
        BY <4>1 DEF Inv, Marked
      <4>3. objs'[ns[x]] = objs[ns[x]]
        BY <1>1, <3>3, <4>2
      <4> QED
        BY <3>2, <4>1, <4>3
    <3> QED
      BY <3>4, <3>5
  <2> QED
    BY <2>2, <2>3
<1>7. BoundToCurrent'
  BY <1>6 DEF BoundToCurrent
<1>8. NoneLeft'
  BY <1>6 DEF NoneLeft
<1>9. CurrentStorable'
  BY <1>6 DEF CurrentStorable
<1> QED
  BY <1>2, <1>4, <1>5, <1>7, <1>8, <1>9 DEF Inv

\* A binding that a traced statement moves on the same object moves on.
LEMMA TracedOn ==
  ASSUME Inv, NEW s \in Statement, NEW yields \in Yields, NEW change \in Changes,
         NEW keep \in BOOLEAN, Traces(s, yields, change, keep),
         NEW outs, NEW now, NEW version, Effects(s, yields, change, keep, outs, now, version),
         NEW x \in Names, bound[x] # None, bound'[x] # None, bound'[x].obj = bound[x].obj
  PROVE  bound'[x].ver >= bound[x].ver
<1> DEFINE o == bound[x].obj
           alias == Rewritten(s).op = "name"
<1>1. /\ o \in DOMAIN objs /\ objs[o].kept # None /\ bound[x].ver <= objs[o].kept
  BY DEF Inv, Marked
<1>2. objs[o].kept <= objs[o].ver
  BY <1>1 DEF Inv, KeptOld
<1>3. objs'[o].ver >= objs[o].ver /\ objs[o].ver \in Nat /\ objs'[o].ver \in Nat
  BY <1>1, ObjectsAfter DEF Effects, Inv, Traces
<1>4. objs[o].kept \in Nat
  <2>1. objs[o] \in Object
    BY <1>1 DEF Inv, Typed
  <2> QED
    BY <1>1, <2>1, ObjectFields
<1>5. bound[x].ver \in Nat
  BY MarkIsSome DEF Inv, Typed
<1>6. Versions(alias, now, version) /\ Binding(x, outs, now, version)
  BY DEF Effects
<1>7. ASSUME o \in now PROVE version[o] >= bound[x].ver
  <2>1. CASE alias
    <3>1. version[o] = objs[o].kept
      BY <1>1, <1>6, <1>7, <2>1 DEF Versions
    <3> QED
      BY <1>1, <1>4, <1>5, <3>1
  <2>2. CASE ~alias
    <3>1. version[o] = objs'[o].ver
      BY <1>6, <1>7, <2>2 DEF Versions
    <3> QED
      BY <1>1, <1>2, <1>3, <1>4, <1>5, <3>1
  <2> QED
    BY <2>1, <2>2
<1>8. CASE Named0(x, outs)
  <2>1. PICK out \in outs : out.name = x
    BY <1>8 DEF Named0
  <2>2. bound'[x] = IF out.obj \in now THEN Now(out.obj, version[out.obj]) ELSE None
    BY <1>6, <2>1 DEF Binding
  <2>3. out.obj \in now /\ bound'[x] = Now(out.obj, version[out.obj])
    BY <2>2
  <2>4. out.obj = o /\ bound'[x].ver = version[out.obj]
    BY <2>3, NowFacts
  <2> QED
    BY <1>7, <2>3, <2>4
<1>9. CASE ~Named0(x, outs)
  <2>1. CASE Tracked(x) /\ o \in now
    <3>1. bound'[x] = Now(o, version[o])
      BY <1>6, <1>9, <2>1 DEF Binding
    <3>2. bound'[x].ver = version[o]
      BY <3>1, NowFacts
    <3> QED
      BY <1>7, <2>1, <3>2
  <2>2. CASE ~(Tracked(x) /\ o \in now) /\ Looks(x)
    <3>1. bound'[x] = Now(o, objs'[o].ver)
      BY <1>6, <1>9, <2>2 DEF Binding
    <3>2. bound'[x].ver = objs'[o].ver
      BY <3>1, NowFacts
    <3> QED
      BY <1>1, <1>2, <1>3, <1>4, <1>5, <3>2
  <2>3. CASE ~(Tracked(x) /\ o \in now) /\ ~Looks(x)
    <3>1. bound'[x] = bound[x]
      BY <1>6, <1>9, <2>3 DEF Binding
    <3> QED
      BY <1>5, <3>1
  <2> QED
    BY <2>1, <2>2, <2>3
<1> QED
  BY <1>8, <1>9
MovesOn ==
  \A x \in Names :
     bound[x] # None /\ bound'[x] # None /\ bound'[x].obj = bound[x].obj
       => bound'[x].ver >= bound[x].ver

\* A statement keeps the invariant, and no binding goes back.
LEMMA RunStep ==
  ASSUME Inv, NEW s \in Statement, Run(s)
  PROVE  Inv' /\ MovesOn
<1>1. PICK yields \in Yields, change \in Changes, keep \in BOOLEAN :
        /\ Possible(s, yields, change)
        /\ ns' = Rebound(s, yields)
        /\ stands' = StandsAfter(s, yields, change, keep)
        /\ \/ /\ Traced(s, yields, change)
              /\ Trace(s, Rewritten(s), After(s, yields, change), Rebound(s, yields), yields, keep)
           \/ /\ ~Traced(s, yields, change)
              /\ objs' = After(s, yields, change) /\ bound' = bound
  BY DEF Run, ShouldSnapshot, StandsAfter, Traced, Yields, Changes
<1>2. CASE /\ Traced(s, yields, change)
           /\ Trace(s, Rewritten(s), After(s, yields, change), Rebound(s, yields), yields, keep)
  <2>1. Traces(s, yields, change, keep)
    BY <1>1, <1>2 DEF Traces
  <2>2. PICK outs, now, version : Effects(s, yields, change, keep, outs, now, version)
    BY <1>1, <1>2, TraceEffects DEF Inv
  <2>3. Inv'
    BY <2>1, <2>2, TracedStep
  <2>4. MovesOn
    BY <2>1, <2>2, TracedOn DEF MovesOn
  <2> QED
    BY <2>3, <2>4
<1>3. CASE /\ ~Traced(s, yields, change)
           /\ objs' = After(s, yields, change) /\ bound' = bound
  <2>1. Inv'
    BY <1>1, <1>3, PlainStep
  <2>2. ASSUME NEW x \in Names, bound[x] # None PROVE bound'[x].ver >= bound[x].ver
    <3>1. bound[x].ver \in Nat
      BY <2>2, MarkIsSome DEF Inv, Typed
    <3> QED
      BY <1>3, <3>1
  <2> QED
    BY <2>1, <2>2 DEF MovesOn
<1> QED
  BY <1>1, <1>2, <1>3

\* Nothing is bound at first.
LEMMA InitInv ==
  ASSUME Init
  PROVE  Inv
<1>1. Typed
  <2>1. objs = <<>> /\ objs \in Seq(Object)
    BY EmptySeq DEF Init
  <2> QED
    BY <2>1 DEF Init, Typed, Standing
<1>2. DOMAIN objs = {}
  BY DEF Init
<1>3. Marked /\ KeptOld /\ CurrentStorable /\ BoundToCurrent /\ NoneLeft
  BY <1>2 DEF Init, Marked, KeptOld, CurrentStorable, BoundToCurrent, NoneLeft
<1> QED
  BY <1>1, <1>3 DEF Inv

\* Nothing depends on the number of statements.
LEMMA StutterInv ==
  ASSUME Inv, UNCHANGED vars
  PROVE  Inv'
<1>1. ns' = ns /\ objs' = objs /\ bound' = bound /\ stands' = stands
  BY DEF vars
<1> QED
  BY <1>1 DEF Inv, Typed, Marked, KeptOld, CurrentStorable, BoundToCurrent, NoneLeft

\* The bindings always are of versions that were stored, and of the values their names
\* ought to have.
THEOREM BindingInvariance == Spec => []Inv
<1>1. Init => Inv
  BY InitInv
<1>2. Inv /\ [Next]_vars => Inv'
  BY RunStep, StutterInv DEF Next
<1> QED
  BY <1>1, <1>2, PTL DEF Spec

\* A name whose last value the tracker was told of, and stored, is bound to it at the
\* version it has.
THEOREM BoundToCurrentHolds == Spec => []BoundToCurrent
<1>1. Inv => BoundToCurrent
  BY DEF Inv
<1> QED
  BY <1>1, BindingInvariance, PTL

\* A name whose last value was not stored is bound to nothing.
THEOREM NoneLeftHolds == Spec => []NoneLeft
<1>1. Inv => NoneLeft
  BY DEF Inv
<1> QED
  BY <1>1, BindingInvariance, PTL

\* A name is never bound to an earlier version of its object again.
THEOREM NeverBackHolds == Spec => NeverBack
<1>1. Inv /\ [Next]_vars => [MovesOn]_vars
  BY RunStep DEF Next
<1>2. Inv /\ [Next]_vars =>
        [\A x \in Names :
           bound[x] # None /\ bound'[x] # None /\ bound'[x].obj = bound[x].obj
             => bound'[x].ver >= bound[x].ver]_vars
  BY <1>1 DEF MovesOn
<1> QED
  BY <1>2, BindingInvariance, PTL DEF Spec, NeverBack
=============================================================================
