--------------------------- MODULE ArtifactsProofs ---------------------------
(***************************************************************************)
(* Theorems about Artifacts, for any names, statements and addresses.      *)
(* First come the folds of the model: a step has at most one argument and  *)
(* two outputs, and the refresh of the tracked names, a fold over a set,   *)
(* is a recursive function that exists (FoldExists) and does to each name  *)
(* what Refresh does, in whatever order the names are taken.  Then what    *)
(* each part of a step leaves of the work in progress w: Sound says that   *)
(* what w names exists, CurrentFor that the registry is right about the    *)
(* objects of L that are not Unsure, Ready what the refresh needs, Settled *)
(* what it leaves.                                                         *)
(*                                                                         *)
(* The inductive invariant Inv relates the tracked names to the objects    *)
(* (TrackedInv: a change that was not seen yet is one that the print       *)
(* shows), the names the tracker was told of to their versions (ToldInv),  *)
(* and what a name stands for to what it is bound to (StandInv, QuietInv). *)
(* Result says what a recorded step has to end with; ResultInv, that Inv   *)
(* holds after it; and the lemmas ..Inv, that each action ends with it.    *)
(***************************************************************************)
EXTENDS Artifacts, Recursions, SequenceTheorems

-----------------------------------------------------------------------------
(* Folds *)

\* A call with no frame keeps no input.
LEMMA NoInput ==
  ASSUME NEW w
  PROVE  InputsKept(w, <<>>) = w
<1> DEFINE K(v, o) == IF Known(v, o) THEN v ELSE Copied(v, o, None)
           Pick(s) == CHOOSE x \in s : TRUE
           Is(it) == it = [s \in SUBSET {} |->
                            IF s = {} THEN w ELSE K(it[s \ {Pick(s)}], <<>>[Pick(s)])]
           f == [s \in SUBSET {} |-> w]
<1>1. InputsKept(w, <<>>) = (CHOOSE it : Is(it))[{}]
  BY DEF InputsKept, FoldSeq, FoldFunction, FoldFunctionOnSet, MapThenFoldSet
<1> HIDE DEF K, Pick
<1>2. Is(f)
  OBVIOUS
<1>3. Is(CHOOSE it : Is(it))
  <2> HIDE DEF Is, f
  <2> QED
    BY <1>2
<1>4. (CHOOSE it : Is(it))[{}] = w
  BY <1>3
<1> QED
  BY <1>1, <1>4

\* A frame passed to a call is stored unless it has a version.
LEMMA OneInput ==
  ASSUME NEW w, NEW o
  PROVE  InputsKept(w, <<o>>) = IF Known(w, o) THEN w ELSE Copied(w, o, None)
<1> DEFINE K(v, p) == IF Known(v, p) THEN v ELSE Copied(v, p, None)
           Pick(s) == CHOOSE x \in s : TRUE
           args == <<o>>
           Is(it) == it = [s \in SUBSET DOMAIN args |->
                            IF s = {} THEN w ELSE K(it[s \ {Pick(s)}], args[Pick(s)])]
           f == [s \in SUBSET {1} |-> IF s = {} THEN w ELSE K(w, o)]
<1>1. InputsKept(w, args) = (CHOOSE it : Is(it))[DOMAIN args]
  BY DEF InputsKept, FoldSeq, FoldFunction, FoldFunctionOnSet, MapThenFoldSet
<1>2. DOMAIN args = {1} /\ args[1] = o
  OBVIOUS
<1>3. \A s \in SUBSET {1} : s # {} => s = {1} /\ Pick(s) = 1 /\ s \ {Pick(s)} = {}
  OBVIOUS
<1> HIDE DEF K, Pick, args
<1>4. Is(f)
  <2>1. \A s \in SUBSET {1} :
          (IF s = {} THEN w ELSE K(w, o)) = IF s = {} THEN w ELSE K(f[s \ {Pick(s)}], args[Pick(s)])
    BY <1>2, <1>3
  <2> QED
    BY <1>2, <2>1
<1>5. Is(CHOOSE it : Is(it))
  <2> HIDE DEF Is, f
  <2> QED
    BY <1>4
<1> DEFINE g == CHOOSE it : Is(it)
<1>6. g[{}] = w /\ g[{1}] = K(g[{}], o)
  <2> HIDE DEF g
  <2>1. Is(g)
    BY <1>5 DEF g
  <2>2. g = [s \in SUBSET DOMAIN args |->
                            IF s = {} THEN w ELSE K(g[s \ {Pick(s)}], args[Pick(s)])]
    BY <2>1
  <2>3. g[{}] = w
    BY <2>2
  <2>4. g[{1}] = K(g[{1} \ {Pick({1})}], args[Pick({1})])
    BY <1>2, <2>2
  <2> QED
    BY <1>2, <1>3, <2>3, <2>4
<1>7. InputsKept(w, args) = K(w, o)
  BY <1>1, <1>2, <1>6
<1> QED
  BY <1>7 DEF K, args

\* The outputs of a step are stored one after the other.
LEMMA OneOutput ==
  ASSUME NEW w, NEW outs, DOMAIN outs = {1}, NEW at, NEW parent
  PROVE  OutputsKept(w, outs, at, parent) = OutputKept(w, outs[1][1], outs[1][2], at, parent)
<1> DEFINE Keep(v, i) == OutputKept(v, outs[i][1], outs[i][2], IF i = 1 THEN at ELSE None,
                                    IF i = 1 THEN parent ELSE None)
           turns == [i \in DOMAIN outs |-> i]
           Is(it) == it = [s \in SUBSET DOMAIN turns |->
                            IF s = {} THEN w ELSE Keep(it[s \ {Max(s)}], turns[Max(s)])]
           f == [s \in SUBSET {1} |-> IF s = {} THEN w ELSE Keep(w, 1)]
<1>1. OutputsKept(w, outs, at, parent) = (CHOOSE it : Is(it))[DOMAIN turns]
  BY DEF OutputsKept, FoldLeft, MapThenFoldSet
<1>2. DOMAIN turns = {1} /\ turns[1] = 1
  OBVIOUS
<1>3. \A s \in SUBSET {1} : s # {} => s = {1} /\ Max(s) = 1 /\ s \ {Max(s)} = {}
  <2>1. Max({1}) = 1
    BY DEF Max
  <2> QED
    BY <2>1
<1> HIDE DEF Keep, turns
<1>4. Is(f)
  <2>1. \A s \in SUBSET {1} :
          (IF s = {} THEN w ELSE Keep(w, 1)) = IF s = {} THEN w ELSE Keep(f[s \ {Max(s)}], turns[Max(s)])
    BY <1>2, <1>3
  <2> QED
    BY <1>2, <2>1
<1> DEFINE g == CHOOSE it : Is(it)
<1>5. Is(g)
  <2> HIDE DEF Is, f
  <2> QED
    BY <1>4
<1> HIDE DEF g
<1>6. g[{}] = w /\ g[{1}] = Keep(g[{}], 1)
  <2>1. g[{}] = w
    BY <1>5
  <2>2. g[{1}] = Keep(g[{1} \ {Max({1})}], turns[Max({1})])
    BY <1>2, <1>5
  <2> QED
    BY <1>2, <1>3, <2>1, <2>2
<1>7. OutputsKept(w, outs, at, parent) = Keep(w, 1)
  BY <1>1, <1>2, <1>6 DEF g
<1> QED
  BY <1>7 DEF Keep

\* Of two outputs the first is the main one of the state.
LEMMA TwoOutputs ==
  ASSUME NEW w, NEW outs, DOMAIN outs = {1, 2}, NEW at, NEW parent
  PROVE  OutputsKept(w, outs, at, parent)
           = OutputKept(OutputKept(w, outs[1][1], outs[1][2], at, parent),
                        outs[2][1], outs[2][2], None, None)
<1> DEFINE Keep(v, i) == OutputKept(v, outs[i][1], outs[i][2], IF i = 1 THEN at ELSE None,
                                    IF i = 1 THEN parent ELSE None)
           turns == [i \in DOMAIN outs |-> i]
           Is(it) == it = [s \in SUBSET DOMAIN turns |->
                            IF s = {} THEN w ELSE Keep(it[s \ {Max(s)}], turns[Max(s)])]
           f == [s \in SUBSET {1, 2} |->
                  IF s = {} THEN w ELSE IF s = {1} THEN Keep(w, 1)
                  ELSE IF s = {2} THEN Keep(w, 2) ELSE Keep(Keep(w, 1), 2)]
<1>1. OutputsKept(w, outs, at, parent) = (CHOOSE it : Is(it))[DOMAIN turns]
  BY DEF OutputsKept, FoldLeft, MapThenFoldSet
<1>2. DOMAIN turns = {1, 2} /\ turns[1] = 1 /\ turns[2] = 2
  OBVIOUS
<1>3. Max({1}) = 1 /\ Max({2}) = 2 /\ Max({1, 2}) = 2
  <2>1. \A n \in {1, 2} : Max({n}) = n
    BY DEF Max
  <2>2. Max({1, 2}) = 2
    <3>1. \A m : (m \in {1, 2} /\ \A y \in {1, 2} : m >= y) <=> m = 2
      OBVIOUS
    <3> QED
      BY <3>1, Zenon DEF Max
  <2> QED
    BY <2>1, <2>2
<1>4. \A s \in SUBSET {1, 2} : s = {} \/ s = {1} \/ s = {2} \/ s = {1, 2}
  OBVIOUS
<1>5. {1} \ {1} = {} /\ {2} \ {2} = {} /\ {1, 2} \ {2} = {1} /\ {1} # {2} /\ {1, 2} # {1} /\ {1, 2} # {2}
  OBVIOUS
<1> HIDE DEF Keep, turns
<1>6. Is(f)
  <2> DEFINE Right(s) == IF s = {} THEN w ELSE Keep(f[s \ {Max(s)}], turns[Max(s)])
  <2>1. f[{}] = Right({})
    OBVIOUS
  <2>2. f[{1}] = Right({1})
    BY <1>2, <1>3, <1>5
  <2>3. f[{2}] = Right({2})
    BY <1>2, <1>3, <1>5
  <2>4. f[{1, 2}] = Right({1, 2})
    BY <1>2, <1>3, <1>5
  <2>5. \A s \in SUBSET {1, 2} : f[s] = Right(s)
    <3> HIDE DEF f, Right
    <3> QED
      BY <1>4, <2>1, <2>2, <2>3, <2>4
  <2>6. f = [s \in SUBSET {1, 2} |-> f[s]]
    OBVIOUS
  <2> HIDE DEF f
  <2> QED
    BY <1>2, <2>5, <2>6
<1> DEFINE g == CHOOSE it : Is(it)
<1>7. Is(g)
  <2> HIDE DEF Is, f
  <2> QED
    BY <1>6
<1> HIDE DEF g, f
<1>8. g[{}] = w /\ g[{1}] = Keep(g[{}], 1) /\ g[{1, 2}] = Keep(g[{1}], 2)
  <2>1. g[{}] = w
    BY <1>7
  <2>2. g[{1}] = Keep(g[{1} \ {Max({1})}], turns[Max({1})])
    BY <1>2, <1>7
  <2>3. g[{1, 2}] = Keep(g[{1, 2} \ {Max({1, 2})}], turns[Max({1, 2})])
    BY <1>2, <1>7
  <2> QED
    BY <1>2, <1>3, <1>5, <2>1, <2>2, <2>3
<1>9. OutputsKept(w, outs, at, parent) = Keep(Keep(w, 1), 2)
  BY <1>1, <1>2, <1>8 DEF g
<1>10. 2 # 1
  OBVIOUS
<1> QED
  BY <1>9, <1>10 DEF Keep
-----------------------------------------------------------------------------
(* Works in progress *)

Content == [tok : Nat \ {0}, cut : Nat]
Object  == [tok : Nat \ {0}, cut : Nat, print : Nat, addr : Addrs]
Row     == [art : Nat, at : Nat \cup {None}, kind : {"copy", "filter", "alias"},
            data : Content, obj : Nat]
Entry   == [obj : Nat \cup {None}, art : Nat \cup {None}, ver : Nat \cup {None}]
Latest  == UNION {[D -> Nat] : D \in SUBSET Nat}
Memory  == [reg : [Addrs -> Entry], latest : Latest, bind : [Names -> Nat \cup {None}],
            tracked : [Names -> [obj : Nat \cup {None}, print : Nat \cup {None}]],
            off : SUBSET Nat, lost : SUBSET Nat, dirty : SUBSET Nat]
Work    == [m : Memory, rows : Seq(Row), objs : Seq(Object), stored : SUBSET Nat,
            touched : SUBSET Nat]

\* The objects of L have one address each.
Apart(os, L) ==
  L \subseteq DOMAIN os /\ \A o, p \in L : os[o].addr = os[p].addr => o = p

\* Versions that are named exist, what was stored is known.
Sound(w, L) ==
  /\ w \in Work
  /\ Apart(w.objs, L)
  /\ \A a \in Addrs : w.m.reg[a].obj # None =>
       w.m.reg[a].obj \in DOMAIN w.objs /\ w.m.reg[a].art \in Nat /\ w.m.reg[a].ver \in DOMAIN w.rows
  /\ IsFiniteSet(DOMAIN w.m.latest)
  /\ \A b \in DOMAIN w.m.latest : w.m.latest[b] \in DOMAIN w.rows
  /\ \A x \in Names : w.m.bind[x] \in DOMAIN w.rows \cup {None}
  /\ \A o \in w.stored : o \in L /\ Known(w, o)

\* Later work adds rows and changes none.
Extends(w, r) ==
  /\ r.objs = w.objs
  /\ Len(w.rows) <= Len(r.rows)
  /\ \A i \in DOMAIN w.rows : r.rows[i] = w.rows[i]

\* The fields of a work in progress.
LEMMA WorkFacts ==
  ASSUME NEW w, NEW L, Sound(w, L)
  PROVE  /\ w \in Work /\ w.m \in Memory /\ w.rows \in Seq(Row) /\ w.objs \in Seq(Object)
         /\ w.m.reg \in [Addrs -> Entry] /\ w.m.latest \in Latest
         /\ w.m.bind \in [Names -> Nat \cup {None}]
         /\ w.m.tracked \in [Names -> [obj : Nat \cup {None}, print : Nat \cup {None}]]
         /\ Len(w.rows) \in Nat /\ DOMAIN w.rows = 1..Len(w.rows)
         /\ \A o \in L : /\ o \in DOMAIN w.objs /\ o \in Nat /\ w.objs[o] \in Object
                         /\ w.objs[o].addr \in Addrs /\ w.objs[o].print \in Nat
                         /\ Data(w.objs[o]) \in Content
         /\ \A i \in DOMAIN w.rows : w.rows[i] \in Row /\ w.rows[i].data \in Content
<1>1. /\ w \in Work /\ w.m \in Memory /\ w.rows \in Seq(Row) /\ w.objs \in Seq(Object)
  BY DEF Sound, Work
<1>2. /\ w.m.reg \in [Addrs -> Entry] /\ w.m.latest \in Latest
      /\ w.m.bind \in [Names -> Nat \cup {None}]
      /\ w.m.tracked \in [Names -> [obj : Nat \cup {None}, print : Nat \cup {None}]]
  BY <1>1 DEF Memory
<1>3. Len(w.rows) \in Nat /\ DOMAIN w.rows = 1..Len(w.rows)
  BY <1>1
<1>4. ASSUME NEW o \in L
      PROVE  /\ o \in DOMAIN w.objs /\ o \in Nat /\ w.objs[o] \in Object
             /\ w.objs[o].addr \in Addrs /\ w.objs[o].print \in Nat
             /\ Data(w.objs[o]) \in Content
  <2>1. o \in DOMAIN w.objs
    BY DEF Sound, Apart
  <2>2. o \in Nat /\ w.objs[o] \in Object
    BY <1>1, <2>1
  <2> QED
    BY <2>1, <2>2 DEF Object, Data, Content
<1>5. \A i \in DOMAIN w.rows : w.rows[i] \in Row /\ w.rows[i].data \in Content
  <2>1. \A i \in DOMAIN w.rows : w.rows[i] \in Row
    BY <1>1
  <2> QED
    BY <2>1 DEF Row
<1> QED
  BY <1>1, <1>2, <1>3, <1>4, <1>5

\* The latest versions are a function on numbers.
LEMMA LatestIs == \A f : f \in Latest <=> \E D \in SUBSET Nat : f \in [D -> Nat]
BY Zenon DEF Latest

\* Artifacts are numbered.
LEMMA NextArtType ==
  ASSUME NEW w, NEW L, Sound(w, L)
  PROVE  NextArt(w) \in Nat
<1> DEFINE S == DOMAIN w.rows
           T == {w.rows[i].art : i \in DOMAIN w.rows}
           f == [i \in S |-> w.rows[i].art]
<1>1. IsFiniteSet(S)
  BY WorkFacts, FS_Interval
<1>2. f \in Surjection(S, T)
  BY DEF Surjection
<1> HIDE DEF S, T, f
<1>3. IsFiniteSet(T)
  BY <1>1, <1>2, FS_Surjection
<1> USE DEF T
<1>4. Cardinality({w.rows[i].art : i \in DOMAIN w.rows}) \in Nat
  BY <1>3, FS_CardinalityType
<1> QED
  BY <1>4 DEF NextArt

\* r is w with one more row, which the registries follow.
StoresRow(w, r, o, at, data) ==
  LET v == Len(w.rows) + 1
  IN  /\ r \in Work /\ r.objs = w.objs /\ r.stored = w.stored /\ r.touched = w.touched
      /\ r.m.bind = w.m.bind /\ r.m.tracked = w.m.tracked
      /\ r.m.off = w.m.off \ {o} /\ r.m.lost = w.m.lost \ {o} /\ r.m.dirty = w.m.dirty \ {o}
      /\ Len(r.rows) = v /\ \A i \in DOMAIN w.rows : r.rows[i] = w.rows[i]
      /\ r.rows[v].at = at /\ r.rows[v].data = data /\ r.rows[v].obj = o
      /\ \A c \in Addrs \ {w.objs[o].addr} : r.m.reg[c] = w.m.reg[c]
      /\ Known(r, o) /\ VersionOf(r, o) = v /\ r.m.reg[w.objs[o].addr].art \in Nat
      /\ \E art \in Nat : r.m.latest = [b \in DOMAIN w.m.latest \cup {art} |->
                                      IF b = art THEN v ELSE w.m.latest[b]]

\* What storing a version changes.
LEMMA StoredFields ==
  ASSUME NEW w, NEW L, Sound(w, L), NEW o \in L, NEW at \in Nat \cup {None},
         NEW kind \in {"copy", "filter", "alias"}, NEW data \in Content
  PROVE  StoresRow(w, Stored(w, o, at, kind, data), o, at, data)
<1> DEFINE a == w.objs[o].addr
           art == IF Known(w, o) THEN w.m.reg[a].art ELSE NextArt(w)
           v == Len(w.rows) + 1
           row == [art |-> art, at |-> at, kind |-> kind, data |-> data, obj |-> o]
           entry == [obj |-> o, art |-> art, ver |-> v]
           latest == [b \in DOMAIN w.m.latest \cup {art} |-> IF b = art THEN v ELSE w.m.latest[b]]
           reg == [w.m.reg EXCEPT ![a] = entry]
           r == Stored(w, o, at, kind, data)
<1>1. a \in Addrs /\ o \in Nat /\ v \in Nat
  BY WorkFacts
<1>2. art \in Nat
  <2>1. CASE Known(w, o)
    <3>1. w.m.reg[a].obj = o /\ o # None
      BY <1>1, <2>1, ArtifactsAssumption DEF Known
    <3> QED
      BY <1>1, <2>1, <3>1 DEF Sound
  <2>2. CASE ~Known(w, o)
    BY <2>2, NextArtType
  <2> QED
    BY <2>1, <2>2
<1>3. row \in Row /\ row.at = at /\ row.data = data /\ row.obj = o
  BY <1>1, <1>2 DEF Row
<1>4. entry \in Entry /\ entry.obj = o /\ entry.ver = v /\ entry.art \in Nat
  BY <1>1, <1>2 DEF Entry
<1>5. latest \in Latest
  <2>1. PICK D \in SUBSET Nat : w.m.latest \in [D -> Nat]
    BY WorkFacts, LatestIs
  <2>2. latest \in [D \cup {art} -> Nat]
    <3> HIDE DEF art, v
    <3> QED
      BY <1>1, <1>2, <2>1
  <2> HIDE DEF art, latest
  <2> QED
    BY <1>2, <2>2, LatestIs
<1> HIDE DEF art, row, entry, latest
<1>6. reg \in [Addrs -> Entry] /\ reg[a] = entry /\ \A c \in Addrs \ {a} : reg[c] = w.m.reg[c]
  BY <1>1, <1>4, WorkFacts
<1>7. w = [m |-> w.m, rows |-> w.rows, objs |-> w.objs, stored |-> w.stored, touched |-> w.touched]
  BY WorkFacts DEF Work
<1>8. w.m = [reg |-> w.m.reg, latest |-> w.m.latest, bind |-> w.m.bind, tracked |-> w.m.tracked,
             off |-> w.m.off, lost |-> w.m.lost, dirty |-> w.m.dirty]
  BY WorkFacts DEF Memory
<1> DEFINE n == [w.m EXCEPT !.reg[a] = Registered(@, o, art, v),
                 !.latest = [b \in DOMAIN @ \cup {art} |-> IF b = art THEN v ELSE @[b]],
                 !.off = @ \ {o}, !.lost = @ \ {o}, !.dirty = @ \ {o}]
<1>9. r = [w EXCEPT !.rows = Append(@, row), !.m = n]
  BY Zenon DEF Stored, art, row
<1>10. n = [reg |-> reg, latest |-> latest, bind |-> w.m.bind, tracked |-> w.m.tracked,
           off |-> w.m.off \ {o}, lost |-> w.m.lost \ {o}, dirty |-> w.m.dirty \ {o}]
  <2>1. n.reg = reg
    BY <1>8 DEF Registered, entry
  <2>2. n.latest = latest
    BY <1>8 DEF latest
  <2>3. n.bind = w.m.bind
    BY <1>8
  <2>4. n.tracked = w.m.tracked
    BY <1>8
  <2>5. n.off = w.m.off \ {o}
    BY <1>8
  <2>6. n.lost = w.m.lost \ {o}
    BY <1>8
  <2>7. n.dirty = w.m.dirty \ {o}
    BY <1>8
  <2>8. n = [reg |-> n.reg, latest |-> n.latest, bind |-> n.bind, tracked |-> n.tracked,
             off |-> n.off, lost |-> n.lost, dirty |-> n.dirty]
    <3>1. DOMAIN n = DOMAIN w.m
      OBVIOUS
    <3>2. DOMAIN w.m = {"reg", "latest", "bind", "tracked", "off", "lost", "dirty"}
      BY <1>8
    <3>3. n = [f \in DOMAIN w.m |-> n[f]]
      OBVIOUS
    <3> HIDE DEF n
    <3> QED
      BY <3>2, <3>3
  <2> HIDE DEF n, reg
  <2> QED
    BY <2>1, <2>2, <2>3, <2>4, <2>5, <2>6, <2>7, <2>8
<1> HIDE DEF n
<1>11. r = [m |-> n, rows |-> Append(w.rows, row), objs |-> w.objs, stored |-> w.stored, touched |-> w.touched]
  BY <1>7, <1>9
<1>12. n \in Memory
  <2>1. w.m.off \in SUBSET Nat /\ w.m.lost \in SUBSET Nat /\ w.m.dirty \in SUBSET Nat
    BY WorkFacts DEF Memory
  <2> QED
    BY <1>5, <1>6, <1>10, <2>1, WorkFacts DEF Memory
<1>13. r \in Work
  <2>1. w.stored \in SUBSET Nat /\ w.touched \in SUBSET Nat
    BY WorkFacts DEF Work
  <2>2. Append(w.rows, row) \in Seq(Row)
    BY <1>3, WorkFacts
  <2> QED
    BY <1>11, <1>12, <2>1, <2>2, WorkFacts DEF Work
<1>14. Len(r.rows) = v /\ r.rows[v] = row /\ \A i \in DOMAIN w.rows : r.rows[i] = w.rows[i]
  BY <1>3, <1>11, WorkFacts
<1>15. Known(r, o) /\ VersionOf(r, o) = v /\ r.m.reg[a].art \in Nat
  <2>1. r.m.reg = reg /\ r.objs = w.objs
    BY <1>10, <1>11
  <2> HIDE DEF r, reg, entry, v
  <2>2. r.m.reg[a] = entry
    BY <1>6, <2>1
  <2> QED
    BY <1>4, <2>1, <2>2 DEF Known, VersionOf
<1>16. r.m.latest = [b \in DOMAIN w.m.latest \cup {art} |-> IF b = art THEN v ELSE w.m.latest[b]]
  BY <1>10, <1>11 DEF latest
<1>17. /\ r.objs = w.objs /\ r.stored = w.stored /\ r.touched = w.touched
       /\ r.m.bind = w.m.bind /\ r.m.tracked = w.m.tracked
       /\ r.m.off = w.m.off \ {o} /\ r.m.lost = w.m.lost \ {o} /\ r.m.dirty = w.m.dirty \ {o}
       /\ r.m.reg = reg
  BY <1>10, <1>11
<1> HIDE DEF r, reg
<1> QED
  BY <1>2, <1>3, <1>6, <1>13, <1>14, <1>15, <1>16, <1>17 DEF r, StoresRow
\* Objects whose version is known not to be what they hold.
Unsure(w) == w.m.off \cup w.m.lost \cup w.m.dirty

Right(w, o) == o \notin Unsure(w) => w.rows[VersionOf(w, o)].data = Data(w.objs[o])

\* The registry is right about the objects of M.
CurrentFor(w, M) == \A o \in M : Known(w, o) => Right(w, o)

\* r is w after o was stored: no other object's registration or standing changed.
StoresOnly(w, r, L, o) ==
  /\ Sound(r, L) /\ Extends(w, r)
  /\ Known(r, o) /\ o \notin r.m.dirty
  /\ \A p \in L \ {o} : r.m.reg[w.objs[p].addr] = w.m.reg[w.objs[p].addr]
  /\ r.m.off \ {o} = w.m.off \ {o} /\ r.m.lost \ {o} = w.m.lost \ {o}
  /\ r.m.dirty \ {o} = w.m.dirty \ {o}

\* Works follow on from each other.
LEMMA ExtendsTransitive ==
  ASSUME NEW u, NEW w, NEW r, NEW L, Sound(u, L), Sound(w, L), Sound(r, L), Extends(u, w), Extends(w, r)
  PROVE  Extends(u, r)
<1>1. /\ Len(u.rows) \in Nat /\ Len(w.rows) \in Nat /\ Len(r.rows) \in Nat
      /\ DOMAIN u.rows = 1..Len(u.rows) /\ DOMAIN w.rows = 1..Len(w.rows)
  BY WorkFacts
<1> QED
  BY <1>1 DEF Extends

\* The registration of an object other than the stored one stands.
LEMMA OthersStand ==
  ASSUME NEW w, NEW r, NEW L, NEW o \in L, Sound(w, L), StoresOnly(w, r, L, o)
  PROVE  /\ \A p \in L : Known(w, p) => Known(r, p)
         /\ \A p \in L \ {o} : /\ Known(r, p) <=> Known(w, p)
                               /\ VersionOf(r, p) = VersionOf(w, p)
                               /\ p \in Unsure(r) <=> p \in Unsure(w)
<1>1. r.objs = w.objs /\ Known(r, o)
  BY DEF StoresOnly, Extends
<1>2. ASSUME NEW p \in L \ {o}
      PROVE  /\ Known(r, p) <=> Known(w, p)
             /\ VersionOf(r, p) = VersionOf(w, p)
             /\ p \in Unsure(r) <=> p \in Unsure(w)
  <2>1. r.m.reg[w.objs[p].addr] = w.m.reg[w.objs[p].addr]
    BY DEF StoresOnly
  <2>2. /\ p \in r.m.off <=> p \in w.m.off
        /\ p \in r.m.lost <=> p \in w.m.lost
        /\ p \in r.m.dirty <=> p \in w.m.dirty
    <3>1. /\ r.m.off \ {o} = w.m.off \ {o} /\ r.m.lost \ {o} = w.m.lost \ {o}
          /\ r.m.dirty \ {o} = w.m.dirty \ {o}
      BY DEF StoresOnly
    <3> QED
      BY <3>1
  <2> QED
    BY <1>1, <2>1, <2>2 DEF Known, VersionOf, Unsure
<1> QED
  BY <1>1, <1>2

\* What the registry is right about stays right when the version stored is.
LEMMA StaysCurrent ==
  ASSUME NEW w, NEW r, NEW L, NEW o \in L, NEW M \in SUBSET L,
         Sound(w, L), StoresOnly(w, r, L, o), CurrentFor(w, M), Right(r, o)
  PROVE  CurrentFor(r, M \cup {o})
<1> SUFFICES ASSUME NEW p \in M \cup {o}, Known(r, p)
             PROVE  Right(r, p)
  BY DEF CurrentFor
<1>1. CASE p = o
  BY <1>1
<1>2. CASE p # o
  <2>1. /\ Known(w, p) /\ VersionOf(r, p) = VersionOf(w, p)
        /\ p \in Unsure(r) <=> p \in Unsure(w)
    BY <1>2, OthersStand
  <2>2. Right(w, p)
    BY <1>2, <2>1 DEF CurrentFor
  <2>3. VersionOf(w, p) \in DOMAIN w.rows
    <3>1. w.objs[p].addr \in Addrs /\ p \in Nat
      BY <1>2, WorkFacts
    <3>2. w.m.reg[w.objs[p].addr].obj = p /\ p # None
      BY <2>1, <3>1, ArtifactsAssumption DEF Known
    <3> QED
      BY <3>1, <3>2 DEF Sound, VersionOf
  <2>4. r.objs = w.objs /\ r.rows[VersionOf(w, p)] = w.rows[VersionOf(w, p)]
    BY <2>3 DEF StoresOnly, Extends
  <2> QED
    BY <2>1, <2>2, <2>4 DEF Right
<1> QED
  BY <1>1, <1>2

\* A known object's version is a row.
LEMMA VersionExists ==
  ASSUME NEW w, NEW L, Sound(w, L), NEW o \in L, Known(w, o)
  PROVE  /\ VersionOf(w, o) \in DOMAIN w.rows /\ VersionOf(w, o) \in Nat
         /\ w.m.reg[w.objs[o].addr].art \in Nat
<1>1. w.objs[o].addr \in Addrs /\ o \in Nat
  BY WorkFacts
<1>2. w.m.reg[w.objs[o].addr].obj = o /\ o # None
  BY <1>1, ArtifactsAssumption DEF Known
<1>3. VersionOf(w, o) \in DOMAIN w.rows /\ w.m.reg[w.objs[o].addr].art \in Nat
  BY <1>1, <1>2 DEF Sound, VersionOf
<1> QED
  BY <1>3, WorkFacts

\* Storing a version keeps a work sound.
LEMMA StoredSound ==
  ASSUME NEW w, NEW L, Sound(w, L), NEW o \in L, NEW at \in Nat \cup {None},
         NEW kind \in {"copy", "filter", "alias"}, NEW data \in Content
  PROVE  LET r == Stored(w, o, at, kind, data)
         IN  /\ StoresOnly(w, r, L, o) /\ o \notin Unsure(r)
             /\ r.m.bind = w.m.bind /\ r.m.tracked = w.m.tracked
             /\ r.stored = w.stored /\ r.touched = w.touched
             /\ Len(r.rows) = Len(w.rows) + 1 /\ VersionOf(r, o) = Len(r.rows)
             /\ r.rows[Len(r.rows)].data = data /\ r.rows[Len(r.rows)].at = at
<1> DEFINE r == Stored(w, o, at, kind, data)
           v == Len(w.rows) + 1
           a == w.objs[o].addr
<1>1. /\ r \in Work /\ r.objs = w.objs /\ r.stored = w.stored /\ r.touched = w.touched
      /\ r.m.bind = w.m.bind /\ r.m.tracked = w.m.tracked
      /\ r.m.off = w.m.off \ {o} /\ r.m.lost = w.m.lost \ {o} /\ r.m.dirty = w.m.dirty \ {o}
      /\ Len(r.rows) = v /\ \A i \in DOMAIN w.rows : r.rows[i] = w.rows[i]
      /\ r.rows[v].at = at /\ r.rows[v].data = data /\ r.rows[v].obj = o
      /\ \A c \in Addrs \ {a} : r.m.reg[c] = w.m.reg[c]
      /\ Known(r, o) /\ VersionOf(r, o) = v /\ r.m.reg[a].art \in Nat
      /\ \E art \in Nat : r.m.latest = [b \in DOMAIN w.m.latest \cup {art} |->
                                             IF b = art THEN v ELSE w.m.latest[b]]
  <2>1. StoresRow(w, r, o, at, data)
    BY StoredFields
  <2> HIDE DEF r
  <2> QED
    BY <2>1 DEF StoresRow
<1> HIDE DEF r
<1>2. Len(w.rows) \in Nat /\ DOMAIN w.rows = 1..Len(w.rows) /\ DOMAIN r.rows = 1..v /\ a \in Addrs
  <2>1. r.rows \in Seq(Row)
    BY <1>1 DEF Work
  <2> QED
    BY <1>1, <2>1, WorkFacts
<1>3. Apart(r.objs, L)
  BY <1>1 DEF Sound
<1>4. \A p \in L \ {o} : r.m.reg[w.objs[p].addr] = w.m.reg[w.objs[p].addr] /\ w.objs[p].addr # a
  BY <1>1, WorkFacts DEF Sound, Apart
<1>5. \A c \in Addrs : r.m.reg[c].obj # None =>
        r.m.reg[c].obj \in DOMAIN r.objs /\ r.m.reg[c].art \in Nat /\ r.m.reg[c].ver \in DOMAIN r.rows
  <2> SUFFICES ASSUME NEW c \in Addrs, r.m.reg[c].obj # None
               PROVE  /\ r.m.reg[c].obj \in DOMAIN r.objs
                      /\ r.m.reg[c].art \in Nat /\ r.m.reg[c].ver \in DOMAIN r.rows
    OBVIOUS
  <2>1. CASE c = a
    <3>1. r.m.reg[a].obj = o /\ o \in DOMAIN w.objs
      BY <1>1, WorkFacts DEF Known
    <3>2. r.m.reg[a].ver \in DOMAIN r.rows
      <4>1. r.m.reg[a].ver = v
        BY <1>1 DEF VersionOf
      <4> QED
        BY <1>2, <4>1
    <3> QED
      BY <1>1, <2>1, <3>1, <3>2
  <2>2. CASE c # a
    <3>1. r.m.reg[c] = w.m.reg[c]
      BY <1>1, <2>2
    <3>2. w.m.reg[c].obj \in DOMAIN w.objs /\ w.m.reg[c].art \in Nat /\ w.m.reg[c].ver \in DOMAIN w.rows
      BY <3>1 DEF Sound
    <3> QED
      BY <1>1, <1>2, <3>1, <3>2
  <2> QED
    BY <2>1, <2>2
<1>6. /\ IsFiniteSet(DOMAIN r.m.latest)
      /\ \A b \in DOMAIN r.m.latest : r.m.latest[b] \in DOMAIN r.rows
  <2>1. PICK art \in Nat : r.m.latest = [b \in DOMAIN w.m.latest \cup {art} |->
                                             IF b = art THEN v ELSE w.m.latest[b]]
    BY <1>1
  <2>2. IsFiniteSet(DOMAIN w.m.latest \cup {art})
    BY FS_AddElement DEF Sound
  <2>3. \A b \in DOMAIN w.m.latest : w.m.latest[b] \in DOMAIN w.rows
    BY DEF Sound
  <2> QED
    BY <1>2, <2>1, <2>2, <2>3
<1>7. \A x \in Names : r.m.bind[x] \in DOMAIN r.rows \cup {None}
  <2>1. \A x \in Names : w.m.bind[x] \in DOMAIN w.rows \cup {None}
    BY DEF Sound
  <2> QED
    BY <1>1, <1>2, <2>1
<1>8. \A p \in r.stored : p \in L /\ Known(r, p)
  <2> SUFFICES ASSUME NEW p \in w.stored
               PROVE  p \in L /\ Known(r, p)
    BY <1>1
  <2>1. p \in L /\ Known(w, p)
    BY DEF Sound
  <2>2. CASE p = o
    BY <1>1, <2>1, <2>2
  <2>3. CASE p # o
    BY <1>1, <1>4, <2>1, <2>3 DEF Known
  <2> QED
    BY <2>1, <2>2, <2>3
<1>9. Sound(r, L)
  BY <1>1, <1>3, <1>5, <1>6, <1>7, <1>8 DEF Sound
<1>10. Extends(w, r)
  BY <1>1, <1>2 DEF Extends
<1>11. StoresOnly(w, r, L, o) /\ o \notin Unsure(r)
  BY <1>1, <1>4, <1>9, <1>10 DEF StoresOnly, Unsure
<1> QED
  BY <1>1, <1>11 DEF r
\* A copy is what the object holds.
LEMMA CopiedSound ==
  ASSUME NEW w, NEW L, Sound(w, L), NEW o \in L, NEW at \in Nat \cup {None}
  PROVE  LET r == Copied(w, o, at)
         IN  /\ StoresOnly(w, r, L, o) /\ o \notin Unsure(r) /\ Right(r, o)
             /\ r.rows[VersionOf(r, o)].data = Data(w.objs[o])
             /\ r.m.bind = w.m.bind /\ r.m.tracked = w.m.tracked
             /\ r.stored = w.stored /\ r.touched = w.touched
<1> DEFINE r == Copied(w, o, at)
<1>1. Data(w.objs[o]) \in Content
  BY WorkFacts
<1>2. /\ StoresOnly(w, r, L, o) /\ o \notin Unsure(r)
      /\ r.m.bind = w.m.bind /\ r.m.tracked = w.m.tracked
      /\ r.stored = w.stored /\ r.touched = w.touched
      /\ VersionOf(r, o) = Len(r.rows)
      /\ r.rows[Len(r.rows)].data = Data(w.objs[o])
  BY <1>1, StoredSound DEF Copied
<1> HIDE DEF r
<1>3. Right(r, o)
  BY <1>2 DEF Right, StoresOnly, Extends
<1> QED
  BY <1>2, <1>3 DEF r

\* The object of a row filter holds its parent's data, with one filter more; what
\* is wrong with the parent's version is remembered of the filter's.
LEMMA FilteredSound ==
  ASSUME NEW w, NEW L, Sound(w, L), NEW o \in L, NEW at \in Nat \cup {None},
         NEW p \in L \ {o}, Known(w, p), Right(w, p), w.objs[o].tok = w.objs[p].tok
  PROVE  LET r == Filtered(w, o, p, at)
         IN  /\ StoresOnly(w, r, L, o) /\ Right(r, o)
             /\ r.m.bind = w.m.bind /\ r.m.tracked = w.m.tracked
             /\ r.stored = w.stored /\ r.touched = w.touched
<1> DEFINE data == [tok |-> w.rows[VersionOf(w, p)].data.tok, cut |-> w.objs[o].cut]
           q == Stored(w, o, at, "filter", data)
           off == q.m.off \cup (IF p \in w.m.off \cup w.m.dirty THEN {o} ELSE {})
           lost == q.m.lost \cup (IF p \in w.m.lost THEN {o} ELSE {})
           n == [q.m EXCEPT !.off = off, !.lost = lost]
           r == Filtered(w, o, p, at)
<1>1. data \in Content
  <2>1. VersionOf(w, p) \in DOMAIN w.rows
    BY VersionExists
  <2>2. w.rows[VersionOf(w, p)].data \in Content
    BY <2>1, WorkFacts
  <2>3. w.objs[o].cut \in Nat
    BY WorkFacts DEF Object
  <2> QED
    BY <2>2, <2>3 DEF Content
<1>2. /\ StoresOnly(w, q, L, o) /\ o \notin Unsure(q)
      /\ q.m.bind = w.m.bind /\ q.m.tracked = w.m.tracked
      /\ q.stored = w.stored /\ q.touched = w.touched
      /\ VersionOf(q, o) = Len(q.rows)
      /\ q.rows[Len(q.rows)].data = data
  <2> HIDE DEF data
  <2> QED
    BY <1>1, StoredSound
<1>3. r = [q EXCEPT !.m = n]
  BY Zenon DEF Filtered
<1>4. q \in Work /\ q.m \in Memory /\ o \in Nat
  BY <1>2, WorkFacts DEF StoresOnly
<1> HIDE DEF q, data, r
<1>5. n \in Memory /\ n.off = off /\ n.lost = lost /\ n.dirty = q.m.dirty /\ n.reg = q.m.reg
      /\ n.latest = q.m.latest /\ n.bind = q.m.bind /\ n.tracked = q.m.tracked
  BY <1>4 DEF Memory
<1> HIDE DEF n
<1>6. r \in Work /\ r.m = n /\ r.rows = q.rows /\ r.objs = q.objs /\ r.stored = q.stored /\ r.touched = q.touched
  BY <1>3, <1>4, <1>5 DEF Work
<1>7. Sound(q, L) /\ q.objs = w.objs
  BY <1>2 DEF StoresOnly, Extends
<1>8. Sound(r, L)
  BY <1>5, <1>6, <1>7 DEF Sound, Known
<1>9. Extends(w, r)
  BY <1>2, <1>6 DEF StoresOnly, Extends
<1>10. StoresOnly(w, r, L, o)
  <2>1. r.m.off \ {o} = w.m.off \ {o} /\ r.m.lost \ {o} = w.m.lost \ {o} /\ r.m.dirty = q.m.dirty
    BY <1>2, <1>5, <1>6 DEF StoresOnly
  <2>2. Known(r, o) /\ o \notin r.m.dirty
    BY <1>2, <1>5, <1>6 DEF StoresOnly, Known
  <2> QED
    BY <1>2, <1>5, <1>6, <1>8, <1>9, <2>1, <2>2 DEF StoresOnly
<1>11. Right(r, o)
  <2> SUFFICES ASSUME o \notin Unsure(r)
               PROVE  r.rows[VersionOf(r, o)].data = Data(r.objs[o])
    BY DEF Right
  <2>1. p \notin Unsure(w)
    BY <1>5, <1>6 DEF Unsure
  <2>2. w.rows[VersionOf(w, p)].data = Data(w.objs[p])
    BY <2>1 DEF Right
  <2>3. VersionOf(r, o) = VersionOf(q, o) /\ r.rows = q.rows
    BY <1>5, <1>6 DEF VersionOf
  <2>4. data = Data(w.objs[o])
    BY <2>2 DEF data, Data
  <2> QED
    BY <1>2, <1>6, <1>7, <2>3, <2>4
<1> QED
  BY <1>2, <1>5, <1>6, <1>10, <1>11 DEF r

\* An object that was stored in this step.
LEMMA TouchesSound ==
  ASSUME NEW w, NEW L, Sound(w, L), NEW o \in L, Known(w, o)
  PROVE  LET r == Touches(w, o)
         IN  /\ Sound(r, L) /\ r.m = w.m /\ r.rows = w.rows /\ r.objs = w.objs
             /\ r.stored = w.stored \cup {o}
<1> DEFINE r == Touches(w, o)
<1>1. /\ w \in Work /\ o \in Nat /\ w.m.reg[w.objs[o].addr].art \in Nat
  BY WorkFacts, VersionExists
<1>2. /\ r \in Work /\ r.m = w.m /\ r.rows = w.rows /\ r.objs = w.objs
      /\ r.stored = w.stored \cup {o}
  BY <1>1 DEF Touches, Work
<1> HIDE DEF r
<1>3. \A p \in r.stored : p \in L /\ Known(r, p)
  BY <1>2 DEF Sound, Known
<1>4. Sound(r, L)
  BY <1>2, <1>3 DEF Sound
<1> QED
  BY <1>2, <1>4 DEF r

\* A name that is bound to the version of a known object.
LEMMA BindSound ==
  ASSUME NEW w, NEW L, Sound(w, L), NEW o \in L, Known(w, o), NEW x \in Names
  PROVE  LET r == Bind(w, x, o)
         IN  /\ Sound(r, L) /\ r.rows = w.rows /\ r.objs = w.objs
             /\ r.stored = w.stored /\ r.touched = w.touched
             /\ r.m.reg = w.m.reg /\ r.m.latest = w.m.latest
             /\ r.m.off = w.m.off /\ r.m.lost = w.m.lost /\ r.m.dirty = w.m.dirty
             /\ r.m.bind = [w.m.bind EXCEPT ![x] = VersionOf(w, o)]
             /\ r.m.tracked = [w.m.tracked EXCEPT ![x] = [obj |-> o, print |-> w.objs[o].print]]
<1> DEFINE u == [w EXCEPT !.m.bind[x] = VersionOf(w, o)]
           r == Bind(w, x, o)
           bind == [w.m.bind EXCEPT ![x] = VersionOf(w, o)]
           seenAs == [obj |-> o, print |-> w.objs[o].print]
           tracked == [w.m.tracked EXCEPT ![x] = seenAs]
<1>1. /\ w \in Work /\ w.m \in Memory /\ o \in Nat /\ w.objs[o].print \in Nat
      /\ VersionOf(w, o) \in DOMAIN w.rows /\ VersionOf(w, o) \in Nat
  BY WorkFacts, VersionExists
<1>2. bind \in [Names -> Nat \cup {None}] /\ tracked \in [Names -> [obj : Nat \cup {None}, print : Nat \cup {None}]]
  <2>1. /\ w.m.bind \in [Names -> Nat \cup {None}]
        /\ w.m.tracked \in [Names -> [obj : Nat \cup {None}, print : Nat \cup {None}]]
    BY WorkFacts
  <2>2. seenAs \in [obj : Nat \cup {None}, print : Nat \cup {None}]
    BY <1>1
  <2> HIDE DEF seenAs
  <2> QED
    BY <1>1, <2>1, <2>2
<1>3. u = [w EXCEPT !.m = [w.m EXCEPT !.bind = bind]]
  BY <1>1 DEF Work, Memory
<1>4. r = [u EXCEPT !.m = [u.m EXCEPT !.tracked = [u.m.tracked EXCEPT ![x] = [obj |-> o, print |-> u.objs[o].print]]]]
  BY <1>1 DEF Bind, Track
<1> HIDE DEF u, r, bind
<1>5. /\ u \in Work /\ u.rows = w.rows /\ u.objs = w.objs /\ u.stored = w.stored /\ u.touched = w.touched
      /\ u.m = [w.m EXCEPT !.bind = bind]
  BY <1>1, <1>2, <1>3 DEF Work, Memory
<1>6. /\ u.m \in Memory /\ u.m.reg = w.m.reg /\ u.m.latest = w.m.latest /\ u.m.tracked = w.m.tracked
      /\ u.m.off = w.m.off /\ u.m.lost = w.m.lost /\ u.m.dirty = w.m.dirty /\ u.m.bind = bind
  BY <1>1, <1>2, <1>5 DEF Memory
<1>7. r = [u EXCEPT !.m = [u.m EXCEPT !.tracked = tracked]]
  BY <1>4, <1>5, <1>6
<1> HIDE DEF tracked
<1>8. /\ [u.m EXCEPT !.tracked = tracked] \in Memory
      /\ r.m = [u.m EXCEPT !.tracked = tracked]
      /\ r.rows = w.rows /\ r.objs = w.objs /\ r.stored = w.stored /\ r.touched = w.touched
      /\ r \in Work
  <2>1. [u.m EXCEPT !.tracked = tracked] \in Memory
    BY <1>2, <1>6 DEF Memory
  <2> DEFINE n == [u.m EXCEPT !.tracked = tracked]
  <2> HIDE DEF n
  <2>2. r = [u EXCEPT !.m = n] /\ n \in Memory
    BY <1>7, <2>1 DEF n
  <2>3. r.m = n /\ r.rows = w.rows /\ r.objs = w.objs /\ r.stored = w.stored /\ r.touched = w.touched
        /\ r \in Work
    BY <1>5, <2>2 DEF Work
  <2> QED
    BY <2>1, <2>3 DEF n
<1>9. /\ r.m.reg = w.m.reg /\ r.m.latest = w.m.latest /\ r.m.tracked = tracked /\ r.m.bind = bind
      /\ r.m.off = w.m.off /\ r.m.lost = w.m.lost /\ r.m.dirty = w.m.dirty
  BY <1>6, <1>8 DEF Memory
<1>10. \A y \in Names : bind[y] \in DOMAIN w.rows \cup {None}
  <2>1. \A y \in Names : w.m.bind[y] \in DOMAIN w.rows \cup {None}
    BY DEF Sound
  <2>2. w.m.bind \in [Names -> Nat \cup {None}]
    BY WorkFacts
  <2> QED
    BY <1>1, <2>1, <2>2 DEF bind
<1>11. \A p \in r.stored : p \in L /\ Known(r, p)
  BY <1>8, <1>9 DEF Sound, Known
<1>12. Sound(r, L)
  BY <1>8, <1>9, <1>10, <1>11 DEF Sound
<1> QED
  BY <1>8, <1>9, <1>12 DEF r, bind, tracked
\* r is w after o was stored in this step.
StoresOutput(w, r, L, o) ==
  StoresOnly(w, r, L, o) /\ Right(r, o) /\ r.stored = w.stored \cup {o}

\* Only x is bound anew, to the version o has.
BindsOnly(w, r, x, o) ==
  /\ r.m.bind = [w.m.bind EXCEPT ![x] = VersionOf(r, o)]
  /\ r.m.tracked = [w.m.tracked EXCEPT ![x] = [obj |-> o, print |-> w.objs[o].print]]

\* A version that was stored is noted, and a name is bound to it.
LEMMA NotedSound ==
  ASSUME NEW w, NEW q, NEW L, NEW o \in L, Sound(w, L), StoresOnly(w, q, L, o), Right(q, o),
         q.m.bind = w.m.bind, q.m.tracked = w.m.tracked, q.stored = w.stored
  PROVE  /\ LET r == Touches(q, o)
            IN  StoresOutput(w, r, L, o) /\ r.m = q.m
         /\ \A x \in Names : LET r == Bind(Touches(q, o), x, o)
                              IN  /\ StoresOutput(w, r, L, o) /\ BindsOnly(w, r, x, o)
                                  /\ Unsure(r) = Unsure(q)
<1> DEFINE t == Touches(q, o)
<1>1. Sound(q, L) /\ Known(q, o)
  BY DEF StoresOnly
<1>2. Sound(t, L) /\ t.m = q.m /\ t.rows = q.rows /\ t.objs = q.objs /\ t.stored = q.stored \cup {o}
  BY <1>1, TouchesSound
<1> HIDE DEF t
<1>3. Known(t, o)
  BY <1>1, <1>2 DEF Known
<1>4. StoresOutput(w, t, L, o)
  <2>1. Extends(w, t)
    BY <1>2 DEF StoresOnly, Extends
  <2>2. StoresOnly(w, t, L, o)
    BY <1>2, <1>3, <2>1 DEF StoresOnly
  <2>3. Right(t, o)
    BY <1>2 DEF Right, Unsure, VersionOf
  <2> QED
    BY <1>2, <2>2, <2>3 DEF StoresOutput
<1>5. ASSUME NEW x \in Names
      PROVE  LET r == Bind(t, x, o)
             IN  /\ StoresOutput(w, r, L, o) /\ BindsOnly(w, r, x, o)
                 /\ Unsure(r) = Unsure(q)
  <2> DEFINE r == Bind(t, x, o)
  <2>1. /\ Sound(r, L) /\ r.rows = t.rows /\ r.objs = t.objs
        /\ r.stored = t.stored /\ r.touched = t.touched
        /\ r.m.reg = t.m.reg /\ r.m.latest = t.m.latest
        /\ r.m.off = t.m.off /\ r.m.lost = t.m.lost /\ r.m.dirty = t.m.dirty
        /\ r.m.bind = [t.m.bind EXCEPT ![x] = VersionOf(t, o)]
        /\ r.m.tracked = [t.m.tracked EXCEPT ![x] = [obj |-> o, print |-> t.objs[o].print]]
    BY <1>2, <1>3, BindSound
  <2> HIDE DEF r
  <2>2. VersionOf(r, o) = VersionOf(t, o) /\ Known(r, o)
    BY <1>3, <2>1 DEF VersionOf, Known
  <2>3. t.objs = w.objs
    BY <1>2 DEF StoresOnly, Extends
  <2>4. BindsOnly(w, r, x, o)
    BY <1>2, <2>1, <2>2, <2>3 DEF BindsOnly
  <2>5. StoresOnly(w, t, L, o) /\ Right(t, o)
    BY <1>4 DEF StoresOutput
  <2>6. Extends(w, r)
    BY <2>1, <2>5 DEF StoresOnly, Extends
  <2>7. StoresOnly(w, r, L, o)
    <3>1. /\ r.m.reg = t.m.reg /\ r.m.off = t.m.off /\ r.m.lost = t.m.lost /\ r.m.dirty = t.m.dirty
          /\ Sound(r, L)
      BY <2>1
    <3> QED
      BY <2>2, <2>5, <2>6, <3>1 DEF StoresOnly
  <2>8. Right(r, o)
    BY <2>1, <2>2, <2>5 DEF Right, Unsure
  <2>9. Unsure(r) = Unsure(q)
    BY <1>2, <2>1 DEF Unsure
  <2> QED
    BY <1>2, <2>1, <2>4, <2>7, <2>8, <2>9 DEF r, StoresOutput
<1> QED
  BY <1>2, <1>4, <1>5 DEF t

\* An output is stored, as a copy or as a filter of a known frame, and its name bound.
LEMMA OutputKeptSound ==
  ASSUME NEW w, NEW L, Sound(w, L), NEW o \in L, NEW at \in Nat \cup {None}, NEW x \in Names \cup {None},
         NEW p, p # None => /\ p \in L \ {o} /\ Known(w, p) /\ Right(w, p)
                            /\ w.objs[o].tok = w.objs[p].tok
  PROVE  LET r == OutputKept(w, x, o, at, p)
         IN  /\ StoresOutput(w, r, L, o)
             /\ x # None => BindsOnly(w, r, x, o)
             /\ x = None => r.m.bind = w.m.bind /\ r.m.tracked = w.m.tracked
             /\ p = None => o \notin Unsure(r)
<1> DEFINE q == IF p # None THEN Filtered(w, o, p, at) ELSE Copied(w, o, at)
<1>1. /\ StoresOnly(w, q, L, o) /\ Right(q, o)
      /\ q.m.bind = w.m.bind /\ q.m.tracked = w.m.tracked
      /\ q.stored = w.stored
      /\ p = None => o \notin Unsure(q)
  <2>1. CASE p # None
    <3>1. p \in L \ {o} /\ Known(w, p) /\ Right(w, p) /\ w.objs[o].tok = w.objs[p].tok
      BY <2>1
    <3>2. q = Filtered(w, o, p, at)
      BY <2>1
    <3> HIDE DEF q
    <3> QED
      BY <2>1, <3>1, <3>2, FilteredSound
  <2>2. CASE p = None
    BY <2>2, CopiedSound
  <2> QED
    BY <2>1, <2>2
<1>2. OutputKept(w, x, o, at, p) = IF x = None THEN Touches(q, o) ELSE Bind(Touches(q, o), x, o)
  BY DEF OutputKept
<1> HIDE DEF q
<1>3. CASE x = None
  <2>1. /\ StoresOutput(w, Touches(q, o), L, o) /\ Touches(q, o).m = q.m
        /\ OutputKept(w, x, o, at, p) = Touches(q, o)
    BY <1>1, <1>2, <1>3, NotedSound
  <2> QED
    BY <1>1, <1>3, <2>1 DEF Unsure
<1>4. CASE x # None
  BY <1>1, <1>2, <1>4, NotedSound
<1> QED
  BY <1>3, <1>4

\* A name that is not tracked any more.
LEMMA UntrackSound ==
  ASSUME NEW w, NEW L, Sound(w, L), NEW x \in Names
  PROVE  LET r == [w EXCEPT !.m.tracked[x] = Untracked]
         IN  /\ Sound(r, L) /\ r.rows = w.rows /\ r.objs = w.objs
             /\ r.stored = w.stored /\ r.touched = w.touched
             /\ r.m.reg = w.m.reg /\ r.m.latest = w.m.latest /\ r.m.bind = w.m.bind
             /\ r.m.off = w.m.off /\ r.m.lost = w.m.lost /\ r.m.dirty = w.m.dirty
             /\ r.m.tracked = [w.m.tracked EXCEPT ![x] = Untracked]
<1> DEFINE r == [w EXCEPT !.m.tracked[x] = Untracked]
           tracked == [w.m.tracked EXCEPT ![x] = Untracked]
           n == [w.m EXCEPT !.tracked = tracked]
<1>1. w \in Work /\ w.m \in Memory
  BY WorkFacts
<1>2. tracked \in [Names -> [obj : Nat \cup {None}, print : Nat \cup {None}]]
  BY WorkFacts DEF Untracked
<1>3. r = [w EXCEPT !.m = n]
  BY <1>1 DEF Work, Memory
<1> HIDE DEF r, tracked
<1>4. n \in Memory /\ n.reg = w.m.reg /\ n.latest = w.m.latest /\ n.bind = w.m.bind
      /\ n.off = w.m.off /\ n.lost = w.m.lost /\ n.dirty = w.m.dirty /\ n.tracked = tracked
  BY <1>1, <1>2 DEF Memory
<1> HIDE DEF n
<1>5. r \in Work /\ r.m = n /\ r.rows = w.rows /\ r.objs = w.objs /\ r.stored = w.stored /\ r.touched = w.touched
  BY <1>1, <1>3, <1>4 DEF Work
<1>6. Sound(r, L)
  BY <1>4, <1>5 DEF Sound, Known
<1> QED
  BY <1>4, <1>5, <1>6 DEF r, tracked

-----------------------------------------------------------------------------
(* Tracked names *)

\* What _refresh_tracked does to one name.
RefreshDoes(w, r, L, x) ==
  LET o == w.m.tracked[x].obj
  IN  /\ Sound(r, L) /\ Extends(w, r)
      /\ o \notin L => /\ r.m.tracked = [w.m.tracked EXCEPT ![x] = Untracked] /\ r.m.bind = w.m.bind
                       /\ r.m.reg = w.m.reg /\ r.rows = w.rows /\ r.stored = w.stored
                       /\ r.m.off = w.m.off /\ r.m.lost = w.m.lost /\ r.m.dirty = w.m.dirty
      /\ o \in L /\ o \in w.stored =>
           /\ BindsOnly(w, r, x, o) /\ Known(r, o)
           /\ r.m.reg = w.m.reg /\ r.rows = w.rows /\ r.stored = w.stored
           /\ r.m.off = w.m.off /\ r.m.lost = w.m.lost /\ r.m.dirty = w.m.dirty
      /\ o \in L /\ o \notin w.stored /\ w.objs[o].print = w.m.tracked[x].print => r = w
      /\ o \in L /\ o \notin w.stored /\ w.objs[o].print # w.m.tracked[x].print =>
           StoresOutput(w, r, L, o) /\ BindsOnly(w, r, x, o) /\ o \notin Unsure(r)

\* One name is refreshed.
LEMMA RefreshCases ==
  ASSUME NEW w, NEW L, Sound(w, L), NEW x \in Names
  PROVE  RefreshDoes(w, Refresh(w, x, L), L, x)
<1> DEFINE o == w.m.tracked[x].obj
           r == Refresh(w, x, L)
<1>1. CASE o \notin L
  <2> DEFINE u == [w EXCEPT !.m.tracked[x] = Untracked]
  <2>1. r = u
    BY <1>1 DEF Refresh
  <2>2. /\ Sound(u, L) /\ u.rows = w.rows /\ u.objs = w.objs
        /\ u.stored = w.stored
        /\ u.m.reg = w.m.reg /\ u.m.latest = w.m.latest /\ u.m.bind = w.m.bind
        /\ u.m.off = w.m.off /\ u.m.lost = w.m.lost /\ u.m.dirty = w.m.dirty
        /\ u.m.tracked = [w.m.tracked EXCEPT ![x] = Untracked]
    BY UntrackSound
  <2> HIDE DEF u, r
  <2>3. Extends(w, r)
    BY <2>1, <2>2, WorkFacts DEF Extends
  <2> QED
    BY <1>1, <2>1, <2>2, <2>3 DEF r, RefreshDoes
<1>2. CASE o \in L /\ o \in w.stored
  <2>1. r = Bind(w, x, o)
    BY <1>2 DEF Refresh
  <2>2. Known(w, o)
    BY <1>2 DEF Sound
  <2> DEFINE u == Bind(w, x, o)
  <2>3. /\ Sound(u, L) /\ u.rows = w.rows /\ u.objs = w.objs
        /\ u.stored = w.stored
        /\ u.m.reg = w.m.reg
        /\ u.m.off = w.m.off /\ u.m.lost = w.m.lost /\ u.m.dirty = w.m.dirty
        /\ u.m.bind = [w.m.bind EXCEPT ![x] = VersionOf(w, o)]
        /\ u.m.tracked = [w.m.tracked EXCEPT ![x] = [obj |-> o, print |-> w.objs[o].print]]
    <3> HIDE DEF o
    <3> QED
      BY <1>2, <2>2, BindSound
  <2>6. r = u
    BY <2>1
  <2> HIDE DEF u, r
  <2>4. Extends(w, r)
    BY <2>3, <2>6, WorkFacts DEF Extends
  <2>5. BindsOnly(w, r, x, o) /\ Known(r, o)
    BY <2>2, <2>3, <2>6 DEF BindsOnly, Known, VersionOf
  <2>7. /\ Sound(r, L) /\ r.m.reg = w.m.reg /\ r.rows = w.rows /\ r.stored = w.stored
        /\ r.m.off = w.m.off /\ r.m.lost = w.m.lost /\ r.m.dirty = w.m.dirty
    BY <2>3, <2>6
  <2> QED
    BY <1>2, <2>4, <2>5, <2>7 DEF r, RefreshDoes
<1>3. CASE o \in L /\ o \notin w.stored /\ w.objs[o].print = w.m.tracked[x].print
  <2>1. r = w
    BY <1>3 DEF Refresh
  <2>2. Extends(w, w)
    BY WorkFacts DEF Extends
  <2> QED
    BY <1>3, <2>1, <2>2 DEF RefreshDoes
<1>4. CASE o \in L /\ o \notin w.stored /\ w.objs[o].print # w.m.tracked[x].print
  <2> DEFINE q == Copied(w, o, None)
  <2>1. r = Bind(Touches(q, o), x, o)
    BY <1>4 DEF Refresh
  <2> HIDE DEF o
  <2>2. /\ StoresOnly(w, q, L, o) /\ o \notin Unsure(q) /\ Right(q, o)
        /\ q.m.bind = w.m.bind /\ q.m.tracked = w.m.tracked
        /\ q.stored = w.stored
    BY <1>4, CopiedSound
  <2> HIDE DEF q, r
  <2>3. StoresOutput(w, r, L, o) /\ BindsOnly(w, r, x, o) /\ Unsure(r) = Unsure(q)
    BY <1>4, <2>1, <2>2, NotedSound
  <2>4. Sound(r, L) /\ Extends(w, r)
    BY <2>3 DEF StoresOutput, StoresOnly
  <2> QED
    BY <1>4, <2>2, <2>3, <2>4 DEF r, o, RefreshDoes
<1> QED
  BY <1>1, <1>2, <1>3, <1>4
\* The names _refresh_tracked goes through.
TrackedNames(w, bound) == {x \in Names \ bound : w.m.tracked[x].obj # None}

\* it: what is reached once a set of names is refreshed.
RefreshRun(it, w, bound, L) ==
  /\ Refreshed(w, bound, L) = it[TrackedNames(w, bound)]
  /\ it[{}] = w
  /\ \A s \in SUBSET TrackedNames(w, bound) :
       s # {} => \E x \in s : it[s] = Refresh(it[s \ {x}], x, L)

\* Refreshing goes through the names one after the other.
LEMMA RefreshedUnfolds ==
  ASSUME NEW w, NEW L, Sound(w, L), NEW bound
  PROVE  \E it : RefreshRun(it, w, bound, L)
<1> DEFINE S == TrackedNames(w, bound)
           V == {v \in Work : Sound(v, L)}
           Pick(s) == CHOOSE x \in s : TRUE
           pick == [s \in SUBSET S |-> Pick(s)]
           step == [x \in S |-> [v \in V |-> Refresh(v, x, L)]]
           Is(it) == it = [s \in SUBSET S |->
                            IF s = {} THEN w ELSE Refresh(it[s \ {Pick(s)}], Pick(s), L)]
<1>1. Refreshed(w, bound, L) = (CHOOSE it : Is(it))[S]
  BY DEF Refreshed, FoldSet, MapThenFoldSet, TrackedNames
<1>2. IsFiniteSet(S) /\ S \subseteq Names
  BY ArtifactsAssumption, FS_Subset DEF TrackedNames
<1>3. w \in V
  BY WorkFacts
<1>4. \A x \in S : \A v \in V : Refresh(v, x, L) \in V
  <2> SUFFICES ASSUME NEW x \in S, NEW v \in V
               PROVE  Refresh(v, x, L) \in V
    OBVIOUS
  <2>1. Sound(v, L) /\ x \in Names
    BY <1>2
  <2>2. Sound(Refresh(v, x, L), L)
    BY <2>1, RefreshCases DEF RefreshDoes
  <2> QED
    BY <2>2 DEF Sound
<1>5. \A s \in SUBSET S : s # {} => Pick(s) \in s /\ pick[s] = Pick(s)
  OBVIOUS
<1> HIDE DEF S, V, Pick, pick
<1>6. step \in [S -> [V -> V]]
  BY <1>4
<1>7. Folding(S, V, w, pick, step)
  <2> HIDE DEF step
  <2> QED
    BY <1>2, <1>3, <1>5, <1>6 DEF Folding
<1>8. PICK f \in [SUBSET S -> V] : Folds(f, S, w, pick, step)
  <2> HIDE DEF step, Is
  <2> QED
    BY <1>7, FoldExists
<1>9. Is(f)
  <2>1. ASSUME NEW s \in SUBSET S
        PROVE  f[s] = IF s = {} THEN w ELSE Refresh(f[s \ {Pick(s)}], Pick(s), L)
    <3>1. CASE s = {}
      BY <1>8, <3>1 DEF Folds
    <3>2. CASE s # {}
      <4>1. Pick(s) \in S /\ pick[s] = Pick(s) /\ f[s \ {Pick(s)}] \in V
        BY <1>5, <3>2
      <4>2. step[Pick(s)][f[s \ {Pick(s)}]] = Refresh(f[s \ {Pick(s)}], Pick(s), L)
        BY <4>1
      <4> HIDE DEF step
      <4> QED
        BY <1>8, <3>2, <4>1, <4>2 DEF Folds
    <3> QED
      BY <3>1, <3>2
  <2>2. f = [s \in SUBSET S |-> f[s]]
    BY <1>8
  <2> QED
    BY <2>1, <2>2
<1> DEFINE g == CHOOSE it : Is(it)
<1>10. Is(g)
  <2> HIDE DEF Is
  <2> QED
    BY <1>9
<1> HIDE DEF g
<1>11. g[{}] = w
  BY <1>10
<1>12. \A s \in SUBSET S : s # {} => \E x \in s : g[s] = Refresh(g[s \ {x}], x, L)
  <2> SUFFICES ASSUME NEW s \in SUBSET S, s # {}
               PROVE  \E x \in s : g[s] = Refresh(g[s \ {x}], x, L)
    OBVIOUS
  <2>1. g[s] = Refresh(g[s \ {Pick(s)}], Pick(s), L)
    BY <1>10
  <2> QED
    BY <1>5, <2>1
<1>13. Refreshed(w, bound, L) = g[S]
  BY <1>1 DEF g
<1> QED
  BY <1>11, <1>12, <1>13 DEF S, RefreshRun
\* What refreshing did to name x since u.
RefreshedName(u, w, L, x) ==
  LET o == u.m.tracked[x].obj
  IN  IF o \in L
      THEN /\ w.m.tracked[x] = [obj |-> o, print |-> u.objs[o].print]
           /\ u.m.tracked[x].print # u.objs[o].print => o \in w.stored
           /\ IF o \in w.stored
              THEN /\ w.m.bind[x] \in DOMAIN w.rows
                   /\ o \notin Unsure(w) => w.rows[w.m.bind[x]].data = Data(u.objs[o])
              ELSE w.m.bind[x] = u.m.bind[x]
      ELSE w.m.tracked[x] = Untracked /\ w.m.bind[x] = u.m.bind[x]

\* Objects whose print changed, as far as S tracks them.
ChangedFor(u, S, o) ==
  \A x \in S : u.m.tracked[x].obj = o => u.m.tracked[x].print # u.objs[o].print

\* w is u with the names s of S refreshed.
RefreshedSome(u, w, L, S, s) ==
  /\ Sound(w, L) /\ Extends(u, w) /\ CurrentFor(w, L)
  /\ \A x \in Names \ s : w.m.bind[x] = u.m.bind[x] /\ w.m.tracked[x] = u.m.tracked[x]
  /\ \A x \in s : RefreshedName(u, w, L, x)
  /\ u.stored \subseteq w.stored
  /\ \A o \in w.stored \ u.stored : o \notin Unsure(w) /\ ChangedFor(u, S, o)
  /\ \A o : o \notin w.stored \ u.stored =>
       /\ o \in w.m.off <=> o \in u.m.off
       /\ o \in w.m.lost <=> o \in u.m.lost
       /\ o \in w.m.dirty <=> o \in u.m.dirty
  /\ \A o \in L : Known(u, o) => Known(w, o)

\* Names that track one object saw the same of it.
Agree(u, S) ==
  \A x, y \in S : u.m.tracked[x].obj = u.m.tracked[y].obj => u.m.tracked[x].print = u.m.tracked[y].print

\* One more name, whose object is gone or has not changed.
LEMMA RefreshQuiet ==
  ASSUME NEW u, NEW w, NEW L, NEW S \in SUBSET Names, NEW s \in SUBSET S, NEW x \in S \ s,
         Sound(u, L), RefreshedSome(u, w, L, S, s),
         LET o == u.m.tracked[x].obj
         IN  o \notin L \/ (o \notin w.stored /\ u.objs[o].print = u.m.tracked[x].print)
  PROVE  RefreshedSome(u, Refresh(w, x, L), L, S, s \cup {x})
<1> DEFINE o == u.m.tracked[x].obj
           r == Refresh(w, x, L)
<1>1. /\ Sound(w, L) /\ w.objs = u.objs /\ w.m.tracked[x] = u.m.tracked[x] /\ w.m.bind[x] = u.m.bind[x]
      /\ x \in Names
  BY DEF RefreshedSome, Extends
<1>2. /\ w.m.tracked \in [Names -> [obj : Nat \cup {None}, print : Nat \cup {None}]]
      /\ DOMAIN w.rows = 1..Len(w.rows)
  BY <1>1, WorkFacts
<1>3. CASE o \notin L
  <2>1. /\ Sound(r, L)
        /\ r.m.tracked = [w.m.tracked EXCEPT ![x] = Untracked] /\ r.m.bind = w.m.bind
        /\ r.m.reg = w.m.reg /\ r.rows = w.rows /\ r.stored = w.stored
        /\ r.m.off = w.m.off /\ r.m.lost = w.m.lost /\ r.m.dirty = w.m.dirty
        /\ r.objs = w.objs
    <3>1. RefreshDoes(w, r, L, x)
      BY <1>1, RefreshCases
    <3> HIDE DEF r
    <3> QED
      BY <1>1, <1>3, <3>1 DEF RefreshDoes, Extends
  <2> HIDE DEF r
  <2>2. Unsure(r) = Unsure(w)
    BY <2>1 DEF Unsure
  <2>3. \A p : (Known(r, p) <=> Known(w, p)) /\ VersionOf(r, p) = VersionOf(w, p)
    BY <2>1 DEF Known, VersionOf
  <2>4. CurrentFor(r, L)
    BY <2>1, <2>2, <2>3 DEF RefreshedSome, CurrentFor, Right
  <2>5. Extends(u, r)
    BY <2>1 DEF RefreshedSome, Extends
  <2>6. \A y \in Names \ (s \cup {x}) : r.m.bind[y] = u.m.bind[y] /\ r.m.tracked[y] = u.m.tracked[y]
    BY <1>2, <2>1 DEF RefreshedSome
  <2>7. RefreshedName(u, r, L, x)
    BY <1>1, <1>2, <1>3, <2>1 DEF RefreshedName
  <2>8. \A y \in s : RefreshedName(u, r, L, y)
    <3> SUFFICES ASSUME NEW y \in s
                 PROVE  RefreshedName(u, r, L, y)
      OBVIOUS
    <3>1. RefreshedName(u, w, L, y) /\ y # x /\ y \in Names
      BY DEF RefreshedSome
    <3>2. r.m.tracked[y] = w.m.tracked[y] /\ r.m.bind[y] = w.m.bind[y]
      BY <1>2, <2>1, <3>1
    <3> QED
      BY <2>1, <2>2, <3>1, <3>2 DEF RefreshedName
  <2> QED
    BY <2>1, <2>2, <2>3, <2>4, <2>5, <2>6, <2>7, <2>8 DEF RefreshedSome, r
<1>4. CASE o \in L /\ o \notin w.stored /\ u.objs[o].print = u.m.tracked[x].print
  <2>1. r = w
    <3>1. RefreshDoes(w, r, L, x)
      BY <1>1, RefreshCases
    <3> HIDE DEF r
    <3> QED
      BY <1>1, <1>4, <3>1 DEF RefreshDoes
  <2>2. RefreshedName(u, w, L, x)
    <3>1. u.m.tracked[x] = [obj |-> o, print |-> u.objs[o].print]
      <4>1. u.m.tracked[x] \in [obj : Nat \cup {None}, print : Nat \cup {None}]
        BY <1>1, <1>2
      <4> QED
        BY <1>4, <4>1
    <3> QED
      BY <1>1, <1>4, <3>1 DEF RefreshedName
  <2> QED
    BY <2>1, <2>2 DEF RefreshedSome
<1> QED
  BY <1>3, <1>4

\* One more name, whose object was stored in this step.
LEMMA RefreshBound ==
  ASSUME NEW u, NEW w, NEW L, NEW S \in SUBSET Names, NEW s \in SUBSET S, NEW x \in S \ s,
         Sound(u, L), RefreshedSome(u, w, L, S, s),
         u.m.tracked[x].obj \in L, u.m.tracked[x].obj \in w.stored
  PROVE  RefreshedSome(u, Refresh(w, x, L), L, S, s \cup {x})
<1> DEFINE o == u.m.tracked[x].obj
           r == Refresh(w, x, L)
<1>1. /\ Sound(w, L) /\ w.objs = u.objs /\ w.m.tracked[x] = u.m.tracked[x] /\ w.m.bind[x] = u.m.bind[x]
      /\ x \in Names
  BY DEF RefreshedSome, Extends
<1>2. /\ w.m.tracked \in [Names -> [obj : Nat \cup {None}, print : Nat \cup {None}]]
      /\ w.m.bind \in [Names -> Nat \cup {None}]
  BY <1>1, WorkFacts
<1>3. /\ Sound(r, L) /\ BindsOnly(w, r, x, o) /\ Known(r, o)
      /\ r.m.reg = w.m.reg /\ r.rows = w.rows /\ r.stored = w.stored
      /\ r.m.off = w.m.off /\ r.m.lost = w.m.lost /\ r.m.dirty = w.m.dirty
      /\ r.objs = w.objs
  <2>1. RefreshDoes(w, r, L, x)
    BY <1>1, RefreshCases
  <2> HIDE DEF r
  <2> QED
    BY <1>1, <2>1 DEF RefreshDoes, Extends
<1> HIDE DEF r
<1>4. Unsure(r) = Unsure(w)
  BY <1>3 DEF Unsure
<1>5. \A p : (Known(r, p) <=> Known(w, p)) /\ VersionOf(r, p) = VersionOf(w, p)
  BY <1>3 DEF Known, VersionOf
<1>6. CurrentFor(r, L)
  BY <1>3, <1>4, <1>5 DEF RefreshedSome, CurrentFor, Right
<1>7. Extends(u, r)
  BY <1>3 DEF RefreshedSome, Extends
<1>8. \A y \in Names \ {x} : r.m.bind[y] = w.m.bind[y] /\ r.m.tracked[y] = w.m.tracked[y]
  BY <1>2, <1>3 DEF BindsOnly
<1>9. r.m.bind[x] = VersionOf(r, o) /\ r.m.tracked[x] = [obj |-> o, print |-> u.objs[o].print]
  BY <1>1, <1>2, <1>3 DEF BindsOnly
<1>10. RefreshedName(u, r, L, x)
  <2>1. VersionOf(r, o) \in DOMAIN r.rows
    BY <1>3, VersionExists
  <2>2. o \notin Unsure(r) => r.rows[VersionOf(r, o)].data = Data(u.objs[o])
    BY <1>1, <1>3, <1>6 DEF CurrentFor, Right
  <2> QED
    BY <1>3, <1>9, <2>1, <2>2 DEF RefreshedName
<1>11. \A y \in s : RefreshedName(u, r, L, y)
  <2> SUFFICES ASSUME NEW y \in s
               PROVE  RefreshedName(u, r, L, y)
    OBVIOUS
  <2>1. RefreshedName(u, w, L, y) /\ y # x /\ y \in Names
    BY DEF RefreshedSome
  <2>2. r.m.tracked[y] = w.m.tracked[y] /\ r.m.bind[y] = w.m.bind[y]
    BY <1>8, <2>1
  <2> QED
    BY <1>3, <1>4, <2>1, <2>2 DEF RefreshedName
<1>12. \A y \in Names \ (s \cup {x}) : r.m.bind[y] = u.m.bind[y] /\ r.m.tracked[y] = u.m.tracked[y]
  BY <1>8 DEF RefreshedSome
<1> QED
  BY <1>3, <1>4, <1>5, <1>6, <1>7, <1>10, <1>11, <1>12 DEF RefreshedSome, r
\* One more name, whose object changed: it is stored, for the names to come too.
LEMMA RefreshChanged ==
  ASSUME NEW u, NEW w, NEW L, NEW S \in SUBSET Names, NEW s \in SUBSET S, NEW x \in S \ s,
         Sound(u, L), Agree(u, S), RefreshedSome(u, w, L, S, s),
         u.m.tracked[x].obj \in L, u.m.tracked[x].obj \notin w.stored,
         u.objs[u.m.tracked[x].obj].print # u.m.tracked[x].print
  PROVE  RefreshedSome(u, Refresh(w, x, L), L, S, s \cup {x})
<1> DEFINE o == u.m.tracked[x].obj
           r == Refresh(w, x, L)
<1>1. /\ Sound(w, L) /\ w.objs = u.objs /\ w.m.tracked[x] = u.m.tracked[x] /\ w.m.bind[x] = u.m.bind[x]
      /\ x \in Names
  BY DEF RefreshedSome, Extends
<1>2. /\ w.m.tracked \in [Names -> [obj : Nat \cup {None}, print : Nat \cup {None}]]
      /\ w.m.bind \in [Names -> Nat \cup {None}]
  BY <1>1, WorkFacts
<1>3. StoresOutput(w, r, L, o) /\ BindsOnly(w, r, x, o) /\ o \notin Unsure(r)
  <2>1. RefreshDoes(w, r, L, x)
    BY <1>1, RefreshCases
  <2> HIDE DEF r
  <2> QED
    BY <1>1, <2>1 DEF RefreshDoes
<1> HIDE DEF r
<1>4. /\ StoresOnly(w, r, L, o) /\ Right(r, o) /\ r.stored = w.stored \cup {o}
      /\ Sound(r, L) /\ Extends(w, r) /\ r.objs = u.objs
  BY <1>1, <1>3 DEF StoresOutput, StoresOnly, Extends
<1>5. \A p : p # o => /\ p \in r.m.off <=> p \in w.m.off
                      /\ p \in r.m.lost <=> p \in w.m.lost
                      /\ p \in r.m.dirty <=> p \in w.m.dirty
  <2>1. /\ r.m.off \ {o} = w.m.off \ {o} /\ r.m.lost \ {o} = w.m.lost \ {o}
        /\ r.m.dirty \ {o} = w.m.dirty \ {o}
    BY <1>4 DEF StoresOnly
  <2> QED
    BY <2>1
<1>6. \A p : p # o => (p \in Unsure(r) <=> p \in Unsure(w))
  BY <1>5 DEF Unsure
<1>7. CurrentFor(r, L)
  <2>1. CurrentFor(w, L)
    BY DEF RefreshedSome
  <2>2. CurrentFor(r, L \cup {o})
    <3> HIDE DEF o
    <3>1. o \in L
      BY DEF o
    <3> QED
      BY <1>1, <1>4, <2>1, <3>1, StaysCurrent
  <2> QED
    BY <2>2 DEF CurrentFor
<1>8. Extends(u, r)
  <2>1. Extends(u, w)
    BY DEF RefreshedSome
  <2> QED
    BY <1>1, <1>4, <2>1, ExtendsTransitive
<1>9. \A y \in Names \ {x} : r.m.bind[y] = w.m.bind[y] /\ r.m.tracked[y] = w.m.tracked[y]
  BY <1>2, <1>3 DEF BindsOnly
<1>10. r.m.bind[x] = VersionOf(r, o) /\ r.m.tracked[x] = [obj |-> o, print |-> u.objs[o].print]
  BY <1>1, <1>2, <1>3 DEF BindsOnly
<1>11. RefreshedName(u, r, L, x)
  <2>1. VersionOf(r, o) \in DOMAIN r.rows
    BY <1>4, VersionExists DEF StoresOnly
  <2>2. o \notin Unsure(r) => r.rows[VersionOf(r, o)].data = Data(u.objs[o])
    BY <1>4 DEF Right
  <2> QED
    BY <1>4, <1>10, <2>1, <2>2 DEF RefreshedName
<1>12. ChangedFor(u, S, o)
  BY DEF Agree, ChangedFor
<1>13. \A y \in s : RefreshedName(u, r, L, y)
  <2> SUFFICES ASSUME NEW y \in s
               PROVE  RefreshedName(u, r, L, y)
    OBVIOUS
  <2> DEFINE p == u.m.tracked[y].obj
  <2>1. RefreshedName(u, w, L, y) /\ y # x /\ y \in Names
    BY DEF RefreshedSome
  <2>2. r.m.tracked[y] = w.m.tracked[y] /\ r.m.bind[y] = w.m.bind[y]
    BY <1>9, <2>1
  <2>3. p # o
    BY <1>12, <2>1 DEF ChangedFor, RefreshedName
  <2>4. /\ p \in r.stored <=> p \in w.stored
        /\ p \in Unsure(r) <=> p \in Unsure(w)
    BY <1>4, <1>6, <2>3
  <2>5. ASSUME w.m.bind[y] \in DOMAIN w.rows
        PROVE  w.m.bind[y] \in DOMAIN r.rows /\ r.rows[w.m.bind[y]] = w.rows[w.m.bind[y]]
    <3>1. /\ DOMAIN w.rows = 1..Len(w.rows) /\ DOMAIN r.rows = 1..Len(r.rows)
          /\ Len(w.rows) \in Nat /\ Len(r.rows) \in Nat
      BY <1>1, <1>4, WorkFacts
    <3> QED
      BY <1>4, <2>5, <3>1 DEF Extends
  <2> HIDE DEF p
  <2> QED
    BY <2>1, <2>2, <2>4, <2>5 DEF RefreshedName, p
<1>14. \A y \in Names \ (s \cup {x}) : r.m.bind[y] = u.m.bind[y] /\ r.m.tracked[y] = u.m.tracked[y]
  BY <1>9 DEF RefreshedSome
<1>15. u.stored \subseteq r.stored /\ r.stored \ u.stored = (w.stored \ u.stored) \cup {o}
  <2>1. u.stored \subseteq w.stored
    BY DEF RefreshedSome
  <2> QED
    BY <1>4, <2>1
<1>16. \A p \in r.stored \ u.stored : p \notin Unsure(r) /\ ChangedFor(u, S, p)
  <2> SUFFICES ASSUME NEW p \in r.stored \ u.stored
               PROVE  p \notin Unsure(r) /\ ChangedFor(u, S, p)
    OBVIOUS
  <2>1. CASE p = o
    BY <1>3, <1>12, <2>1
  <2>2. CASE p # o
    <3>1. p \in w.stored \ u.stored
      BY <1>15, <2>2
    <3>2. p \notin Unsure(w) /\ ChangedFor(u, S, p)
      BY <3>1 DEF RefreshedSome
    <3> QED
      BY <1>6, <2>2, <3>2
  <2> QED
    BY <2>1, <2>2
<1>17. \A p : p \notin r.stored \ u.stored =>
         /\ p \in r.m.off <=> p \in u.m.off
         /\ p \in r.m.lost <=> p \in u.m.lost
         /\ p \in r.m.dirty <=> p \in u.m.dirty
  <2> SUFFICES ASSUME NEW p, p \notin r.stored \ u.stored
               PROVE  /\ p \in r.m.off <=> p \in u.m.off
                      /\ p \in r.m.lost <=> p \in u.m.lost
                      /\ p \in r.m.dirty <=> p \in u.m.dirty
    OBVIOUS
  <2>1. p # o /\ p \notin w.stored \ u.stored
    BY <1>15
  <2>2. /\ p \in w.m.off <=> p \in u.m.off
        /\ p \in w.m.lost <=> p \in u.m.lost
        /\ p \in w.m.dirty <=> p \in u.m.dirty
    BY <2>1 DEF RefreshedSome
  <2> QED
    BY <1>5, <2>1, <2>2
<1>18. \A p \in L : Known(u, p) => Known(r, p)
  <2>1. \A p \in L : Known(w, p) => Known(r, p)
    <3> HIDE DEF o
    <3>1. o \in L
      BY DEF o
    <3> QED
      BY <1>1, <1>4, <3>1, OthersStand
  <2> QED
    BY <2>1 DEF RefreshedSome
<1> HIDE DEF o
<1> QED
  BY <1>4, <1>7, <1>8, <1>11, <1>13, <1>14, <1>15, <1>16, <1>17, <1>18 DEF RefreshedSome, r

\* Every name is refreshed.
LEMMA RefreshedSound ==
  ASSUME NEW u, NEW L, NEW bound, Sound(u, L), CurrentFor(u, L), Agree(u, TrackedNames(u, bound))
  PROVE  LET S == TrackedNames(u, bound)
         IN  RefreshedSome(u, Refreshed(u, bound, L), L, S, S)
<1> DEFINE S == TrackedNames(u, bound)
<1>1. S \in SUBSET Names /\ IsFiniteSet(S)
  BY ArtifactsAssumption, FS_Subset DEF TrackedNames
<1>2. PICK it :
        /\ Refreshed(u, bound, L) = it[S]
        /\ it[{}] = u
        /\ \A s \in SUBSET S : s # {} => \E x \in s : it[s] = Refresh(it[s \ {x}], x, L)
  <2>1. PICK it : RefreshRun(it, u, bound, L)
    BY RefreshedUnfolds
  <2> QED
    BY <2>1 DEF RefreshRun
<1> HIDE DEF S
<1> DEFINE Q == {s \in SUBSET S : RefreshedSome(u, it[s], L, S, s)}
<1>3. {} \in Q
  <2>1. Extends(u, u)
    BY WorkFacts DEF Extends
  <2> QED
    BY <1>2, <2>1 DEF RefreshedSome
<1>4. ASSUME NEW s \in SUBSET S, \A t \in SUBSET S : Cardinality(t) < Cardinality(s) => t \in Q
      PROVE  s \in Q
  <2>1. CASE s = {}
    BY <1>3, <2>1
  <2>2. CASE s # {}
    <3>1. PICK x \in s : it[s] = Refresh(it[s \ {x}], x, L)
      BY <1>2, <2>2
    <3> DEFINE t == s \ {x}
               w == it[t]
    <3>2. t \in SUBSET S /\ x \in S \ t /\ s = t \cup {x}
      OBVIOUS
    <3>3. Cardinality(t) < Cardinality(s)
      <4>1. IsFiniteSet(s)
        BY <1>1, FS_Subset
      <4>2. Cardinality(t) = Cardinality(s) - 1 /\ Cardinality(s) \in Nat
        BY <4>1, FS_RemoveElement, FS_CardinalityType
      <4> QED
        BY <4>2
    <3>4. RefreshedSome(u, w, L, S, t)
      <4>1. t \in Q
        BY <1>4, <3>2, <3>3
      <4> QED
        BY <4>1
    <3>5. Agree(u, S)
      BY DEF S
    <3> HIDE DEF t, w, Q
    <3>6. RefreshedSome(u, Refresh(w, x, L), L, S, t \cup {x})
      <4> DEFINE o == u.m.tracked[x].obj
      <4>1. CASE o \notin L \/ (o \notin w.stored /\ u.objs[o].print = u.m.tracked[x].print)
        BY <1>1, <3>2, <3>4, <4>1, RefreshQuiet
      <4>2. CASE o \in L /\ o \in w.stored
        BY <1>1, <3>2, <3>4, <4>2, RefreshBound
      <4>3. CASE o \in L /\ o \notin w.stored /\ u.objs[o].print # u.m.tracked[x].print
        BY <1>1, <3>2, <3>4, <3>5, <4>3, RefreshChanged
      <4> HIDE DEF o
      <4> QED
        BY <4>1, <4>2, <4>3
    <3> QED
      BY <3>1, <3>2, <3>6 DEF Q, t, w
  <2> QED
    BY <2>1, <2>2
<1>5. S \in Q
  <2> HIDE DEF Q
  <2>1. \A s \in SUBSET S : s \in Q
    BY <1>1, <1>4, SmallerSets
  <2> QED
    BY <2>1
<1> QED
  BY <1>2, <1>5 DEF S
-----------------------------------------------------------------------------
(* Links *)

\* The places of a set of artifacts are 1, 2, ..; the newest comes last.
LEMMA PlacesAre ==
  ASSUME NEW A \in SUBSET Nat, IsFiniteSet(A), A # {}
  PROVE  LET k == Cardinality(A)
         IN  /\ k \in Nat
             /\ \A b \in A : Place(A, b) \in 1..k
             /\ \A i \in 1..k : \E b \in A : Place(A, b) = i
             /\ \A b, c \in A : Place(A, b) = Place(A, c) => b = c
             /\ Max(A) \in A
             /\ \A b \in A : Max(A) >= b
<1> DEFINE k == Cardinality(A)
           Upto(b) == {c \in A : c <= b}
           f == [b \in A |-> Place(A, b)]
<1>1. k \in Nat /\ k > 0
  BY FS_CardinalityType, FS_EmptySet
<1>2. ASSUME NEW b \in A
      PROVE  IsFiniteSet(Upto(b)) /\ Cardinality(Upto(b)) \in 1..k
  <2>1. IsFiniteSet(Upto(b)) /\ Cardinality(Upto(b)) <= k
    <3>1. Upto(b) \in SUBSET A
      OBVIOUS
    <3> HIDE DEF Upto
    <3> QED
      BY <3>1, FS_Subset
  <2>2. b \in Upto(b)
    OBVIOUS
  <2>3. Cardinality(Upto(b)) \in Nat /\ Cardinality(Upto(b)) # 0
    <3> HIDE DEF Upto
    <3> QED
      BY <2>1, <2>2, FS_CardinalityType, FS_EmptySet
  <2> HIDE DEF Upto
  <2> QED
    BY <1>1, <2>1, <2>3
<1>3. ASSUME NEW b \in A, NEW c \in A, b < c
      PROVE  Cardinality(Upto(b)) < Cardinality(Upto(c))
  <2>1. Upto(b) \in SUBSET Upto(c) /\ c \in Upto(c) /\ c \notin Upto(b)
    <3>1. b \in Nat /\ c \in Nat /\ \A d \in A : d \in Nat
      OBVIOUS
    <3>2. \A d \in A : d <= b => d <= c
      BY <1>3, <3>1
    <3>3. c <= c /\ ~(c <= b)
      BY <1>3, <3>1
    <3> QED
      BY <3>2, <3>3
  <2>2. /\ IsFiniteSet(Upto(c)) /\ Cardinality(Upto(c)) \in Nat
        /\ Cardinality(Upto(b)) \in Nat
    BY <1>2
  <2> HIDE DEF Upto
  <2>3. Cardinality(Upto(b)) <= Cardinality(Upto(c)) /\ Cardinality(Upto(c)) # Cardinality(Upto(b))
    BY <2>1, <2>2, FS_Subset
  <2> QED
    BY <2>2, <2>3
<1>4. \A b \in A : Place(A, b) = Cardinality(Upto(b))
  BY DEF Place
<1> HIDE DEF Upto
<1>5. \A b \in A : Place(A, b) \in 1..k
  BY <1>2, <1>4
<1>6. \A b, c \in A : b < c => Place(A, b) < Place(A, c)
  BY <1>3, <1>4
<1>7. \A b, c \in A : Place(A, b) = Place(A, c) => b = c
  <2> SUFFICES ASSUME NEW b \in A, NEW c \in A, Place(A, b) = Place(A, c), b # c
               PROVE  FALSE
    OBVIOUS
  <2>1. b < c \/ c < b
    OBVIOUS
  <2>2. Place(A, b) \in Nat /\ Place(A, c) \in Nat
    BY <1>1, <1>5
  <2> QED
    BY <1>6, <2>1, <2>2
<1>8. f \in Surjection(A, 1..k)
  <2>1. f \in Injection(A, 1..k)
    BY <1>5, <1>7 DEF Injection, IsInjective
  <2>2. IsFiniteSet(1..k) /\ Cardinality(1..k) = k
    BY <1>1, FS_Interval
  <2> HIDE DEF f, k
  <2>3. Cardinality(A) = Cardinality(1..k)
    BY <2>2 DEF k
  <2> QED
    BY <2>1, <2>2, <2>3, FS_Injection
<1>9. \A i \in 1..k : \E b \in A : Place(A, b) = i
  BY <1>8 DEF Surjection
<1>10. Max(A) \in A /\ \A b \in A : Max(A) >= b
  <2>1. PICK b \in A : Place(A, b) = k
    BY <1>1, <1>9
  <2>2. \A c \in A : b >= c
    <3> SUFFICES ASSUME NEW c \in A, ~(b >= c)
                 PROVE  FALSE
      OBVIOUS
    <3>1. k < Place(A, c)
      BY <1>6, <2>1
    <3> QED
      BY <1>1, <1>5, <3>1
  <2> QED
    BY <2>2 DEF Max
<1> QED
  BY <1>1, <1>5, <1>7, <1>9, <1>10
\* What the alias rows of a state change: own is the row of the frame a widget shows.
LinksTo(w, r, at, own) ==
  /\ r.objs = w.objs /\ r.stored = w.stored /\ r.touched = w.touched
  /\ r.m.reg = w.m.reg /\ r.m.bind = w.m.bind /\ r.m.tracked = w.m.tracked
  /\ r.m.lost = w.m.lost /\ r.m.dirty = w.m.dirty
  /\ DOMAIN r.m.latest = DOMAIN w.m.latest
  /\ Len(w.rows) <= Len(r.rows)
  /\ \A i \in DOMAIN w.rows : i # own => r.rows[i] = w.rows[i]
  /\ own = None => r.m.off = w.m.off
  /\ own # None => \/ r = w
                   \/ /\ r.m.off = w.m.off \cup {w.rows[own].obj}
                      /\ r.rows[own].art = w.rows[own].art /\ r.rows[own].at = w.rows[own].at
  /\ \A b \in Links(w) : \E i \in DOMAIN r.rows : r.rows[i].art = b /\ r.rows[i].at = at

\* Every artifact that was not touched gets an alias row, and the work stays sound.
LEMMA LinkedSound ==
  ASSUME NEW w, NEW L, Sound(w, L), NEW at \in Nat, NEW own \in DOMAIN w.rows \cup {None}
  PROVE  Sound(Linked(w, at, own), L) /\ LinksTo(w, Linked(w, at, own), at, own)
<1> DEFINE A == Links(w)
           k == Cardinality(A)
           n == Len(w.rows)
           data == w.rows[w.m.latest[Max(A)]].data
           Art(i) == CHOOSE b \in A : Place(A, b) = i
           pre == [i \in DOMAIN w.rows |-> IF i = own THEN [w.rows[i] EXCEPT !.data = data] ELSE w.rows[i]]
           post == [i \in 1..k |-> [art |-> Art(i), at |-> at, kind |-> "alias", data |-> data,
                                    obj |-> w.rows[w.m.latest[Art(i)]].obj]]
           latest == [b \in DOMAIN w.m.latest |-> IF b \in A THEN n + Place(A, b) ELSE w.m.latest[b]]
           off == w.m.off \cup (IF own # None THEN {w.rows[own].obj} ELSE {})
           q == [w.m EXCEPT
                  !.latest = [b \in DOMAIN @ |-> IF b \in A THEN n + Place(A, b) ELSE @[b]],
                  !.off = @ \cup (IF own # None THEN {w.rows[own].obj} ELSE {})]
           r == Linked(w, at, own)
<1>1. CASE A = {}
  <2>1. r = w
    BY <1>1 DEF Linked
  <2> HIDE DEF r
  <2>2. LinksTo(w, w, at, own)
    BY <1>1, WorkFacts DEF LinksTo
  <2> QED
    BY <2>1, <2>2 DEF r
<1>2. CASE A # {}
  <2>1. /\ w \in Work /\ w.m \in Memory /\ w.rows \in Seq(Row) /\ n \in Nat /\ DOMAIN w.rows = 1..n
        /\ own # None => own \in 1..n
    BY WorkFacts
  <2>2. PICK D \in SUBSET Nat : w.m.latest \in [D -> Nat]
    BY WorkFacts, LatestIs
  <2>3. /\ A \in SUBSET Nat /\ IsFiniteSet(A) /\ A \subseteq DOMAIN w.m.latest
        /\ \A b \in DOMAIN w.m.latest : b \in Nat /\ w.m.latest[b] \in 1..n
    <3>1. A \in SUBSET DOMAIN w.m.latest /\ IsFiniteSet(DOMAIN w.m.latest)
      BY DEF Links, Sound
    <3>2. IsFiniteSet(A)
      <4> HIDE DEF A
      <4> QED
        BY <3>1, FS_Subset
    <3>3. \A b \in DOMAIN w.m.latest : b \in Nat /\ w.m.latest[b] \in DOMAIN w.rows
      BY <2>2 DEF Sound
    <3> HIDE DEF A
    <3> QED
      BY <2>1, <2>2, <3>1, <3>2, <3>3
  <2>4. /\ k \in Nat
        /\ \A b \in A : Place(A, b) \in 1..k
        /\ \A i \in 1..k : \E b \in A : Place(A, b) = i
        /\ \A b, c \in A : Place(A, b) = Place(A, c) => b = c
        /\ Max(A) \in A
    <3> HIDE DEF A
    <3> QED
      BY <1>2, <2>3, PlacesAre
  <2> HIDE DEF A, k
  <2>5. \A i \in 1..k : Art(i) \in A /\ Place(A, Art(i)) = i
    BY <2>4
  <2>6. \A b \in A : Art(Place(A, b)) = b
    BY <2>4, <2>5
  <2> HIDE DEF Art
  <2>7. \A i \in 1..n : w.rows[i] \in Row /\ w.rows[i].obj \in Nat /\ w.rows[i].data \in Content
    <3>1. \A i \in 1..n : w.rows[i] \in Row
      BY <2>1
    <3> QED
      BY <3>1 DEF Row
  <2>8. data \in Content
    BY <2>3, <2>4, <2>7
  <2> HIDE DEF data
  <2>9. /\ pre \in Seq(Row) /\ Len(pre) = n
        /\ \A i \in 1..n : i # own => pre[i] = w.rows[i]
        /\ own # None => pre[own].art = w.rows[own].art /\ pre[own].at = w.rows[own].at
                         /\ pre[own].obj = w.rows[own].obj
    <3>1. \A i \in 1..n : LET e == [w.rows[i] EXCEPT !.data = data]
                          IN  e \in Row /\ e.art = w.rows[i].art /\ e.at = w.rows[i].at
                              /\ e.obj = w.rows[i].obj
      BY <2>7, <2>8 DEF Row
    <3> DEFINE e(i) == [w.rows[i] EXCEPT !.data = data]
    <3> HIDE DEF e
    <3>2. pre = [i \in 1..n |-> IF i = own THEN e(i) ELSE w.rows[i]]
      BY <2>1 DEF e
    <3>3. \A i \in 1..n : e(i) \in Row /\ e(i).art = w.rows[i].art /\ e(i).at = w.rows[i].at
                          /\ e(i).obj = w.rows[i].obj
      BY <3>1 DEF e
    <3> HIDE DEF pre, n
    <3>4. pre \in [1..n -> Row]
      BY <2>7, <3>2, <3>3
    <3>5. pre \in Seq(Row) /\ Len(pre) = n
      BY <2>1, <3>4
    <3> QED
      BY <2>1, <3>2, <3>3, <3>5
  <2>10. /\ post \in Seq(Row) /\ Len(post) = k
         /\ \A i \in 1..k : post[i].art = Art(i) /\ post[i].at = at
    <3>1. \A i \in 1..k : w.rows[w.m.latest[Art(i)]].obj \in Nat /\ Art(i) \in Nat
      BY <2>3, <2>5, <2>7
    <3>2. \A i \in 1..k : post[i] \in Row /\ post[i].art = Art(i) /\ post[i].at = at
      BY <2>8, <3>1 DEF Row
    <3>3. DOMAIN post = 1..k /\ post = [i \in 1..k |-> post[i]]
      OBVIOUS
    <3> HIDE DEF post
    <3>4. post \in [1..k -> Row]
      BY <3>2, <3>3
    <3> QED
      BY <2>4, <3>2, <3>4
  <2>11. latest \in Latest /\ DOMAIN latest = DOMAIN w.m.latest
         /\ \A b \in DOMAIN latest : latest[b] \in 1..(n + k)
    <3>1. \A b \in DOMAIN w.m.latest : latest[b] \in 1..(n + k) /\ latest[b] \in Nat
      BY <2>1, <2>3, <2>4, SMTT(30)
    <3>2. DOMAIN latest = DOMAIN w.m.latest /\ DOMAIN w.m.latest = D
      BY <2>2
    <3>3. latest = [b \in D |-> latest[b]]
      BY <3>2
    <3> HIDE DEF latest
    <3>4. latest \in [D -> Nat]
      BY <3>1, <3>2, <3>3
    <3> QED
      BY <2>2, <3>1, <3>2, <3>4, LatestIs
  <2>12. r = [w EXCEPT !.rows = pre \o post, !.m = q]
    BY <1>2, Zenon DEF Linked, A, k, Art, data
  <2> HIDE DEF r
  <2>13. /\ q.latest = latest /\ q.off = off /\ q.reg = w.m.reg /\ q.bind = w.m.bind
         /\ q.tracked = w.m.tracked /\ q.lost = w.m.lost /\ q.dirty = w.m.dirty
         /\ q \in Memory
    <3>1. w.m = [reg |-> w.m.reg, latest |-> w.m.latest, bind |-> w.m.bind, tracked |-> w.m.tracked,
                 off |-> w.m.off, lost |-> w.m.lost, dirty |-> w.m.dirty]
      BY <2>1 DEF Memory
    <3>2. q.latest = latest
      BY <3>1
    <3>3. q.off = off
      BY <3>1
    <3>4. q.reg = w.m.reg
      BY <3>1
    <3>5. q.bind = w.m.bind
      BY <3>1
    <3>6. q.tracked = w.m.tracked
      BY <3>1
    <3>7. q.lost = w.m.lost
      BY <3>1
    <3>8. q.dirty = w.m.dirty
      BY <3>1
    <3>9. DOMAIN q = DOMAIN w.m /\ q = [f \in DOMAIN w.m |-> q[f]]
      OBVIOUS
    <3>10. off \in SUBSET Nat
      BY <2>1, <2>7 DEF Memory
    <3> HIDE DEF q, off, latest
    <3>11. q = [reg |-> w.m.reg, latest |-> latest, bind |-> w.m.bind, tracked |-> w.m.tracked,
                off |-> off, lost |-> w.m.lost, dirty |-> w.m.dirty]
      BY <3>1, <3>2, <3>3, <3>4, <3>5, <3>6, <3>7, <3>8, <3>9
    <3>12. q \in Memory
      BY <2>1, <2>11, <3>10, <3>11 DEF Memory
    <3> QED
      BY <3>2, <3>3, <3>4, <3>5, <3>6, <3>7, <3>8, <3>12
  <2> HIDE DEF q, pre, post, latest
  <2>14. /\ r \in Work /\ r.m = q /\ r.rows = pre \o post /\ r.objs = w.objs
         /\ r.stored = w.stored /\ r.touched = w.touched
    <3>1. pre \o post \in Seq(Row)
      BY <2>9, <2>10
    <3> DEFINE rs == pre \o post
    <3> HIDE DEF rs
    <3>2. r = [w EXCEPT !.rows = rs, !.m = q] /\ rs \in Seq(Row)
      BY <2>12, <3>1 DEF rs
    <3>3. /\ r \in Work /\ r.m = q /\ r.rows = rs /\ r.objs = w.objs
          /\ r.stored = w.stored /\ r.touched = w.touched
      BY <2>1, <2>13, <3>2 DEF Work
    <3> QED
      BY <3>3 DEF rs
  <2>15. /\ Len(r.rows) = n + k /\ DOMAIN r.rows = 1..(n + k)
         /\ \A i \in 1..n : r.rows[i] = pre[i]
         /\ \A i \in 1..k : r.rows[n + i] = post[i]
    <3>1. /\ Len(pre \o post) = Len(pre) + Len(post)
          /\ \A i \in 1..Len(pre) : (pre \o post)[i] = pre[i]
          /\ \A i \in 1..Len(post) : (pre \o post)[Len(pre) + i] = post[i]
      <4>1. pre \in Seq(Row) /\ post \in Seq(Row)
        BY <2>9, <2>10
      <4>2. /\ Len(pre \o post) = Len(pre) + Len(post)
            /\ \A i \in 1..(Len(pre) + Len(post)) :
                 (pre \o post)[i] = IF i <= Len(pre) THEN pre[i] ELSE post[i - Len(pre)]
        BY <4>1, ConcatProperties
      <4>3. Len(pre) \in Nat /\ Len(post) \in Nat
        BY <4>1
      <4>4. ASSUME NEW i \in 1..Len(post)
            PROVE  (pre \o post)[Len(pre) + i] = post[i]
        <5>1. Len(pre) + i \in 1..(Len(pre) + Len(post)) /\ ~(Len(pre) + i <= Len(pre))
              /\ (Len(pre) + i) - Len(pre) = i
          BY <4>3
        <5> QED
          BY <4>2, <5>1
      <4>5. \A i \in 1..Len(pre) : (pre \o post)[i] = pre[i]
        BY <4>2, <4>3
      <4> QED
        BY <4>2, <4>4, <4>5
    <3>2. r.rows \in Seq(Row)
      BY <2>14 DEF Work
    <3> HIDE DEF n
    <3> QED
      BY <2>9, <2>10, <2>14, <3>1, <3>2
  <2>16. Sound(r, L)
    <3>1. \A a \in Addrs : r.m.reg[a].obj # None =>
            r.m.reg[a].obj \in DOMAIN r.objs /\ r.m.reg[a].art \in Nat /\ r.m.reg[a].ver \in DOMAIN r.rows
      <4>1. \A a \in Addrs : w.m.reg[a].obj # None =>
              w.m.reg[a].obj \in DOMAIN w.objs /\ w.m.reg[a].art \in Nat /\ w.m.reg[a].ver \in 1..n
        BY <2>1 DEF Sound
      <4> HIDE DEF n
      <4> QED
        BY <2>1, <2>4, <2>13, <2>14, <2>15, <4>1, SMTT(30)
    <3>2. \A x \in Names : r.m.bind[x] \in DOMAIN r.rows \cup {None}
      <4>1. \A x \in Names : w.m.bind[x] \in 1..n \cup {None}
        BY <2>1 DEF Sound
      <4> HIDE DEF n
      <4> QED
        BY <2>1, <2>4, <2>13, <2>14, <2>15, <4>1
    <3>3. IsFiniteSet(DOMAIN r.m.latest) /\ \A b \in DOMAIN r.m.latest : r.m.latest[b] \in DOMAIN r.rows
      BY <2>11, <2>13, <2>14, <2>15 DEF Sound
    <3>4. Apart(r.objs, L) /\ \A o \in r.stored : o \in L /\ Known(r, o)
      BY <2>13, <2>14 DEF Sound, Known
    <3> QED
      BY <2>14, <3>1, <3>2, <3>3, <3>4 DEF Sound
  <2>17. \A b \in Links(w) : \E i \in DOMAIN r.rows : r.rows[i].art = b /\ r.rows[i].at = at
    <3> SUFFICES ASSUME NEW b \in A
                 PROVE  \E i \in DOMAIN r.rows : r.rows[i].art = b /\ r.rows[i].at = at
      BY DEF A
    <3> DEFINE i == Place(A, b)
    <3>1. i \in 1..k /\ Art(i) = b
      BY <2>4, <2>6
    <3> HIDE DEF i, n
    <3>2. n + i \in DOMAIN r.rows /\ r.rows[n + i] = post[i]
      BY <2>1, <2>4, <2>15, <3>1
    <3>3. r.rows[n + i].art = b /\ r.rows[n + i].at = at
      BY <2>10, <3>1, <3>2
    <3> QED
      BY <3>2, <3>3
  <2>18. own # None => /\ r.m.off = w.m.off \cup {w.rows[own].obj}
                       /\ r.rows[own].art = w.rows[own].art /\ r.rows[own].at = w.rows[own].at
    BY <2>1, <2>9, <2>13, <2>14, <2>15
  <2>19. /\ Len(w.rows) <= Len(r.rows)
         /\ own = None => r.m.off = w.m.off
         /\ \A i \in DOMAIN w.rows : i # own => r.rows[i] = w.rows[i]
    <3>1. Len(w.rows) <= Len(r.rows)
      BY <2>1, <2>4, <2>15
    <3>2. own = None => r.m.off = w.m.off
      BY <2>13, <2>14
    <3>3. \A i \in DOMAIN w.rows : i # own => r.rows[i] = w.rows[i]
      BY <2>1, <2>9, <2>15
    <3> QED
      BY <3>1, <3>2, <3>3
  <2>20. LinksTo(w, r, at, own)
    BY <2>11, <2>13, <2>14, <2>17, <2>18, <2>19 DEF LinksTo
  <2> QED
    BY <2>16, <2>20 DEF r
<1> QED
  BY <1>1, <1>2
-----------------------------------------------------------------------------
(* The end of a step: the tracked names are refreshed, the rest is linked *)

\* w is ready to be refreshed: names B were bound in this step, names T are told of.
Ready(w, L, B, T, names) ==
  /\ Sound(w, L) /\ CurrentFor(w, L) /\ Agree(w, TrackedNames(w, B))
  /\ B \subseteq T /\ T \subseteq Names
  /\ \A x \in Names :
       LET o == w.m.tracked[x].obj
       IN  o \in L /\ o \in w.m.dirty => o \in w.stored \/ w.m.tracked[x].print # w.objs[o].print
  /\ \A x \in T : /\ names[x] \in L /\ w.m.tracked[x].obj = names[x]
                  /\ w.m.bind[x] \in DOMAIN w.rows /\ Known(w, names[x])
  /\ \A x \in B : /\ w.m.tracked[x].print = w.objs[names[x]].print
                  /\ names[x] \in w.stored
                  /\ names[x] \notin Unsure(w) => w.rows[w.m.bind[x]].data = Data(w.objs[names[x]])
  /\ \A x \in T \ B :
       /\ names[x] \notin w.stored \cup w.m.off \cup w.m.lost
       /\ w.m.tracked[x].print = w.objs[names[x]].print
       => w.rows[w.m.bind[x]].data = Data(w.objs[names[x]])

\* Name x has the version of object o, as far as that can be known.
Bound(r, x, o) ==
  /\ r.m.tracked[x].obj = o /\ Known(r, o) /\ r.m.bind[x] \in DOMAIN r.rows
  /\ o \notin Unsure(r) => r.rows[r.m.bind[x]].data = Data(r.objs[o])

\* r is w after the names were refreshed.
Settled(w, r, L, T, names) ==
  /\ Sound(r, L) /\ CurrentFor(r, L) /\ Extends(w, r)
  /\ \A x \in Names :
       LET o == r.m.tracked[x].obj
       IN  o # None => /\ o \in L /\ r.m.tracked[x].print = w.objs[o].print
                       /\ o \in r.m.dirty => o \in w.stored
  /\ \A x \in T : Bound(r, x, names[x])
  /\ \A x \in Names \ T : w.m.tracked[x].obj = None =>
       r.m.tracked[x].obj = None /\ r.m.bind[x] = w.m.bind[x]
  /\ \A o \in w.stored : /\ o \in r.m.off <=> o \in w.m.off
                         /\ o \in r.m.lost <=> o \in w.m.lost
                         /\ o \in r.m.dirty <=> o \in w.m.dirty

\* After the refresh every name told of is bound to what its object holds.
LEMMA RefreshFinishes ==
  ASSUME NEW w, NEW r, NEW L, NEW B, NEW T, NEW names, Ready(w, L, B, T, names),
         LET S == TrackedNames(w, B) IN RefreshedSome(w, r, L, S, S)
  PROVE  Settled(w, r, L, T, names)
<1> DEFINE S == TrackedNames(w, B)
<1>1. /\ Sound(r, L) /\ Extends(w, r) /\ CurrentFor(r, L)
      /\ \A x \in Names \ S : r.m.bind[x] = w.m.bind[x] /\ r.m.tracked[x] = w.m.tracked[x]
      /\ \A x \in S : RefreshedName(w, r, L, x)
      /\ w.stored \subseteq r.stored
      /\ \A o \in r.stored \ w.stored : o \notin Unsure(r) /\ ChangedFor(w, S, o)
      /\ \A o : o \notin r.stored \ w.stored =>
           /\ o \in r.m.off <=> o \in w.m.off
           /\ o \in r.m.lost <=> o \in w.m.lost
           /\ o \in r.m.dirty <=> o \in w.m.dirty
      /\ \A o \in L : Known(w, o) => Known(r, o)
  BY DEF RefreshedSome
<1>2. /\ Sound(w, L) /\ B \subseteq T /\ T \subseteq Names
      /\ \A x \in S : x \in Names /\ x \notin B /\ w.m.tracked[x].obj # None
      /\ \A x \in Names : x \notin S => x \in B \/ w.m.tracked[x].obj = None
  BY DEF Ready, TrackedNames
<1>3. r.objs = w.objs /\ \A i \in DOMAIN w.rows : i \in DOMAIN r.rows /\ r.rows[i] = w.rows[i]
  <2>1. /\ Len(w.rows) \in Nat /\ DOMAIN w.rows = 1..Len(w.rows)
        /\ Len(r.rows) \in Nat /\ DOMAIN r.rows = 1..Len(r.rows)
    BY <1>1, <1>2, WorkFacts
  <2> QED
    BY <1>1, <2>1 DEF Extends
<1>4. \A x \in T : /\ names[x] \in L /\ w.m.tracked[x].obj = names[x]
                  /\ w.m.bind[x] \in DOMAIN w.rows /\ Known(w, names[x])
  BY DEF Ready
<1>5. \A o \in L : o \in Nat /\ o # None
  BY <1>2, WorkFacts, ArtifactsAssumption
<1>6. ASSUME NEW x \in Names, r.m.tracked[x].obj # None
      PROVE  LET o == r.m.tracked[x].obj
             IN  /\ o \in L /\ r.m.tracked[x].print = w.objs[o].print
                 /\ o \in r.m.dirty => o \in w.stored
  <2>1. CASE x \in S
    <3> DEFINE o == w.m.tracked[x].obj
    <3>0. RefreshedName(w, r, L, x)
      BY <1>1, <2>1
    <3>1. o \in L
      BY <1>6, <3>0 DEF RefreshedName, Untracked
    <3>2. /\ r.m.tracked[x] = [obj |-> o, print |-> w.objs[o].print]
          /\ w.m.tracked[x].print # w.objs[o].print => o \in r.stored
      BY <3>0, <3>1 DEF RefreshedName
    <3>3. ASSUME o \in r.m.dirty
          PROVE  o \in w.stored
      <4>1. o \notin r.stored \ w.stored
        BY <1>1, <3>3 DEF Unsure
      <4>2. o \in w.m.dirty
        BY <1>1, <3>3, <4>1
      <4>3. o \in w.stored \/ w.m.tracked[x].print # w.objs[o].print
        BY <3>1, <4>2 DEF Ready
      <4> QED
        BY <3>2, <4>1, <4>3
    <3> QED
      BY <3>1, <3>2, <3>3
  <2>2. CASE x \notin S
    <3>1. x \in B /\ x \in T /\ r.m.tracked[x] = w.m.tracked[x]
      BY <1>1, <1>2, <1>6, <2>2
    <3>2. /\ w.m.tracked[x].print = w.objs[names[x]].print
          /\ names[x] \in w.stored
      BY <3>1 DEF Ready
    <3> QED
      BY <1>4, <3>1, <3>2
  <2> QED
    BY <2>1, <2>2
<1>7. ASSUME NEW x \in T
      PROVE  Bound(r, x, names[x])
  <2> DEFINE o == names[x]
  <2>1. o \in L /\ w.m.tracked[x].obj = o /\ w.m.bind[x] \in DOMAIN w.rows /\ Known(r, o) /\ x \in Names
    BY <1>1, <1>2, <1>4
  <2>2. CASE x \in B
    <3>1. x \notin S
      BY <1>2, <2>2
    <3>2. /\ o \in w.stored
          /\ o \notin Unsure(w) => w.rows[w.m.bind[x]].data = Data(w.objs[o])
      BY <2>2 DEF Ready
    <3>3. o \notin Unsure(r) => o \notin Unsure(w)
      BY <1>1, <3>2 DEF Unsure
    <3>4. r.m.bind[x] = w.m.bind[x] /\ r.m.tracked[x] = w.m.tracked[x]
      BY <1>1, <2>1, <3>1
    <3> QED
      BY <1>3, <2>1, <3>2, <3>3, <3>4 DEF Bound
  <2>3. CASE x \notin B
    <3>1. x \in S
      BY <1>2, <1>5, <2>1, <2>3
    <3>2. RefreshedName(w, r, L, x)
      BY <1>1, <3>1
    <3>3. r.m.tracked[x] = [obj |-> o, print |-> w.objs[o].print]
      BY <2>1, <3>2 DEF RefreshedName
    <3>4. CASE o \in r.stored
      <4>1. /\ r.m.bind[x] \in DOMAIN r.rows
            /\ o \notin Unsure(r) => r.rows[r.m.bind[x]].data = Data(w.objs[o])
        BY <2>1, <3>2, <3>4 DEF RefreshedName
      <4> QED
        BY <1>3, <2>1, <3>3, <4>1 DEF Bound
    <3>5. CASE o \notin r.stored
      <4>1. r.m.bind[x] = w.m.bind[x] /\ w.m.tracked[x].print = w.objs[o].print
        BY <2>1, <3>2, <3>5 DEF RefreshedName
      <4>2. o \notin w.stored
        BY <1>1, <3>5
      <4>3. o \notin Unsure(r) => o \notin w.m.off \cup w.m.lost
        BY <1>1, <3>5 DEF Unsure
      <4>4. o \notin w.m.off \cup w.m.lost => w.rows[w.m.bind[x]].data = Data(w.objs[o])
        BY <2>3, <4>1, <4>2 DEF Ready
      <4> QED
        BY <1>3, <2>1, <3>3, <4>1, <4>3, <4>4 DEF Bound
    <3> QED
      BY <3>4, <3>5
  <2> QED
    BY <2>2, <2>3
<1>8. \A x \in Names \ T : w.m.tracked[x].obj = None =>
              r.m.tracked[x].obj = None /\ r.m.bind[x] = w.m.bind[x]
  BY <1>1, <1>2
<1>9. \A o \in w.stored : /\ o \in r.m.off <=> o \in w.m.off
                          /\ o \in r.m.lost <=> o \in w.m.lost
                          /\ o \in r.m.dirty <=> o \in w.m.dirty
  BY <1>1
<1> QED
  BY <1>1, <1>6, <1>7, <1>8, <1>9 DEF Settled

\* Linking keeps what the refresh reached.
LEMMA FinishedSound ==
  ASSUME NEW w, NEW L, NEW B, NEW T, NEW names, Ready(w, L, B, T, names), NEW at \in Nat
  PROVE  Settled(w, Linked(Refreshed(w, B, L), at, None), L, T, names)
<1> DEFINE v == Refreshed(w, B, L)
           r == Linked(v, at, None)
<1>1. LET S == TrackedNames(w, B) IN RefreshedSome(w, v, L, S, S)
  BY RefreshedSound DEF Ready
<1> HIDE DEF v
<1>2. Settled(w, v, L, T, names)
  BY <1>1, RefreshFinishes
<1>12. Sound(v, L) /\ CurrentFor(v, L) /\ Extends(w, v)
  BY <1>2 DEF Settled
<1>3. Sound(r, L) /\ LinksTo(v, r, at, None)
  BY <1>12, LinkedSound
<1> HIDE DEF r
<1>4. /\ r.objs = v.objs
      /\ r.m.reg = v.m.reg /\ r.m.bind = v.m.bind /\ r.m.tracked = v.m.tracked
      /\ r.m.off = v.m.off /\ r.m.lost = v.m.lost /\ r.m.dirty = v.m.dirty
      /\ Len(v.rows) <= Len(r.rows)
  BY <1>3 DEF LinksTo
<1>5. \A i \in DOMAIN v.rows : i \in DOMAIN r.rows /\ r.rows[i] = v.rows[i]
  <2>1. /\ Len(v.rows) \in Nat /\ DOMAIN v.rows = 1..Len(v.rows)
        /\ Len(r.rows) \in Nat /\ DOMAIN r.rows = 1..Len(r.rows)
    BY <1>12, <1>3, WorkFacts
  <2>2. \A i \in DOMAIN v.rows : i # None
    BY <2>1, ArtifactsAssumption
  <2> QED
    BY <1>3, <1>4, <2>1, <2>2 DEF LinksTo
<1>6. Extends(v, r)
  BY <1>4, <1>5 DEF Extends
<1>7. Sound(w, L)
  BY DEF Ready
<1>8. Extends(w, r)
  BY <1>12, <1>3, <1>6, <1>7, ExtendsTransitive
<1>9. CurrentFor(r, L)
  <2> SUFFICES ASSUME NEW o \in L, Known(r, o), o \notin Unsure(r)
               PROVE  r.rows[VersionOf(r, o)].data = Data(r.objs[o])
    BY DEF CurrentFor, Right
  <2>1. Known(v, o) /\ VersionOf(v, o) = VersionOf(r, o) /\ o \notin Unsure(v)
    BY <1>4 DEF Known, VersionOf, Unsure
  <2>2. VersionOf(v, o) \in DOMAIN v.rows
    BY <1>12, <2>1, VersionExists
  <2>3. v.rows[VersionOf(v, o)].data = Data(v.objs[o])
    BY <1>12, <2>1 DEF CurrentFor, Right
  <2> QED
    BY <1>4, <1>5, <2>1, <2>2, <2>3
<1>10. ASSUME NEW x \in T
       PROVE  Bound(r, x, names[x])
  <2>1. Bound(v, x, names[x])
    BY <1>2 DEF Settled
  <2>2. r.rows[r.m.bind[x]] = v.rows[v.m.bind[x]] /\ r.m.bind[x] \in DOMAIN r.rows
    BY <1>4, <1>5, <2>1 DEF Bound
  <2> QED
    BY <1>4, <2>1, <2>2 DEF Bound, Known, Unsure
<1>13. ASSUME NEW x \in Names, r.m.tracked[x].obj # None
       PROVE  LET o == r.m.tracked[x].obj
              IN  /\ o \in L /\ r.m.tracked[x].print = w.objs[o].print
                  /\ o \in r.m.dirty => o \in w.stored
  BY <1>2, <1>4, <1>13 DEF Settled
<1>14. \A x \in Names \ T : w.m.tracked[x].obj = None =>
         r.m.tracked[x].obj = None /\ r.m.bind[x] = w.m.bind[x]
  BY <1>2, <1>4 DEF Settled
<1>15. \A o \in w.stored : /\ o \in r.m.off <=> o \in w.m.off
                           /\ o \in r.m.lost <=> o \in w.m.lost
                           /\ o \in r.m.dirty <=> o \in w.m.dirty
  BY <1>2, <1>4 DEF Settled
<1>16. Settled(w, r, L, T, names)
  BY <1>3, <1>8, <1>9, <1>10, <1>13, <1>14, <1>15 DEF Settled
<1> QED
  BY <1>16 DEF r, v
-----------------------------------------------------------------------------
(* The invariant *)

\* Where the next step begins, as long as no object was altered.
Here == [m |-> mem, rows |-> rows, objs |-> objs, stored |-> {}, touched |-> {}]

Arg   == [ver : Nat, was : Content, sure : BOOLEAN]
State == [bind : [Names -> Nat \cup {None}], expect : [Names -> Content \cup {Nothing, Unknown}],
          args : Seq(Arg), line : Names \cup {None}, label : BOOLEAN, off : SUBSET Names]

\* The types of the variables other than mem, rows and objs, which Here has.
TypesInv ==
  /\ ns \in [Names -> Nat \cup {None}]
  /\ states \in Seq(State)
  /\ current \in 0..Len(states)
  /\ expect \in [Names -> Content \cup {Nothing, Unknown}]
  /\ seen \subseteq Names
  /\ plain \in Nat /\ moves \in Nat

\* The registries are sound, and right about what the variables hold.
RegistryInv == Sound(Here, Live) /\ CurrentFor(Here, Live)

\* The versions a state names exist.
NamedInv ==
  \A s \in DOMAIN states :
    /\ \A x \in Names : states[s].bind[x] \in DOMAIN rows \cup {None}
    /\ \A i \in DOMAIN states[s].args : states[s].args[i].ver \in DOMAIN rows

\* A tracked print is one an object had; a change that was not seen yet changed it.
TrackedInv ==
  /\ \A o \in DOMAIN objs : objs[o].print < Fresh
  /\ \A x \in Names :
       LET t == mem.tracked[x]
       IN  t.obj # None => /\ t.obj \in DOMAIN objs /\ t.print \in Nat /\ t.print < Fresh
                           /\ t.obj \in mem.dirty => t.print # objs[t.obj].print
  /\ Agree(Here, {x \in Names : mem.tracked[x].obj # None})

\* The names the tracker was told of have a version, their object's unless it
\* changed since or a change of it was hidden.
ToldInv ==
  \A x \in seen :
    /\ ns[x] # None /\ mem.tracked[x].obj = ns[x] /\ mem.bind[x] # None /\ Known(Here, ns[x])
    /\ ns[x] \notin mem.off \cup mem.lost /\ mem.tracked[x].print = objs[ns[x]].print
       => rows[mem.bind[x]].data = Data(objs[ns[x]])

\* A name the tracker was not told of is not refreshed, or stands for anything.
QuietInv == \A x \in Names \ seen : mem.tracked[x].obj = None \/ expect[x] = Unknown

\* What a name is bound to now loads what it stands for.
StandInv ==
  \A x \in Names : expect[x] # Unknown /\ (x \in seen => ns[x] \notin mem.off) =>
                     Restores(mem.bind[x], expect[x])

Inv ==
  /\ TypesInv /\ RegistryInv /\ NamedInv /\ TrackedInv /\ ToldInv /\ QuietInv /\ StandInv
  /\ RestoredAsRecorded /\ ArgumentsAsGiven

-----------------------------------------------------------------------------
(* What a recorded step ends with *)

\* w is what the step that makes the next state ends with, names what the
\* variables refer to then, L the objects it went through; told, dropped: names the
\* tracker is told of, or told to forget.
Result(w, L, names, told, dropped) ==
  /\ names \in [Names -> Nat \cup {None}]
  /\ Sound(w, L) /\ CurrentFor(w, L) /\ {names[x] : x \in Names} \subseteq L \cup {None}
  /\ Len(rows) <= Len(w.rows) /\ \A i \in DOMAIN rows : w.rows[i] = rows[i]
  /\ Len(objs) <= Len(w.objs)
  /\ \A o \in DOMAIN w.objs : w.objs[o].print < 2 * (Len(w.objs) + plain + Len(states) + 1) + 1
  /\ \A x \in Names :
       LET o == w.m.tracked[x].obj
       IN  o # None => /\ o \in DOMAIN w.objs /\ w.m.tracked[x].print = w.objs[o].print
                       /\ o \notin w.m.dirty
  /\ \A x \in told : names[x] # None /\ Bound(w, x, names[x])
  /\ \A x \in Names \ (told \cup dropped) :
       /\ x \notin seen
       /\ mem.tracked[x].obj = None => w.m.tracked[x].obj = None /\ w.m.bind[x] = mem.bind[x]
  /\ \A x \in dropped : x \notin told /\ w.m.tracked[x].obj = None /\ w.m.bind[x] = None
  /\ told \subseteq Names /\ dropped \subseteq Names

\* The arguments of a step name versions that load what the call was given.
GivenIn(w, args) ==
  /\ args \in Seq(Arg)
  /\ \A i \in DOMAIN args : /\ args[i].ver \in DOMAIN w.rows
                            /\ args[i].sure => w.rows[args[i].ver].data = args[i].was

\* Numbers and types.
LEMMA Basics ==
  ASSUME Inv
  PROVE  /\ Len(objs) \in Nat /\ DOMAIN objs = 1..Len(objs) /\ objs \in Seq(Object)
         /\ Len(rows) \in Nat /\ DOMAIN rows = 1..Len(rows) /\ rows \in Seq(Row)
         /\ Len(states) \in Nat /\ DOMAIN states = 1..Len(states) /\ states \in Seq(State)
         /\ plain \in Nat /\ Fresh \in Nat /\ Fresh = 2 * (Len(objs) + plain + Len(states)) + 1
         /\ \A x \in Names : ns[x] # None => ns[x] \in Live /\ ns[x] \in DOMAIN objs
         /\ \A o \in Live : o \in DOMAIN objs /\ o # None /\ objs[o] \in Object
         /\ mem \in Memory /\ Sound(Here, Live)
         /\ None \notin Nat
<1>1. Sound(Here, Live) /\ Here.objs = objs /\ Here.rows = rows /\ Here.m = mem
  BY DEF Inv, RegistryInv, Here
<1>2. objs \in Seq(Object) /\ rows \in Seq(Row) /\ mem \in Memory
  BY <1>1, WorkFacts
<1>3. \A o \in Live : o \in DOMAIN objs /\ objs[o] \in Object
  BY <1>1, WorkFacts
<1>4. states \in Seq(State) /\ plain \in Nat
  BY DEF Inv, TypesInv
<1>5. \A x \in Names : ns[x] # None => ns[x] \in Live
  BY DEF Live
<1>6. \A o \in Live : o # None
  BY DEF Live
<1>7. /\ Len(objs) \in Nat /\ DOMAIN objs = 1..Len(objs)
      /\ Len(rows) \in Nat /\ DOMAIN rows = 1..Len(rows)
      /\ Len(states) \in Nat /\ DOMAIN states = 1..Len(states)
  BY <1>2, <1>4
<1>8. Fresh \in Nat /\ Fresh = 2 * (Len(objs) + plain + Len(states)) + 1
  BY <1>4, <1>7 DEF Fresh
<1> QED
  BY <1>1, <1>2, <1>3, <1>4, <1>5, <1>6, <1>7, <1>8, ArtifactsAssumption

\* Fewer objects have fewer addresses to share.
LEMMA Shed ==
  ASSUME NEW w, NEW h, NEW L, NEW M \in SUBSET L, Sound(w, L),
         h.m = w.m, h.rows = w.rows, h.objs = w.objs, h.stored = {}, h \in Work
  PROVE  Sound(h, M)
BY DEF Sound, Apart

\* What a recorded step ends with is what the invariant says.
LEMMA ResultInv ==
  ASSUME Inv, NEW w, NEW L, NEW names, NEW told, NEW dropped, NEW args,
         NEW line \in Names \cup {None}, NEW label \in BOOLEAN,
         Result(w, L, names, told, dropped), GivenIn(w, args),
         Done(w, names, told, dropped, args, line, label)
  PROVE  Inv'
<1> DEFINE now == [x \in Names |-> IF x \in dropped THEN Nothing ELSE Stands(w, x, names, told)]
           new == [bind |-> w.m.bind, expect |-> now, args |-> args,
                   line |-> line, label |-> Labelled \/ label,
                   off |-> {x \in told : names[x] \in w.m.off}]
           M == {names[x] : x \in Names} \ {None}
<1>1. /\ ns' = names /\ objs' = w.objs /\ mem' = w.m /\ rows' = w.rows
      /\ states' = Append(states, new) /\ current' = Len(states) + 1
      /\ expect' = now /\ seen' = told /\ plain' = plain /\ moves' = moves
  BY DEF Done
<1>2. Live' = M
  BY <1>1 DEF Live
<1>3. /\ names \in [Names -> Nat \cup {None}] /\ Sound(w, L) /\ CurrentFor(w, L) /\ M \subseteq L
      /\ told \subseteq Names /\ dropped \subseteq Names
  BY DEF Result
<1>4. /\ w \in Work /\ w.m \in Memory /\ w.rows \in Seq(Row) /\ w.objs \in Seq(Object)
      /\ w.m.bind \in [Names -> Nat \cup {None}] /\ w.m.latest \in Latest
      /\ \A o \in M : Data(w.objs[o]) \in Content /\ o \in DOMAIN w.objs /\ o \in Nat
      /\ DOMAIN w.rows = 1..Len(w.rows) /\ Len(w.rows) \in Nat
  BY <1>3, WorkFacts
<1>5. \A x \in told : names[x] \in M /\ names[x] # None /\ Bound(w, x, names[x])
  BY <1>3 DEF Result
<1>6. \A i \in DOMAIN rows : i \in DOMAIN w.rows /\ w.rows[i] = rows[i]
  BY <1>4, Basics DEF Result
<1>7. now \in [Names -> Content \cup {Nothing, Unknown}]
  <2> SUFFICES ASSUME NEW x \in Names
               PROVE  now[x] \in Content \cup {Nothing, Unknown}
    OBVIOUS
  <2>1. expect[x] \in Content \cup {Nothing, Unknown}
    BY DEF Inv, TypesInv
  <2> QED
    BY <1>4, <1>5, <2>1 DEF Stands
<1>8. new \in State
  <2>1. (Labelled \/ label) \in BOOLEAN
    OBVIOUS
  <2>2. args \in Seq(Arg)
    BY DEF GivenIn
  <2> QED
    BY <1>3, <1>4, <1>7, <2>1, <2>2 DEF State
<1> HIDE DEF now, new, M
<1>9. /\ Len(states') = Len(states) + 1 /\ DOMAIN states' = 1..(Len(states) + 1)
      /\ states' \in Seq(State) /\ states'[Len(states) + 1] = new
      /\ \A s \in DOMAIN states : states'[s] = states[s]
  BY <1>1, <1>8, Basics
<1>10. TypesInv'
  <2>1. plain \in Nat /\ moves \in Nat /\ Len(states) \in Nat
    BY Basics DEF Inv, TypesInv
  <2> QED
    BY <1>1, <1>3, <1>7, <1>9, <2>1 DEF TypesInv
<1>11. RegistryInv'
  <2>1. /\ Here'.m = w.m /\ Here'.rows = w.rows /\ Here'.objs = w.objs /\ Here'.stored = {}
        /\ Here' \in Work
    BY <1>1, <1>4 DEF Here, Work
  <2>2. Sound(Here', M)
    BY <1>3, <2>1, Shed
  <2>3. CurrentFor(Here', M)
    BY <1>3, <2>1 DEF CurrentFor, Right, Known, VersionOf, Unsure
  <2> QED
    BY <1>2, <2>2, <2>3 DEF RegistryInv
<1>12. NamedInv'
  <2> SUFFICES ASSUME NEW s \in DOMAIN states'
               PROVE  /\ \A x \in Names : states'[s].bind[x] \in DOMAIN rows' \cup {None}
                      /\ \A i \in DOMAIN states'[s].args : states'[s].args[i].ver \in DOMAIN rows'
    BY DEF NamedInv
  <2>1. CASE s \in DOMAIN states
    BY <1>1, <1>6, <1>9, <2>1 DEF Inv, NamedInv
  <2>2. CASE s = Len(states) + 1
    BY <1>1, <1>3, <1>9, <2>2 DEF Sound, GivenIn, new
  <2> QED
    BY <1>9, <2>1, <2>2, Basics
<1>13. TrackedInv'
  <2>1. Fresh' = 2 * (Len(w.objs) + plain + Len(states) + 1) + 1
    <3>1. Fresh' = 2 * (Len(w.objs) + plain + (Len(states) + 1)) + 1
      BY <1>1, <1>9 DEF Fresh
    <3>2. Len(w.objs) \in Nat /\ Len(states) \in Nat /\ plain \in Nat
      BY <1>4, Basics
    <3>3. \A a, b, c \in Nat : 2 * (a + b + (c + 1)) + 1 = 2 * (a + b + c + 1) + 1
      OBVIOUS
    <3>4. 2 * (Len(w.objs) + plain + (Len(states) + 1)) + 1 = 2 * (Len(w.objs) + plain + Len(states) + 1) + 1
      BY <3>2, <3>3
    <3> QED
      BY <3>1, <3>4, Zenon
  <2>2. \A o \in DOMAIN objs' : objs'[o].print < Fresh'
    BY <1>1, <2>1 DEF Result
  <2>5. \A o \in DOMAIN w.objs : w.objs[o].print \in Nat
    <3>1. \A o \in DOMAIN w.objs : w.objs[o] \in Object
      BY <1>4
    <3> QED
      BY <3>1 DEF Object
  <2>3. ASSUME NEW x \in Names, w.m.tracked[x].obj # None
        PROVE  /\ w.m.tracked[x].obj \in DOMAIN w.objs
               /\ w.m.tracked[x].print = w.objs[w.m.tracked[x].obj].print
               /\ w.m.tracked[x].obj \notin w.m.dirty
    BY <2>3 DEF Result
  <2>4. Agree(Here', {x \in Names : w.m.tracked[x].obj # None})
    <3>1. Here'.m = w.m
      BY <1>1 DEF Here
    <3> QED
      BY <2>3, <3>1 DEF Agree
  <2> QED
    BY <1>1, <2>2, <2>3, <2>4, <2>5 DEF TrackedInv
<1>14. ASSUME NEW x \in told
       PROVE  /\ names[x] # None /\ w.m.tracked[x].obj = names[x] /\ w.m.bind[x] # None
              /\ Known(w, names[x]) /\ w.m.bind[x] \in DOMAIN w.rows
              /\ names[x] \notin w.m.off \cup w.m.lost
                 => w.rows[w.m.bind[x]].data = Data(w.objs[names[x]])
  <2>1. Bound(w, x, names[x]) /\ names[x] # None /\ x \in Names
    BY <1>3, <1>5
  <2>2. names[x] \notin w.m.dirty
    BY <2>1 DEF Result, Bound
  <2>3. w.m.bind[x] # None
    BY <1>4, <2>1, ArtifactsAssumption DEF Bound
  <2> QED
    BY <2>1, <2>2, <2>3 DEF Bound, Unsure
<1>15. ToldInv'
  BY <1>1, <1>14 DEF ToldInv, Here, Known
<1>16. ASSUME NEW x \in Names \ (told \cup dropped)
       PROVE  /\ now[x] = expect[x] /\ x \notin seen
              /\ mem.tracked[x].obj = None => w.m.tracked[x].obj = None /\ w.m.bind[x] = mem.bind[x]
  BY DEF now, Stands, Result
<1>17. ASSUME NEW x \in dropped
       PROVE  /\ now[x] = Nothing /\ x \in Names
              /\ x \notin told /\ w.m.tracked[x].obj = None /\ w.m.bind[x] = None
  BY <1>3 DEF now, Result
<1>18. QuietInv'
  <2> SUFFICES ASSUME NEW x \in Names \ told
               PROVE  w.m.tracked[x].obj = None \/ now[x] = Unknown
    BY <1>1 DEF QuietInv
  <2>1. CASE x \in dropped
    BY <1>17, <2>1
  <2>2. CASE x \notin dropped
    <3>1. mem.tracked[x].obj = None \/ expect[x] = Unknown
      BY <1>16, <2>2 DEF Inv, QuietInv
    <3> QED
      BY <1>16, <2>2, <3>1
  <2> QED
    BY <2>1, <2>2
<1>19. ASSUME NEW x \in Names, now[x] # Unknown, x \in told => names[x] \notin w.m.off
       PROVE  IF now[x] = Nothing THEN w.m.bind[x] = None
              ELSE w.m.bind[x] # None /\ w.rows[w.m.bind[x]].data = now[x]
  <2>1. CASE x \in told
    <3>1. now[x] = IF names[x] \in w.m.lost THEN Unknown ELSE Data(w.objs[names[x]])
      BY <1>17, <2>1 DEF now, Stands
    <3>2. names[x] \notin w.m.off \cup w.m.lost /\ now[x] = Data(w.objs[names[x]])
      BY <1>19, <2>1, <3>1
    <3>3. now[x] \in Content
      BY <1>4, <1>5, <2>1, <3>2
    <3>4. now[x] # Nothing
      BY <3>3 DEF Content, Nothing
    <3> QED
      BY <1>14, <2>1, <3>2, <3>4
  <2>2. CASE x \in dropped
    BY <1>17, <2>2
  <2>3. CASE x \notin told \cup dropped
    <3>1. now[x] = expect[x] /\ x \notin seen
      BY <1>16, <2>3
    <3>2. mem.tracked[x].obj = None
      BY <1>19, <3>1 DEF Inv, QuietInv
    <3>3. w.m.bind[x] = mem.bind[x]
      BY <1>16, <2>3, <3>2
    <3>4. Restores(mem.bind[x], expect[x])
      BY <1>19, <3>1 DEF Inv, StandInv
    <3>5. mem.bind[x] \in DOMAIN rows \cup {None}
      BY Basics DEF Sound, Here
    <3> QED
      BY <1>6, <3>1, <3>3, <3>4, <3>5 DEF Restores, Loads
  <2> QED
    BY <2>1, <2>2, <2>3
<1>20. StandInv'
  BY <1>1, <1>19 DEF StandInv, Restores, Loads
<1>21. RestoredAsRecorded'
  <2> SUFFICES ASSUME NEW s \in DOMAIN states', NEW x \in Names \ states'[s].off,
                      states'[s].expect[x] # Unknown
               PROVE  LET v == states'[s].bind[x]
                          c == states'[s].expect[x]
                      IN  IF c = Nothing THEN v = None ELSE v # None /\ w.rows[v].data = c
    BY <1>1 DEF RestoredAsRecorded, Restores, Loads
  <2>1. CASE s \in DOMAIN states
    <3>1. states'[s] = states[s] /\ states[s].bind[x] \in DOMAIN rows \cup {None}
      BY <1>9, <2>1 DEF Inv, NamedInv
    <3>2. Restores(states[s].bind[x], states[s].expect[x])
      BY <2>1, <3>1 DEF Inv, RestoredAsRecorded
    <3> QED
      BY <1>6, <3>1, <3>2 DEF Restores, Loads
  <2>2. CASE s = Len(states) + 1
    <3>1. states'[s] = new
      BY <1>9, <2>2
    <3>2. new.bind = w.m.bind /\ new.expect = now /\ new.off = {y \in told : names[y] \in w.m.off}
      BY DEF new
    <3> QED
      BY <1>19, <3>1, <3>2
  <2> QED
    BY <1>9, <2>1, <2>2, Basics
<1>22. ArgumentsAsGiven'
  <2> SUFFICES ASSUME NEW s \in DOMAIN states', NEW i \in DOMAIN states'[s].args,
                      states'[s].args[i].sure
               PROVE  w.rows[states'[s].args[i].ver].data = states'[s].args[i].was
    BY <1>1 DEF ArgumentsAsGiven, Loads
  <2>1. CASE s \in DOMAIN states
    <3>1. states'[s] = states[s] /\ states[s].args[i].ver \in DOMAIN rows
      BY <1>9, <2>1 DEF Inv, NamedInv
    <3>2. rows[states[s].args[i].ver].data = states[s].args[i].was
      BY <2>1, <3>1 DEF Inv, ArgumentsAsGiven, Loads
    <3> QED
      BY <1>6, <3>1, <3>2
  <2>2. CASE s = Len(states) + 1
    <3>1. states'[s].args = args
      BY <1>9, <2>2 DEF new
    <3> QED
      BY <3>1 DEF GivenIn
  <2> QED
    BY <1>9, <2>1, <2>2, Basics
<1> QED
  BY <1>10, <1>11, <1>12, <1>13, <1>15, <1>18, <1>20, <1>21, <1>22 DEF Inv
-----------------------------------------------------------------------------
(* From the call to the end of its step *)

\* os, names: the objects and what the variables refer to after the call.  L: the
\* objects there are to refresh.  O: the outputs that are stored.  B, D: the names
\* bound, and the names whose output is not stored.
Outcome(os, names, L, O, B, D) ==
  /\ os \in Seq(Object) /\ Len(objs) <= Len(os)
  /\ \A p \in DOMAIN objs : os[p].addr = objs[p].addr /\ (os[p] = objs[p] \/ os[p].print >= Fresh)
  /\ \A p \in DOMAIN os : os[p].print < 2 * (Len(os) + plain + Len(states) + 1) + 1
  /\ Live \subseteq L /\ O \subseteq L /\ Apart(os, L)
  /\ \A p \in L : p \in Live \/ p \notin DOMAIN objs
  /\ names \in [Names -> Nat \cup {None}]
  /\ \A x \in Names : names[x] \in L \cup {None}
  /\ B \subseteq Names /\ D \subseteq Names /\ B \cap D = {}
  /\ \A x \in Names \ (B \cup D) : names[x] = ns[x]
  /\ \A x \in B : names[x] \in O

\* w is what the step reached: it stored the objects O and bound the names B.
Kept(w, os, L, O, B, D, names) ==
  /\ Sound(w, L) /\ CurrentFor(w, L) /\ Extends(Begin(os), w)
  /\ w.stored = O
  /\ \A p \in L : Known(Begin(os), p) => Known(w, p)
  /\ \A p \in L \ O :
       /\ p \in w.m.dirty => p \in mem.dirty \cup Altered(os)
       /\ Known(Begin(os), p) => /\ p \in w.m.off <=> p \in mem.off
                                 /\ p \in w.m.lost <=> p \in mem.lost
  /\ \A x \in Names \ (B \cup D) : w.m.bind[x] = mem.bind[x] /\ w.m.tracked[x] = mem.tracked[x]
  /\ \A x \in B : /\ names[x] \in O
                  /\ w.m.tracked[x] = [obj |-> names[x], print |-> os[names[x]].print]
                  /\ w.m.bind[x] \in DOMAIN w.rows
                  /\ names[x] \notin Unsure(w) => w.rows[w.m.bind[x]].data = Data(os[names[x]])
  /\ \A x \in D : w.m.tracked[x].obj = None /\ w.m.bind[x] = None

\* What a step begins with: the objects the call altered are dirty.
LEMMA BeginFacts ==
  ASSUME Inv, NEW os \in Seq(Object)
  PROVE  LET w == Begin(os)
         IN  /\ w \in Work /\ w.rows = rows /\ w.objs = os /\ w.stored = {} /\ w.touched = {}
             /\ w.m.reg = mem.reg /\ w.m.latest = mem.latest /\ w.m.bind = mem.bind
             /\ w.m.tracked = mem.tracked /\ w.m.off = mem.off /\ w.m.lost = mem.lost
             /\ w.m.dirty = mem.dirty \cup Altered(os)
<1> DEFINE n == [mem EXCEPT !.dirty = @ \cup Altered(os)]
<1>1. mem \in Memory /\ rows \in Seq(Row)
  BY Basics
<1>2. Altered(os) \subseteq Nat
  BY Basics DEF Altered
<1>3. /\ n \in Memory /\ n.reg = mem.reg /\ n.latest = mem.latest /\ n.bind = mem.bind
      /\ n.tracked = mem.tracked /\ n.off = mem.off /\ n.lost = mem.lost
      /\ n.dirty = mem.dirty \cup Altered(os)
  BY <1>1, <1>2 DEF Memory
<1>4. Begin(os) = [m |-> n, rows |-> rows, objs |-> os, stored |-> {}, touched |-> {}]
  BY DEF Begin
<1> HIDE DEF n
<1> QED
  BY <1>1, <1>3, <1>4 DEF Work

\* A call that alters nothing begins with what there is.
LEMMA BeginHere ==
  ASSUME Inv
  PROVE  Begin(objs) = Here /\ Altered(objs) = {}
<1>1. mem \in Memory
  BY Basics
<1>2. Altered(objs) = {}
  BY DEF Altered
<1>3. [mem EXCEPT !.dirty = @ \cup {}] = mem
  BY <1>1 DEF Memory
<1> QED
  BY <1>2, <1>3 DEF Begin, Here

\* The registries name objects of before the call.
LEMMA KnownBefore ==
  ASSUME Inv, NEW os, NEW names, NEW L, NEW O, NEW B, NEW D, Outcome(os, names, L, O, B, D),
         NEW p \in L, Known(Begin(os), p)
  PROVE  p \in Live /\ p \in DOMAIN objs /\ Known(Here, p) /\ VersionOf(Begin(os), p) = VersionOf(Here, p)
         /\ os[p].addr = objs[p].addr
<1>0. os \in Seq(Object)
  BY DEF Outcome
<1>6. Begin(os).m.reg = mem.reg /\ Begin(os).objs = os
  BY <1>0, BeginFacts
<1>1. mem.reg[os[p].addr].obj = p
  BY <1>6 DEF Known
<1>2. p \in DOMAIN os /\ os[p] \in Object
  BY DEF Outcome, Apart
<1>3. p # None /\ os[p].addr \in Addrs
  BY <1>2, ArtifactsAssumption DEF Outcome, Object
<1>4. p \in DOMAIN objs
  BY <1>1, <1>3, Basics DEF Sound, Here
<1>5. p \in Live /\ os[p].addr = objs[p].addr
  BY <1>4 DEF Outcome
<1> QED
  BY <1>1, <1>4, <1>5, <1>6 DEF Known, VersionOf, Here

\* The step begins with what the state before it has.
LEMMA BeginKept ==
  ASSUME Inv, NEW os, NEW names, NEW L, NEW O, NEW B, NEW D, Outcome(os, names, L, O, B, D)
  PROVE  Kept(Begin(os), os, L, {}, {}, {}, names)
<1> DEFINE w == Begin(os)
<1>0. os \in Seq(Object)
  BY DEF Outcome
<1>1. /\ w \in Work /\ w.rows = rows /\ w.objs = os /\ w.stored = {} /\ w.touched = {}
      /\ w.m.reg = mem.reg /\ w.m.latest = mem.latest /\ w.m.bind = mem.bind
      /\ w.m.tracked = mem.tracked /\ w.m.off = mem.off /\ w.m.lost = mem.lost
      /\ w.m.dirty = mem.dirty \cup Altered(os)
  BY <1>0, BeginFacts
<1>2. Sound(Here, Live) /\ Here.m = mem /\ Here.rows = rows /\ Here.objs = objs
  BY Basics DEF Here
<1>3. DOMAIN objs \subseteq DOMAIN os
  <2>1. Len(os) \in Nat /\ DOMAIN os = 1..Len(os) /\ Len(objs) <= Len(os)
    BY DEF Outcome
  <2> QED
    BY <2>1, Basics
<1> HIDE DEF w
<1>4. Sound(w, L)
  <2>1. Apart(w.objs, L)
    BY <1>1 DEF Outcome
  <2> QED
    BY <1>1, <1>2, <1>3, <2>1 DEF Sound
<1>5. CurrentFor(w, L)
  <2> SUFFICES ASSUME NEW p \in L, Known(w, p), p \notin Unsure(w)
               PROVE  w.rows[VersionOf(w, p)].data = Data(w.objs[p])
    BY DEF CurrentFor, Right
  <2>1. p \in Live /\ p \in DOMAIN objs /\ Known(Here, p) /\ VersionOf(w, p) = VersionOf(Here, p)
    BY KnownBefore DEF w
  <2>2. os[p] = objs[p]
    BY <1>1, <2>1 DEF Unsure, Altered
  <2>3. p \notin Unsure(Here)
    BY <1>1, <1>2 DEF Unsure
  <2>4. Here.rows[VersionOf(Here, p)].data = Data(Here.objs[p])
    BY <2>1, <2>3 DEF Inv, RegistryInv, CurrentFor, Right
  <2> QED
    BY <1>1, <1>2, <2>1, <2>2, <2>4
<1>6. Extends(w, w)
  BY <1>4, WorkFacts DEF Extends
<1> QED
  BY <1>1, <1>4, <1>5, <1>6 DEF Kept, w

\* A copy that is no state's.
LEMMA CopiedAway ==
  ASSUME NEW w, NEW L, Sound(w, L), NEW o \in L
  PROVE  LET r == Copied(w, o, None)
         IN  /\ StoresOnly(w, r, L, o) /\ Right(r, o)
             /\ r.rows[VersionOf(r, o)].data = Data(w.objs[o])
             /\ r.m.bind = w.m.bind /\ r.m.tracked = w.m.tracked /\ r.stored = w.stored
<1> DEFINE Does(r) == /\ StoresOnly(w, r, L, o) /\ Right(r, o)
                      /\ r.rows[VersionOf(r, o)].data = Data(w.objs[o])
                      /\ r.m.bind = w.m.bind /\ r.m.tracked = w.m.tracked /\ r.stored = w.stored
<1>1. \A at \in Nat \cup {None} : Does(Copied(w, o, at))
  BY CopiedSound
<1>2. Does(Copied(w, o, None))
  <2> HIDE DEF Does
  <2>1. None \in Nat \cup {None}
    OBVIOUS
  <2> QED
    BY <1>1, <2>1
<1> QED
  BY <1>2

\* r is w after the input o was stored if it had no version.
InputDone(w, r, os, L, names, o) ==
  /\ Kept(r, os, L, {}, {}, {}, names)
  /\ Known(r, o)
  /\ ~ Known(w, o) => r.rows[VersionOf(r, o)].data = Data(os[o])

\* An object that is stored although it has no version.
LEMMA InputKept ==
  ASSUME Inv, NEW os, NEW names, NEW L, NEW O, NEW B, NEW D, Outcome(os, names, L, O, B, D),
         NEW w, Kept(w, os, L, {}, {}, {}, names), NEW o \in L
  PROVE  InputDone(w, IF Known(w, o) THEN w ELSE Copied(w, o, None), os, L, names, o)
<1> DEFINE r == Copied(w, o, None)
<1>1. SUFFICES ASSUME ~ Known(w, o)
               PROVE  /\ Kept(r, os, L, {}, {}, {}, names) /\ Known(r, o)
                      /\ r.rows[VersionOf(r, o)].data = Data(os[o])
  BY DEF InputDone
<1>2. Sound(w, L) /\ CurrentFor(w, L) /\ Extends(Begin(os), w) /\ w.stored = {} /\ w.objs = os
  BY DEF Kept, Extends, Begin
<1>3. /\ StoresOnly(w, r, L, o) /\ Right(r, o)
      /\ r.rows[VersionOf(r, o)].data = Data(w.objs[o])
      /\ r.m.bind = w.m.bind /\ r.m.tracked = w.m.tracked /\ r.stored = w.stored
  BY <1>2, CopiedAway
<1> HIDE DEF r
<1>4. Sound(r, L) /\ Extends(w, r) /\ Known(r, o)
  BY <1>3 DEF StoresOnly
<1>5. CurrentFor(r, L)
  <2>1. L \cup {o} = L
    OBVIOUS
  <2>2. CurrentFor(r, L \cup {o})
    BY <1>2, <1>3, StaysCurrent
  <2> QED
    BY <2>1, <2>2
<1>6. Sound(Begin(os), L)
  BY BeginKept DEF Kept
<1>7. Extends(Begin(os), r)
  BY <1>2, <1>4, <1>6, ExtendsTransitive
<1>8. \A p \in L : Known(w, p) => Known(r, p)
  BY <1>2, <1>3, OthersStand
<1>9. ASSUME NEW p \in L
      PROVE  /\ p \in r.m.dirty => p \in mem.dirty \cup Altered(os)
             /\ Known(Begin(os), p) => /\ p \in r.m.off <=> p \in mem.off
                                       /\ p \in r.m.lost <=> p \in mem.lost
  <2>1. /\ r.m.off \ {o} = w.m.off \ {o} /\ r.m.lost \ {o} = w.m.lost \ {o}
        /\ r.m.dirty \ {o} = w.m.dirty \ {o} /\ o \notin r.m.dirty
    BY <1>3 DEF StoresOnly
  <2>2. Known(Begin(os), p) => p # o
    BY <1>1 DEF Kept
  <2>3. p # o => /\ p \in r.m.off <=> p \in w.m.off
                 /\ p \in r.m.lost <=> p \in w.m.lost
                 /\ p \in r.m.dirty <=> p \in w.m.dirty
    BY <2>1
  <2>4. p \in L \ {}
    OBVIOUS
  <2>5. /\ p \in w.m.dirty => p \in mem.dirty \cup Altered(os)
        /\ Known(Begin(os), p) => /\ p \in w.m.off <=> p \in mem.off
                                  /\ p \in w.m.lost <=> p \in mem.lost
    BY <2>4 DEF Kept
  <2> QED
    BY <2>1, <2>2, <2>3, <2>5
<1>10. Kept(r, os, L, {}, {}, {}, names)
  BY <1>2, <1>3, <1>4, <1>5, <1>7, <1>8, <1>9 DEF Kept
<1> QED
  BY <1>2, <1>3, <1>4, <1>10

\* r is w after output o was stored and name x bound, p the frame it is a filter of.
OutputDone(w, r, os, L, O, B, names, o, x, p) ==
  /\ Kept(r, os, L, O \cup {o}, B \cup ({x} \ {None}), {}, names)
  /\ o \notin r.m.dirty /\ r.m.dirty \ {o} = w.m.dirty \ {o} /\ Extends(w, r)
  /\ p = None /\ x # None => r.rows[r.m.bind[x]].data = Data(os[o])

\* One output more is stored, and its name bound.
LEMMA OutputStep ==
  ASSUME Inv, NEW os, NEW names, NEW L, NEW P, NEW C, NEW D, Outcome(os, names, L, P, C, D),
         NEW w, NEW O \in SUBSET L, NEW B \in SUBSET Names,
         Kept(w, os, L, O, B, {}, names),
         NEW o \in L, NEW x \in Names \cup {None}, x # None => names[x] = o,
         NEW at \in Nat \cup {None},
         NEW p, p # None => /\ p \in L \ {o} /\ Known(w, p) /\ os[o].tok = os[p].tok,
         \A y \in B : names[y] = o => w.rows[w.m.bind[y]].data = Data(os[o])
  PROVE  OutputDone(w, OutputKept(w, x, o, at, p), os, L, O, B, names, o, x, p)
<1> DEFINE r == OutputKept(w, x, o, at, p)
           Bx == B \cup ({x} \ {None})
<1>1. /\ Sound(w, L) /\ CurrentFor(w, L) /\ Extends(Begin(os), w) /\ w.stored = O
      /\ w.objs = os
  BY DEF Kept, Extends, Begin
<1>2. p # None => /\ p \in L \ {o} /\ Known(w, p) /\ Right(w, p) /\ w.objs[o].tok = w.objs[p].tok
  BY <1>1 DEF CurrentFor
<1>3. /\ StoresOutput(w, r, L, o)
      /\ x # None => BindsOnly(w, r, x, o)
      /\ x = None => r.m.bind = w.m.bind /\ r.m.tracked = w.m.tracked
      /\ p = None => o \notin Unsure(r)
  BY <1>1, <1>2, OutputKeptSound
<1> HIDE DEF r
<1>4. /\ StoresOnly(w, r, L, o) /\ Right(r, o) /\ r.stored = O \cup {o}
      /\ Sound(r, L) /\ Extends(w, r) /\ Known(r, o) /\ r.objs = os
      /\ r.m.off \ {o} = w.m.off \ {o} /\ r.m.lost \ {o} = w.m.lost \ {o}
      /\ r.m.dirty \ {o} = w.m.dirty \ {o} /\ o \notin r.m.dirty
  BY <1>1, <1>3 DEF StoresOutput, StoresOnly, Extends
<1>5. CurrentFor(r, L)
  <2>1. L \cup {o} = L
    OBVIOUS
  <2>2. CurrentFor(r, L \cup {o})
    BY <1>1, <1>4, StaysCurrent
  <2> QED
    BY <2>1, <2>2
<1>6. Sound(Begin(os), L)
  BY BeginKept DEF Kept
<1>7. Extends(Begin(os), r)
  BY <1>1, <1>4, <1>6, ExtendsTransitive
<1>8. \A q \in L : Known(w, q) => Known(r, q)
  BY <1>1, <1>4, OthersStand
<1>9. ASSUME NEW q \in L \ (O \cup {o})
      PROVE  /\ q \in r.m.dirty => q \in mem.dirty \cup Altered(os)
             /\ Known(Begin(os), q) => /\ q \in r.m.off <=> q \in mem.off
                                       /\ q \in r.m.lost <=> q \in mem.lost
  <2>1. /\ q \in r.m.off <=> q \in w.m.off
        /\ q \in r.m.lost <=> q \in w.m.lost
        /\ q \in r.m.dirty <=> q \in w.m.dirty
    BY <1>4
  <2>2. /\ q \in w.m.dirty => q \in mem.dirty \cup Altered(os)
        /\ Known(Begin(os), q) => /\ q \in w.m.off <=> q \in mem.off
                                  /\ q \in w.m.lost <=> q \in mem.lost
    BY DEF Kept
  <2> QED
    BY <2>1, <2>2
<1>10. \A i \in DOMAIN w.rows : i \in DOMAIN r.rows /\ r.rows[i] = w.rows[i]
  <2>1. /\ Len(w.rows) \in Nat /\ DOMAIN w.rows = 1..Len(w.rows)
        /\ Len(r.rows) \in Nat /\ DOMAIN r.rows = 1..Len(r.rows)
    BY <1>1, <1>4, WorkFacts
  <2> QED
    BY <1>4, <2>1 DEF Extends
<1>11. VersionOf(r, o) \in DOMAIN r.rows
  BY <1>4, VersionExists
<1>12. /\ w.m.bind \in [Names -> Nat \cup {None}]
       /\ w.m.tracked \in [Names -> [obj : Nat \cup {None}, print : Nat \cup {None}]]
  BY <1>1, WorkFacts
<1>13. ASSUME NEW y \in Names, y # x
       PROVE  r.m.bind[y] = w.m.bind[y] /\ r.m.tracked[y] = w.m.tracked[y]
  BY <1>3, <1>12, <1>13 DEF BindsOnly
<1>14. ASSUME x # None
       PROVE  /\ r.m.bind[x] = VersionOf(r, o)
              /\ r.m.tracked[x] = [obj |-> o, print |-> os[o].print]
  BY <1>1, <1>3, <1>12, <1>14 DEF BindsOnly
<1>15. o \notin Unsure(r) => r.rows[VersionOf(r, o)].data = Data(os[o])
  BY <1>4 DEF Right
<1>16. ASSUME NEW y \in Bx
       PROVE  /\ names[y] \in O \cup {o}
              /\ r.m.tracked[y] = [obj |-> names[y], print |-> os[names[y]].print]
              /\ r.m.bind[y] \in DOMAIN r.rows
              /\ names[y] \notin Unsure(r) => r.rows[r.m.bind[y]].data = Data(os[names[y]])
  <2>1. CASE y = x
    <3>1. x # None /\ names[y] = o
      BY <2>1, ArtifactsAssumption DEF Bx
    <3> QED
      BY <1>11, <1>14, <1>15, <2>1, <3>1
  <2>2. CASE y # x
    <3>1. y \in B /\ y \in Names
      BY <2>2
    <3>2. /\ names[y] \in O
          /\ w.m.tracked[y] = [obj |-> names[y], print |-> os[names[y]].print]
          /\ w.m.bind[y] \in DOMAIN w.rows
          /\ names[y] \notin Unsure(w) => w.rows[w.m.bind[y]].data = Data(os[names[y]])
      BY <3>1 DEF Kept
    <3>3. names[y] # o => (names[y] \in Unsure(w) <=> names[y] \in Unsure(r))
      BY <1>4 DEF Unsure
    <3>4. names[y] \notin Unsure(r) => w.rows[w.m.bind[y]].data = Data(os[names[y]])
      BY <3>1, <3>2, <3>3
    <3> QED
      BY <1>10, <1>13, <2>2, <3>1, <3>2, <3>4
  <2> QED
    BY <2>1, <2>2
<1>17. \A y \in Names \ Bx : r.m.bind[y] = mem.bind[y] /\ r.m.tracked[y] = mem.tracked[y]
  <2> SUFFICES ASSUME NEW y \in Names \ Bx
               PROVE  r.m.bind[y] = mem.bind[y] /\ r.m.tracked[y] = mem.tracked[y]
    OBVIOUS
  <2>1. y \in Names \ (B \cup {}) /\ (y # x \/ x = None)
    OBVIOUS
  <2>2. w.m.bind[y] = mem.bind[y] /\ w.m.tracked[y] = mem.tracked[y]
    BY <2>1 DEF Kept
  <2> QED
    BY <1>3, <1>13, <2>1, <2>2
<1>18. Kept(r, os, L, O \cup {o}, Bx, {}, names)
  <2> HIDE DEF Bx
  <2>1. \A q \in L : Known(Begin(os), q) => Known(r, q)
    BY <1>8 DEF Kept
  <2> QED
    BY <1>4, <1>5, <1>7, <1>9, <1>16, <1>17, <2>1 DEF Kept
<1>19. p = None /\ x # None => r.rows[r.m.bind[x]].data = Data(os[o])
  BY <1>3, <1>14, <1>15
<1> QED
  BY <1>4, <1>18, <1>19 DEF OutputDone, r

\* A step that stored its outputs is ready for the refresh.
LEMMA KeptReady ==
  ASSUME Inv, NEW os, NEW names, NEW L, NEW O, NEW B, NEW D, Outcome(os, names, L, O, B, D),
         NEW w, Kept(w, os, L, O, B, D, names)
  PROVE  Ready(w, L, B, (seen \cup B) \ D, names)
<1> DEFINE T == (seen \cup B) \ D
<1>1. /\ Sound(w, L) /\ CurrentFor(w, L) /\ w.stored = O /\ w.objs = os
      /\ \A i \in DOMAIN rows : i \in DOMAIN w.rows /\ w.rows[i] = rows[i]
  <2>1. Sound(w, L) /\ CurrentFor(w, L) /\ w.stored = O /\ Extends(Begin(os), w)
    BY DEF Kept
  <2>2. /\ Len(w.rows) \in Nat /\ DOMAIN w.rows = 1..Len(w.rows)
        /\ Len(rows) \in Nat /\ DOMAIN rows = 1..Len(rows)
    BY <2>1, WorkFacts, Basics
  <2> QED
    BY <2>1, <2>2 DEF Extends, Begin
<1>2. /\ B \subseteq Names /\ D \subseteq Names /\ B \cap D = {} /\ seen \subseteq Names /\ O \subseteq L
      /\ Live \subseteq L
      /\ \A x \in Names \ (B \cup D) : names[x] = ns[x]
      /\ \A p \in DOMAIN objs : os[p].addr = objs[p].addr
      /\ \A p \in L : p \in Live \/ p \notin DOMAIN objs
  BY DEF Outcome, Inv, TypesInv
<1>13. ASSUME NEW x \in Names, mem.tracked[x].obj # None
       PROVE  LET p == mem.tracked[x].obj
              IN  p \in DOMAIN objs /\ (os[p] = objs[p] \/ os[p].print # mem.tracked[x].print)
  <2> DEFINE p == mem.tracked[x].obj
  <2>1. p \in DOMAIN objs /\ mem.tracked[x].print \in Nat /\ mem.tracked[x].print < Fresh
    BY <1>13 DEF Inv, TrackedInv
  <2>2. os[p] = objs[p] \/ os[p].print >= Fresh
    BY <2>1 DEF Outcome
  <2>3. p \in DOMAIN os /\ os \in Seq(Object)
    <3>1. /\ os \in Seq(Object) /\ Len(os) \in Nat /\ DOMAIN os = 1..Len(os)
          /\ Len(objs) <= Len(os)
      BY DEF Outcome
    <3> QED
      BY <2>1, <3>1, Basics
  <2>4. os[p] \in Object
    BY <2>3
  <2>5. os[p].print \in Nat /\ Fresh \in Nat
    BY <2>4, Basics DEF Object
  <2>6. os[p].print >= Fresh => os[p].print # mem.tracked[x].print
    BY <2>1, <2>5
  <2> QED
    BY <2>1, <2>2, <2>6
<1>3. /\ B \subseteq T /\ T \subseteq Names /\ \A x \in T \ B : x \in seen /\ x \notin B \cup D /\ x \in Names
  BY <1>2
<1>4. /\ \A x \in Names \ (B \cup D) : w.m.bind[x] = mem.bind[x] /\ w.m.tracked[x] = mem.tracked[x]
      /\ \A x \in B : /\ names[x] \in O
                      /\ w.m.tracked[x] = [obj |-> names[x], print |-> os[names[x]].print]
                      /\ w.m.bind[x] \in DOMAIN w.rows
                      /\ names[x] \notin Unsure(w) => w.rows[w.m.bind[x]].data = Data(os[names[x]])
      /\ \A x \in D : w.m.tracked[x].obj = None /\ w.m.bind[x] = None
  BY DEF Kept
<1>12. \A x \in B : /\ names[x] \in O /\ w.m.tracked[x].obj = names[x]
                    /\ w.m.tracked[x].print = os[names[x]].print
                    /\ w.m.bind[x] \in DOMAIN w.rows
  <2> SUFFICES ASSUME NEW x \in B
               PROVE  /\ names[x] \in O /\ w.m.tracked[x].obj = names[x]
                      /\ w.m.tracked[x].print = os[names[x]].print
                      /\ w.m.bind[x] \in DOMAIN w.rows
    OBVIOUS
  <2>1. /\ names[x] \in O /\ w.m.bind[x] \in DOMAIN w.rows
        /\ w.m.tracked[x] = [obj |-> names[x], print |-> os[names[x]].print]
    BY <1>4, Zenon
  <2> QED
    BY <2>1
<1>5. Agree(w, TrackedNames(w, B))
  <2>1. \A x \in TrackedNames(w, B) : /\ x \in Names /\ w.m.tracked[x] = mem.tracked[x]
                                      /\ mem.tracked[x].obj # None
    BY <1>4 DEF TrackedNames
  <2>2. \A x, y \in {x \in Names : mem.tracked[x].obj # None} :
          mem.tracked[x].obj = mem.tracked[y].obj => mem.tracked[x].print = mem.tracked[y].print
    BY DEF Inv, TrackedInv, Agree, Here
  <2> QED
    BY <2>1, <2>2 DEF Agree
<1>6. ASSUME NEW x \in Names, w.m.tracked[x].obj \in L, w.m.tracked[x].obj \in w.m.dirty
      PROVE  \/ w.m.tracked[x].obj \in w.stored
             \/ w.m.tracked[x].print # w.objs[w.m.tracked[x].obj].print
  <2> DEFINE o == w.m.tracked[x].obj
  <2>1. o # None
    BY <1>1, <1>6, WorkFacts, ArtifactsAssumption
  <2>2. CASE x \in B
    BY <1>1, <1>12, <2>2
  <2>3. CASE x \in D
    BY <1>4, <2>1, <2>3
  <2>4. CASE x \notin B \cup D /\ o \notin O
    <3>1. o = mem.tracked[x].obj /\ w.m.tracked[x] = mem.tracked[x]
      BY <1>4, <2>4
    <3>2. o \in mem.dirty \/ os[o] # objs[o]
      BY <1>6, <2>4 DEF Kept, Altered
    <3>3. os[o] = objs[o] \/ os[o].print # mem.tracked[x].print
      BY <1>13, <2>1, <3>1
    <3>4. o \in mem.dirty => mem.tracked[x].print # objs[o].print
      BY <2>1, <3>1 DEF Inv, TrackedInv
    <3> QED
      BY <1>1, <3>1, <3>2, <3>3, <3>4
  <2> QED
    BY <1>1, <2>2, <2>3, <2>4
<1>7. ASSUME NEW x \in T \ B
      PROVE  /\ names[x] = ns[x] /\ names[x] \in L /\ names[x] \in Live
             /\ w.m.tracked[x] = mem.tracked[x] /\ mem.tracked[x].obj = names[x]
             /\ w.m.bind[x] = mem.bind[x] /\ mem.bind[x] \in DOMAIN rows
             /\ Known(Begin(os), names[x]) /\ Known(w, names[x])
  <2>1. /\ names[x] = ns[x] /\ x \in seen /\ x \in Names
        /\ w.m.bind[x] = mem.bind[x] /\ w.m.tracked[x] = mem.tracked[x]
    BY <1>2, <1>3, <1>4
  <2>2. ns[x] # None /\ mem.tracked[x].obj = ns[x] /\ mem.bind[x] # None /\ Known(Here, ns[x])
    BY <2>1 DEF Inv, ToldInv
  <2>3. ns[x] \in Live /\ ns[x] \in DOMAIN objs /\ ns[x] \in L
    BY <1>2, <2>1, <2>2, Basics
  <2>4. mem.bind[x] \in DOMAIN rows
    BY <2>1, <2>2, Basics DEF Sound, Here
  <2>5. Known(Begin(os), ns[x])
    <3>1. os \in Seq(Object)
      BY DEF Outcome
    <3>2. Begin(os).m.reg = mem.reg /\ Begin(os).objs = os
      BY <3>1, BeginFacts
    <3> QED
      BY <1>2, <2>2, <2>3, <3>2 DEF Known, Here
  <2>6. Known(w, ns[x])
    BY <2>3, <2>5 DEF Kept
  <2> QED
    BY <2>1, <2>2, <2>3, <2>4, <2>5, <2>6
<1>8. ASSUME NEW x \in T
      PROVE  /\ names[x] \in L /\ w.m.tracked[x].obj = names[x]
             /\ w.m.bind[x] \in DOMAIN w.rows /\ Known(w, names[x])
  <2>1. CASE x \in B
    <3>1. names[x] \in w.stored
      BY <1>1, <1>12, <2>1
    <3>2. Known(w, names[x])
      BY <1>1, <3>1 DEF Sound
    <3> QED
      BY <1>1, <1>2, <1>12, <2>1, <3>1, <3>2
  <2>2. CASE x \notin B
    BY <1>1, <1>7, <2>2
  <2> QED
    BY <2>1, <2>2
<1>9. ASSUME NEW x \in T \ B, names[x] \notin w.stored \cup w.m.off \cup w.m.lost,
             w.m.tracked[x].print = w.objs[names[x]].print
      PROVE  w.rows[w.m.bind[x]].data = Data(w.objs[names[x]])
  <2> DEFINE o == names[x]
  <2>1. o \in L \ O /\ o \in Live /\ o \in DOMAIN objs /\ Known(Begin(os), o)
    BY <1>1, <1>7, <1>9, Basics
  <2>6. mem.tracked[x].obj = o /\ o # None /\ x \in Names
    BY <1>3, <1>7, <2>1, Basics
  <2>2. os[o] = objs[o]
    BY <1>1, <1>7, <1>9, <1>13, <2>6
  <2>3. o \notin mem.off \cup mem.lost
    BY <1>9, <2>1 DEF Kept
  <2>4. mem.tracked[x].print = objs[o].print
    BY <1>1, <1>7, <1>9, <2>2
  <2>5. rows[mem.bind[x]].data = Data(objs[o])
    BY <1>3, <1>7, <2>3, <2>4 DEF Inv, ToldInv
  <2> QED
    BY <1>1, <1>7, <2>2, <2>5
<1>10. ASSUME NEW x \in B
       PROVE  /\ w.m.tracked[x].print = w.objs[names[x]].print
              /\ names[x] \in w.stored
              /\ names[x] \notin Unsure(w) => w.rows[w.m.bind[x]].data = Data(w.objs[names[x]])
  <2>1. names[x] \notin Unsure(w) => w.rows[w.m.bind[x]].data = Data(os[names[x]])
    BY <1>4
  <2> QED
    BY <1>1, <1>12, <2>1
<1> HIDE DEF T
<1>11. Ready(w, L, B, T, names)
  BY <1>1, <1>3, <1>5, <1>6, <1>8, <1>9, <1>10 DEF Ready
<1> QED
  BY <1>11 DEF T

\* q is r, but versions of the objects O that are not theirs are remembered as such.
Settles(r, q, O) ==
  /\ q \in Work /\ q.rows = r.rows /\ q.objs = r.objs /\ q.stored = r.stored /\ q.touched = r.touched
  /\ q.m.reg = r.m.reg /\ q.m.latest = r.m.latest /\ q.m.bind = r.m.bind
  /\ q.m.tracked = r.m.tracked /\ q.m.lost = r.m.lost
  /\ q.m.off = r.m.off \cup (O \cap r.m.dirty) /\ q.m.dirty = r.m.dirty \ O

\* What a recorded step leaves behind.
LEMMA KeptResult ==
  ASSUME Inv, NEW os, NEW names, NEW L, NEW O, NEW B, NEW D, Outcome(os, names, L, O, B, D),
         NEW w, Kept(w, os, L, O, B, D, names),
         NEW r, Settled(w, r, L, (seen \cup B) \ D, names),
         NEW q, Settles(r, q, O)
  PROVE  Result(q, L, names, (seen \cup B) \ D, D)
<1> DEFINE T == (seen \cup B) \ D
           fresh == 2 * (Len(os) + plain + Len(states) + 1) + 1
<1>1. Settled(w, r, L, T, names)
  OBVIOUS
<1>2. /\ Sound(r, L) /\ CurrentFor(r, L) /\ Extends(w, r)
      /\ \A x \in T : Bound(r, x, names[x])
  BY <1>1 DEF Settled
<1>3. /\ Sound(w, L) /\ w.stored = O /\ Extends(Begin(os), w)
  BY DEF Kept
<1>4. Sound(Begin(os), L)
  BY BeginKept DEF Kept
<1>5. Extends(Begin(os), r)
  BY <1>2, <1>3, <1>4, ExtendsTransitive
<1>6. /\ q.objs = os /\ Len(rows) <= Len(q.rows) /\ \A i \in DOMAIN rows : q.rows[i] = rows[i]
      /\ w.objs = os /\ r.objs = os
  BY <1>3, <1>5 DEF Extends, Begin, Settles
<1>7. /\ names \in [Names -> Nat \cup {None}] /\ Len(objs) <= Len(os)
      /\ \A p \in DOMAIN os : os[p].print < 2 * (Len(os) + plain + Len(states) + 1) + 1
      /\ \A x \in Names : names[x] \in L \cup {None}
      /\ B \subseteq Names /\ D \subseteq Names
      /\ O \subseteq L /\ L \subseteq DOMAIN os
  BY DEF Outcome, Apart
<1>8. /\ {names[x] : x \in Names} \subseteq L \cup {None} /\ T \subseteq Names
      /\ \A x \in Names \ (T \cup D) : x \notin seen /\ x \notin B \cup D
      /\ \A x \in D : x \notin T /\ x \in Names
      /\ \A x \in T : x \in seen \/ x \in B
  BY <1>7 DEF Inv, TypesInv
<1>9. Sound(q, L)
  BY <1>2 DEF Settles, Sound, Known
<1>10. ASSUME NEW o, o \notin Unsure(q)
       PROVE  o \notin Unsure(r)
  BY <1>10 DEF Settles, Unsure
<1>11. CurrentFor(q, L)
  <2> SUFFICES ASSUME NEW o \in L, Known(q, o), o \notin Unsure(q)
               PROVE  q.rows[VersionOf(q, o)].data = Data(q.objs[o])
    BY DEF CurrentFor, Right
  <2>1. Known(r, o) /\ VersionOf(r, o) = VersionOf(q, o)
    BY DEF Known, VersionOf, Settles
  <2>2. r.rows[VersionOf(r, o)].data = Data(r.objs[o])
    BY <1>2, <1>10, <2>1 DEF CurrentFor, Right
  <2> QED
    BY <2>1, <2>2 DEF Settles
<1>12. ASSUME NEW x \in Names, q.m.tracked[x].obj # None
       PROVE  LET o == q.m.tracked[x].obj
              IN  /\ o \in DOMAIN q.objs /\ q.m.tracked[x].print = q.objs[o].print
                  /\ o \notin q.m.dirty
  <2> DEFINE o == q.m.tracked[x].obj
  <2>1. q.m.tracked[x] = r.m.tracked[x] /\ q.m.dirty = r.m.dirty \ O
    BY DEF Settles
  <2>2. o \in L /\ r.m.tracked[x].print = w.objs[o].print /\ (o \in r.m.dirty => o \in w.stored)
    BY <1>1, <1>12, <2>1 DEF Settled
  <2> QED
    BY <1>3, <1>6, <1>7, <2>1, <2>2
<1>13. ASSUME NEW x \in T
       PROVE  names[x] # None /\ Bound(q, x, names[x])
  <2>1. Bound(r, x, names[x])
    BY <1>2
  <2>2. Bound(q, x, names[x])
    BY <1>10, <2>1 DEF Bound, Settles, Known
  <2>3. names[x] # None
    <3>1. CASE x \in seen /\ x \notin B
      <4>1. names[x] = ns[x]
        BY <1>8, <3>1 DEF Outcome
      <4> QED
        BY <3>1, <4>1 DEF Inv, ToldInv
    <3>2. CASE x \in B
      <4>1. names[x] \in L
        BY <1>7, <3>2 DEF Outcome
      <4> QED
        BY <1>2, <4>1, WorkFacts, ArtifactsAssumption
    <3> QED
      BY <1>8, <3>1, <3>2
  <2> QED
    BY <2>2, <2>3
<1>14. ASSUME NEW x \in Names \ (T \cup D)
       PROVE  /\ x \notin seen
              /\ mem.tracked[x].obj = None => q.m.tracked[x].obj = None /\ q.m.bind[x] = mem.bind[x]
  <2>1. x \notin seen /\ x \in Names \ (B \cup D) /\ x \in Names \ T
    BY <1>8
  <2>2. w.m.bind[x] = mem.bind[x] /\ w.m.tracked[x] = mem.tracked[x]
    BY <2>1 DEF Kept
  <2>3. w.m.tracked[x].obj = None => r.m.tracked[x].obj = None /\ r.m.bind[x] = w.m.bind[x]
    BY <1>1, <2>1 DEF Settled
  <2> QED
    BY <2>1, <2>2, <2>3 DEF Settles
<1>15. ASSUME NEW x \in D
       PROVE  x \notin T /\ q.m.tracked[x].obj = None /\ q.m.bind[x] = None
  <2>1. x \in Names \ T
    BY <1>8
  <2>2. w.m.tracked[x].obj = None /\ w.m.bind[x] = None
    BY DEF Kept
  <2>3. r.m.tracked[x].obj = None /\ r.m.bind[x] = w.m.bind[x]
    BY <1>1, <2>1, <2>2 DEF Settled
  <2> QED
    BY <2>1, <2>2, <2>3 DEF Settles
<1> HIDE DEF T
<1>17. Result(q, L, names, T, D)
  BY <1>6, <1>7, <1>8, <1>9, <1>11, <1>12, <1>13, <1>14, <1>15 DEF Result
<1> QED
  BY <1>17 DEF T

\* A recorded step keeps the invariant.
LEMMA StepInv ==
  ASSUME Inv, NEW os, NEW names, NEW L, NEW O, NEW B, NEW D, Outcome(os, names, L, O, B, D),
         NEW w, Kept(w, os, L, O, B, D, names), O \cap w.m.dirty = {},
         NEW w1, Sound(w1, L), Extends(w1, w), NEW args, GivenIn(w1, args),
         NEW line \in Names \cup {None}, NEW label \in BOOLEAN,
         Done(Linked(Refreshed(w, B, L), Len(states) + 1, None), names, (seen \cup B) \ D, D, args, line, label)
  PROVE  Inv'
<1> DEFINE T == (seen \cup B) \ D
           r == Linked(Refreshed(w, B, L), Len(states) + 1, None)
<1>1. Ready(w, L, B, T, names)
  BY KeptReady
<1>2. Len(states) + 1 \in Nat
  BY Basics
<1>3. Done(r, names, T, D, args, line, label)
  OBVIOUS
<1> HIDE DEF T
<1>4. Settled(w, r, L, T, names)
  BY <1>1, <1>2, FinishedSound
<1> HIDE DEF r
<1>5. Settled(w, r, L, T, names) /\ w.stored = O /\ Sound(w, L)
  BY <1>4 DEF Kept
<1>6. Sound(r, L) /\ Extends(w, r) /\ \A o \in O : o \notin r.m.dirty
  BY <1>5 DEF Settled
<1>7. Settles(r, r, O)
  <2>1. O \cap r.m.dirty = {} /\ r \in Work
    BY <1>6 DEF Sound
  <2> QED
    BY <2>1 DEF Settles
<1>8. Result(r, L, names, T, D)
  BY <1>4, <1>7, KeptResult DEF T
<1>9. GivenIn(r, args)
  <2>1. Extends(w1, r)
    BY <1>5, <1>6, ExtendsTransitive
  <2>2. \A i \in DOMAIN w1.rows : i \in DOMAIN r.rows /\ r.rows[i] = w1.rows[i]
    <3>1. /\ Len(w1.rows) \in Nat /\ DOMAIN w1.rows = 1..Len(w1.rows)
          /\ Len(r.rows) \in Nat /\ DOMAIN r.rows = 1..Len(r.rows)
      BY <1>6, WorkFacts
    <3> QED
      BY <2>1, <3>1 DEF Extends
  <2> QED
    BY <2>2 DEF GivenIn
<1> QED
  BY <1>3, <1>8, <1>9, ResultInv

\* A frame passed to the call has a version when the outputs are stored, and the
\* step's parameter names it.
LEMMA InputsStep ==
  ASSUME Inv, NEW os, NEW names, NEW L, NEW P, NEW C, NEW D, Outcome(os, names, L, P, C, D),
         NEW args, args = <<>> \/ \E o \in Live : args = <<o>>
  PROVE  LET w == InputsKept(Begin(os), args)
         IN  /\ Kept(w, os, L, {}, {}, {}, names)
             /\ GivenIn(w, Args(w, args, Altered(os)))
             /\ \A o \in Live : args = <<o>> => Known(w, o)
<1> DEFINE b == Begin(os)
           w == InputsKept(b, args)
<1>1. Kept(b, os, L, {}, {}, {}, names)
  BY BeginKept
<1>2. CASE args = <<>>
  <2>1. w = b
    BY <1>2, NoInput
  <2> HIDE DEF w
  <2>2. Args(w, args, Altered(os)) = <<>>
    BY <1>2 DEF Args
  <2>3. GivenIn(w, Args(w, args, Altered(os)))
    BY <2>2 DEF GivenIn
  <2>4. \A o \in Live : args # <<o>>
    BY <1>2
  <2> QED
    BY <1>1, <2>1, <2>3, <2>4 DEF w
<1>3. ASSUME NEW o \in Live, args = <<o>>
      PROVE  /\ Kept(w, os, L, {}, {}, {}, names)
             /\ GivenIn(w, Args(w, args, Altered(os))) /\ Known(w, o)
  <2>1. w = IF Known(b, o) THEN b ELSE Copied(b, o, None)
    BY <1>3, OneInput
  <2> HIDE DEF w, b
  <2>2. /\ o \in L /\ o \in DOMAIN objs /\ o \in Nat /\ objs[o] \in Object
        /\ os[o].addr = objs[o].addr
    BY Basics DEF Outcome
  <2>3. /\ Kept(w, os, L, {}, {}, {}, names) /\ Known(w, o)
        /\ ~ Known(b, o) => w.rows[VersionOf(w, o)].data = Data(os[o])
    <3>1. InputDone(b, w, os, L, names, o)
      BY <1>1, <2>1, <2>2, InputKept
    <3> QED
      BY <3>1 DEF InputDone
  <2>5. /\ Sound(w, L) /\ Extends(b, w)
    BY <2>3 DEF Kept, b
  <2>6. VersionOf(w, o) \in DOMAIN w.rows /\ VersionOf(w, o) \in Nat
    BY <2>2, <2>3, <2>5, VersionExists
  <2> DEFINE sure == /\ o \notin mem.off \cup mem.lost \cup mem.dirty
                     /\ Known(Begin(objs), o) \/ o \notin Altered(os)
  <2> DEFINE g == [ver |-> VersionOf(w, o), was |-> Data(objs[o]), sure |-> sure]
             gs == Args(w, args, Altered(os))
  <2>7. DOMAIN gs = 1..1 /\ gs = [i \in 1..1 |-> gs[i]] /\ gs[1] = g
    <3>1. DOMAIN args = 1..1 /\ args[1] = o
      BY <1>3
    <3> DEFINE A(q) == [ver |-> VersionOf(w, q), was |-> Data(objs[q]),
                        sure |-> /\ q \notin mem.off \cup mem.lost \cup mem.dirty
                                 /\ Known(Begin(objs), q) \/ q \notin Altered(os)]
    <3>2. gs = [i \in DOMAIN args |-> A(args[i])]
      BY Zenon DEF Args
    <3>3. g = A(o)
      OBVIOUS
    <3> HIDE DEF A, g, gs
    <3> QED
      BY <3>1, <3>2, <3>3
  <2>8. ASSUME sure
        PROVE  w.rows[VersionOf(w, o)].data = Data(objs[o])
    <3>1. CASE Known(b, o)
      <4>1. Known(Here, o) /\ VersionOf(b, o) = VersionOf(Here, o) /\ w = b
        BY <2>1, <2>2, <3>1, KnownBefore DEF b
      <4>2. CurrentFor(Here, Live) /\ o \notin Unsure(Here)
        BY <2>8 DEF Inv, RegistryInv, Unsure, Here
      <4>4. w.rows = rows
        <5>1. os \in Seq(Object)
          BY DEF Outcome
        <5>2. b.rows = rows
          BY <5>1, BeginFacts DEF b
        <5> QED
          BY <4>1, <5>2
      <4>3. Here.rows[VersionOf(Here, o)].data = Data(Here.objs[o])
        BY <4>1, <4>2 DEF CurrentFor, Right
      <4> QED
        BY <4>1, <4>3, <4>4 DEF Here
    <3>2. CASE ~ Known(b, o)
      <4>1. ~ Known(Begin(objs), o)
        <5>1. os \in Seq(Object)
          BY DEF Outcome
        <5>2. b.m.reg = mem.reg /\ b.objs = os
          BY <5>1, BeginFacts DEF b
        <5>3. Begin(objs) = Here
          BY BeginHere
        <5> QED
          BY <2>2, <3>2, <5>2, <5>3 DEF Known, Here
      <4>2. os[o] = objs[o]
        BY <2>2, <2>8, <4>1 DEF Altered
      <4> QED
        BY <2>3, <3>2, <4>2
    <3> QED
      BY <3>1, <3>2
  <2>9. Data(objs[o]) \in Content /\ sure \in BOOLEAN
    BY <2>2 DEF Data, Content, Object
  <2>10. g \in Arg /\ g.ver = VersionOf(w, o) /\ g.was = Data(objs[o]) /\ g.sure = sure
    <3> HIDE DEF sure
    <3> QED
      BY <2>6, <2>9 DEF Arg
  <2> HIDE DEF sure, g, gs
  <2>11. GivenIn(w, gs)
    <3>1. gs \in Seq(Arg)
      <4>1. \A i \in 1..1 : gs[i] \in Arg
        BY <2>7, <2>10
      <4>2. [i \in 1..1 |-> gs[i]] \in Seq(Arg)
        BY <4>1, IsASeq
      <4> QED
        BY <2>7, <4>2
    <3>2. \A i \in DOMAIN gs : i = 1
      BY <2>7
    <3> QED
      BY <2>6, <2>7, <2>8, <2>10, <3>1, <3>2 DEF GivenIn
  <2> QED
    BY <2>3, <2>11 DEF gs
<1> HIDE DEF w
<1>4. CASE \E o \in Live : args = <<o>>
  <2>1. PICK o \in Live : args = <<o>>
    BY <1>4
  <2>2. \A p \in Live : args = <<p>> => p = o
    BY <2>1
  <2> QED
    BY <1>3, <2>1, <2>2 DEF w
<1> QED
  BY <1>2, <1>4 DEF w

\* A step with one output, which is stored.
LEMMA RecordedOne ==
  ASSUME Inv, NEW os, NEW names, NEW o, NEW x \in Names \cup {None},
         Outcome(os, names, Live \cup {o}, {o}, {x} \ {None}, {}),
         NEW args, args = <<>> \/ \E q \in Live : args = <<q>>,
         NEW p, p # None => p \in Live \ {o} /\ args = <<p>> /\ os[o].tok = os[p].tok,
         NEW line \in Names \cup {None},
         Recorded(os, names, args, <<<<x, o>>>>, p, TRUE, line)
  PROVE  Inv'
<1> DEFINE L == Live \cup {o}
           B == {x} \ {None}
           outs == <<<<x, o>>>>
           s == Len(states) + 1
           w1 == InputsKept(Begin(os), args)
           w == OutputKept(w1, x, o, s, p)
           label == \E i \in DOMAIN outs : outs[i][1] = None
           given == Args(w1, args, Altered(os))
<1>1. DOMAIN outs = {1} /\ outs[1][1] = x /\ outs[1][2] = o
  OBVIOUS
<1>2. OutputsKept(w1, outs, s, p) = w
  BY <1>1, OneOutput
<1>3. {outs[i][1] : i \in DOMAIN outs} \ {None} = B /\ Live \cup {outs[i][2] : i \in DOMAIN outs} = L
  BY <1>1
<1>4. Done(Linked(Refreshed(w, B, L), s, None), names, seen \cup B, {}, given, line, label)
  <2> HIDE DEF outs, w, L, B, given, s, w1
  <2> USE DEF s, w1, given
  <2>1. Recorded(os, names, args, outs, p, TRUE, line)
    BY DEF outs
  <2> QED
    BY <1>2, <1>3, <2>1 DEF Recorded
<1>13. label \in BOOLEAN
  OBVIOUS
<1> HIDE DEF outs, label
<1>5. Outcome(os, names, L, {o}, B, {}) /\ o \in L
  OBVIOUS
<1> HIDE DEF L, B
<1>6. /\ Kept(w1, os, L, {}, {}, {}, names) /\ GivenIn(w1, given)
      /\ \A q \in Live : args = <<q>> => Known(w1, q)
  BY <1>5, InputsStep
<1> HIDE DEF w1, given
<1>7. /\ x # None => names[x] = o
      /\ s \in Nat \cup {None}
      /\ p # None => /\ p \in L \ {o} /\ Known(w1, p) /\ os[o].tok = os[p].tok
      /\ {} \in SUBSET L /\ {} \in SUBSET Names
  <2>1. x # None => names[x] \in {o}
    BY DEF Outcome
  <2>2. s \in Nat
    BY Basics
  <2> QED
    BY <1>6, <2>1, <2>2 DEF L
<1> HIDE DEF s
<1>8. /\ Kept(w, os, L, {} \cup {o}, {} \cup ({x} \ {None}), {}, names)
      /\ o \notin w.m.dirty /\ Extends(w1, w)
  <2>1. OutputDone(w1, w, os, L, {}, {}, names, o, x, p)
    BY <1>5, <1>6, <1>7, OutputStep
  <2> HIDE DEF w
  <2> QED
    BY <2>1 DEF OutputDone
<1> HIDE DEF w
<1>9. {} \cup {o} = {o} /\ {} \cup ({x} \ {None}) = B /\ (seen \cup B) \ {} = seen \cup B
  BY DEF B
<1>10. Kept(w, os, L, {o}, B, {}, names)
  BY <1>8, <1>9
<1>11. Sound(w1, L) /\ {o} \cap w.m.dirty = {}
  BY <1>6, <1>8 DEF Kept
<1>12. Done(Linked(Refreshed(w, B, L), Len(states) + 1, None), names, (seen \cup B) \ {}, {}, given, line, label)
  BY <1>4, <1>9 DEF s
<1> QED
  BY <1>5, <1>6, <1>8, <1>10, <1>11, <1>12, <1>13, StepInv

\* Names that lose their binding and tracking.
LEMMA PoppedSound ==
  ASSUME NEW w, NEW L, Sound(w, L), NEW D
  PROVE  LET r == Popped(w, D)
         IN  /\ Sound(r, L) /\ r.rows = w.rows /\ r.objs = w.objs
             /\ r.stored = w.stored /\ r.touched = w.touched
             /\ r.m.reg = w.m.reg /\ r.m.latest = w.m.latest
             /\ r.m.off = w.m.off /\ r.m.lost = w.m.lost /\ r.m.dirty = w.m.dirty
             /\ r.m.bind = [x \in Names |-> IF x \in D THEN None ELSE w.m.bind[x]]
             /\ r.m.tracked = [x \in Names |-> IF x \in D THEN Untracked ELSE w.m.tracked[x]]
<1> DEFINE r == Popped(w, D)
           bind == [x \in Names |-> IF x \in D THEN None ELSE w.m.bind[x]]
           tracked == [x \in Names |-> IF x \in D THEN Untracked ELSE w.m.tracked[x]]
           n == [w.m EXCEPT !.bind = bind, !.tracked = tracked]
<1>1. w \in Work /\ w.m \in Memory
  BY WorkFacts
<1>2. /\ bind \in [Names -> Nat \cup {None}]
      /\ tracked \in [Names -> [obj : Nat \cup {None}, print : Nat \cup {None}]]
  BY WorkFacts DEF Untracked
<1>3. r = [w EXCEPT !.m = n]
  BY <1>1 DEF Work, Memory, Popped
<1>4. \A x \in Names : bind[x] \in DOMAIN w.rows \cup {None}
  BY DEF Sound
<1> HIDE DEF r, tracked, bind
<1>5. n \in Memory /\ n.reg = w.m.reg /\ n.latest = w.m.latest /\ n.bind = bind
      /\ n.off = w.m.off /\ n.lost = w.m.lost /\ n.dirty = w.m.dirty /\ n.tracked = tracked
  BY <1>1, <1>2 DEF Memory
<1> HIDE DEF n
<1>6. r \in Work /\ r.m = n /\ r.rows = w.rows /\ r.objs = w.objs /\ r.stored = w.stored /\ r.touched = w.touched
  BY <1>1, <1>3, <1>5 DEF Work
<1>7. Sound(r, L)
  BY <1>4, <1>5, <1>6 DEF Sound, Known
<1> QED
  BY <1>5, <1>6, <1>7 DEF r, tracked, bind

\* The outputs of a step are not stored.
LEMMA PoppedKept ==
  ASSUME NEW os, NEW names, NEW L, NEW w, Kept(w, os, L, {}, {}, {}, names), NEW D \in SUBSET Names
  PROVE  Kept(Popped(w, D), os, L, {}, {}, D, names) /\ Extends(w, Popped(w, D))
<1> DEFINE r == Popped(w, D)
<1>1. Sound(w, L) /\ CurrentFor(w, L) /\ Extends(Begin(os), w)
  BY DEF Kept
<1>2. /\ Sound(r, L) /\ r.rows = w.rows /\ r.objs = w.objs
      /\ r.stored = w.stored /\ r.m.reg = w.m.reg
      /\ r.m.off = w.m.off /\ r.m.lost = w.m.lost /\ r.m.dirty = w.m.dirty
      /\ r.m.bind = [x \in Names |-> IF x \in D THEN None ELSE w.m.bind[x]]
      /\ r.m.tracked = [x \in Names |-> IF x \in D THEN Untracked ELSE w.m.tracked[x]]
  BY <1>1, PoppedSound
<1> HIDE DEF r
<1>3. Extends(w, r) /\ Extends(Begin(os), r)
  BY <1>1, <1>2, WorkFacts DEF Extends
<1>4. CurrentFor(r, L)
  BY <1>1, <1>2 DEF CurrentFor, Right, Known, VersionOf, Unsure
<1>5. \A p \in L : Known(Begin(os), p) => Known(r, p)
  BY <1>2 DEF Kept, Known
<1>6. \A x \in D : r.m.tracked[x].obj = None /\ r.m.bind[x] = None
  BY <1>2 DEF Untracked
<1>7. \A x \in Names \ ({} \cup D) : r.m.bind[x] = mem.bind[x] /\ r.m.tracked[x] = mem.tracked[x]
  BY <1>2 DEF Kept
<1>8. Kept(r, os, L, {}, {}, D, names)
  BY <1>2, <1>3, <1>4, <1>5, <1>6, <1>7 DEF Kept
<1> QED
  BY <1>3, <1>8 DEF r

\* A step whose outputs are not stored, whatever it altered.
LEMMA RecordedNone ==
  ASSUME Inv, NEW os, NEW names, NEW outs, NEW D,
         D = {outs[i][1] : i \in DOMAIN outs} \ {None},
         Outcome(os, names, Live \cup {outs[i][2] : i \in DOMAIN outs}, {}, {}, D),
         NEW args, args = <<>> \/ \E q \in Live : args = <<q>>,
         NEW parent, NEW line \in Names \cup {None},
         Recorded(os, names, args, outs, parent, FALSE, line)
  PROVE  Inv'
<1> DEFINE L == Live \cup {outs[i][2] : i \in DOMAIN outs}
           s == Len(states) + 1
           w1 == InputsKept(Begin(os), args)
           w == Popped(w1, D)
           given == Args(w1, args, Altered(os))
<1>3. Done(Linked(Refreshed(w, {}, L), s, None), names, seen \ D, D, given, line, FALSE)
  BY Zenon DEF Recorded
<1>4. Outcome(os, names, L, {}, {}, D) /\ D \in SUBSET Names
  BY DEF Outcome
<1> HIDE DEF L
<1>5. Kept(w1, os, L, {}, {}, {}, names) /\ GivenIn(w1, given)
  BY <1>4, InputsStep
<1> HIDE DEF w1, given
<1>6. (seen \cup {}) \ D = seen \ D
  OBVIOUS
<1>8. Kept(w, os, L, {}, {}, D, names) /\ Extends(w1, w)
  BY <1>4, <1>5, PoppedKept
<1> HIDE DEF w
<1>9. Sound(w1, L) /\ {} \cap w.m.dirty = {}
  BY <1>5 DEF Kept
<1>10. Done(Linked(Refreshed(w, {}, L), Len(states) + 1, None), names, (seen \cup {}) \ D, D, given, line, FALSE)
  BY <1>3, <1>6 DEF s
<1>11. FALSE \in BOOLEAN
  OBVIOUS
<1> QED
  BY <1>4, <1>5, <1>8, <1>9, <1>10, <1>11, StepInv

\* One output, which is not stored.
LEMMA UnstoredOne ==
  ASSUME Inv, NEW os, NEW names, NEW o, NEW x \in Names \cup {None},
         Outcome(os, names, Live \cup {o}, {}, {}, {x} \ {None}),
         NEW args, args = <<>> \/ \E q \in Live : args = <<q>>,
         NEW parent, NEW line \in Names \cup {None},
         Recorded(os, names, args, <<<<x, o>>>>, parent, FALSE, line)
  PROVE  Inv'
<1> DEFINE outs == <<<<x, o>>>>
           D == {x} \ {None}
<1>1. DOMAIN outs = {1} /\ outs[1][1] = x /\ outs[1][2] = o
  OBVIOUS
<1>2. D = {outs[i][1] : i \in DOMAIN outs} \ {None} /\ {o} = {outs[i][2] : i \in DOMAIN outs}
  BY <1>1
<1>3. Recorded(os, names, args, outs, parent, FALSE, line)
  OBVIOUS
<1>4. Outcome(os, names, Live \cup {outs[i][2] : i \in DOMAIN outs}, {}, {}, D)
  BY <1>2
<1> HIDE DEF outs, D
<1> QED
  BY <1>2, <1>3, <1>4, RecordedNone

\* Two outputs, which are not stored.
LEMMA UnstoredTwo ==
  ASSUME Inv, NEW os, NEW names, NEW o, NEW p, NEW x \in Names, NEW y \in Names,
         Outcome(os, names, Live \cup {o, p}, {}, {}, {x, y}),
         NEW args, args = <<>> \/ \E q \in Live : args = <<q>>,
         NEW parent, NEW line \in Names \cup {None},
         Recorded(os, names, args, <<<<x, o>>, <<y, p>>>>, parent, FALSE, line)
  PROVE  Inv'
<1> DEFINE outs == <<<<x, o>>, <<y, p>>>>
           D == {x, y}
<1>1. DOMAIN outs = {1, 2} /\ outs[1][1] = x /\ outs[1][2] = o /\ outs[2][1] = y /\ outs[2][2] = p
  OBVIOUS
<1>2. {outs[i][1] : i \in DOMAIN outs} = D /\ {outs[i][2] : i \in DOMAIN outs} = {o, p}
  BY <1>1
<1>3. Recorded(os, names, args, outs, parent, FALSE, line)
  OBVIOUS
<1>4. Outcome(os, names, Live \cup {outs[i][2] : i \in DOMAIN outs}, {}, {}, D)
  BY <1>2
<1>5. D \ {None} = D
  BY ArtifactsAssumption
<1>6. D = {outs[i][1] : i \in DOMAIN outs} \ {None}
  BY <1>2, <1>5
<1> HIDE DEF outs, D
<1> QED
  BY <1>3, <1>4, <1>6, RecordedNone

\* A step with two outputs.
LEMMA RecordedTwo ==
  ASSUME Inv, NEW os, NEW names, NEW o, NEW p, NEW x \in Names, NEW y \in Names, x # y,
         names[x] = o, names[y] = p,
         Outcome(os, names, Live \cup {o, p}, {o, p}, {x, y}, {}),
         NEW args, args = <<>> \/ \E q \in Live : args = <<q>>,
         NEW line \in Names \cup {None},
         Recorded(os, names, args, <<<<x, o>>, <<y, p>>>>, None, TRUE, line)
  PROVE  Inv'
<1> DEFINE L == Live \cup {o, p}
           B == {x, y}
           O == {o, p}
           outs == <<<<x, o>>, <<y, p>>>>
           s == Len(states) + 1
           w1 == InputsKept(Begin(os), args)
           w2 == OutputKept(w1, x, o, s, None)
           w == OutputKept(w2, y, p, None, None)
           label == \E i \in DOMAIN outs : outs[i][1] = None
           given == Args(w1, args, Altered(os))
<1>1. DOMAIN outs = {1, 2} /\ outs[1][1] = x /\ outs[1][2] = o /\ outs[2][1] = y /\ outs[2][2] = p
  OBVIOUS
<1>2. OutputsKept(w1, outs, s, None) = w
  BY <1>1, TwoOutputs
<1>3. {outs[i][1] : i \in DOMAIN outs} \ {None} = B /\ Live \cup {outs[i][2] : i \in DOMAIN outs} = L
  <2>1. {outs[i][1] : i \in DOMAIN outs} = {x, y} /\ {outs[i][2] : i \in DOMAIN outs} = {o, p}
    BY <1>1
  <2> HIDE DEF outs
  <2> QED
    BY <2>1, ArtifactsAssumption
<1>4. Done(Linked(Refreshed(w, B, L), s, None), names, seen \cup B, {}, given, line, label)
  <2> HIDE DEF outs, w, L, B, given, s, w1
  <2> USE DEF s, w1, given
  <2>1. Recorded(os, names, args, outs, None, TRUE, line)
    BY DEF outs
  <2> QED
    BY <1>2, <1>3, <2>1 DEF Recorded
<1>22. label \in BOOLEAN
  OBVIOUS
<1> HIDE DEF outs, label
<1>5. Outcome(os, names, L, O, B, {}) /\ o \in L /\ p \in L
  OBVIOUS
<1>6. O \in SUBSET L /\ (seen \cup B) \ {} = seen \cup B /\ x # None /\ y # None
  BY ArtifactsAssumption
<1>7. {o} \cup {p} = O /\ {x} \cup ({y} \ {None}) = B
  BY <1>6
<1>8. {} \cup {o} = {o} /\ {} \cup ({x} \ {None}) = {x}
      /\ {o} \in SUBSET L /\ {x} \in SUBSET Names /\ {} \in SUBSET L /\ {} \in SUBSET Names
  BY <1>5, <1>6
<1> HIDE DEF L, B, O
<1>9. Kept(w1, os, L, {}, {}, {}, names) /\ GivenIn(w1, given)
  BY <1>5, InputsStep
<1> HIDE DEF w1, given
<1>10. s \in Nat \cup {None} /\ None \in Nat \cup {None}
  BY Basics
<1> HIDE DEF s
<1>11. OutputDone(w1, w2, os, L, {}, {}, names, o, x, None)
  <2>1. \A z \in {} : names[z] = o => w1.rows[w1.m.bind[z]].data = Data(os[o])
    OBVIOUS
  <2> QED
    BY <1>5, <1>8, <1>9, <1>10, <2>1, OutputStep
<1> HIDE DEF w2
<1>12. /\ Kept(w2, os, L, {} \cup {o}, {} \cup ({x} \ {None}), {}, names)
       /\ o \notin w2.m.dirty /\ Extends(w1, w2)
       /\ w2.rows[w2.m.bind[x]].data = Data(os[o])
  BY <1>6, <1>11 DEF OutputDone
<1>13. Kept(w2, os, L, {o}, {x}, {}, names)
  BY <1>8, <1>12
<1>14. OutputDone(w2, w, os, L, {o}, {x}, names, p, y, None)
  <2>1. \A z \in {x} : names[z] = p => w2.rows[w2.m.bind[z]].data = Data(os[p])
    BY <1>12
  <2> QED
    BY <1>5, <1>8, <1>10, <1>13, <2>1, OutputStep
<1> HIDE DEF w
<1>15. /\ Kept(w, os, L, {o} \cup {p}, {x} \cup ({y} \ {None}), {}, names)
       /\ p \notin w.m.dirty /\ w.m.dirty \ {p} = w2.m.dirty \ {p} /\ Extends(w2, w)
  BY <1>14 DEF OutputDone
<1>16. Kept(w, os, L, O, B, {}, names)
  BY <1>7, <1>15
<1>17. o \notin w.m.dirty
  BY <1>12, <1>15
<1>18. O \cap w.m.dirty = {}
  BY <1>15, <1>17 DEF O
<1>19. Sound(w1, L) /\ Sound(w2, L) /\ Sound(w, L)
  BY <1>9, <1>13, <1>16 DEF Kept
<1>20. Extends(w1, w)
  BY <1>12, <1>15, <1>19, ExtendsTransitive
<1>21. Done(Linked(Refreshed(w, B, L), Len(states) + 1, None), names, (seen \cup B) \ {}, {}, given, line, label)
  BY <1>4, <1>6 DEF s
<1> QED
  BY <1>5, <1>9, <1>16, <1>18, <1>19, <1>20, <1>21, <1>22, StepInv

-----------------------------------------------------------------------------
(* Steps that make or change objects *)

\* There is room at addresses that no live object has.
LEMMA RoomIsFree ==
  ASSUME NEW k, NEW a \in Room(k)
  PROVE  a \in Addrs /\ \A p \in Live : objs[p].addr # a
<1>1. a \in Free \ Blank \/ a \in Blank
  BY Zenon DEF Room
<1>2. a \in Free
  BY <1>1 DEF Blank
<1> QED
  BY <1>2 DEF Free

\* One new object at a free address.
NewObject(os, n) ==
  /\ os \in Seq(Object) /\ Len(os) = Len(objs) + 1 /\ DOMAIN os = DOMAIN objs \cup {n}
  /\ n = Len(objs) + 1 /\ n \in Nat /\ n \notin DOMAIN objs /\ n \notin Live
  /\ \A p \in DOMAIN objs : os[p] = objs[p]
  /\ \A p \in DOMAIN os : os[p].print < 2 * (Len(os) + plain + Len(states) + 1) + 1
  /\ Apart(os, Live \cup {n})

\* An object that is appended at an address no live object has.
LEMMA Appended ==
  ASSUME Inv, NEW k, NEW a \in Room(k), NEW new \in Object, new.addr = a, new.print <= Fresh
  PROVE  NewObject(Append(objs, new), Len(objs) + 1) /\ Append(objs, new)[Len(objs) + 1] = new
<1> DEFINE n == Len(objs) + 1
           os == Append(objs, new)
<1>1. a \in Addrs /\ \A p \in Live : objs[p].addr # a
  BY RoomIsFree
<1>2. /\ Len(objs) \in Nat /\ DOMAIN objs = 1..Len(objs) /\ objs \in Seq(Object)
      /\ Len(states) \in Nat /\ plain \in Nat /\ Fresh = 2 * (Len(objs) + plain + Len(states)) + 1
      /\ \A p \in Live : p \in DOMAIN objs
  BY Basics
<1>3. /\ os \in Seq(Object) /\ Len(os) = n /\ DOMAIN os = DOMAIN objs \cup {n} /\ n \in Nat
      /\ n \notin DOMAIN objs /\ os[n] = new /\ \A p \in DOMAIN objs : os[p] = objs[p]
  BY <1>2
<1> HIDE DEF os, n
<1>4. \A p \in DOMAIN os : os[p].print < 2 * (n + plain + Len(states) + 1) + 1
  <2> SUFFICES ASSUME NEW p \in DOMAIN os
               PROVE  os[p].print < 2 * (n + plain + Len(states) + 1) + 1
    OBVIOUS
  <2>1. Fresh < 2 * (n + plain + Len(states) + 1) + 1
    BY <1>2 DEF n
  <2>2. os[p] \in Object
    BY <1>3
  <2>3. os[p].print \in Nat
    BY <2>2 DEF Object
  <2>4. os[p].print <= Fresh
    <3>1. CASE p = n
      BY <1>3, <3>1
    <3>2. CASE p \in DOMAIN objs
      <4>1. os[p].print < Fresh
        BY <1>3, <3>2 DEF Inv, TrackedInv
      <4> QED
        BY <2>3, <4>1, Basics
    <3> QED
      BY <1>3, <3>1, <3>2
  <2>5. n \in Nat /\ Fresh \in Nat /\ Len(states) \in Nat /\ plain \in Nat
    BY <1>2, <1>3, Basics
  <2> QED
    BY <2>1, <2>3, <2>4, <2>5
<1>5. Apart(os, Live \cup {n})
  <2>1. Apart(objs, Live)
    BY Basics DEF Sound, Here
  <2>2. \A p, q \in Live \cup {n} : os[p].addr = os[q].addr => p = q
    BY <1>1, <1>2, <1>3, <2>1 DEF Apart
  <2> QED
    BY <1>2, <1>3, <2>2 DEF Apart
<1>6. n \notin Live
  BY <1>2, <1>3
<1> QED
  BY <1>3, <1>4, <1>5, <1>6 DEF NewObject, n, os

\* The outcome of a step whose new object is kept, or not.
LEMMA NewOutcome ==
  ASSUME Inv, NEW os, NEW n, NewObject(os, n), NEW x \in Names \cup {None}
  PROVE  LET names == IF x = None THEN ns ELSE [ns EXCEPT ![x] = n]
         IN  /\ Outcome(os, names, Live \cup {n}, {n}, {x} \ {None}, {})
             /\ Outcome(os, names, Live \cup {n}, {}, {}, {x} \ {None})
<1> DEFINE names == IF x = None THEN ns ELSE [ns EXCEPT ![x] = n]
           L == Live \cup {n}
           C == {x} \ {None}
<1>1. /\ os \in Seq(Object) /\ Len(objs) <= Len(os) /\ Apart(os, L)
      /\ \A p \in DOMAIN objs : os[p] = objs[p]
      /\ \A p \in DOMAIN os : os[p].print < 2 * (Len(os) + plain + Len(states) + 1) + 1
      /\ n \in Nat /\ n \notin DOMAIN objs
  <2>1. Len(objs) \in Nat
    BY Basics
  <2> QED
    BY <2>1 DEF NewObject
<1>2. ns \in [Names -> Nat \cup {None}] /\ \A z \in Names : ns[z] \in Live \cup {None}
  BY Basics DEF Inv, TypesInv
<1>3. /\ names \in [Names -> Nat \cup {None}] /\ C \subseteq Names
      /\ \A z \in Names : names[z] \in L \cup {None}
      /\ \A z \in Names \ C : names[z] = ns[z]
      /\ \A z \in C : names[z] = n
  BY <1>1, <1>2
<1>4. \A p \in L : p \in Live \/ p \notin DOMAIN objs
  BY <1>1
<1>5. Live \subseteq L /\ {n} \subseteq L /\ {} \subseteq L
  OBVIOUS
<1> HIDE DEF names, L, C
<1>6. Outcome(os, names, L, {n}, C, {})
  BY <1>1, <1>3, <1>4, <1>5 DEF Outcome
<1>7. Outcome(os, names, L, {}, {}, C)
  BY <1>1, <1>3, <1>4, <1>5 DEF Outcome
<1> QED
  BY <1>6, <1>7 DEF names, L, C

\* x = f(y) and the like keep the invariant.
LEMMA CallInv ==
  ASSUME Inv, NEW x \in Names \cup {None}, NEW y \in {z \in Names : ns[z] # None} \cup {None}, Call(x, y)
  PROVE  Inv'
<1>1. PICK a \in Room(1), kept \in BOOLEAN :
        LET o  == Len(objs) + 1
            os == Append(objs, NewAt(a, Fresh, 0))
        IN  Recorded(os, IF x = None THEN ns ELSE [ns EXCEPT ![x] = o],
                     IF y = None THEN <<>> ELSE <<ns[y]>>, <<<<x, o>>>>, None, kept, x)
  BY DEF Call
<1> DEFINE new == NewAt(a, Fresh, 0)
           os == Append(objs, new)
           o == Len(objs) + 1
           names == IF x = None THEN ns ELSE [ns EXCEPT ![x] = o]
           args == IF y = None THEN <<>> ELSE <<ns[y]>>
<1>2. NewObject(os, o)
  <2>1. new \in Object /\ new.addr = a /\ new.print <= Fresh
    <3>1. a \in Addrs
      BY RoomIsFree
    <3>2. Fresh \in Nat \ {0}
      BY Basics
    <3> QED
      BY <3>1, <3>2 DEF NewAt, Object
  <2> HIDE DEF new
  <2> QED
    BY <2>1, Appended
<1>3. args = <<>> \/ \E q \in Live : args = <<q>>
  BY Basics
<1>4. Recorded(os, names, args, <<<<x, o>>>>, None, kept, x)
  BY <1>1
<1> HIDE DEF os, o, args
<1>5. Outcome(os, names, Live \cup {o}, {o}, {x} \ {None}, {})
      /\ Outcome(os, names, Live \cup {o}, {}, {}, {x} \ {None})
  BY <1>2, NewOutcome
<1> HIDE DEF names
<1>7. CASE kept = TRUE
  <2>1. Recorded(os, names, args, <<<<x, o>>>>, None, TRUE, x)
    BY <1>4, <1>7
  <2> QED
    BY <1>3, <1>5, <2>1, RecordedOne
<1>8. CASE kept = FALSE
  <2>1. Recorded(os, names, args, <<<<x, o>>>>, None, FALSE, x)
    BY <1>4, <1>8
  <2> QED
    BY <1>3, <1>5, <2>1, UnstoredOne
<1> QED
  BY <1>7, <1>8

\* x = y[mask] keeps the invariant.
LEMMA FilterInv ==
  ASSUME Inv, NEW x \in Names, NEW y \in Names, Filter(x, y)
  PROVE  Inv'
<1> DEFINE o == Len(objs) + 1
           p == ns[y]
<1>1. PICK a \in Room(1), kept \in BOOLEAN :
        LET os == Append(objs, [NewAt(a, objs[p].tok, objs[p].cut + 1) EXCEPT !.print = Fresh])
        IN  Recorded(os, [ns EXCEPT ![x] = o], <<p>>, <<<<x, o>>>>, p, kept, x)
  BY DEF Filter
<1> DEFINE new == [NewAt(a, objs[p].tok, objs[p].cut + 1) EXCEPT !.print = Fresh]
           os == Append(objs, new)
           names == [ns EXCEPT ![x] = o]
<1>2. p # None /\ p \in Live /\ p \in DOMAIN objs /\ objs[p] \in Object
  <2>1. ns[y] # None
    BY DEF Filter
  <2> QED
    BY <2>1, Basics
<1>3. NewObject(os, o) /\ os[o].tok = objs[p].tok
  <2>1. new \in Object /\ new.addr = a /\ new.print <= Fresh /\ new.tok = objs[p].tok
    <3>1. a \in Addrs
      BY RoomIsFree
    <3>2. Fresh \in Nat
      BY Basics
    <3>3. objs[p].tok \in Nat \ {0} /\ objs[p].cut + 1 \in Nat
      BY <1>2 DEF Object
    <3>4. new = [tok |-> objs[p].tok, cut |-> objs[p].cut + 1, print |-> Fresh, addr |-> a]
      BY DEF NewAt
    <3> HIDE DEF new
    <3> QED
      BY <3>1, <3>2, <3>3, <3>4 DEF Object
  <2> HIDE DEF new
  <2>2. NewObject(os, o) /\ os[o] = new
    BY <2>1, Appended
  <2> QED
    BY <2>1, <2>2
<1>4. Recorded(os, names, <<p>>, <<<<x, o>>>>, p, kept, x)
  BY <1>1
<1>5. x # None /\ x \in Names \cup {None}
  BY ArtifactsAssumption
<1>6. names = IF x = None THEN ns ELSE [ns EXCEPT ![x] = o]
  BY <1>5
<1> HIDE DEF os, o, names, p, new
<1>7. /\ Outcome(os, names, Live \cup {o}, {o}, {x} \ {None}, {})
      /\ Outcome(os, names, Live \cup {o}, {}, {}, {x} \ {None})
  BY <1>3, <1>6, NewOutcome
<1>8. p \in Live \ {o} /\ os[o].tok = os[p].tok
  BY <1>2, <1>3 DEF NewObject
<1>9. <<p>> = <<>> \/ \E q \in Live : <<p>> = <<q>>
  BY <1>2
<1>10. CASE kept = TRUE
  <2>1. Recorded(os, names, <<p>>, <<<<x, o>>>>, p, TRUE, x)
    BY <1>4, <1>10
  <2> QED
    BY <1>5, <1>7, <1>8, <1>9, <2>1, RecordedOne
<1>11. CASE kept = FALSE
  <2>1. Recorded(os, names, <<p>>, <<<<x, o>>>>, p, FALSE, x)
    BY <1>4, <1>11
  <2> QED
    BY <1>5, <1>7, <1>9, <2>1, UnstoredOne
<1> QED
  BY <1>10, <1>11

\* The outcome of a step that changes live objects in place.
LEMMA ChangedOutcome ==
  ASSUME Inv, NEW os \in Seq(Object), Len(os) = Len(objs), NEW O \in SUBSET Live,
         \A p \in DOMAIN objs : /\ os[p].addr = objs[p].addr
                                /\ os[p] = objs[p] \/ os[p].print \in {Fresh, Fresh + 1},
         NEW names \in [Names -> Nat \cup {None}], \A x \in Names : names[x] \in Live \cup {None},
         NEW B \in SUBSET Names, \A x \in B : names[x] \in O,
         NEW D \in SUBSET Names, B \cap D = {}, \A x \in Names \ (B \cup D) : names[x] = ns[x]
  PROVE  Outcome(os, names, Live, O, B, D)
<1>1. /\ Len(objs) \in Nat /\ DOMAIN objs = 1..Len(objs) /\ DOMAIN os = DOMAIN objs
      /\ Len(states) \in Nat /\ plain \in Nat /\ Fresh = 2 * (Len(objs) + plain + Len(states)) + 1
      /\ Fresh \in Nat
  BY Basics
<1>2. ASSUME NEW p \in DOMAIN os
      PROVE  os[p].print < 2 * (Len(os) + plain + Len(states) + 1) + 1
  <2>1. os[p] \in Object
    OBVIOUS
  <2>2. os[p].print \in Nat
    BY <2>1 DEF Object
  <2>3. os[p].print <= Fresh + 1
    <3>1. CASE os[p] # objs[p]
      <4>1. os[p].print \in {Fresh, Fresh + 1}
        BY <1>1, <3>1
      <4> QED
        BY <1>1, <4>1
    <3>2. CASE os[p] = objs[p]
      <4>1. objs[p].print < Fresh
        BY <1>1 DEF Inv, TrackedInv
      <4> QED
        BY <1>1, <2>2, <3>2, <4>1
    <3> QED
      BY <3>1, <3>2
  <2> QED
    BY <1>1, <2>2, <2>3
<1>3. Apart(os, Live)
  <2>1. Apart(objs, Live)
    BY Basics DEF Sound, Here
  <2> QED
    BY <1>1, <2>1 DEF Apart
<1>4. \A p \in DOMAIN objs : os[p] = objs[p] \/ os[p].print >= Fresh
  <2>1. \A p \in DOMAIN objs : os[p] # objs[p] => os[p].print = Fresh \/ os[p].print = Fresh + 1
    OBVIOUS
  <2>2. Fresh >= Fresh /\ Fresh + 1 >= Fresh
    BY <1>1
  <2> QED
    BY <2>1, <2>2
<1>5. Len(objs) <= Len(os)
  BY <1>1
<1> QED
  BY <1>1, <1>2, <1>3, <1>4, <1>5 DEF Outcome

\* r is os after object o was changed in place.
Rewrites(os, r, o, tok) ==
  /\ r \in Seq(Object) /\ Len(r) = Len(os) /\ r[o].print = tok
  /\ \A p \in DOMAIN os : r[p].addr = os[p].addr /\ (p # o => r[p] = os[p])

\* An object that changes in place.
LEMMA ChangedObject ==
  ASSUME NEW os \in Seq(Object), NEW o \in DOMAIN os, NEW tok \in Nat \ {0}
  PROVE  Rewrites(os, [os EXCEPT ![o].tok = tok, ![o].print = tok], o, tok)
<1> DEFINE r == [os EXCEPT ![o].tok = tok, ![o].print = tok]
           new == [os[o] EXCEPT !.tok = tok, !.print = tok]
<1>1. os[o] \in Object /\ o \in 1..Len(os)
  OBVIOUS
<1>2. new \in Object /\ new.addr = os[o].addr /\ new.print = tok
  BY <1>1 DEF Object
<1>3. r = [os EXCEPT ![o] = new]
  OBVIOUS
<1> HIDE DEF r, new
<1>4. r \in Seq(Object) /\ Len(r) = Len(os) /\ \A p \in 1..Len(os) : r[p] = IF p = o THEN new ELSE os[p]
  BY <1>1, <1>2, <1>3, ExceptSeq
<1>5. DOMAIN os = 1..Len(os)
  OBVIOUS
<1> QED
  BY <1>1, <1>2, <1>4, <1>5 DEF r, Rewrites

\* What the variables refer to.
LEMMA NamesAre ==
  ASSUME Inv
  PROVE  ns \in [Names -> Nat \cup {None}] /\ \A x \in Names : ns[x] \in Live \cup {None}
BY Basics DEF Inv, TypesInv

\* x['c'] = v keeps the invariant.
LEMMA ChangeInv ==
  ASSUME Inv, NEW x \in Names, Change(x)
  PROVE  Inv'
<1> DEFINE o == ns[x]
           os == Changed(o, Fresh)
<1>1. o # None /\ \E kept \in BOOLEAN : Recorded(os, ns, <<o>>, <<<<x, o>>>>, None, kept, None)
  BY DEF Change
<1>8. PICK kept \in BOOLEAN : Recorded(os, ns, <<o>>, <<<<x, o>>>>, None, kept, None)
  BY <1>1
<1>2. o \in Live /\ o \in DOMAIN objs /\ objs \in Seq(Object) /\ Fresh \in Nat \ {0} /\ x # None
  BY <1>1, Basics, ArtifactsAssumption
<1> HIDE DEF o
<1>3. /\ os \in Seq(Object) /\ Len(os) = Len(objs) /\ os[o].print = Fresh
      /\ \A p \in DOMAIN objs : os[p].addr = objs[p].addr /\ (p # o => os[p] = objs[p])
  <2>1. Rewrites(objs, os, o, Fresh)
    BY <1>2, ChangedObject DEF Changed
  <2> HIDE DEF os
  <2> QED
    BY <2>1 DEF Rewrites
<1> HIDE DEF os
<1>4. Outcome(os, ns, Live, {o}, {x}, {}) /\ Outcome(os, ns, Live, {}, {}, {x})
  <2>1. \A z \in {x} : ns[z] \in {o}
    BY DEF o
  <2>3. \A p \in DOMAIN objs : /\ os[p].addr = objs[p].addr
                               /\ os[p] = objs[p] \/ os[p].print \in {Fresh, Fresh + 1}
    BY <1>3
  <2>4. /\ {o} \in SUBSET Live /\ {} \in SUBSET Live /\ {x} \in SUBSET Names /\ {} \in SUBSET Names
        /\ {x} \cap {} = {} /\ {} \cap {x} = {}
    BY <1>2
  <2>5. Outcome(os, ns, Live, {o}, {x}, {})
    BY <1>3, <2>1, <2>3, <2>4, NamesAre, ChangedOutcome
  <2>6. Outcome(os, ns, Live, {}, {}, {x})
    BY <1>3, <2>3, <2>4, NamesAre, ChangedOutcome
  <2> QED
    BY <2>5, <2>6
<1>5. Live \cup {o} = Live /\ {x} \ {None} = {x} /\ x \in Names \cup {None} /\ None \in Names \cup {None}
  BY <1>2
<1>6. /\ Outcome(os, ns, Live \cup {o}, {o}, {x} \ {None}, {})
      /\ Outcome(os, ns, Live \cup {o}, {}, {}, {x} \ {None})
  BY <1>4, <1>5
<1>7. <<o>> = <<>> \/ \E q \in Live : <<o>> = <<q>>
  BY <1>2
<1>9. CASE kept = TRUE
  <2>1. Recorded(os, ns, <<o>>, <<<<x, o>>>>, None, TRUE, None)
    BY <1>8, <1>9
  <2> QED
    BY <1>5, <1>6, <1>7, <2>1, RecordedOne
<1>10. CASE kept = FALSE
  <2>1. Recorded(os, ns, <<o>>, <<<<x, o>>>>, None, FALSE, None)
    BY <1>8, <1>10
  <2> QED
    BY <1>5, <1>6, <1>7, <2>1, UnstoredOne
<1> QED
  BY <1>9, <1>10

\* A loop that changes two frames keeps the invariant.
LEMMA LoopInv ==
  ASSUME Inv, NEW x \in Names, NEW y \in Names, Loop(x, y)
  PROVE  Inv'
<1> DEFINE o == ns[x]
           p == ns[y]
           os1 == Changed(o, Fresh)
           os == [os1 EXCEPT ![p].tok = Fresh + 1, ![p].print = Fresh + 1]
<1>1. /\ x # y /\ o # None /\ p # None
      /\ \E kept \in BOOLEAN : Recorded(os, ns, <<>>, <<<<x, o>>, <<y, p>>>>, None, kept, None)
  BY DEF Loop
<1>12. PICK kept \in BOOLEAN : Recorded(os, ns, <<>>, <<<<x, o>>, <<y, p>>>>, None, kept, None)
  BY <1>1
<1>2. /\ o \in Live /\ o \in DOMAIN objs /\ p \in Live /\ p \in DOMAIN objs
      /\ objs \in Seq(Object) /\ Fresh \in Nat \ {0} /\ Fresh + 1 \in Nat \ {0}
  BY <1>1, Basics, SMTT(30)
<1>8. ns[x] = o /\ ns[y] = p
  OBVIOUS
<1> HIDE DEF o, p
<1>3. /\ os1 \in Seq(Object) /\ Len(os1) = Len(objs) /\ os1[o].print = Fresh
      /\ \A q \in DOMAIN objs : os1[q].addr = objs[q].addr /\ (q # o => os1[q] = objs[q])
  <2>1. Rewrites(objs, os1, o, Fresh)
    BY <1>2, ChangedObject DEF Changed
  <2> HIDE DEF os1
  <2> QED
    BY <2>1 DEF Rewrites
<1> HIDE DEF os1
<1>4. DOMAIN os1 = DOMAIN objs
  BY <1>2, <1>3
<1>5. /\ os \in Seq(Object) /\ Len(os) = Len(os1) /\ os[p].print = Fresh + 1
      /\ \A q \in DOMAIN os1 : os[q].addr = os1[q].addr /\ (q # p => os[q] = os1[q])
  <2>1. Rewrites(os1, os, p, Fresh + 1)
    BY <1>2, <1>3, <1>4, ChangedObject
  <2> HIDE DEF os
  <2> QED
    BY <2>1 DEF Rewrites
<1> HIDE DEF os
<1>6. Outcome(os, ns, Live, {o, p}, {x, y}, {}) /\ Outcome(os, ns, Live, {}, {}, {x, y})
  <2>1. \A z \in {x, y} : ns[z] \in {o, p}
    BY <1>8
  <2>2. ASSUME NEW q \in DOMAIN objs
        PROVE  /\ os[q].addr = objs[q].addr
               /\ os[q] = objs[q] \/ os[q].print \in {Fresh, Fresh + 1}
    <3>1. os[q].addr = os1[q].addr /\ os1[q].addr = objs[q].addr
      BY <1>3, <1>4, <1>5
    <3>2. CASE q = p
      BY <1>5, <3>1, <3>2
    <3>3. CASE q # p
      <4>1. os[q] = os1[q]
        BY <1>4, <1>5, <3>3
      <4>2. os1[q] = objs[q] \/ os1[q].print = Fresh
        BY <1>3
      <4> QED
        BY <3>1, <4>1, <4>2
    <3> QED
      BY <3>2, <3>3
  <2>4. /\ {o, p} \in SUBSET Live /\ {} \in SUBSET Live /\ {x, y} \in SUBSET Names
        /\ {} \in SUBSET Names /\ {x, y} \cap {} = {} /\ {} \cap {x, y} = {}
        /\ Len(os) = Len(objs)
    BY <1>2, <1>3, <1>5
  <2>5. Outcome(os, ns, Live, {o, p}, {x, y}, {})
    BY <1>5, <2>1, <2>2, <2>4, NamesAre, ChangedOutcome
  <2>6. Outcome(os, ns, Live, {}, {}, {x, y})
    BY <1>5, <2>2, <2>4, NamesAre, ChangedOutcome
  <2> QED
    BY <2>5, <2>6
<1>7. Live \cup {o, p} = Live /\ None \in Names \cup {None}
  BY <1>2
<1>9. /\ Outcome(os, ns, Live \cup {o, p}, {o, p}, {x, y}, {})
      /\ Outcome(os, ns, Live \cup {o, p}, {}, {}, {x, y})
  BY <1>6, <1>7
<1>11. <<>> = <<>> \/ \E q \in Live : <<>> = <<q>>
  OBVIOUS
<1>13. CASE kept = TRUE
  <2>1. Recorded(os, ns, <<>>, <<<<x, o>>, <<y, p>>>>, None, TRUE, None)
    BY <1>12, <1>13
  <2> QED
    BY <1>1, <1>7, <1>8, <1>9, <1>11, <2>1, RecordedTwo
<1>14. CASE kept = FALSE
  <2>1. Recorded(os, ns, <<>>, <<<<x, o>>, <<y, p>>>>, None, FALSE, None)
    BY <1>12, <1>14
  <2> QED
    BY <1>7, <1>9, <1>11, <2>1, UnstoredTwo
<1> QED
  BY <1>13, <1>14

\* x, y = f(z) keeps the invariant.
LEMMA PairInv ==
  ASSUME Inv, NEW x \in Names, NEW y \in Names, NEW z \in Names, Pair(x, y, z)
  PROVE  Inv'
<1> DEFINE o == Len(objs) + 1
           p == o + 1
           names == [ns EXCEPT ![x] = o, ![y] = p]
<1>1. /\ x # y /\ ns[z] # None
      /\ \E a \in Room(1), kept \in BOOLEAN : \E b \in Room(2) \ {a} :
           Recorded(objs \o <<NewAt(a, Fresh, 0), NewAt(b, Fresh + 1, 0)>>, names, <<ns[z]>>,
                    <<<<x, o>>, <<y, p>>>>, None, kept, None)
  BY DEF Pair
<1>13. PICK a \in Room(1), kept \in BOOLEAN : \E b \in Room(2) \ {a} :
        Recorded(objs \o <<NewAt(a, Fresh, 0), NewAt(b, Fresh + 1, 0)>>, names, <<ns[z]>>,
                    <<<<x, o>>, <<y, p>>>>, None, kept, None)
  BY <1>1
<1>2. PICK b \in Room(2) \ {a} :
        Recorded(objs \o <<NewAt(a, Fresh, 0), NewAt(b, Fresh + 1, 0)>>, names, <<ns[z]>>,
                    <<<<x, o>>, <<y, p>>>>, None, kept, None)
  BY <1>13
<1> DEFINE m == NewAt(a, Fresh, 0)
           n == NewAt(b, Fresh + 1, 0)
           os == objs \o <<m, n>>
           L == Live \cup {o, p}
<1>3. /\ a \in Addrs /\ b \in Addrs /\ a # b
      /\ \A q \in Live : objs[q].addr # a /\ objs[q].addr # b
  BY RoomIsFree
<1>4. /\ Len(objs) \in Nat /\ DOMAIN objs = 1..Len(objs) /\ objs \in Seq(Object)
      /\ Len(states) \in Nat /\ plain \in Nat /\ Fresh = 2 * (Len(objs) + plain + Len(states)) + 1
      /\ Fresh \in Nat
      /\ \A q \in Live : q \in DOMAIN objs
  BY Basics
<1>5. /\ m \in Object /\ m.addr = a /\ m.print = Fresh
      /\ n \in Object /\ n.addr = b /\ n.print = Fresh + 1
  BY <1>3, <1>4 DEF NewAt, Object
<1> HIDE DEF m, n
<1>6. /\ os \in Seq(Object) /\ Len(os) = Len(objs) + 2 /\ DOMAIN os = DOMAIN objs \cup {o, p}
      /\ o \in Nat /\ p \in Nat /\ o # p /\ o \notin DOMAIN objs /\ p \notin DOMAIN objs
      /\ os[o] = m /\ os[p] = n /\ \A q \in DOMAIN objs : os[q] = objs[q]
  <2>1. <<m, n>> \in Seq(Object) /\ Len(<<m, n>>) = 2 /\ <<m, n>>[1] = m /\ <<m, n>>[2] = n
    BY <1>5
  <2> DEFINE t == <<m, n>>
  <2> HIDE DEF t
  <2>2. /\ objs \o t \in Seq(Object) /\ Len(objs \o t) = Len(objs) + 2
        /\ (objs \o t)[Len(objs) + 1] = t[1] /\ (objs \o t)[Len(objs) + 2] = t[2]
        /\ \A q \in 1..Len(objs) : (objs \o t)[q] = objs[q]
    BY <1>4, <2>1 DEF t
  <2> QED
    BY <1>4, <2>1, <2>2 DEF t
<1> HIDE DEF os
<1>7. \A q \in DOMAIN os : os[q].print < 2 * (Len(os) + plain + Len(states) + 1) + 1
  <2> SUFFICES ASSUME NEW q \in DOMAIN os
               PROVE  os[q].print < 2 * (Len(os) + plain + Len(states) + 1) + 1
    OBVIOUS
  <2>0. os \in Seq(Object)
    BY <1>6
  <2>1. os[q] \in Object
    BY <2>0
  <2>2. os[q].print \in Nat
    BY <2>1 DEF Object
  <2>3. os[q].print <= Fresh + 1
    <3>1. CASE q \in DOMAIN objs
      <4>1. objs[q].print < Fresh /\ os[q] = objs[q]
        BY <1>6, <3>1 DEF Inv, TrackedInv
      <4> QED
        BY <1>4, <2>2, <4>1
    <3>2. CASE q \in {o, p}
      BY <1>4, <1>5, <1>6, <3>2
    <3> QED
      BY <1>6, <3>1, <3>2
  <2> QED
    BY <1>4, <1>6, <2>2, <2>3
<1>8. Apart(os, L)
  <2>1. Apart(objs, Live)
    BY Basics DEF Sound, Here
  <2>2. \A q, r \in L : os[q].addr = os[r].addr => q = r
    BY <1>3, <1>4, <1>5, <1>6, <2>1 DEF Apart
  <2> QED
    BY <1>4, <1>6, <2>2 DEF Apart
<1>9. /\ names \in [Names -> Nat \cup {None}] /\ names[x] = o /\ names[y] = p
      /\ \A v \in Names : names[v] \in L \cup {None}
      /\ \A v \in Names \ {x, y} : names[v] = ns[v]
  BY <1>1, <1>6, NamesAre
<1> HIDE DEF names, o, p
<1>10. Outcome(os, names, L, {o, p}, {x, y}, {}) /\ Outcome(os, names, L, {}, {}, {x, y})
  <2>1. Len(objs) <= Len(os)
    BY <1>4, <1>6
  <2>2. \A q \in L : q \in Live \/ q \notin DOMAIN objs
    BY <1>6
  <2>3. \A v \in {x, y} : names[v] \in {o, p}
    BY <1>9
  <2>4. Live \subseteq L /\ {o, p} \subseteq L
    OBVIOUS
  <2> HIDE DEF L
  <2>5. Outcome(os, names, L, {o, p}, {x, y}, {})
    BY <1>6, <1>7, <1>8, <1>9, <2>1, <2>2, <2>3, <2>4 DEF Outcome
  <2>6. Outcome(os, names, L, {}, {}, {x, y})
    BY <1>6, <1>7, <1>8, <1>9, <2>1, <2>2, <2>4 DEF Outcome
  <2> QED
    BY <2>5, <2>6
<1>11. <<ns[z]>> = <<>> \/ \E q \in Live : <<ns[z]>> = <<q>>
  BY <1>1, Basics
<1>12. Recorded(os, names, <<ns[z]>>, <<<<x, o>>, <<y, p>>>>, None, kept, None)
  BY <1>2 DEF os, m, n
<1>14. None \in Names \cup {None}
  OBVIOUS
<1>15. CASE kept = TRUE
  <2>1. Recorded(os, names, <<ns[z]>>, <<<<x, o>>, <<y, p>>>>, None, TRUE, None)
    BY <1>12, <1>15
  <2> QED
    BY <1>1, <1>9, <1>10, <1>11, <1>14, <2>1, RecordedTwo
<1>16. CASE kept = FALSE
  <2>1. Recorded(os, names, <<ns[z]>>, <<<<x, o>>, <<y, p>>>>, None, FALSE, None)
    BY <1>12, <1>16
  <2> QED
    BY <1>10, <1>11, <1>14, <2>1, UnstoredTwo
<1> QED
  BY <1>15, <1>16

-----------------------------------------------------------------------------
(* Aliases and widgets *)

\* The objects stored in a step are given anew.
LEMMA MarkedSound ==
  ASSUME NEW w, NEW L, Sound(w, L), NEW o \in L, Known(w, o)
  PROVE  LET r == [w EXCEPT !.stored = {o}]
         IN  /\ Sound(r, L) /\ r.m = w.m /\ r.rows = w.rows /\ r.objs = w.objs
             /\ r.stored = {o} /\ r.touched = w.touched
<1> DEFINE r == [w EXCEPT !.stored = {o}]
<1>1. w \in Work /\ o \in Nat
  BY WorkFacts
<1>2. r \in Work /\ r.m = w.m /\ r.rows = w.rows /\ r.objs = w.objs /\ r.stored = {o} /\ r.touched = w.touched
  BY <1>1 DEF Work
<1> HIDE DEF r
<1>3. \A p \in r.stored : p \in L /\ Known(r, p)
  BY <1>2 DEF Known
<1>4. Sound(r, L)
  BY <1>2, <1>3 DEF Sound
<1> QED
  BY <1>2, <1>4 DEF r

\* r is w after name x was bound to the version o has.
AliasDone(w, r, os, L, o, x, names) ==
  Kept(r, os, L, {o}, {x}, {}, names) /\ Extends(w, r) /\ r.m.dirty = w.m.dirty

\* An alias is bound to the version its object has.
LEMMA AliasKept ==
  ASSUME NEW os, NEW names, NEW L, NEW w, Kept(w, os, L, {}, {}, {}, names), w.objs = os,
         NEW x \in Names, NEW o \in L, names[x] = o, Known(w, o)
  PROVE  AliasDone(w, Bind([w EXCEPT !.stored = {o}], x, o), os, L, o, x, names)
<1> DEFINE v == [w EXCEPT !.stored = {o}]
           r == Bind(v, x, o)
<1>1. Sound(w, L) /\ CurrentFor(w, L) /\ Extends(Begin(os), w)
  BY DEF Kept
<1>2. /\ Sound(v, L) /\ v.m = w.m /\ v.rows = w.rows /\ v.objs = w.objs
      /\ v.stored = {o} /\ v.touched = w.touched
  BY <1>1, MarkedSound
<1> HIDE DEF v
<1>3. Known(v, o) /\ VersionOf(v, o) = VersionOf(w, o)
  BY <1>2 DEF Known, VersionOf
<1>4. /\ Sound(r, L) /\ r.rows = v.rows /\ r.objs = v.objs
      /\ r.stored = v.stored /\ r.m.reg = v.m.reg
      /\ r.m.off = v.m.off /\ r.m.lost = v.m.lost /\ r.m.dirty = v.m.dirty
      /\ r.m.bind = [v.m.bind EXCEPT ![x] = VersionOf(v, o)]
      /\ r.m.tracked = [v.m.tracked EXCEPT ![x] = [obj |-> o, print |-> v.objs[o].print]]
  BY <1>2, <1>3, BindSound
<1> HIDE DEF r
<1>5. Extends(w, r) /\ Extends(Begin(os), r)
  BY <1>1, <1>2, <1>4, WorkFacts DEF Extends
<1>6. CurrentFor(r, L)
  <2>1. /\ r.m.reg = w.m.reg /\ r.objs = w.objs /\ r.rows = w.rows
        /\ r.m.off = w.m.off /\ r.m.lost = w.m.lost /\ r.m.dirty = w.m.dirty
    BY <1>2, <1>4
  <2> QED
    BY <1>1, <2>1 DEF CurrentFor, Right, Known, VersionOf, Unsure
<1>7. \A p \in L : Known(Begin(os), p) => Known(r, p)
  <2> SUFFICES ASSUME NEW p \in L, Known(Begin(os), p)
               PROVE  Known(r, p)
    OBVIOUS
  <2>1. Known(w, p)
    BY DEF Kept
  <2>2. r.m.reg = w.m.reg /\ r.objs = w.objs
    BY <1>2, <1>4
  <2> QED
    BY <2>1, <2>2 DEF Known
<1>8. /\ w.m.bind \in [Names -> Nat \cup {None}]
      /\ w.m.tracked \in [Names -> [obj : Nat \cup {None}, print : Nat \cup {None}]]
      /\ VersionOf(w, o) \in DOMAIN w.rows
  BY <1>1, WorkFacts, VersionExists
<1>9. o \notin Unsure(r) => r.rows[VersionOf(w, o)].data = Data(os[o])
  BY <1>1, <1>2, <1>4 DEF CurrentFor, Right, Unsure
<1>10. \A z \in Names \ ({x} \cup {}) : r.m.bind[z] = mem.bind[z] /\ r.m.tracked[z] = mem.tracked[z]
  <2> SUFFICES ASSUME NEW z \in Names, z # x
               PROVE  r.m.bind[z] = mem.bind[z] /\ r.m.tracked[z] = mem.tracked[z]
    OBVIOUS
  <2>1. w.m.bind[z] = mem.bind[z] /\ w.m.tracked[z] = mem.tracked[z]
    BY DEF Kept
  <2> QED
    BY <1>2, <1>4, <1>8, <2>1
<1>11. /\ r.m.bind[x] = VersionOf(w, o)
       /\ r.m.tracked[x] = [obj |-> o, print |-> os[o].print]
  BY <1>2, <1>3, <1>4, <1>8
<1>12. ASSUME NEW p \in L \ {o}
       PROVE  /\ p \in r.m.dirty => p \in mem.dirty \cup Altered(os)
              /\ Known(Begin(os), p) => /\ p \in r.m.off <=> p \in mem.off
                                        /\ p \in r.m.lost <=> p \in mem.lost
  BY <1>2, <1>4 DEF Kept
<1>13. Kept(r, os, L, {o}, {x}, {}, names)
  <2>1. ASSUME NEW z \in {x}
        PROVE  /\ names[z] \in {o}
               /\ r.m.tracked[z] = [obj |-> names[z], print |-> os[names[z]].print]
               /\ r.m.bind[z] \in DOMAIN r.rows
               /\ names[z] \notin Unsure(r) => r.rows[r.m.bind[z]].data = Data(os[names[z]])
    BY <1>2, <1>4, <1>8, <1>9, <1>11
  <2> QED
    BY <1>2, <1>4, <1>5, <1>6, <1>7, <1>10, <1>12, <2>1 DEF Kept
<1> QED
  BY <1>2, <1>4, <1>5, <1>13 DEF AliasDone, r, v

\* x = y keeps the invariant.
LEMMA AliasInv ==
  ASSUME Inv, NEW x \in Names, NEW y \in Names, Alias(x, y)
  PROVE  Inv'
<1> DEFINE o  == ns[y]
           s  == Len(states) + 1
           names == [ns EXCEPT ![x] = o]
           w1 == InputsKept(Begin(objs), <<o>>)
           w2 == Bind([w1 EXCEPT !.stored = {o}], x, o)
           w3 == Linked(Refreshed(w2, {x}, Live), s, None)
           w4 == [w3 EXCEPT !.m.off = @ \cup (w1.m.dirty \cap {o}), !.m.dirty = @ \ {o}]
           args == Args(w1, <<o>>, {})
           T == (seen \cup {x}) \ {}
<1>1. o # None /\ Done(w4, names, seen \cup {x}, {}, args, x, FALSE)
  BY Zenon DEF Alias
<1>2. o \in Live /\ o \in DOMAIN objs /\ objs \in Seq(Object) /\ Fresh \in Nat
  BY <1>1, Basics
<1> HIDE DEF o
<1>3. /\ names \in [Names -> Nat \cup {None}] /\ names[x] = o
      /\ \A z \in Names : names[z] \in Live \cup {None}
      /\ \A z \in Names \ {x} : names[z] = ns[z]
  BY <1>2, NamesAre
<1> HIDE DEF names
<1>4. Outcome(objs, names, Live, {}, {}, {x}) /\ Outcome(objs, names, Live, {o}, {x}, {})
  <2>2. /\ {} \in SUBSET Live /\ {o} \in SUBSET Live /\ {} \in SUBSET Names /\ {x} \in SUBSET Names
        /\ {} \cap {x} = {} /\ {x} \cap {} = {} /\ {} \cup {x} = {x} /\ {x} \cup {} = {x}
    BY <1>2
  <2>3. Outcome(objs, names, Live, {}, {}, {x})
    BY <1>2, <1>3, <2>2, ChangedOutcome
  <2>4. Outcome(objs, names, Live, {o}, {x}, {})
    BY <1>2, <1>3, <2>2, ChangedOutcome
  <2> QED
    BY <2>3, <2>4
<1>5. Kept(w1, objs, Live, {}, {}, {}, names) /\ GivenIn(w1, args) /\ Known(w1, o)
  <2>1. <<o>> = <<>> \/ \E q \in Live : <<o>> = <<q>>
    BY <1>2
  <2>2. /\ Kept(w1, objs, Live, {}, {}, {}, names) /\ GivenIn(w1, Args(w1, <<o>>, Altered(objs)))
        /\ \A q \in Live : <<o>> = <<q>> => Known(w1, q)
    BY <1>4, <2>1, InputsStep
  <2> QED
    BY <1>2, <2>2, BeginHere
<1> HIDE DEF w1, args
<1>6. w1.objs = objs /\ Sound(w1, Live)
  BY <1>5 DEF Kept, Extends, Begin
<1>7. Kept(w2, objs, Live, {o}, {x}, {}, names) /\ Extends(w1, w2) /\ w2.m.dirty = w1.m.dirty
  <2>1. AliasDone(w1, w2, objs, Live, o, x, names)
    BY <1>2, <1>3, <1>5, <1>6, AliasKept
  <2> QED
    BY <2>1 DEF AliasDone
<1> HIDE DEF w2
<1>8. Ready(w2, Live, {x}, T, names)
  BY <1>4, <1>7, KeptReady
<1> HIDE DEF T
<1>9. Settled(w2, w3, Live, T, names)
  <2>1. s \in Nat
    BY Basics
  <2> HIDE DEF s
  <2> QED
    BY <1>8, <2>1, FinishedSound
<1> HIDE DEF w3
<1>10. Settled(w2, w3, Live, T, names) /\ w2.stored = {o} /\ Sound(w2, Live)
  BY <1>7, <1>9 DEF Kept
<1>11. Sound(w3, Live) /\ Extends(w2, w3) /\ (o \in w3.m.dirty <=> o \in w2.m.dirty)
  BY <1>10 DEF Settled
<1>12. Settles(w3, w4, {o})
  <2> DEFINE n == [w3.m EXCEPT !.off = @ \cup (w1.m.dirty \cap {o}), !.dirty = @ \ {o}]
  <2>1. w3 \in Work /\ w3.m \in Memory /\ o \in Nat
    BY <1>2, <1>11, WorkFacts
  <2>2. w4 = [w3 EXCEPT !.m = n]
    BY <2>1 DEF Work, Memory
  <2>3. /\ n \in Memory /\ n.reg = w3.m.reg /\ n.latest = w3.m.latest /\ n.bind = w3.m.bind
        /\ n.tracked = w3.m.tracked /\ n.lost = w3.m.lost
        /\ n.off = w3.m.off \cup (w1.m.dirty \cap {o}) /\ n.dirty = w3.m.dirty \ {o}
    BY <2>1 DEF Memory
  <2> HIDE DEF n, w4
  <2>4. /\ w4 \in Work /\ w4.m = n /\ w4.rows = w3.rows /\ w4.objs = w3.objs
        /\ w4.stored = w3.stored /\ w4.touched = w3.touched
    BY <2>1, <2>2, <2>3 DEF Work
  <2>5. w1.m.dirty \cap {o} = {o} \cap w3.m.dirty
    BY <1>7, <1>11
  <2> QED
    BY <2>3, <2>4, <2>5 DEF Settles
<1>13. w4.rows = w3.rows
  BY <1>12 DEF Settles
<1> HIDE DEF w4
<1>14. Result(w4, Live, names, T, {})
  BY <1>4, <1>7, <1>9, <1>12, KeptResult DEF T, s
<1>15. GivenIn(w4, args)
  <2>1. Extends(w1, w3)
    BY <1>6, <1>7, <1>10, <1>11, ExtendsTransitive
  <2>2. \A i \in DOMAIN w1.rows : i \in DOMAIN w3.rows /\ w3.rows[i] = w1.rows[i]
    <3>1. /\ Len(w1.rows) \in Nat /\ DOMAIN w1.rows = 1..Len(w1.rows)
          /\ Len(w3.rows) \in Nat /\ DOMAIN w3.rows = 1..Len(w3.rows)
      BY <1>6, <1>11, WorkFacts
    <3> QED
      BY <2>1, <3>1 DEF Extends
  <2> QED
    BY <1>5, <1>13, <2>2 DEF GivenIn
<1>16. Done(w4, names, T, {}, args, x, FALSE)
  <2>1. T = seen \cup {x}
    BY DEF T
  <2> QED
    BY <1>1, <2>1
<1>17. x \in Names \cup {None} /\ FALSE \in BOOLEAN
  OBVIOUS
<1> QED
  BY <1>14, <1>15, <1>16, <1>17, ResultInv

\* h is what a widget's step ends with.
Shown(h) ==
  /\ Sound(h, Live) /\ CurrentFor(h, Live) /\ h.objs = objs
  /\ \A i \in DOMAIN rows : i \in DOMAIN h.rows /\ h.rows[i] = rows[i]
  /\ h.m.bind = mem.bind /\ h.m.tracked = mem.tracked
  /\ h.m.lost = mem.lost /\ h.m.dirty = mem.dirty /\ mem.off \subseteq h.m.off
  /\ \A p \in Live : Known(Here, p) => Known(h, p)

\* Rows that are linked to a state without a row of its own.
LEMMA LinkedShown ==
  ASSUME Inv
  PROVE  Shown(Linked(Begin(objs), Len(states) + 1, None))
<1> DEFINE h == Linked(Begin(objs), Len(states) + 1, None)
<1>1. /\ Here.m = mem /\ Here.rows = rows /\ Here.objs = objs /\ Here.touched = {}
      /\ Sound(Here, Live) /\ CurrentFor(Here, Live) /\ Here = Begin(objs)
      /\ Len(states) + 1 \in Nat
  BY Basics, BeginHere DEF Here, Inv, RegistryInv
<1>2. Sound(h, Live) /\ LinksTo(Here, h, Len(states) + 1, None)
  BY <1>1, LinkedSound
<1> HIDE DEF h
<1>3. /\ h.objs = objs /\ h.touched = {}
      /\ h.m.reg = mem.reg /\ h.m.bind = mem.bind /\ h.m.tracked = mem.tracked
      /\ h.m.lost = mem.lost /\ h.m.dirty = mem.dirty /\ h.m.off = mem.off
      /\ Len(rows) <= Len(h.rows)
      /\ \A i \in DOMAIN rows : i # None => h.rows[i] = rows[i]
  BY <1>1, <1>2 DEF LinksTo
<1>4. \A i \in DOMAIN rows : i \in DOMAIN h.rows /\ h.rows[i] = rows[i]
  <2>1. Len(h.rows) \in Nat /\ DOMAIN h.rows = 1..Len(h.rows)
    BY <1>2, WorkFacts
  <2> QED
    BY <1>3, <2>1, Basics
<1>5. CurrentFor(h, Live)
  <2> SUFFICES ASSUME NEW p \in Live, Known(h, p), p \notin Unsure(h)
               PROVE  h.rows[VersionOf(h, p)].data = Data(h.objs[p])
    BY DEF CurrentFor, Right
  <2>1. Known(Here, p) /\ VersionOf(Here, p) = VersionOf(h, p) /\ p \notin Unsure(Here)
    BY <1>1, <1>3 DEF Known, VersionOf, Unsure
  <2>2. VersionOf(Here, p) \in DOMAIN rows
    BY <1>1, <2>1, VersionExists
  <2>3. rows[VersionOf(Here, p)].data = Data(objs[p])
    BY <1>1, <2>1 DEF CurrentFor, Right
  <2> QED
    BY <1>3, <1>4, <2>1, <2>2, <2>3
<1>7. \A p \in Live : Known(Here, p) => Known(h, p)
  BY <1>1, <1>3 DEF Known
<1> QED
  BY <1>2, <1>3, <1>4, <1>5, <1>7 DEF Shown, h

\* The frame a widget shows gets a row that is an alias of the version it has.
LEMMA AliasShown ==
  ASSUME Inv, NEW o \in Live, Known(Begin(objs), o)
  PROVE  LET w0 == Begin(objs)
             w1 == Stored(w0, o, Len(states) + 1, "alias", rows[VersionOf(w0, o)].data)
             w2 == [w1 EXCEPT !.m.off = mem.off, !.m.lost = mem.lost, !.m.dirty = mem.dirty,
                              !.touched = {mem.reg[objs[o].addr].art}]
         IN  Shown(Linked(w2, Len(states) + 1, Len(rows) + 1))
<1> DEFINE s == Len(states) + 1
           v == Len(rows) + 1
           w0 == Begin(objs)
           data == rows[VersionOf(w0, o)].data
           w1 == Stored(w0, o, s, "alias", data)
           art == mem.reg[objs[o].addr].art
           w2 == [w1 EXCEPT !.m.off = mem.off, !.m.lost = mem.lost, !.m.dirty = mem.dirty,
                            !.touched = {art}]
           w3 == Linked(w2, s, v)
           n == [w1.m EXCEPT !.off = mem.off, !.lost = mem.lost, !.dirty = mem.dirty]
<1>1. /\ w0.m = mem /\ w0.rows = rows /\ w0.objs = objs /\ w0.touched = {} /\ w0 = Here
      /\ Sound(w0, Live) /\ CurrentFor(w0, Live) /\ w0.stored = {}
  <2>1. w0 = Here
    BY BeginHere
  <2>2. /\ Here.m = mem /\ Here.rows = rows /\ Here.objs = objs /\ Here.touched = {}
        /\ Here.stored = {}
    BY DEF Here
  <2>3. Sound(Here, Live) /\ CurrentFor(Here, Live)
    BY DEF Inv, RegistryInv
  <2> HIDE DEF w0
  <2> QED
    BY <2>1, <2>2, <2>3
<1>2. /\ Len(rows) \in Nat /\ DOMAIN rows = 1..Len(rows) /\ s \in Nat /\ o \in Nat
      /\ mem \in Memory
  BY <1>1, Basics, WorkFacts
<1> HIDE DEF w0
<1>3. VersionOf(w0, o) \in DOMAIN rows /\ art \in Nat
  BY <1>1, VersionExists DEF w0
<1>4. data \in Content
  BY <1>1, <1>3, WorkFacts
<1>5. s \in Nat \cup {None} /\ "alias" \in {"copy", "filter", "alias"} /\ Known(w0, o)
  BY <1>2 DEF w0
<1> HIDE DEF data, s
<1>6. StoresRow(w0, w1, o, s, data)
  BY <1>1, <1>4, <1>5, StoredFields
<1>7. /\ StoresOnly(w0, w1, Live, o)
      /\ w1.m.bind = w0.m.bind /\ w1.m.tracked = w0.m.tracked /\ w1.stored = w0.stored
  BY <1>1, <1>4, <1>5, StoredSound
<1> HIDE DEF w1
<1>8. /\ w1 \in Work /\ w1.objs = objs /\ w1.stored = {}
      /\ Len(w1.rows) = v /\ (\A i \in DOMAIN rows : w1.rows[i] = rows[i])
      /\ w1.rows[v].data = data /\ w1.rows[v].obj = o
      /\ VersionOf(w1, o) = v /\ Known(w1, o)
  BY <1>1, <1>6 DEF StoresRow
<1>9. /\ Sound(w1, Live) /\ w1.m.bind = mem.bind /\ w1.m.tracked = mem.tracked
      /\ \A p \in Live \ {o} : w1.m.reg[objs[p].addr] = mem.reg[objs[p].addr]
  BY <1>1, <1>7 DEF StoresOnly
<1>10. /\ n \in Memory /\ n.reg = w1.m.reg /\ n.latest = w1.m.latest /\ n.bind = w1.m.bind
       /\ n.tracked = w1.m.tracked /\ n.off = mem.off /\ n.lost = mem.lost /\ n.dirty = mem.dirty
  BY <1>2, <1>8 DEF Memory, Work
<1>11. w2 = [w1 EXCEPT !.m = n, !.touched = {art}]
  BY <1>8 DEF Work, Memory
<1> HIDE DEF n, w2, art
<1>12. /\ w2 \in Work /\ w2.m = n /\ w2.touched = {art} /\ w2.rows = w1.rows /\ w2.objs = objs
       /\ w2.stored = {}
  BY <1>3, <1>8, <1>10, <1>11 DEF Work
<1>13. Sound(w2, Live)
  BY <1>9, <1>10, <1>12, <1>8 DEF Sound, Known
<1>14. v \in DOMAIN w2.rows
  <2>1. DOMAIN w2.rows = 1..Len(w2.rows)
    BY <1>13, WorkFacts
  <2> QED
    BY <1>2, <1>8, <1>12, <2>1
<1>15. Sound(w3, Live) /\ LinksTo(w2, w3, s, v)
  BY <1>2, <1>13, <1>14, LinkedSound DEF s
<1> HIDE DEF w3
<1>16. /\ w3.objs = objs
       /\ w3.m.reg = w1.m.reg /\ w3.m.bind = mem.bind /\ w3.m.tracked = mem.tracked
       /\ w3.m.lost = mem.lost /\ w3.m.dirty = mem.dirty
       /\ Len(w2.rows) <= Len(w3.rows)
       /\ \A i \in DOMAIN w2.rows : i # v => w3.rows[i] = w2.rows[i]
       /\ w3 = w2 \/ w3.m.off = w2.m.off \cup {o}
  <2>1. v # None
    BY <1>2, ArtifactsAssumption
  <2> HIDE DEF v
  <2> QED
    BY <1>8, <1>9, <1>10, <1>12, <1>15, <2>1 DEF LinksTo
<1>17. \A i \in DOMAIN rows : i \in DOMAIN w3.rows /\ w3.rows[i] = rows[i]
  <2>1. /\ Len(w3.rows) \in Nat /\ DOMAIN w3.rows = 1..Len(w3.rows)
        /\ DOMAIN w2.rows = 1..v
    BY <1>8, <1>12, <1>13, <1>15, WorkFacts
  <2>2. \A i \in DOMAIN rows : i # v /\ i \in DOMAIN w2.rows /\ i \in DOMAIN w3.rows
    BY <1>2, <1>8, <1>12, <1>16, <2>1
  <2> QED
    BY <1>8, <1>12, <1>16, <2>2
<1>18. mem.off \subseteq w3.m.off
  BY <1>10, <1>12, <1>16
<1>19. CurrentFor(w3, Live)
  <2> SUFFICES ASSUME NEW p \in Live, Known(w3, p), p \notin Unsure(w3)
               PROVE  w3.rows[VersionOf(w3, p)].data = Data(objs[p])
    BY <1>16 DEF CurrentFor, Right
  <2>1. p \notin Unsure(w0)
    BY <1>1, <1>16, <1>18 DEF Unsure
  <2>2. CASE p = o
    <3>1. w3 = w2
      BY <1>16, <2>2 DEF Unsure
    <3>2. VersionOf(w3, p) = v
      BY <1>8, <1>16, <2>2 DEF VersionOf
    <3>3. w3.rows[v].data = rows[VersionOf(w0, o)].data
      BY <1>8, <1>12, <3>1 DEF data
    <3>4. rows[VersionOf(w0, o)].data = Data(objs[o])
      BY <1>1, <1>5, <2>1, <2>2 DEF CurrentFor, Right
    <3> QED
      BY <2>2, <3>2, <3>3, <3>4
  <2>3. CASE p # o
    <3>1. w3.m.reg[objs[p].addr] = mem.reg[objs[p].addr]
      BY <1>9, <1>16, <2>3
    <3>2. Known(w0, p) /\ VersionOf(w3, p) = VersionOf(w0, p)
      BY <1>1, <1>16, <3>1 DEF Known, VersionOf
    <3>3. VersionOf(w0, p) \in DOMAIN rows
      BY <1>1, <3>2, VersionExists
    <3>4. rows[VersionOf(w0, p)].data = Data(objs[p])
      BY <1>1, <2>1, <3>2 DEF CurrentFor, Right
    <3> QED
      BY <1>17, <3>2, <3>3, <3>4
  <2> QED
    BY <2>2, <2>3
<1>20. ASSUME NEW p \in Live, Known(Here, p)
       PROVE  Known(w3, p)
  <2>1. CASE p = o
    BY <1>8, <1>16, <2>1 DEF Known
  <2>2. CASE p # o
    BY <1>1, <1>9, <1>16, <1>20, <2>2 DEF Known
  <2> QED
    BY <2>1, <2>2
<1>22. Shown(w3)
  BY <1>15, <1>16, <1>17, <1>18, <1>19, <1>20 DEF Shown
<1> QED
  BY <1>22 DEF w3, w2, w1, w0, data, s, art

\* A widget's step keeps the invariant.
LEMMA WidgetInv ==
  ASSUME Inv, NEW y \in Names, Widget(y)
  PROVE  Inv'
<1> DEFINE o == ns[y]
           s == Len(states) + 1
           w0 == Begin(objs)
           w1 == Stored(w0, o, s, "alias", rows[VersionOf(w0, o)].data)
           w2 == [w1 EXCEPT !.m.off = mem.off, !.m.lost = mem.lost, !.m.dirty = mem.dirty,
                            !.touched = {mem.reg[objs[o].addr].art}]
           h == IF Known(w0, o) THEN Linked(w2, s, Len(rows) + 1) ELSE Linked(w0, s, None)
           new == [bind |-> mem.bind, expect |-> expect, args |-> <<>>,
                   line |-> None, label |-> Labelled,
                   off |-> {x \in seen : ns[x] \in mem.off}]
<1>1. /\ o # None
      /\ mem' = h.m /\ rows' = h.rows /\ states' = Append(states, new) /\ current' = s
      /\ UNCHANGED <<ns, objs, expect, seen, plain, moves>>
  BY DEF Widget
<1>2. o \in Live
  BY <1>1, Basics
<1>3. Shown(h)
  <2>1. CASE Known(w0, o)
    <3>1. h = Linked(w2, s, Len(rows) + 1)
      BY <2>1
    <3>2. Shown(Linked(w2, s, Len(rows) + 1))
      BY <1>2, <2>1, AliasShown
    <3> QED
      BY <3>1, <3>2
  <2>2. CASE ~ Known(w0, o)
    <3>1. h = Linked(w0, s, None)
      BY <2>2
    <3>2. Shown(Linked(w0, s, None))
      BY LinkedShown
    <3> QED
      BY <3>1, <3>2
  <2> QED
    BY <2>1, <2>2
<1> HIDE DEF h, o
<1>4. /\ Sound(h, Live) /\ CurrentFor(h, Live) /\ h.objs = objs
      /\ \A i \in DOMAIN rows : i \in DOMAIN h.rows /\ h.rows[i] = rows[i]
      /\ h.m.bind = mem.bind /\ h.m.tracked = mem.tracked
      /\ h.m.lost = mem.lost /\ h.m.dirty = mem.dirty /\ mem.off \subseteq h.m.off
      /\ \A p \in Live : Known(Here, p) => Known(h, p)
  BY <1>3 DEF Shown
<1>5. /\ ns' = ns /\ objs' = objs /\ expect' = expect /\ seen' = seen /\ plain' = plain
      /\ moves' = moves /\ Live' = Live
  BY <1>1 DEF Live
<1>6. /\ h.m \in Memory /\ h.rows \in Seq(Row) /\ h.objs \in Seq(Object) /\ h \in Work
  BY <1>4, WorkFacts
<1>7. new \in State
  <2>1. Labelled \in BOOLEAN
    BY DEF Labelled
  <2>2. mem.bind \in [Names -> Nat \cup {None}]
    BY Basics DEF Memory
  <2>3. /\ expect \in [Names -> Content \cup {Nothing, Unknown}] /\ seen \subseteq Names
        /\ <<>> \in Seq(Arg)
    BY DEF Inv, TypesInv
  <2> QED
    BY <2>1, <2>2, <2>3 DEF State
<1>8. new.bind = mem.bind /\ new.expect = expect /\ new.args = <<>>
      /\ new.off = {x \in seen : ns[x] \in mem.off}
  OBVIOUS
<1> HIDE DEF new
<1>9. /\ Len(states') = s /\ DOMAIN states' = 1..s
      /\ states' \in Seq(State) /\ states'[s] = new
      /\ \A k \in DOMAIN states : states'[k] = states[k]
  BY <1>1, <1>7, Basics
<1>17. \A k \in DOMAIN states' : k \in DOMAIN states \/ k = s
  BY <1>9, Basics
<1>10. TypesInv'
  <2>1. s \in 0..s
    BY Basics
  <2> QED
    BY <1>1, <1>5, <1>9, <2>1 DEF Inv, TypesInv
<1>11. RegistryInv'
  <2>1. /\ Here'.m = h.m /\ Here'.rows = h.rows /\ Here'.objs = h.objs /\ Here'.stored = {}
        /\ Here' \in Work
    BY <1>1, <1>4, <1>5, <1>6 DEF Here, Work
  <2>2. Sound(Here', Live)
    BY <1>4, <2>1, Shed
  <2>3. CurrentFor(Here', Live)
    BY <1>4, <2>1 DEF CurrentFor, Right, Known, VersionOf, Unsure
  <2> QED
    BY <1>5, <2>2, <2>3 DEF RegistryInv
<1>18. \A x \in Names : mem.bind[x] \in DOMAIN rows \cup {None}
  BY Basics DEF Sound, Here
<1>12. NamedInv'
  <2> SUFFICES ASSUME NEW k \in DOMAIN states'
               PROVE  /\ \A x \in Names : states'[k].bind[x] \in DOMAIN rows' \cup {None}
                      /\ \A i \in DOMAIN states'[k].args : states'[k].args[i].ver \in DOMAIN rows'
    BY DEF NamedInv
  <2>1. CASE k \in DOMAIN states
    BY <1>1, <1>4, <1>9, <2>1 DEF Inv, NamedInv
  <2>2. CASE k = s
    BY <1>1, <1>4, <1>8, <1>9, <1>18, <2>2
  <2> QED
    BY <1>17, <2>1, <2>2
<1>13. TrackedInv'
  <2>1. Fresh' = 2 * (Len(objs) + plain + (Len(states) + 1)) + 1
    BY <1>5, <1>9 DEF Fresh
  <2>2. Fresh < Fresh' /\ Fresh \in Nat /\ Fresh' \in Nat
    BY <2>1, Basics, SMTT(30)
  <2>3. ASSUME NEW p \in DOMAIN objs
        PROVE  objs[p].print < Fresh'
    <3>1. objs[p] \in Object /\ objs[p].print < Fresh
      BY Basics DEF Inv, TrackedInv
    <3>2. objs[p].print \in Nat
      BY <3>1 DEF Object
    <3> QED
      BY <2>2, <3>1, <3>2
  <2>4. ASSUME NEW x \in Names, mem.tracked[x].obj # None
        PROVE  /\ mem.tracked[x].obj \in DOMAIN objs
               /\ mem.tracked[x].print \in Nat /\ mem.tracked[x].print < Fresh'
               /\ mem.tracked[x].obj \in mem.dirty => mem.tracked[x].print # objs[mem.tracked[x].obj].print
    <3>1. /\ mem.tracked[x].obj \in DOMAIN objs
          /\ mem.tracked[x].print \in Nat /\ mem.tracked[x].print < Fresh
          /\ mem.tracked[x].obj \in mem.dirty => mem.tracked[x].print # objs[mem.tracked[x].obj].print
      BY <2>4 DEF Inv, TrackedInv
    <3> QED
      BY <2>2, <3>1
  <2>5. Agree(Here', {x \in Names : h.m.tracked[x].obj # None})
    <3>1. Here'.m.tracked = mem.tracked /\ Here.m.tracked = mem.tracked
      BY <1>1, <1>4 DEF Here
    <3> QED
      BY <1>4, <3>1 DEF Inv, TrackedInv, Agree
  <2> QED
    BY <1>1, <1>4, <1>5, <2>3, <2>4, <2>5 DEF TrackedInv
<1>14. ToldInv'
  <2> SUFFICES ASSUME NEW x \in seen
               PROVE  /\ ns[x] # None /\ mem.tracked[x].obj = ns[x] /\ mem.bind[x] # None
                      /\ Known(h, ns[x])
                      /\ ns[x] \notin h.m.off \cup h.m.lost /\ mem.tracked[x].print = objs[ns[x]].print
                         => h.rows[mem.bind[x]].data = Data(objs[ns[x]])
    BY <1>1, <1>4, <1>5 DEF ToldInv, Here, Known
  <2>1. x \in Names
    BY DEF Inv, TypesInv
  <2>2. /\ ns[x] # None /\ mem.tracked[x].obj = ns[x] /\ mem.bind[x] # None /\ Known(Here, ns[x])
        /\ ns[x] \notin mem.off \cup mem.lost /\ mem.tracked[x].print = objs[ns[x]].print
           => rows[mem.bind[x]].data = Data(objs[ns[x]])
    BY DEF Inv, ToldInv
  <2>3. ns[x] \in Live
    BY <2>1, <2>2, Basics
  <2>4. mem.bind[x] \in DOMAIN rows
    BY <1>18, <2>1, <2>2
  <2> QED
    BY <1>4, <2>2, <2>3, <2>4
<1>15. QuietInv'
  BY <1>1, <1>4, <1>5 DEF Inv, QuietInv
<1>16. ASSUME NEW x \in Names, expect[x] # Unknown, x \in seen => ns[x] \notin mem.off
       PROVE  IF expect[x] = Nothing THEN mem.bind[x] = None
              ELSE mem.bind[x] # None /\ h.rows[mem.bind[x]].data = expect[x]
  <2>1. Restores(mem.bind[x], expect[x])
    BY <1>16 DEF Inv, StandInv
  <2> QED
    BY <1>4, <1>18, <2>1 DEF Restores, Loads
<1>19. StandInv'
  <2> SUFFICES ASSUME NEW x \in Names, expect[x] # Unknown, x \in seen => ns[x] \notin h.m.off
               PROVE  IF expect[x] = Nothing THEN mem.bind[x] = None
                      ELSE mem.bind[x] # None /\ h.rows[mem.bind[x]].data = expect[x]
    BY <1>1, <1>4, <1>5 DEF StandInv, Restores, Loads
  <2>1. x \in seen => ns[x] \notin mem.off
    BY <1>4
  <2> QED
    BY <1>16, <2>1
<1>20. RestoredAsRecorded'
  <2> SUFFICES ASSUME NEW k \in DOMAIN states', NEW x \in Names \ states'[k].off,
                      states'[k].expect[x] # Unknown
               PROVE  LET v == states'[k].bind[x]
                          c == states'[k].expect[x]
                      IN  IF c = Nothing THEN v = None ELSE v # None /\ h.rows[v].data = c
    BY <1>1 DEF RestoredAsRecorded, Restores, Loads
  <2>1. CASE k \in DOMAIN states
    <3>1. states'[k] = states[k] /\ states[k].bind[x] \in DOMAIN rows \cup {None}
      BY <1>9, <2>1 DEF Inv, NamedInv
    <3>2. Restores(states[k].bind[x], states[k].expect[x])
      BY <2>1, <3>1 DEF Inv, RestoredAsRecorded
    <3> QED
      BY <1>4, <3>1, <3>2 DEF Restores, Loads
  <2>2. CASE k = s
    BY <1>8, <1>9, <1>16, <2>2
  <2> QED
    BY <1>17, <2>1, <2>2
<1>21. ArgumentsAsGiven'
  <2> SUFFICES ASSUME NEW k \in DOMAIN states', NEW i \in DOMAIN states'[k].args,
                      states'[k].args[i].sure
               PROVE  h.rows[states'[k].args[i].ver].data = states'[k].args[i].was
    BY <1>1 DEF ArgumentsAsGiven, Loads
  <2>1. CASE k \in DOMAIN states
    <3>1. states'[k] = states[k] /\ states[k].args[i].ver \in DOMAIN rows
      BY <1>9, <2>1 DEF Inv, NamedInv
    <3>2. rows[states[k].args[i].ver].data = states[k].args[i].was
      BY <2>1, <3>1 DEF Inv, ArgumentsAsGiven, Loads
    <3> QED
      BY <1>4, <3>1, <3>2
  <2>2. CASE k = s
    BY <1>8, <1>9, <2>2
  <2> QED
    BY <1>17, <2>1, <2>2
<1> QED
  BY <1>10, <1>11, <1>12, <1>13, <1>14, <1>15, <1>19, <1>20, <1>21 DEF Inv
-----------------------------------------------------------------------------
(* Steps that are not recorded *)

\* What the states say of the rows stays true of the same states and rows.
LEMMA Unrecorded ==
  ASSUME Inv, rows' = rows, states' = states
  PROVE  NamedInv' /\ RestoredAsRecorded' /\ ArgumentsAsGiven'
BY DEF Inv, NamedInv, RestoredAsRecorded, Restores, Loads, ArgumentsAsGiven

\* The registries stay sound when objects change or are made and no row is stored.
LEMMA StillSound ==
  ASSUME Inv, rows' = rows, objs' \in Seq(Object), Len(objs) <= Len(objs'),
         Apart(objs', Live'), mem' \in Memory, mem'.reg = mem.reg, mem'.latest = mem.latest,
         \A x \in Names : mem'.bind[x] \in DOMAIN rows \cup {None}
  PROVE  Sound(Here', Live')
<1>1. /\ Here'.m = mem' /\ Here'.rows = rows /\ Here'.objs = objs' /\ Here'.stored = {}
      /\ Here' \in Work
  BY Basics DEF Here, Work
<1>2. /\ Sound(Here, Live) /\ Here.m = mem /\ Here.rows = rows /\ Here.objs = objs
      /\ \A o \in DOMAIN objs : o \in DOMAIN objs'
  BY Basics DEF Here
<1> QED
  BY <1>1, <1>2 DEF Sound

\* A variable that is bound by a statement that is not recorded refers to an object
\* the tracker does not know.
LEMMA RebindInv ==
  ASSUME Inv, NEW x \in Names, Rebind(x)
  PROVE  Inv'
<1> DEFINE o == Len(objs) + 1
<1>1. PICK a \in Room(1) : objs' = Append(objs, NewAt(a, Fresh, 0)) /\ ns' = [ns EXCEPT ![x] = o]
  BY DEF Rebind
<1> DEFINE new == NewAt(a, Fresh, 0)
<1>2. /\ expect' = [expect EXCEPT ![x] = Unknown] /\ seen' = seen \ {x} /\ plain' = plain + 1
      /\ mem' = mem /\ rows' = rows /\ states' = states /\ current' = current /\ moves' = moves
  BY DEF Rebind, CanPlain
<1>3. NewObject(objs', o)
  <2>1. new \in Object /\ new.addr = a /\ new.print <= Fresh
    <3>1. a \in Addrs
      BY RoomIsFree
    <3>2. Fresh \in Nat \ {0}
      BY Basics
    <3> QED
      BY <3>1, <3>2 DEF NewAt, Object
  <2>2. objs' = Append(objs, new)
    BY <1>1
  <2> HIDE DEF new
  <2> QED
    BY <2>1, <2>2, Appended
<1>4. /\ objs' \in Seq(Object) /\ Len(objs') = Len(objs) + 1 /\ o \in Nat /\ o = Len(objs) + 1
      /\ o \notin DOMAIN objs /\ o \notin Live
      /\ DOMAIN objs' = DOMAIN objs \cup {o}
      /\ \A p \in DOMAIN objs : objs'[p] = objs[p]
      /\ \A p \in DOMAIN objs' : objs'[p].print < 2 * (Len(objs') + plain + Len(states) + 1) + 1
      /\ Apart(objs', Live \cup {o})
  BY <1>3 DEF NewObject
<1> HIDE DEF o
<1>5. /\ ns' \in [Names -> Nat \cup {None}] /\ ns'[x] = o
      /\ \A y \in Names : y # x => ns'[y] = ns[y]
      /\ Live' \subseteq Live \cup {o} /\ o \in Live'
  <2>1. /\ ns' \in [Names -> Nat \cup {None}] /\ ns'[x] = o
        /\ \A y \in Names : y # x => ns'[y] = ns[y]
    BY <1>1, <1>4, NamesAre
  <2>2. o # None
    BY <1>4, ArtifactsAssumption
  <2> QED
    BY <2>1, <2>2 DEF Live
<1>6. /\ mem \in Memory /\ Sound(Here, Live) /\ Len(objs) \in Nat /\ Len(states) \in Nat
      /\ plain \in Nat /\ DOMAIN objs = 1..Len(objs)
      /\ \A p \in Live : p \in DOMAIN objs
      /\ Here.m = mem /\ Here.rows = rows /\ Here.objs = objs
      /\ Here'.m = mem /\ Here'.rows = rows /\ Here'.objs = objs'
  BY <1>2, Basics DEF Here
<1>7. TypesInv'
  <2>1. plain + 1 \in Nat /\ seen \ {x} \subseteq Names
    BY <1>6 DEF Inv, TypesInv
  <2>2. [expect EXCEPT ![x] = Unknown] \in [Names -> Content \cup {Nothing, Unknown}]
    BY DEF Inv, TypesInv
  <2> QED
    BY <1>2, <1>5, <2>1, <2>2 DEF Inv, TypesInv
<1>8. RegistryInv'
  <2>1. Sound(Here', Live')
    <3>1. Apart(objs', Live')
      BY <1>4, <1>5 DEF Apart
    <3>2. \A y \in Names : mem'.bind[y] \in DOMAIN rows \cup {None}
      BY <1>2, <1>6 DEF Sound
    <3> QED
      BY <1>2, <1>4, <1>6, <3>1, <3>2, StillSound
  <2>2. CurrentFor(Here', Live')
    <3> SUFFICES ASSUME NEW p \in Live', Known(Here', p), p \notin Unsure(Here')
                 PROVE  Here'.rows[VersionOf(Here', p)].data = Data(Here'.objs[p])
      BY DEF CurrentFor, Right
    <3>1. p # o
      <4>1. SUFFICES ASSUME p = o PROVE FALSE
        OBVIOUS
      <4>2. objs'[o] \in Object
        BY <1>4
      <4>3. objs'[o].addr \in Addrs
        BY <4>2 DEF Object
      <4>4. mem.reg[objs'[o].addr].obj = o
        BY <1>6, <4>1 DEF Known
      <4>5. o # None
        BY <1>4, ArtifactsAssumption
      <4>6. o \in DOMAIN objs
        BY <1>6, <4>3, <4>4, <4>5 DEF Sound
      <4> QED
        BY <1>4, <4>6
    <3>2. p \in Live /\ objs'[p] = objs[p]
      BY <1>4, <1>5, <1>6, <3>1
    <3>3. Known(Here, p) /\ p \notin Unsure(Here) /\ VersionOf(Here', p) = VersionOf(Here, p)
      BY <1>6, <3>2 DEF Known, Unsure, VersionOf
    <3>4. Here.rows[VersionOf(Here, p)].data = Data(Here.objs[p])
      BY <3>2, <3>3 DEF Inv, RegistryInv, CurrentFor, Right
    <3> QED
      BY <1>6, <3>2, <3>3, <3>4
  <2> QED
    BY <2>1, <2>2 DEF RegistryInv
<1>9. TrackedInv'
  <2>1. Fresh' = 2 * (Len(objs') + plain + Len(states) + 1) + 1 /\ Fresh < Fresh' /\ Fresh \in Nat
        /\ Fresh' \in Nat
    <3>1. Fresh' = 2 * (Len(objs') + (plain + 1) + Len(states)) + 1
      BY <1>2 DEF Fresh
    <3>2. Fresh = 2 * (Len(objs) + plain + Len(states)) + 1
      BY DEF Fresh
    <3> QED
      BY <1>4, <1>6, <3>1, <3>2, SMTT(30)
  <2>2. ASSUME NEW y \in Names, mem.tracked[y].obj # None
        PROVE  /\ mem.tracked[y].obj \in DOMAIN objs' /\ mem.tracked[y].print \in Nat
               /\ mem.tracked[y].print < Fresh'
               /\ mem.tracked[y].obj \in mem.dirty => mem.tracked[y].print # objs'[mem.tracked[y].obj].print
    <3>1. /\ mem.tracked[y].obj \in DOMAIN objs /\ mem.tracked[y].print \in Nat
          /\ mem.tracked[y].print < Fresh
          /\ mem.tracked[y].obj \in mem.dirty => mem.tracked[y].print # objs[mem.tracked[y].obj].print
      BY <2>2 DEF Inv, TrackedInv
    <3> QED
      BY <1>4, <2>1, <3>1
  <2>3. Agree(Here', {y \in Names : mem.tracked[y].obj # None})
    BY <1>6 DEF Inv, TrackedInv, Agree
  <2> QED
    BY <1>2, <1>4, <2>1, <2>2, <2>3 DEF TrackedInv
<1>10. ASSUME NEW y \in seen'
       PROVE  /\ y \in seen /\ y \in Names /\ ns'[y] = ns[y] /\ ns[y] # None
              /\ ns[y] \in DOMAIN objs /\ objs'[ns[y]] = objs[ns[y]]
  <2>1. y \in seen /\ y \in Names /\ y # x
    BY <1>2 DEF Inv, TypesInv
  <2>2. ns[y] # None
    BY <2>1 DEF Inv, ToldInv
  <2> QED
    BY <1>4, <1>5, <2>1, <2>2, Basics
<1>11. ToldInv'
  <2> SUFFICES ASSUME NEW y \in seen'
               PROVE  /\ ns'[y] # None /\ mem'.tracked[y].obj = ns'[y] /\ mem'.bind[y] # None
                      /\ Known(Here', ns'[y])
                      /\ ns'[y] \notin mem'.off \cup mem'.lost
                         /\ mem'.tracked[y].print = objs'[ns'[y]].print
                         => rows'[mem'.bind[y]].data = Data(objs'[ns'[y]])
    BY DEF ToldInv
  <2>1. Known(Here', ns[y]) <=> Known(Here, ns[y])
    BY <1>6, <1>10 DEF Known
  <2> QED
    BY <1>2, <1>10, <2>1 DEF Inv, ToldInv
<1>12. expect \in [Names -> Content \cup {Nothing, Unknown}]
  BY DEF Inv, TypesInv
<1>13. expect'[x] = Unknown /\ \A y \in Names : y # x => expect'[y] = expect[y]
  BY <1>2, <1>12
<1>14. QuietInv'
  BY <1>2, <1>13 DEF Inv, QuietInv
<1>15. StandInv'
  <2> SUFFICES ASSUME NEW y \in Names, expect'[y] # Unknown, y \in seen' => ns'[y] \notin mem'.off
               PROVE  Restores(mem.bind[y], expect[y])
    BY <1>2, <1>13 DEF StandInv, Restores, Loads
  <2>1. y # x
    BY <1>13
  <2> QED
    BY <1>2, <1>5, <1>13, <2>1 DEF Inv, StandInv
<1> QED
  BY <1>2, <1>7, <1>8, <1>9, <1>11, <1>14, <1>15, Unrecorded DEF Inv

\* The variables that a statement that changes object o in place leaves alone; the
\* tracker's memory differs in what is hidden from it.
InPlace(o) ==
  /\ ns' = ns /\ rows' = rows /\ states' = states /\ current' = current /\ expect' = expect
  /\ seen' = seen /\ plain' = plain + 1 /\ moves' = moves
  /\ objs' \in Seq(Object) /\ Len(objs') = Len(objs)
  /\ \A p \in DOMAIN objs : objs'[p].addr = objs[p].addr /\ (p # o => objs'[p] = objs[p])
  /\ mem' \in Memory /\ mem'.reg = mem.reg /\ mem'.latest = mem.latest /\ mem'.bind = mem.bind
  /\ mem'.tracked = mem.tracked /\ mem'.off = mem.off

\* A change that _fingerprint sees.
Visible(o) == mem'.dirty = mem.dirty \cup {o} /\ mem'.lost = mem.lost /\ objs'[o].print = Fresh

\* A change that _fingerprint does not see.
Hidden(o) == mem'.dirty = mem.dirty /\ mem'.lost = mem.lost \cup {o} /\ objs'[o].print = objs[o].print

\* A frame that is changed by a statement that is not recorded has a version that
\* is another's until the tracker stores it again.
LEMMA InPlaceInv ==
  ASSUME Inv, NEW o \in Live, InPlace(o), Visible(o) \/ Hidden(o)
  PROVE  Inv'
<1>1. /\ ns' = ns /\ rows' = rows /\ states' = states /\ current' = current /\ expect' = expect
      /\ seen' = seen /\ plain' = plain + 1 /\ moves' = moves
      /\ objs' \in Seq(Object) /\ Len(objs') = Len(objs)
      /\ \A p \in DOMAIN objs : objs'[p].addr = objs[p].addr /\ (p # o => objs'[p] = objs[p])
      /\ mem' \in Memory /\ mem'.reg = mem.reg /\ mem'.latest = mem.latest /\ mem'.bind = mem.bind
      /\ mem'.tracked = mem.tracked /\ mem'.off = mem.off
  BY DEF InPlace
<1>2. /\ Live' = Live /\ Len(objs) \in Nat /\ Len(states) \in Nat /\ plain \in Nat
      /\ DOMAIN objs = 1..Len(objs) /\ DOMAIN objs' = DOMAIN objs
      /\ \A p \in Live : p \in DOMAIN objs
      /\ Sound(Here, Live) /\ Fresh = 2 * (Len(objs) + plain + Len(states)) + 1 /\ Fresh \in Nat
      /\ Here.m = mem /\ Here.rows = rows /\ Here.objs = objs
      /\ Here'.m = mem' /\ Here'.rows = rows /\ Here'.objs = objs'
  <2>1. Live' = Live
    BY <1>1 DEF Live
  <2>2. Here'.m = mem' /\ Here'.rows = rows /\ Here'.objs = objs'
    BY <1>1 DEF Here
  <2> QED
    BY <1>1, <2>1, <2>2, Basics DEF Here
<1>3. \A p : p # o => (p \in mem'.dirty <=> p \in mem.dirty) /\ (p \in mem'.lost <=> p \in mem.lost)
  BY DEF Visible, Hidden
<1>4. TypesInv'
  <2>1. plain + 1 \in Nat
    BY <1>2
  <2> QED
    BY <1>1, <2>1 DEF Inv, TypesInv
<1>5. RegistryInv'
  <2>1. Sound(Here', Live')
    <3>1. Apart(objs, Live)
      BY <1>2 DEF Sound
    <3>2. Apart(objs', Live')
      BY <1>1, <1>2, <3>1 DEF Apart
    <3>3. \A y \in Names : mem'.bind[y] \in DOMAIN rows \cup {None}
      BY <1>1, <1>2 DEF Sound
    <3>4. Len(objs) <= Len(objs')
      BY <1>1, <1>2
    <3> QED
      BY <1>1, <3>2, <3>3, <3>4, StillSound
  <2>2. CurrentFor(Here', Live')
    <3> SUFFICES ASSUME NEW p \in Live, Known(Here', p), p \notin Unsure(Here')
                 PROVE  Here'.rows[VersionOf(Here', p)].data = Data(Here'.objs[p])
      BY <1>2 DEF CurrentFor, Right
    <3>1. p # o
      BY <1>2 DEF Unsure, Visible, Hidden
    <3>2. objs'[p] = objs[p]
      BY <1>1, <1>2, <3>1
    <3>3. Known(Here, p) /\ p \notin Unsure(Here) /\ VersionOf(Here', p) = VersionOf(Here, p)
      BY <1>1, <1>2, <1>3, <3>1, <3>2 DEF Known, Unsure, VersionOf
    <3>4. Here.rows[VersionOf(Here, p)].data = Data(Here.objs[p])
      BY <3>3 DEF Inv, RegistryInv, CurrentFor, Right
    <3> QED
      BY <1>2, <3>2, <3>3, <3>4
  <2> QED
    BY <2>1, <2>2 DEF RegistryInv
<1>6. Fresh' \in Nat /\ Fresh < Fresh'
  <2>1. Fresh' = 2 * (Len(objs) + (plain + 1) + Len(states)) + 1
    BY <1>1 DEF Fresh
  <2> QED
    BY <1>2, <2>1
<1>7. ASSUME NEW y \in Names, mem.tracked[y].obj # None
      PROVE  /\ mem.tracked[y].obj \in DOMAIN objs /\ mem.tracked[y].print \in Nat
             /\ mem.tracked[y].print < Fresh
             /\ mem.tracked[y].obj \in mem.dirty => mem.tracked[y].print # objs[mem.tracked[y].obj].print
  BY <1>7 DEF Inv, TrackedInv
<1>8. ASSUME NEW y \in Names, mem.tracked[y].obj = o
      PROVE  \/ mem.tracked[y].print # objs'[o].print
             \/ Hidden(o)
  <2>1. mem.tracked[y].print < Fresh /\ mem.tracked[y].print \in Nat
    <3>1. mem.tracked[y].obj # None
      BY <1>8, Basics
    <3> QED
      BY <1>7, <3>1
  <2> QED
    BY <1>2, <2>1 DEF Visible
<1>9. TrackedInv'
  <2>1. ASSUME NEW p \in DOMAIN objs
        PROVE  objs'[p].print < Fresh'
    <3>1. objs[p].print < Fresh
      BY DEF Inv, TrackedInv
    <3>2. objs'[p].print \in {objs[p].print, Fresh}
      BY <1>1 DEF Visible, Hidden
    <3>3. objs[p].print \in Nat
      <4>1. objs[p] \in Object
        BY Basics
      <4> QED
        BY <4>1 DEF Object
    <3> QED
      BY <1>2, <1>6, <3>1, <3>2, <3>3
  <2>2. ASSUME NEW y \in Names, mem.tracked[y].obj # None
        PROVE  /\ mem.tracked[y].obj \in DOMAIN objs' /\ mem.tracked[y].print \in Nat
               /\ mem.tracked[y].print < Fresh'
               /\ mem.tracked[y].obj \in mem'.dirty => mem.tracked[y].print # objs'[mem.tracked[y].obj].print
    <3>1. mem.tracked[y].obj \in mem'.dirty => mem.tracked[y].print # objs'[mem.tracked[y].obj].print
      <4>1. CASE mem.tracked[y].obj = o
        <5>1. CASE Hidden(o)
          BY <1>7, <2>2, <4>1, <5>1 DEF Hidden
        <5>2. CASE ~ Hidden(o)
          BY <1>8, <4>1, <5>2
        <5> QED
          BY <5>1, <5>2
      <4>2. CASE mem.tracked[y].obj # o
        BY <1>1, <1>3, <1>7, <2>2, <4>2
      <4> QED
        BY <4>1, <4>2
    <3> QED
      BY <1>2, <1>6, <1>7, <2>2, <3>1
  <2>3. Agree(Here', {y \in Names : mem.tracked[y].obj # None})
    BY <1>1, <1>2, SMTT(30) DEF Inv, TrackedInv, Agree
  <2> QED
    BY <1>1, <1>2, <2>1, <2>2, <2>3 DEF TrackedInv
<1>10. ToldInv'
  <2> SUFFICES ASSUME NEW y \in seen
               PROVE  /\ ns[y] # None /\ mem.tracked[y].obj = ns[y] /\ mem.bind[y] # None
                      /\ Known(Here', ns[y])
                      /\ ns[y] \notin mem.off \cup mem'.lost
                         /\ mem.tracked[y].print = objs'[ns[y]].print
                         => rows[mem.bind[y]].data = Data(objs'[ns[y]])
    BY <1>1 DEF ToldInv
  <2>1. /\ ns[y] # None /\ mem.tracked[y].obj = ns[y] /\ mem.bind[y] # None /\ Known(Here, ns[y])
        /\ ns[y] \notin mem.off \cup mem.lost /\ mem.tracked[y].print = objs[ns[y]].print
           => rows[mem.bind[y]].data = Data(objs[ns[y]])
    BY DEF Inv, ToldInv
  <2>2. y \in Names /\ ns[y] \in DOMAIN objs
    BY <2>1, Basics DEF Inv, TypesInv
  <2>3. Known(Here', ns[y])
    BY <1>1, <1>2, <2>1, <2>2 DEF Known
  <2>4. ASSUME ns[y] \notin mem.off \cup mem'.lost, mem.tracked[y].print = objs'[ns[y]].print
        PROVE  rows[mem.bind[y]].data = Data(objs'[ns[y]])
    <3>1. ns[y] # o
      BY <1>8, <2>1, <2>2, <2>4 DEF Hidden
    <3> QED
      BY <1>1, <1>3, <2>1, <2>2, <2>4, <3>1
  <2> QED
    BY <2>1, <2>3, <2>4
<1>11. QuietInv' /\ StandInv'
  BY <1>1 DEF Inv, QuietInv, StandInv, Restores, Loads
<1> QED
  BY <1>1, <1>4, <1>5, <1>9, <1>10, <1>11, Unrecorded DEF Inv

\* del x['c'] keeps the invariant.
LEMMA ReshapeInv ==
  ASSUME Inv, NEW x \in Names, Reshape(x)
  PROVE  Inv'
<1> DEFINE o == ns[x]
<1>1. /\ o # None /\ objs' = Changed(o, Fresh) /\ mem' = [mem EXCEPT !.dirty = @ \cup {o}]
      /\ ns' = ns /\ rows' = rows /\ states' = states /\ current' = current /\ expect' = expect
      /\ seen' = seen /\ plain' = plain + 1 /\ moves' = moves
  BY DEF Reshape, CanPlain
<1>2. /\ o \in Live /\ o \in DOMAIN objs /\ objs \in Seq(Object) /\ Fresh \in Nat \ {0} /\ o \in Nat
      /\ mem \in Memory
  BY <1>1, Basics
<1> HIDE DEF o
<1>3. Rewrites(objs, objs', o, Fresh)
  BY <1>1, <1>2, ChangedObject DEF Changed
<1>4. /\ mem' \in Memory /\ mem'.reg = mem.reg /\ mem'.latest = mem.latest /\ mem'.bind = mem.bind
      /\ mem'.tracked = mem.tracked /\ mem'.off = mem.off
      /\ mem'.dirty = mem.dirty \cup {o} /\ mem'.lost = mem.lost
  BY <1>1, <1>2 DEF Memory
<1>5. InPlace(o) /\ Visible(o)
  BY <1>1, <1>3, <1>4 DEF InPlace, Visible, Rewrites
<1> QED
  BY <1>2, <1>5, InPlaceInv

\* x['c'] += 1 keeps the invariant.
LEMMA EditInv ==
  ASSUME Inv, NEW x \in Names, Edit(x)
  PROVE  Inv'
<1> DEFINE o == ns[x]
           new == [objs[o] EXCEPT !.tok = Fresh]
<1>1. /\ o # None /\ objs' = [objs EXCEPT ![o].tok = Fresh] /\ mem' = [mem EXCEPT !.lost = @ \cup {o}]
      /\ ns' = ns /\ rows' = rows /\ states' = states /\ current' = current /\ expect' = expect
      /\ seen' = seen /\ plain' = plain + 1 /\ moves' = moves
  BY DEF Edit, CanPlain
<1>2. /\ o \in Live /\ o \in DOMAIN objs /\ objs \in Seq(Object) /\ Fresh \in Nat \ {0} /\ o \in Nat
      /\ DOMAIN objs = 1..Len(objs) /\ objs[o] \in Object /\ mem \in Memory
  BY <1>1, Basics
<1>3. objs' = [objs EXCEPT ![o] = new]
  BY <1>1
<1> HIDE DEF o
<1>4. new \in Object /\ new.addr = objs[o].addr /\ new.print = objs[o].print
  BY <1>2 DEF Object
<1> HIDE DEF new
<1>5. /\ objs' \in Seq(Object) /\ Len(objs') = Len(objs)
      /\ \A p \in 1..Len(objs) : objs'[p] = IF p = o THEN new ELSE objs[p]
  BY <1>2, <1>3, <1>4, ExceptSeq
<1>6. /\ mem' \in Memory /\ mem'.reg = mem.reg /\ mem'.latest = mem.latest /\ mem'.bind = mem.bind
      /\ mem'.tracked = mem.tracked /\ mem'.off = mem.off
      /\ mem'.dirty = mem.dirty /\ mem'.lost = mem.lost \cup {o}
  BY <1>1, <1>2 DEF Memory
<1>7. InPlace(o) /\ Hidden(o)
  BY <1>1, <1>2, <1>4, <1>5, <1>6 DEF InPlace, Hidden
<1> QED
  BY <1>2, <1>7, InPlaceInv

-----------------------------------------------------------------------------
(* Moves to a recorded state *)

\* What a move to state s leaves: the bindings of s, no tracked name.
MovesTo(s) ==
  /\ rows' = rows /\ states' = states /\ plain' = plain /\ moves' = moves + 1
  /\ current' = s /\ expect' = Expected(s) /\ seen' = {}
  /\ mem' \in Memory /\ mem'.bind = states[s].bind
  /\ \A x \in Names : mem'.tracked[x].obj = None
  /\ ns' \in [Names -> Nat \cup {None}]
  /\ objs' \in Seq(Object) /\ \A p \in DOMAIN objs' : objs'[p].print < Fresh'

\* A move keeps the invariant when the registries stay sound: what the names stand
\* for is what the state ought to load.
LEMMA MoveInv ==
  ASSUME Inv, NEW s \in DOMAIN states, MovesTo(s), RegistryInv'
  PROVE  Inv'
<1>1. /\ rows' = rows /\ states' = states /\ plain' = plain /\ moves' = moves + 1
      /\ current' = s /\ expect' = Expected(s) /\ seen' = {}
      /\ mem' \in Memory /\ mem'.bind = states[s].bind
      /\ \A x \in Names : mem'.tracked[x].obj = None
      /\ ns' \in [Names -> Nat \cup {None}]
      /\ objs' \in Seq(Object) /\ \A p \in DOMAIN objs' : objs'[p].print < Fresh'
  BY DEF MovesTo
<1>2. states[s] \in State /\ s \in 0..Len(states)
  BY Basics
<1>3. Expected(s) \in [Names -> Content \cup {Nothing, Unknown}]
  <2>1. states[s].expect \in [Names -> Content \cup {Nothing, Unknown}]
    BY <1>2 DEF State
  <2> QED
    BY <2>1 DEF Expected
<1>4. TypesInv'
  <2>1. moves + 1 \in Nat
    BY DEF Inv, TypesInv
  <2> QED
    BY <1>1, <1>2, <1>3, <2>1 DEF Inv, TypesInv
<1>5. TrackedInv'
  BY <1>1 DEF TrackedInv, Agree, Here
<1>6. ToldInv' /\ QuietInv'
  BY <1>1 DEF ToldInv, QuietInv
<1>7. StandInv'
  <2> SUFFICES ASSUME NEW x \in Names, Expected(s)[x] # Unknown
               PROVE  Restores(states[s].bind[x], Expected(s)[x])
    BY <1>1 DEF StandInv, Restores, Loads
  <2>1. x \notin states[s].off /\ Expected(s)[x] = states[s].expect[x]
    BY DEF Expected
  <2> QED
    BY <2>1 DEF Inv, RestoredAsRecorded
<1> QED
  BY <1>1, <1>4, <1>5, <1>6, <1>7, Unrecorded DEF Inv

\* The bindings of a recorded state name stored versions.
LEMMA StateBind ==
  ASSUME Inv, NEW s \in DOMAIN states
  PROVE  /\ states[s] \in State /\ states[s].bind \in [Names -> Nat \cup {None}]
         /\ \A x \in Names : states[s].bind[x] \in DOMAIN rows \cup {None}
<1>1. states[s] \in State
  BY Basics
<1> QED
  BY <1>1 DEF State, Inv, NamedInv

\* The memory after a move.
LEMMA RewoundFacts ==
  ASSUME Inv, NEW s \in DOMAIN states, NEW m \in Memory
  PROVE  LET r == Rewound(m, s)
         IN  /\ r \in Memory /\ r.reg = m.reg /\ r.latest = m.latest /\ r.off = m.off
             /\ r.lost = m.lost /\ r.dirty = m.dirty /\ r.bind = states[s].bind
             /\ \A x \in Names : r.tracked[x].obj = None
<1> DEFINE t == [x \in Names |-> Untracked]
<1>1. t \in [Names -> [obj : Nat \cup {None}, print : Nat \cup {None}]]
      /\ \A x \in Names : t[x].obj = None
  BY DEF Untracked
<1>2. Rewound(m, s) = [m EXCEPT !.bind = states[s].bind, !.tracked = t]
  BY DEF Rewound
<1> HIDE DEF t
<1> QED
  BY <1>1, <1>2, StateBind DEF Memory

\* A move that makes no version and no registry entry, and new objects only, leaves
\* the registries sound.
LEMMA MoveRegistry ==
  ASSUME Inv, NEW s \in DOMAIN states, mem' = Rewound(mem, s), rows' = rows,
         objs' \in Seq(Object), Len(objs) <= Len(objs'),
         \A p \in DOMAIN objs : objs'[p] = objs[p],
         \A p \in Live' : p \in Live \/ p \notin DOMAIN objs, Apart(objs', Live')
  PROVE  RegistryInv'
<1>1. /\ mem' \in Memory /\ mem'.reg = mem.reg /\ mem'.latest = mem.latest
      /\ mem'.off = mem.off /\ mem'.lost = mem.lost /\ mem'.dirty = mem.dirty
      /\ mem'.bind = states[s].bind
  BY RewoundFacts, Basics
<1>2. Sound(Here', Live')
  BY <1>1, StateBind, StillSound
<1>3. /\ Here'.m = mem' /\ Here'.rows = rows /\ Here'.objs = objs'
      /\ Here.m = mem /\ Here.rows = rows /\ Here.objs = objs
  BY DEF Here
<1>4. CurrentFor(Here', Live')
  <2> SUFFICES ASSUME NEW p \in Live', Known(Here', p), p \notin Unsure(Here')
               PROVE  Here'.rows[VersionOf(Here', p)].data = Data(Here'.objs[p])
    BY DEF CurrentFor, Right
  <2>1. p \in DOMAIN objs
    <3>1. p \in DOMAIN objs' /\ objs'[p].addr \in Addrs /\ p # None
      <4>1. p \in DOMAIN objs' /\ p \in Nat /\ objs'[p] \in Object
        BY DEF Apart
      <4> QED
        BY <4>1, ArtifactsAssumption DEF Object
    <3>2. mem.reg[objs'[p].addr].obj = p
      BY <1>1, <1>3 DEF Known
    <3>3. mem.reg[objs'[p].addr].obj # None => mem.reg[objs'[p].addr].obj \in DOMAIN objs
      BY <1>3, <3>1, Basics DEF Sound
    <3> QED
      BY <3>1, <3>2, <3>3
  <2>2. p \in Live /\ objs'[p] = objs[p]
    BY <2>1
  <2>3. Known(Here, p) /\ p \notin Unsure(Here) /\ VersionOf(Here', p) = VersionOf(Here, p)
    BY <1>1, <1>3, <2>2 DEF Known, Unsure, VersionOf
  <2>4. Here.rows[VersionOf(Here, p)].data = Data(Here.objs[p])
    BY <2>2, <2>3 DEF Inv, RegistryInv, CurrentFor, Right
  <2> QED
    BY <1>3, <2>2, <2>3, <2>4
<1> QED
  BY <1>2, <1>4 DEF RegistryInv

\* checkout keeps the invariant.
LEMMA CheckoutInv ==
  ASSUME Inv, NEW s \in DOMAIN states, Checkout(s)
  PROVE  Inv'
<1>1. /\ moves' = moves + 1 /\ mem' = Rewound(mem, s) /\ current' = s /\ expect' = Expected(s)
      /\ seen' = {} /\ ns' = ns /\ objs' = objs /\ rows' = rows /\ states' = states /\ plain' = plain
  BY DEF Checkout, CanMove, Positioned
<1>2. RegistryInv'
  <2>1. Live' = Live
    BY <1>1 DEF Live
  <2>2. Apart(objs, Live) /\ objs \in Seq(Object) /\ Len(objs) <= Len(objs)
    BY Basics DEF Sound, Here
  <2> QED
    BY <1>1, <2>1, <2>2, MoveRegistry
<1>3. \A p \in DOMAIN objs' : objs'[p].print < Fresh'
  BY <1>1 DEF Inv, TrackedInv, Fresh
<1>4. mem' \in Memory /\ mem'.bind = states[s].bind /\ \A x \in Names : mem'.tracked[x].obj = None
  BY <1>1, RewoundFacts, Basics
<1>5. MovesTo(s)
  BY <1>1, <1>3, <1>4, NamesAre, Basics DEF MovesTo
<1> QED
  BY <1>2, <1>5, MoveInv

\* A process starts with nothing registered.
LEMMA EmptyTyped == EmptyMemory \in Memory
<1>1. [a \in Addrs |-> Unseen] \in [Addrs -> Entry]
  BY DEF Unseen, Entry
<1>2. [a \in {} |-> None] \in Latest
  <2>1. [a \in {} |-> None] \in [{} -> Nat] /\ {} \in SUBSET Nat
    OBVIOUS
  <2> QED
    BY <2>1 DEF Latest
<1>3. [x \in Names |-> Untracked] \in [Names -> [obj : Nat \cup {None}, print : Nat \cup {None}]]
  BY DEF Untracked
<1> QED
  BY <1>1, <1>2, <1>3 DEF EmptyMemory, Memory

\* resume keeps the invariant.
LEMMA ResumeInv ==
  ASSUME Inv, Resume
  PROVE  Inv'
<1>1. /\ moves' = moves + 1 /\ mem' = Rewound(EmptyMemory, current) /\ current' = current
      /\ expect' = Expected(current) /\ current # 0
      /\ seen' = {} /\ ns' = [x \in Names |-> None] /\ objs' = objs /\ rows' = rows
      /\ states' = states /\ plain' = plain
  BY DEF Resume, CanMove
<1>2. current \in DOMAIN states
  BY <1>1, Basics DEF Inv, TypesInv
<1>3. EmptyMemory \in Memory
  BY EmptyTyped
<1>4. /\ mem' \in Memory /\ mem'.reg = EmptyMemory.reg /\ mem'.latest = EmptyMemory.latest
      /\ mem'.bind = states[current].bind /\ \A x \in Names : mem'.tracked[x].obj = None
  BY <1>1, <1>2, <1>3, RewoundFacts
<1>5. Live' = {}
  BY <1>1 DEF Live
<1>6. /\ Here'.m = mem' /\ Here'.rows = rows /\ Here'.objs = objs /\ Here'.stored = {}
      /\ Here' \in Work
  BY <1>1, <1>4, Basics DEF Here, Work
<1>7. (\A a \in Addrs : mem'.reg[a].obj = None) /\ DOMAIN mem'.latest = {}
  BY <1>4 DEF EmptyMemory, Unseen
<1>8. RegistryInv'
  <2>1. Sound(Here', {})
    <3>1. \A x \in Names : mem'.bind[x] \in DOMAIN rows \cup {None}
      BY <1>2, <1>4, StateBind
    <3>2. IsFiniteSet({})
      BY FS_EmptySet
    <3> QED
      BY <1>6, <1>7, <3>1, <3>2 DEF Sound, Apart
  <2>2. CurrentFor(Here', {})
    BY DEF CurrentFor
  <2> QED
    BY <1>5, <2>1, <2>2 DEF RegistryInv
<1>9. \A p \in DOMAIN objs' : objs'[p].print < Fresh'
  BY <1>1 DEF Inv, TrackedInv, Fresh
<1>10. MovesTo(current)
  BY <1>1, <1>4, <1>9, Basics DEF MovesTo
<1> QED
  BY <1>2, <1>8, <1>10, MoveInv

\* The names a state binds, in some order.
LEMMA InOrder ==
  ASSUME NEW S, IsFiniteSet(S)
  PROVE  LET xs == SetToSeq(S)
         IN  /\ Cardinality(S) \in Nat /\ DOMAIN xs = 1..Cardinality(S)
             /\ xs \in Seq(S) /\ Len(xs) = Cardinality(S)
             /\ \A i \in DOMAIN xs : xs[i] \in S
<1> DEFINE k == Cardinality(S)
           xs == SetToSeq(S)
<1>1. k \in Nat /\ ExistsBijection(1..k, S)
  BY FS_CardinalityType
<1>2. \E f \in [1..k -> S] : IsInjective(f)
  BY <1>1 DEF ExistsBijection, Bijection, Injection
<1>3. xs \in [1..k -> S]
  BY <1>2 DEF SetToSeq
<1> HIDE DEF xs, k
<1> QED
  BY <1>1, <1>3 DEF xs, k

\* The names of X get new objects the tracker is not told of.
SetAside(X) ==
  /\ rows' = rows /\ states' = states /\ current' = current /\ mem' = mem /\ plain' = plain
  /\ moves' = moves + 1
  /\ expect' = [x \in Names |-> IF x \in X THEN Unknown ELSE expect[x]] /\ seen' = seen \ X
  /\ ns' \in [Names -> Nat \cup {None}] /\ \A y \in Names : y \notin X => ns'[y] = ns[y]
  /\ objs' \in Seq(Object) /\ Len(objs) <= Len(objs')
  /\ \A p \in DOMAIN objs : objs'[p] = objs[p]
  /\ \A p \in DOMAIN objs' : objs'[p].print < Fresh'
  /\ \A p \in Live' : p \in Live \/ p \notin DOMAIN objs
  /\ Apart(objs', Live')

\* restore_state without checkout leaves the tracker what it knows.
LEMMA SetAsideInv ==
  ASSUME Inv, NEW X, SetAside(X)
  PROVE  Inv'
<1>1. /\ rows' = rows /\ states' = states /\ current' = current /\ mem' = mem /\ plain' = plain
      /\ moves' = moves + 1
      /\ expect' = [x \in Names |-> IF x \in X THEN Unknown ELSE expect[x]] /\ seen' = seen \ X
      /\ ns' \in [Names -> Nat \cup {None}] /\ \A y \in Names : y \notin X => ns'[y] = ns[y]
      /\ objs' \in Seq(Object) /\ Len(objs) <= Len(objs')
      /\ \A p \in DOMAIN objs : objs'[p] = objs[p]
      /\ \A p \in DOMAIN objs' : objs'[p].print < Fresh'
      /\ \A p \in Live' : p \in Live \/ p \notin DOMAIN objs
      /\ Apart(objs', Live')
  BY DEF SetAside
<1>2. /\ mem \in Memory /\ Sound(Here, Live) /\ Len(objs) \in Nat /\ Len(states) \in Nat
      /\ plain \in Nat /\ DOMAIN objs = 1..Len(objs) /\ Len(objs') \in Nat
      /\ \A p \in DOMAIN objs : p \in DOMAIN objs'
      /\ Here.m = mem /\ Here.rows = rows /\ Here.objs = objs
      /\ Here'.m = mem /\ Here'.rows = rows /\ Here'.objs = objs'
  <2>1. /\ mem \in Memory /\ Sound(Here, Live) /\ Len(objs) \in Nat /\ Len(states) \in Nat
        /\ plain \in Nat /\ DOMAIN objs = 1..Len(objs)
    BY Basics
  <2>2. /\ Here.m = mem /\ Here.rows = rows /\ Here.objs = objs
        /\ Here'.m = mem /\ Here'.rows = rows /\ Here'.objs = objs'
    BY <1>1 DEF Here
  <2>3. Len(objs') \in Nat /\ DOMAIN objs' = 1..Len(objs')
    BY <1>1
  <2>4. \A p \in DOMAIN objs : p \in DOMAIN objs'
    BY <1>1, <2>1, <2>3
  <2> QED
    BY <2>1, <2>2, <2>3, <2>4
<1>3. expect \in [Names -> Content \cup {Nothing, Unknown}] /\ seen \subseteq Names
  BY DEF Inv, TypesInv
<1>4. \A x \in Names : expect'[x] = IF x \in X THEN Unknown ELSE expect[x]
  BY <1>1
<1>5. TypesInv'
  <2>1. moves + 1 \in Nat /\ seen \ X \subseteq Names
    BY <1>3 DEF Inv, TypesInv
  <2>2. [x \in Names |-> IF x \in X THEN Unknown ELSE expect[x]]
          \in [Names -> Content \cup {Nothing, Unknown}]
    BY <1>3
  <2> QED
    BY <1>1, <2>1, <2>2 DEF Inv, TypesInv
<1>6. RegistryInv'
  <2>1. Sound(Here', Live')
    <3>1. \A y \in Names : mem'.bind[y] \in DOMAIN rows \cup {None}
      BY <1>1, <1>2 DEF Sound
    <3> QED
      BY <1>1, <1>2, <3>1, StillSound
  <2>2. CurrentFor(Here', Live')
    <3> SUFFICES ASSUME NEW p \in Live', Known(Here', p), p \notin Unsure(Here')
                 PROVE  Here'.rows[VersionOf(Here', p)].data = Data(Here'.objs[p])
      BY DEF CurrentFor, Right
    <3>1. p \in DOMAIN objs
      <4>1. p \in DOMAIN objs' /\ objs'[p] \in Object
        BY <1>1 DEF Apart
      <4>2. p \in Nat /\ objs'[p].addr \in Addrs /\ p # None
        BY <1>1, <1>2, <4>1, ArtifactsAssumption DEF Object
      <4>3. mem.reg[objs'[p].addr].obj = p
        BY <1>2 DEF Known
      <4> QED
        BY <1>2, <4>2, <4>3 DEF Sound
    <3>2. p \in Live /\ objs'[p] = objs[p]
      BY <1>1, <3>1
    <3>3. Known(Here, p) /\ p \notin Unsure(Here) /\ VersionOf(Here', p) = VersionOf(Here, p)
      BY <1>2, <3>2 DEF Known, Unsure, VersionOf
    <3>4. Here.rows[VersionOf(Here, p)].data = Data(Here.objs[p])
      BY <3>2, <3>3 DEF Inv, RegistryInv, CurrentFor, Right
    <3> QED
      BY <1>2, <3>2, <3>3, <3>4
  <2> QED
    BY <2>1, <2>2 DEF RegistryInv
<1>7. TrackedInv'
  <2>1. Fresh <= Fresh' /\ Fresh \in Nat /\ Fresh' \in Nat
    <3>1. Fresh' = 2 * (Len(objs') + plain + Len(states)) + 1
      BY <1>1 DEF Fresh
    <3>2. Fresh = 2 * (Len(objs) + plain + Len(states)) + 1
      BY DEF Fresh
    <3> QED
      BY <1>1, <1>2, <3>1, <3>2, SMTT(30)
  <2>2. ASSUME NEW y \in Names, mem.tracked[y].obj # None
        PROVE  /\ mem.tracked[y].obj \in DOMAIN objs' /\ mem.tracked[y].print \in Nat
               /\ mem.tracked[y].print < Fresh'
               /\ mem.tracked[y].obj \in mem.dirty => mem.tracked[y].print # objs'[mem.tracked[y].obj].print
    <3>1. /\ mem.tracked[y].obj \in DOMAIN objs /\ mem.tracked[y].print \in Nat
          /\ mem.tracked[y].print < Fresh
          /\ mem.tracked[y].obj \in mem.dirty => mem.tracked[y].print # objs[mem.tracked[y].obj].print
      BY <2>2 DEF Inv, TrackedInv
    <3> QED
      BY <1>1, <1>2, <2>1, <3>1
  <2>3. Agree(Here', {y \in Names : mem.tracked[y].obj # None})
    BY <1>2 DEF Inv, TrackedInv, Agree
  <2> QED
    BY <1>1, <2>2, <2>3 DEF TrackedInv
<1>8. ASSUME NEW y \in seen'
      PROVE  /\ y \in seen /\ y \in Names /\ ns'[y] = ns[y] /\ ns[y] # None
             /\ ns[y] \in DOMAIN objs /\ objs'[ns[y]] = objs[ns[y]]
  <2>1. y \in seen /\ y \in Names /\ y \notin X
    BY <1>1, <1>3
  <2>2. ns[y] # None
    BY <2>1 DEF Inv, ToldInv
  <2> QED
    BY <1>1, <2>1, <2>2, Basics
<1>9. ToldInv'
  <2> SUFFICES ASSUME NEW y \in seen'
               PROVE  /\ ns'[y] # None /\ mem'.tracked[y].obj = ns'[y] /\ mem'.bind[y] # None
                      /\ Known(Here', ns'[y])
                      /\ ns'[y] \notin mem'.off \cup mem'.lost
                         /\ mem'.tracked[y].print = objs'[ns'[y]].print
                         => rows'[mem'.bind[y]].data = Data(objs'[ns'[y]])
    BY DEF ToldInv
  <2>1. Known(Here', ns[y]) <=> Known(Here, ns[y])
    BY <1>2, <1>8 DEF Known
  <2> QED
    BY <1>1, <1>8, <2>1 DEF Inv, ToldInv
<1>10. QuietInv'
  BY <1>1, <1>4 DEF Inv, QuietInv
<1>11. StandInv'
  <2> SUFFICES ASSUME NEW y \in Names, expect'[y] # Unknown, y \in seen' => ns'[y] \notin mem'.off
               PROVE  Restores(mem.bind[y], expect[y])
    BY <1>1, <1>4 DEF StandInv, Restores, Loads
  <2>1. y \notin X
    BY <1>4
  <2> QED
    BY <1>1, <1>4, <2>1 DEF Inv, StandInv
<1> QED
  BY <1>1, <1>5, <1>6, <1>7, <1>9, <1>10, <1>11, Unrecorded DEF Inv

\* Of the rows of state s whose artifact came from a line x = ... one is the newest.
LEMMA NewestRow ==
  ASSUME Inv, NEW s, NEW x, RowsNamed(s, x) # {}
  PROVE  \E i \in RowsNamed(s, x) :
           \A j \in RowsNamed(s, x) : Origin(rows[j].art) <= Origin(rows[i].art)
<1> DEFINE R == RowsNamed(s, x)
           A == {Origin(rows[i].art) : i \in R}
           f == [i \in R |-> Origin(rows[i].art)]
<1>1. IsFiniteSet(R) /\ R \subseteq DOMAIN rows /\ \A i \in R : Origin(rows[i].art) # None
  <2>1. R \in SUBSET DOMAIN rows /\ \A i \in R : Origin(rows[i].art) # None
    BY DEF RowsNamed
  <2>2. IsFiniteSet(DOMAIN rows)
    BY Basics, FS_Interval
  <2> HIDE DEF R
  <2>3. IsFiniteSet(R)
    BY <2>1, <2>2, FS_Subset
  <2> QED
    BY <2>1, <2>3
<1>2. ASSUME NEW b, Origin(b) # None
      PROVE  Origin(b) \in Nat
  <2> DEFINE made == {i \in DOMAIN rows : rows[i].art = b /\ rows[i].kind # "alias" /\ rows[i].at # None}
             T == {rows[i].at : i \in made}
  <2>1. made # {} /\ Origin(b) = Min(T)
    BY <1>2 DEF Origin
  <2>2. \A i \in DOMAIN rows : rows[i].at \in Nat \cup {None}
    <3>1. \A i \in DOMAIN rows : rows[i] \in Row
      BY Basics
    <3> QED
      BY <3>1 DEF Row
  <2>3. T \in SUBSET Nat /\ T # {}
    BY <2>1, <2>2
  <2> HIDE DEF T, made
  <2>4. Min(T) \in T
    BY <2>3, MinOf
  <2> QED
    BY <2>1, <2>3, <2>4
<1>3. A \in SUBSET Nat /\ A # {} /\ f \in Surjection(R, A)
  <2>1. \A i \in R : Origin(rows[i].art) \in Nat
    BY <1>1, <1>2
  <2>2. f \in Surjection(R, A)
    BY DEF Surjection
  <2> QED
    BY <2>1, <2>2
<1>4. \A i \in R : Origin(rows[i].art) \in A
  OBVIOUS
<1>5. \A a \in A : \E i \in R : a = Origin(rows[i].art)
  OBVIOUS
<1> HIDE DEF A, f
<1>6. IsFiniteSet(A)
  <2> HIDE DEF R
  <2> QED
    BY <1>1, <1>3, FS_Surjection
<1>7. Max(A) \in A /\ \A b \in A : Max(A) >= b
  BY <1>3, <1>6, PlacesAre
<1>8. PICK i \in R : Max(A) = Origin(rows[i].art)
  BY <1>5, <1>7
<1>9. ASSUME NEW j \in R
      PROVE  Origin(rows[j].art) <= Origin(rows[i].art)
  <2>1. Origin(rows[j].art) \in Nat /\ Max(A) \in Nat /\ Max(A) >= Origin(rows[j].art)
    BY <1>3, <1>4, <1>7
  <2> HIDE DEF R
  <2> QED
    BY <1>8, <2>1
<1> QED
  BY <1>9

\* The names restore_state hands back get stored versions.
LEMMA Handed ==
  ASSUME Inv, NEW s \in DOMAIN states
  PROVE  /\ DOMAIN HandedBack(s) \in SUBSET Names
         /\ \A x \in DOMAIN HandedBack(s) : HandedBack(s)[x] \in DOMAIN rows
<1> DEFINE named == {y \in Names : RowsNamed(s, y) # {}}
           newest(x) == CHOOSE i \in RowsNamed(s, x) :
                          \A j \in RowsNamed(s, x) : Origin(rows[j].art) <= Origin(rows[i].art)
<1>1. CASE BoundAt(s) # {} \/ states[s].label
  <2>1. HandedBack(s) = [x \in BoundAt(s) |-> states[s].bind[x]]
    BY <1>1 DEF HandedBack
  <2>2. BoundAt(s) \in SUBSET Names /\ \A x \in BoundAt(s) : states[s].bind[x] \in DOMAIN rows
    BY StateBind DEF BoundAt
  <2> QED
    BY <2>1, <2>2
<1>2. CASE ~(BoundAt(s) # {} \/ states[s].label)
  <2>1. HandedBack(s) = [x \in named |-> newest(x)]
    BY <1>2, Zenon DEF HandedBack
  <2>2. ASSUME NEW x \in named
        PROVE  newest(x) \in DOMAIN rows
    <3>1. newest(x) \in RowsNamed(s, x)
      BY NewestRow
    <3> HIDE DEF newest
    <3> QED
      BY <3>1 DEF RowsNamed
  <2>3. named \in SUBSET Names
    OBVIOUS
  <2> HIDE DEF named, newest
  <2> QED
    BY <2>1, <2>2, <2>3
<1> QED
  BY <1>1, <1>2

\* What restore_state puts in the notebook: a new object for each name it hands back.
LEMMA RestoreInv ==
  ASSUME Inv, NEW s \in DOMAIN states, NEW checkout \in BOOLEAN, Restore(s, checkout)
  PROVE  Inv'
<1> DEFINE handed == HandedBack(s)
           xs == SetToSeq(DOMAIN handed)
           k == Len(xs)
           Version(i) == Loads(handed[xs[i]])
           Loaded(x) == IF x \in ToSet(xs) THEN Len(objs) + CHOOSE i \in DOMAIN xs : xs[i] = x ELSE ns[x]
           Made(at) == [i \in DOMAIN xs |-> [NewAt(at[i], Version(i).tok, Version(i).cut)
                                               EXCEPT !.print = Fresh + i]]
           Asides == [x \in Names |-> IF x \in ToSet(xs) THEN Unknown ELSE expect[x]]
<1>1. /\ moves' = moves + 1 /\ rows' = rows /\ states' = states /\ plain' = plain
      /\ ns' = [x \in Names |-> Loaded(x)]
      /\ \E at \in [DOMAIN xs -> Room(Len(xs))] : IsInjective(at) /\ objs' = objs \o Made(at)
      /\ checkout => mem' = Rewound(mem, s) /\ current' = s /\ expect' = Expected(s) /\ seen' = {}
      /\ ~checkout => /\ expect' = Asides /\ seen' = seen \ ToSet(xs)
                      /\ mem' = mem /\ current' = current
  BY DEF Restore, CanMove, Positioned
<1>2. PICK at \in [DOMAIN xs -> Room(Len(xs))] : IsInjective(at) /\ objs' = objs \o Made(at)
  BY <1>1
<1> DEFINE t == Made(at)
<1>3. /\ k \in Nat /\ DOMAIN xs = 1..k /\ \A i \in DOMAIN xs : xs[i] \in DOMAIN handed
      /\ \A i \in DOMAIN xs : handed[xs[i]] \in DOMAIN rows
  <2>1. DOMAIN handed \in SUBSET Names /\ \A x \in DOMAIN handed : handed[x] \in DOMAIN rows
    BY Handed
  <2> HIDE DEF handed
  <2>2. IsFiniteSet(DOMAIN handed)
    BY <2>1, ArtifactsAssumption, FS_Subset
  <2> QED
    BY <2>1, <2>2, InOrder
<1> HIDE DEF handed, xs, k
<1>4. ASSUME NEW i \in 1..k
      PROVE  /\ at[i] \in Addrs /\ \A p \in Live : objs[p].addr # at[i]
             /\ Version(i) \in Content
  <2>1. at[i] \in Room(Len(xs))
    BY <1>3
  <2>2. at[i] \in Addrs /\ \A p \in Live : objs[p].addr # at[i]
    BY <2>1, RoomIsFree
  <2>4. handed[xs[i]] \in DOMAIN rows
    BY <1>3
  <2>5. rows[handed[xs[i]]] \in Row
    BY <2>4, Basics, SMTT(30)
  <2> QED
    BY <2>2, <2>5 DEF Loads, Row
<1>5. /\ Len(objs) \in Nat /\ DOMAIN objs = 1..Len(objs) /\ objs \in Seq(Object)
      /\ Len(states) \in Nat /\ plain \in Nat /\ Fresh = 2 * (Len(objs) + plain + Len(states)) + 1
      /\ Fresh \in Nat /\ \A p \in Live : p \in DOMAIN objs
      /\ \A p \in Live : objs[p].addr \in Addrs
  <2>1. \A p \in Live : objs[p].addr \in Addrs
    BY Basics DEF Object
  <2> QED
    BY <2>1, Basics
<1>6. ASSUME NEW i \in 1..k
      PROVE  t[i] \in Object /\ t[i].addr = at[i] /\ t[i].print = Fresh + i
  <2>1. t[i] = [tok |-> Version(i).tok, cut |-> Version(i).cut, print |-> Fresh + i, addr |-> at[i]]
    BY <1>3 DEF NewAt
  <2>2. Version(i).tok \in Nat \ {0} /\ Version(i).cut \in Nat
    BY <1>4 DEF Content
  <2>3. Fresh + i \in Nat
    BY <1>3, <1>5
  <2> HIDE DEF t, Version
  <2> QED
    BY <1>4, <2>1, <2>2, <2>3 DEF Object
<1>7. t \in Seq(Object) /\ Len(t) = k
  <2>1. t = [i \in 1..k |-> t[i]]
    BY <1>3
  <2> HIDE DEF t
  <2>2. [i \in 1..k |-> t[i]] \in Seq(Object)
    BY <1>3, <1>6, IsASeq
  <2>3. t \in Seq(Object) /\ DOMAIN t = 1..k
    BY <2>1, <2>2
  <2> QED
    BY <1>3, <2>3
<1>8. objs' = objs \o t
  BY <1>2
<1> HIDE DEF t
<1>9. /\ objs' \in Seq(Object) /\ Len(objs') = Len(objs) + k /\ DOMAIN objs' = 1..(Len(objs) + k)
      /\ \A p \in 1..Len(objs) : objs'[p] = objs[p]
      /\ \A i \in 1..k : objs'[Len(objs) + i] = t[i]
  <2>1. /\ objs \o t \in Seq(Object) /\ Len(objs \o t) = Len(objs) + Len(t)
        /\ \A p \in 1..Len(objs) : (objs \o t)[p] = objs[p]
    BY <1>5, <1>7, SMTT(30)
  <2>2. ASSUME NEW i \in 1..Len(t)
        PROVE  (objs \o t)[Len(objs) + i] = t[i]
    BY <1>5, <1>7
  <2>3. DOMAIN (objs \o t) = 1..Len(objs \o t)
    BY <2>1
  <2> QED
    BY <1>7, <1>8, <2>1, <2>2, <2>3
<1>10. ASSUME NEW p \in DOMAIN objs', p \notin DOMAIN objs
       PROVE  \E i \in 1..k : p = Len(objs) + i
  <2>1. p - Len(objs) \in 1..k /\ p = Len(objs) + (p - Len(objs))
    BY <1>3, <1>5, <1>9, <1>10
  <2> QED
    BY <2>1
<1>11. ASSUME NEW x \in Names
       PROVE  ns'[x] \in Live \cup {None} \/ \E i \in 1..k : ns'[x] = Len(objs) + i
  <2>1. ns'[x] = Loaded(x)
    BY <1>1
  <2>2. CASE x \in ToSet(xs)
    <3>1. \E i \in DOMAIN xs : xs[i] = x
      BY <2>2 DEF ToSet
    <3>2. (CHOOSE i \in DOMAIN xs : xs[i] = x) \in 1..k
      BY <1>3, <3>1
    <3> QED
      BY <2>1, <2>2, <3>2
  <2>3. CASE x \notin ToSet(xs)
    BY <2>1, <2>3, NamesAre
  <2> QED
    BY <2>2, <2>3
<1>12. /\ ns' \in [Names -> Nat \cup {None}]
       /\ \A p \in Live' : p \in Live \/ (p \in DOMAIN objs' /\ p \notin DOMAIN objs)
  <2>1. \A i \in 1..k : /\ Len(objs) + i \in Nat /\ Len(objs) + i \in DOMAIN objs'
                        /\ Len(objs) + i \notin DOMAIN objs
    BY <1>3, <1>5, <1>9
  <2>2. \A x \in Names : ns'[x] \in Nat \cup {None}
    BY <1>5, <1>11, <2>1
  <2>3. ns' = [x \in Names |-> ns'[x]]
    <3> HIDE DEF Loaded
    <3> QED
      BY <1>1
  <2>4. ns' \in [Names -> Nat \cup {None}]
    BY <2>2, <2>3
  <2>5. \A p \in Live' : \E x \in Names : p = ns'[x] /\ p # None
    BY DEF Live
  <2> QED
    BY <1>11, <2>1, <2>4, <2>5
<1>13. Apart(objs', Live')
  <2>1. Apart(objs, Live)
    BY Basics DEF Sound, Here
  <2>2. \A p \in Live : p \in DOMAIN objs /\ p \in DOMAIN objs' /\ objs'[p] = objs[p]
    BY <1>3, <1>5, <1>9
  <2>3. \A i, j \in 1..k : t[i].addr = t[j].addr => i = j
    <3>1. \A i, j \in 1..k : at[i] = at[j] => i = j
      BY <1>2, <1>3 DEF IsInjective
    <3> QED
      BY <1>6, <3>1
  <2>4. \A i \in 1..k : \A p \in Live : t[i].addr # objs[p].addr
    BY <1>4, <1>6
  <2>5. \A p \in Live' : (p \in Live) \/ (\E i \in 1..k : p = Len(objs) + i)
    BY <1>10, <1>12
  <2>6. ASSUME NEW p \in Live', NEW q \in Live', objs'[p].addr = objs'[q].addr
        PROVE  p = q
    <3>1. CASE p \in Live /\ q \in Live
      BY <2>1, <2>2, <2>6, <3>1 DEF Apart
    <3>2. CASE p \in Live /\ \E j \in 1..k : q = Len(objs) + j
      <4>1. PICK j \in 1..k : q = Len(objs) + j
        BY <3>2
      <4> QED
        BY <1>9, <2>2, <2>4, <2>6, <3>2, <4>1
    <3>3. CASE q \in Live /\ \E i \in 1..k : p = Len(objs) + i
      <4>1. PICK i \in 1..k : p = Len(objs) + i
        BY <3>3
      <4> QED
        BY <1>9, <2>2, <2>4, <2>6, <3>3, <4>1
    <3>4. CASE (\E i \in 1..k : p = Len(objs) + i) /\ (\E j \in 1..k : q = Len(objs) + j)
      <4>1. PICK i \in 1..k : p = Len(objs) + i
        BY <3>4
      <4>2. PICK j \in 1..k : q = Len(objs) + j
        BY <3>4
      <4>3. t[i].addr = t[j].addr
        BY <1>9, <2>6, <4>1, <4>2
      <4> QED
        BY <2>3, <4>1, <4>2, <4>3
    <3> QED
      BY <2>5, <3>1, <3>2, <3>3, <3>4
  <2>7. Live' \subseteq DOMAIN objs'
    BY <1>12, <2>2
  <2> QED
    BY <2>6, <2>7 DEF Apart
<1>14. /\ Len(objs) <= Len(objs') /\ \A p \in DOMAIN objs : objs'[p] = objs[p]
       /\ \A p \in Live' : p \in Live \/ p \notin DOMAIN objs
  <2>1. Len(objs) <= Len(objs') /\ \A p \in DOMAIN objs : objs'[p] = objs[p]
    BY <1>3, <1>5, <1>9
  <2> QED
    BY <1>12, <2>1
<1>15. ASSUME NEW p \in DOMAIN objs'
       PROVE  objs'[p].print < Fresh'
  <2>1. Fresh' = 2 * (Len(objs) + k + plain + Len(states)) + 1
    <3>1. Fresh' = 2 * (Len(objs') + plain + Len(states)) + 1
      BY <1>1 DEF Fresh
    <3> QED
      BY <1>9, <3>1
  <2>2. CASE p \in DOMAIN objs
    <3>1. objs'[p] = objs[p] /\ objs[p].print < Fresh
      BY <1>5, <1>9, <2>2 DEF Inv, TrackedInv
    <3>2. objs[p].print \in Nat
      <4>1. objs[p] \in Object
        BY <1>5, <2>2
      <4> QED
        BY <4>1 DEF Object
    <3> QED
      BY <1>3, <1>5, <2>1, <3>1, <3>2
  <2>3. CASE p \notin DOMAIN objs
    <3>1. PICK i \in 1..k : p = Len(objs) + i
      BY <1>10, <2>3
    <3>2. objs'[p].print = Fresh + i
      BY <1>6, <1>9, <3>1
    <3> QED
      BY <1>3, <1>5, <2>1, <3>2
  <2> QED
    BY <2>2, <2>3
<1>16. CASE checkout
  <2>1. mem' = Rewound(mem, s) /\ current' = s /\ expect' = Expected(s) /\ seen' = {}
    BY <1>1, <1>16
  <2>2. mem' \in Memory /\ mem'.bind = states[s].bind /\ \A x \in Names : mem'.tracked[x].obj = None
    BY <2>1, RewoundFacts, Basics
  <2>3. RegistryInv'
    BY <1>1, <1>9, <1>13, <1>14, <2>1, MoveRegistry
  <2>4. MovesTo(s)
    BY <1>1, <1>9, <1>12, <1>15, <2>1, <2>2 DEF MovesTo
  <2> QED
    BY <2>3, <2>4, MoveInv
<1>17. CASE ~checkout
  <2>1. /\ expect' = Asides /\ seen' = seen \ ToSet(xs) /\ mem' = mem /\ current' = current
    BY <1>1, <1>17
  <2>2. ASSUME NEW y \in Names, y \notin ToSet(xs)
        PROVE  ns'[y] = ns[y]
    BY <1>1, <2>2
  <2>3. SetAside(ToSet(xs))
    BY <1>1, <1>9, <1>12, <1>13, <1>14, <1>15, <2>1, <2>2 DEF SetAside
  <2> QED
    BY <2>3, SetAsideInv
<1> QED
  BY <1>16, <1>17
-----------------------------------------------------------------------------
(* The theorems *)

\* Nothing is stored or bound at first.
LEMMA InitInv ==
  ASSUME Init
  PROVE  Inv
<1>1. /\ ns = [x \in Names |-> None] /\ objs = <<>> /\ mem = EmptyMemory /\ rows = <<>>
      /\ states = <<>> /\ current = 0 /\ expect = [x \in Names |-> Nothing] /\ seen = {}
      /\ plain = 0 /\ moves = 0
  BY DEF Init
<1>2. EmptyMemory \in Memory
  BY EmptyTyped
<1>3. /\ DOMAIN objs = {} /\ DOMAIN rows = {} /\ DOMAIN states = {} /\ Len(states) = 0
      /\ objs \in Seq(Object) /\ rows \in Seq(Row) /\ states \in Seq(State)
  BY <1>1
<1>4. Live = {}
  BY <1>1 DEF Live
<1>5. /\ \A a \in Addrs : mem.reg[a].obj = None
      /\ DOMAIN mem.latest = {}
      /\ \A x \in Names : mem.bind[x] = None /\ mem.tracked[x].obj = None
  BY <1>1 DEF EmptyMemory, Unseen, Untracked
<1>6. TypesInv
  <2>1. ns \in [Names -> Nat \cup {None}] /\ expect \in [Names -> Content \cup {Nothing, Unknown}]
    BY <1>1
  <2> QED
    BY <1>1, <1>3, <2>1 DEF TypesInv
<1>7. RegistryInv
  <2>1. /\ Here.m = mem /\ Here.rows = rows /\ Here.objs = objs /\ Here.stored = {} /\ Here \in Work
    BY <1>1, <1>2, <1>3 DEF Here, Work
  <2>2. Sound(Here, {})
    <3>1. IsFiniteSet({})
      BY FS_EmptySet
    <3> QED
      BY <1>5, <2>1, <3>1 DEF Sound, Apart
  <2> QED
    BY <1>4, <2>2 DEF RegistryInv, CurrentFor
<1>8. NamedInv /\ RestoredAsRecorded /\ ArgumentsAsGiven
  BY <1>3 DEF NamedInv, RestoredAsRecorded, ArgumentsAsGiven
<1>9. TrackedInv
  BY <1>3, <1>5 DEF TrackedInv, Agree
<1>10. ToldInv /\ QuietInv
  BY <1>1, <1>5 DEF ToldInv, QuietInv
<1>11. StandInv
  BY <1>1, <1>5 DEF StandInv, Restores
<1> QED
  BY <1>6, <1>7, <1>8, <1>9, <1>10, <1>11 DEF Inv

\* A step that changes nothing keeps the invariant.
LEMMA StutterInv ==
  ASSUME Inv, vars' = vars
  PROVE  Inv'
<1>1. /\ ns' = ns /\ objs' = objs /\ mem' = mem /\ rows' = rows /\ states' = states
      /\ current' = current /\ expect' = expect /\ seen' = seen /\ plain' = plain /\ moves' = moves
  BY DEF vars
<1>2. Here' = Here /\ Live' = Live /\ Fresh' = Fresh
  BY <1>1 DEF Here, Live, Fresh
<1>3. TypesInv' /\ RegistryInv' /\ TrackedInv'
  BY <1>1, <1>2 DEF Inv, TypesInv, RegistryInv, TrackedInv
<1>4. ToldInv' /\ QuietInv' /\ StandInv'
  BY <1>1, <1>2 DEF Inv, ToldInv, QuietInv, StandInv, Restores, Loads
<1> QED
  BY <1>1, <1>3, <1>4, Unrecorded DEF Inv

\* Every step keeps the invariant.
LEMMA NextInv ==
  ASSUME Inv, Next
  PROVE  Inv'
<1>1. CASE \E x \in Names \cup {None}, y \in {z \in Names : ns[z] # None} \cup {None} : Call(x, y)
  BY <1>1, CallInv
<1>2. CASE \E x, y \in Names : Filter(x, y) \/ Loop(x, y) \/ Alias(x, y)
  BY <1>2, FilterInv, LoopInv, AliasInv
<1>3. CASE \E x, y, z \in Names : Pair(x, y, z)
  BY <1>3, PairInv
<1>4. CASE \E x \in Names : Change(x) \/ Widget(x) \/ Rebind(x) \/ Reshape(x) \/ Edit(x)
  BY <1>4, ChangeInv, WidgetInv, RebindInv, ReshapeInv, EditInv
<1>5. CASE \E s \in DOMAIN states : Checkout(s) \/ Restore(s, TRUE) \/ Restore(s, FALSE)
  BY <1>5, CheckoutInv, RestoreInv
<1>6. CASE Resume
  BY <1>6, ResumeInv
<1> QED
  BY <1>1, <1>2, <1>3, <1>4, <1>5, <1>6 DEF Next

\* Whatever statements run and whatever the notebook moves to, the registries, the
\* tracked names and the bindings agree with the objects and the rows (the memory
\* of trace_step, tracker/runtime.py).
THEOREM ArtifactsInvariance == Spec => []Inv
<1>1. Init => Inv
  BY InitInv
<1>2. Inv /\ [Next]_vars => Inv'
  BY NextInv, StutterInv
<1> QED
  BY <1>1, <1>2, PTL DEF Spec

\* restore_state hands back each variable as it was recorded, whichever steps stored
\* their outputs, unless a change of it was hidden from the tracker or its frame's
\* version is another's (restore.py, _restore_bound).
THEOREM RestoredAsRecordedHolds == Spec => []RestoredAsRecorded
<1>1. Inv => RestoredAsRecorded
  BY DEF Inv
<1> QED
  BY <1>1, ArtifactsInvariance, PTL

\* The versions that the parameters of a step name load what the call was given, for
\* frames that did not change since their version was stored (runtime.py, phase 5 of
\* trace_step).
THEOREM ArgumentsAsGivenHolds == Spec => []ArgumentsAsGiven
<1>1. Inv => ArgumentsAsGiven
  BY DEF Inv
<1> QED
  BY <1>1, ArtifactsInvariance, PTL

\* A frame that _refresh_tracked leaves alone is registered at a version that is its
\* content: an unstored change never stays behind a remembered print (runtime.py,
\* _refresh_tracked and _artifact_state_registry).
THEOREM RegistryIsCurrentHolds == Spec => []RegistryIsCurrent
<1>1. ASSUME Inv, NEW x \in seen, mem.tracked[x].print = objs[ns[x]].print,
             ns[x] \notin mem.off \cup mem.lost
      PROVE  mem.reg[objs[ns[x]].addr].obj = ns[x]
             /\ Loads(mem.reg[objs[ns[x]].addr].ver) = Data(objs[ns[x]])
  <2>1. x \in Names /\ ns[x] # None /\ mem.tracked[x].obj = ns[x] /\ Known(Here, ns[x])
    BY <1>1 DEF Inv, TypesInv, ToldInv
  <2>2. ns[x] \notin mem.dirty
    BY <1>1, <2>1 DEF Inv, TrackedInv
  <2>3. ns[x] \in Live
    BY <2>1 DEF Live
  <2>4. ns[x] \notin Unsure(Here)
    BY <1>1, <2>2 DEF Unsure, Here
  <2>5. Right(Here, ns[x])
    BY <1>1, <2>1, <2>3, <2>4 DEF Inv, RegistryInv, CurrentFor
  <2> QED
    BY <2>1, <2>4, <2>5 DEF Right, Known, VersionOf, Here, Loads
<1>2. Inv => RegistryIsCurrent
  BY <1>1 DEF RegistryIsCurrent
<1> QED
  BY <1>2, ArtifactsInvariance, PTL
==============================================================================
