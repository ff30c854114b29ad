------------------------------ MODULE Artifacts ------------------------------
(***************************************************************************)
(* What the tracker stores of a notebook's frames and which stored version *)
(* every name of every state is bound to: trace_step from its input        *)
(* artifacts on (tracker/runtime.py), trace_ui_step, the artifact files of *)
(* tracker/storage.py, checkout, resume and restore_state.                 *)
(*                                                                         *)
(* A frame is an object at an address that is free again once no name      *)
(* refers to it.  Its content is a token that every change replaces, and   *)
(* the number of row filters behind it; its print is what _fingerprint     *)
(* sees of it.  The identity registries are keyed by the address and keep  *)
(* the object for the test that the weak reference makes.  A version is a  *)
(* row of artifact_states with the data load_artifact returns for it.      *)
(*                                                                         *)
(* Whether a step stores its outputs is should_snapshot's choice, one for  *)
(* the whole step, and open here.  Frames can be stored and results have   *)
(* as many parts as names; Statements has the values for which that fails. *)
(* Statements the rewriter leaves alone (del x['c'], x['c'] += 1, the body *)
(* of an if) are Plain.  Checkout, restore and resume find the queue of    *)
(* rows drained; Branching has the case that they do not.                  *)
(***************************************************************************)
EXTENDS Naturals, Sequences, FiniteSets, FiniteSetsExt, SequencesExt

CONSTANTS
  Names,       \* variables of the notebook
  Addrs,       \* addresses objects live at
  Statements,  \* kinds of statement the notebook runs
  MaxStates,   \* bound: recorded steps
  MaxPlain,    \* bound: statements that are not recorded
  MaxMoves,    \* bound: checkouts, restores and restarts
  None         \* no object, no version, no state

ASSUME ArtifactsAssumption ==
  /\ IsFiniteSet(Names) /\ Addrs \subseteq Nat /\ IsFiniteSet(Addrs)
  /\ Cardinality(Addrs) >= 2 * Cardinality(Names)
  /\ MaxStates \in Nat /\ MaxPlain \in Nat /\ MaxMoves \in Nat
  /\ None \notin Nat /\ None \notin Names

VARIABLES
  ns,      \* ns[x]: the object x refers to
  objs,    \* objs[o]: content, print and address of object o
  mem,     \* the tracker: registries, latest version of each artifact, bindings, tracked
           \* names; and, as history, the objects whose change it cannot see (lost) or
           \* has not stored yet (dirty), and those whose version is another's (off)
  rows,    \* stored versions
  states,  \* recorded states: bindings, arguments, what they ought to load, the name the
           \* step's line is an assignment to, and whether a result is bound to a label
  current, \* _current_state_id; 0 is the root
  expect,  \* expect[x]: the content x stands for; history
  seen,    \* names the tracker was told of since it last moved; history
  plain,   \* statements that were not recorded
  moves    \* checkouts, restores and restarts

vars == <<ns, objs, mem, rows, states, current, expect, seen, plain, moves>>

Unseen  == [obj |-> None, art |-> None, ver |-> None]
Untracked == [obj |-> None, print |-> None]
Unknown == [tok |-> None, cut |-> 0]      \* content no statement told the tracker of
Nothing == [tok |-> 0, cut |-> 0]         \* not bound to a stored version

EmptyMemory ==
  [reg |-> [a \in Addrs |-> Unseen], latest |-> [a \in {} |-> None],
   bind |-> [x \in Names |-> None], tracked |-> [x \in Names |-> Untracked],
   off |-> {}, lost |-> {}, dirty |-> {}]

Init ==
  /\ ns = [x \in Names |-> None]
  /\ objs = <<>>
  /\ mem = EmptyMemory
  /\ rows = <<>>
  /\ states = <<>>
  /\ current = 0
  /\ expect = [x \in Names |-> Nothing]
  /\ seen = {}
  /\ plain = 0
  /\ moves = 0

-----------------------------------------------------------------------------
(* The notebook's objects *)

Live == {ns[x] : x \in Names} \ {None}
Data(o) == [tok |-> o.tok, cut |-> o.cut]
\* Addresses for k new objects: any address registered for an object that is
\* gone, or one of the first k others, which are alike.
Free == Addrs \ {objs[o].addr : o \in Live}
Blank == {a \in Free : mem.reg[a] = Unseen}
Room(k) == (Free \ Blank) \cup {a \in Blank : Cardinality({b \in Blank : b < a}) < k}
Fresh == 2 * (Len(objs) + plain + Len(states)) + 1   \* a token no object had
NewAt(a, tok, cut) == [tok |-> tok, cut |-> cut, print |-> tok, addr |-> a]
Changed(o, tok) == [objs EXCEPT ![o].tok = tok, ![o].print = tok]

-----------------------------------------------------------------------------
(* The tracker's memory: a work in progress of one step, w, holds the      *)
(* memory m, the rows, the objects as they are after the call, the         *)
(* objects stored in this step (stored_now) and the artifacts touched.     *)

\* _lookup_artifact_state; mutant: whatever the address was registered for.
KnownAddress(w, o) == w.m.reg[w.objs[o].addr].obj # None
Known(w, o) == w.m.reg[w.objs[o].addr].obj = o

\* The version it was registered at.
VersionOf(w, o) == w.m.reg[w.objs[o].addr].ver

NextArt(w) == 1 + Cardinality({w.rows[i].art : i \in DOMAIN w.rows})

\* The registry entry of o once version v is stored; mutant: the first one stays.
RegisteredOnce(e, o, art, v) == IF e.obj = o THEN e ELSE [obj |-> o, art |-> art, ver |-> v]
Registered(e, o, art, v) == [obj |-> o, art |-> art, ver |-> v]

\* _persist_output and _build_artifact_records: a row of kind for object o
\* under state id at that loads data; the registries follow it.
Stored(w, o, at, kind, data) ==
  LET m   == w.m
      a   == w.objs[o].addr
      art == IF Known(w, o) THEN m.reg[a].art ELSE NextArt(w)
      v   == Len(w.rows) + 1
  IN  [w EXCEPT
        !.rows = Append(@, [art |-> art, at |-> at, kind |-> kind, data |-> data, obj |-> o]),
        !.m = [m EXCEPT
          !.reg[a] = Registered(@, o, art, v),
          !.latest = [b \in DOMAIN @ \cup {art} |-> IF b = art THEN v ELSE @[b]],
          !.off = @ \ {o}, !.lost = @ \ {o}, !.dirty = @ \ {o}]]

Copied(w, o, at) == Stored(w, o, at, "copy", Data(w.objs[o]))

\* A row filter keeps the labels of the child and reads the parent's version.
\* Whatever is wrong with that version is wrong with the child's.
Filtered(w, o, parent, at) ==
  LET data == [tok |-> w.rows[VersionOf(w, parent)].data.tok, cut |-> w.objs[o].cut]
      r    == Stored(w, o, at, "filter", data)
  IN  [r EXCEPT !.m.off  = @ \cup (IF parent \in w.m.off \cup w.m.dirty THEN {o} ELSE {}),
                !.m.lost = @ \cup (IF parent \in w.m.lost THEN {o} ELSE {})]

\* Frames passed to the call that have no version yet are stored after it ran,
\* under an id that is no state.
InputsKept(w, args) ==
  FoldSeq(LAMBDA o, v : IF Known(v, o) THEN v ELSE Copied(v, o, None), w, args)

Track(w, x, o) == [w EXCEPT !.m.tracked[x] = [obj |-> o, print |-> w.objs[o].print]]

Touches(w, o) == [w EXCEPT !.stored = @ \cup {o}, !.touched = @ \cup {w.m.reg[w.objs[o].addr].art}]

Bind(w, x, o) == Track([w EXCEPT !.m.bind[x] = VersionOf(w, o)], x, o)

\* One output stored and bound; a result bound to no name gets a label that
\* nothing refers to.
OutputKept(w, x, o, at, parent) ==
  LET r == Touches(IF parent # None THEN Filtered(w, o, parent, at) ELSE Copied(w, o, at), o)
  IN  IF x = None THEN r ELSE Bind(r, x, o)

\* The outputs of a step, pairs of a name (or None) and an object, are stored in
\* turn; the first is the state's main one, under its id, and a row filter of parent.
OutputsKept(w, outs, at, parent) ==
  LET Keep(v, i) == OutputKept(v, outs[i][1], outs[i][2], IF i = 1 THEN at ELSE None,
                               IF i = 1 THEN parent ELSE None)
  IN  FoldLeft(Keep, w, [i \in DOMAIN outs |-> i])

\* Names whose outputs were not stored lose binding and tracking.
Popped(w, xs) ==
  [w EXCEPT !.m.bind = [x \in Names |-> IF x \in xs THEN None ELSE @[x]],
            !.m.tracked = [x \in Names |-> IF x \in xs THEN Untracked ELSE @[x]]]

\* _refresh_tracked for one name: gone objects are dropped, objects stored in
\* this step rebound, objects whose print changed stored again; mutant: names of
\* an object that was stored in this step keep their version.
RefreshNoShare(w, x, live) ==
  LET o == w.m.tracked[x].obj
  IN  IF o \notin live THEN [w EXCEPT !.m.tracked[x] = Untracked]
      ELSE IF o \in w.stored \/ w.objs[o].print = w.m.tracked[x].print THEN w
      ELSE Bind(Touches(Copied(w, o, None), o), x, o)
Refresh(w, x, live) ==
  LET o == w.m.tracked[x].obj
  IN  IF o \notin live THEN [w EXCEPT !.m.tracked[x] = Untracked]
      ELSE IF o \in w.stored THEN Bind(w, x, o)
      ELSE IF w.objs[o].print = w.m.tracked[x].print THEN w
      ELSE Bind(Touches(Copied(w, o, None), o), x, o)

Refreshed(w, bound, live) ==
  FoldSet(LAMBDA x, v : Refresh(v, x, live), w,
          {x \in Names \ bound : w.m.tracked[x].obj # None})

\* Artifacts that get an alias row.
Links(w) == DOMAIN w.m.latest \ w.touched

\* _link_untouched_artifacts: an alias row for each, oldest artifact first.  The
\* alias file is named after the state, so the last one written is what every
\* alias row of the state loads, own (the row of the frame a widget shows) too.
Place(arts, b) == Cardinality({c \in arts : c <= b})
Linked(w, at, own) ==
  LET m    == w.m
      arts == Links(w)
      n    == Len(w.rows)
      data == w.rows[m.latest[Max(arts)]].data
      Art(i) == CHOOSE b \in arts : Place(arts, b) = i
  IN  IF arts = {} THEN w
      ELSE [w EXCEPT
             !.rows = [i \in DOMAIN @ |-> IF i = own THEN [@[i] EXCEPT !.data = data] ELSE @[i]]
                      \o [i \in 1..Cardinality(arts) |->
                            [art |-> Art(i), at |-> at, kind |-> "alias", data |-> data,
                             obj |-> w.rows[m.latest[Art(i)]].obj]],
             !.m = [m EXCEPT
               !.latest = [b \in DOMAIN @ |-> IF b \in arts THEN n + Place(arts, b) ELSE @[b]],
               !.off = @ \cup (IF own # None THEN {w.rows[own].obj} ELSE {})]]

-----------------------------------------------------------------------------
(* A recorded step *)

\* The objects a call altered, which are dirty until they are stored.
Altered(os) == {o \in DOMAIN objs : os[o] # objs[o]}

Begin(os) ==
  [m |-> [mem EXCEPT !.dirty = @ \cup Altered(os)], rows |-> rows, objs |-> os,
   stored |-> {}, touched |-> {}]

\* What name x stands for once the step is recorded: its object's content if the
\* tracker was told of it, unless a change was hidden from it.
Stands(w, x, names, told) ==
  IF x \notin told THEN expect[x]
  ELSE IF names[x] \in w.m.lost THEN Unknown
  ELSE Data(w.objs[names[x]])

\* The bindings hold a label once a result that no name got was stored.
Labelled == current # 0 /\ states[current].label

Done(w, names, told, dropped, args, line, label) ==
  LET now == [x \in Names |-> IF x \in dropped THEN Nothing ELSE Stands(w, x, names, told)]
  IN  /\ ns' = names
      /\ objs' = w.objs
      /\ mem' = w.m
      /\ rows' = w.rows
      /\ states' = Append(states, [bind |-> w.m.bind, expect |-> now, args |-> args,
                                   line |-> line, label |-> Labelled \/ label,
                                   off |-> {x \in told : names[x] \in w.m.off}])
      /\ current' = Len(states) + 1
      /\ expect' = now
      /\ seen' = told
      /\ UNCHANGED <<plain, moves>>

\* The versions the parameters name, the contents the call was given, and
\* whether the version can be held to that: the object is not off, lost or dirty,
\* and had a version or was not changed by the call itself.
Args(w, args, changed) ==
  [i \in DOMAIN args |->
     [ver |-> VersionOf(w, args[i]), was |-> Data(objs[args[i]]),
      sure |-> /\ args[i] \notin mem.off \cup mem.lost \cup mem.dirty
               /\ Known(Begin(objs), args[i]) \/ args[i] \notin changed]]

\* outs: pairs of a name (or None) and an object; parent: the frame the first
\* output is a row filter of; kept: the policy stores the outputs; line: the name
\* _bound_name reads off the line.
Recorded(os, names, args, outs, parent, kept, line) ==
  LET s     == Len(states) + 1
      w1    == InputsKept(Begin(os), args)
      bound == {outs[i][1] : i \in DOMAIN outs} \ {None}
      w2    == IF kept THEN OutputsKept(w1, outs, s, parent) ELSE Popped(w1, bound)
      live  == Live \cup {outs[i][2] : i \in DOMAIN outs}
      w3    == Linked(Refreshed(w2, IF kept THEN bound ELSE {}, live), s, None)
      told  == IF kept THEN seen \cup bound ELSE seen \ bound
  IN  Done(w3, names, told, IF kept THEN {} ELSE bound, Args(w1, args, Altered(os)), line,
           kept /\ \E i \in DOMAIN outs : outs[i][1] = None)

\* What is not recorded is bounded too, and of interest only before another step.
May(kind) == kind \in Statements /\ Len(states) < MaxStates

\* x = f(y), x = pd.read_csv(..), x = y.groupby(k).agg(..); and y.describe() or
\* f(y) with no name for the result.
Call(x, y) ==
  /\ May("call")
  /\ x # None \/ y # None
  /\ \E a \in Room(1), kept \in BOOLEAN :
       LET o  == Len(objs) + 1
           os == Append(objs, NewAt(a, Fresh, 0))
       IN  Recorded(os, IF x = None THEN ns ELSE [ns EXCEPT ![x] = o],
                    IF y = None THEN <<>> ELSE <<ns[y]>>, <<<<x, o>>>>, None, kept, x)

\* x = y[mask]
Filter(x, y) ==
  /\ May("filter")
  /\ ns[y] # None
  /\ \E a \in Room(1), kept \in BOOLEAN :
       LET o  == Len(objs) + 1
           os == Append(objs, [NewAt(a, objs[ns[y]].tok, objs[ns[y]].cut + 1) EXCEPT !.print = Fresh])
       IN  Recorded(os, [ns EXCEPT ![x] = o], <<ns[y]>>, <<<<x, o>>>>, ns[y], kept, x)

\* x['c'] = v, x.sort_values(k, inplace=True)
Change(x) ==
  /\ May("change")
  /\ ns[x] # None
  /\ \E kept \in BOOLEAN :
       Recorded(Changed(ns[x], Fresh), ns, <<ns[x]>>, <<<<x, ns[x]>>>>, None, kept, None)

\* x, y = f(z)
Pair(x, y, z) ==
  /\ May("pair")
  /\ x # y /\ ns[z] # None
  /\ \E a \in Room(1), kept \in BOOLEAN : \E b \in Room(2) \ {a} :
       LET o  == Len(objs) + 1
           os == objs \o <<NewAt(a, Fresh, 0), NewAt(b, Fresh + 1, 0)>>
       IN  Recorded(os, [ns EXCEPT ![x] = o, ![y] = o + 1], <<ns[z]>>,
                    <<<<x, o>>, <<y, o + 1>>>>, None, kept, None)

\* for ..: x['c'] = v; y['c'] = v
Loop(x, y) ==
  /\ May("loop")
  /\ x # y /\ ns[x] # None /\ ns[y] # None
  /\ LET os == [Changed(ns[x], Fresh) EXCEPT ![ns[y]].tok = Fresh + 1, ![ns[y]].print = Fresh + 1]
     IN  \E kept \in BOOLEAN :
           Recorded(os, ns, <<>>, <<<<x, ns[x]>>, <<y, ns[y]>>>>, None, kept, None)

\* x = y: x is bound to the version y's object has.  An alias of an object that
\* changed since its version was stored keeps that version.
Alias(x, y) ==
  /\ May("alias")
  /\ x # y /\ ns[y] # None
  /\ LET s  == Len(states) + 1
         o  == ns[y]
         w1 == InputsKept(Begin(objs), <<o>>)
         w2 == Bind([w1 EXCEPT !.stored = {o}], x, o)
         w3 == Linked(Refreshed(w2, {x}, Live), s, None)
         w4 == [w3 EXCEPT !.m.off = @ \cup (w1.m.dirty \cap {o}), !.m.dirty = @ \ {o}]
     IN  Done(w4, [ns EXCEPT ![x] = o], seen \cup {x}, {}, Args(w1, <<o>>, {}), x, FALSE)

\* trace_ui_step for a widget that shows y: no name is bound, the new version of
\* the frame is an alias of the one it has.
Widget(y) ==
  /\ May("widget")
  /\ ns[y] # None
  /\ LET s  == Len(states) + 1
         o  == ns[y]
         w0 == Begin(objs)
         v  == Len(rows) + 1
         w1 == Stored(w0, o, s, "alias", rows[VersionOf(w0, o)].data)
         w2 == [w1 EXCEPT !.m.off = mem.off, !.m.lost = mem.lost, !.m.dirty = mem.dirty,
                          !.touched = {mem.reg[objs[o].addr].art}]
         w3 == IF Known(w0, o) THEN Linked(w2, s, v) ELSE Linked(w0, s, None)
     IN  /\ mem' = w3.m
         /\ rows' = w3.rows
         /\ states' = Append(states, [bind |-> mem.bind, expect |-> expect, args |-> <<>>,
                                      line |-> None, label |-> Labelled,
                                      off |-> {x \in seen : ns[x] \in mem.off}])
         /\ current' = Len(states) + 1
         /\ UNCHANGED <<ns, objs, expect, seen, plain, moves>>

-----------------------------------------------------------------------------
(* Statements that are not recorded *)

CanPlain(kind) == May(kind) /\ plain < MaxPlain /\ plain' = plain + 1

\* if c: x = f()
Rebind(x) ==
  /\ CanPlain("rebind")
  /\ \E a \in Room(1) :
       /\ objs' = Append(objs, NewAt(a, Fresh, 0))
       /\ ns' = [ns EXCEPT ![x] = Len(objs) + 1]
  /\ expect' = [expect EXCEPT ![x] = Unknown]
  /\ seen' = seen \ {x}
  /\ UNCHANGED <<mem, rows, states, current, moves>>

\* del x['c']: the columns differ
Reshape(x) ==
  /\ CanPlain("reshape")
  /\ ns[x] # None
  /\ objs' = Changed(ns[x], Fresh)
  /\ mem' = [mem EXCEPT !.dirty = @ \cup {ns[x]}]
  /\ UNCHANGED <<ns, rows, states, current, expect, seen, moves>>

\* x['c'] += 1: shape, columns and dtypes stay
Edit(x) ==
  /\ CanPlain("edit")
  /\ ns[x] # None
  /\ objs' = [objs EXCEPT ![ns[x]].tok = Fresh]
  /\ mem' = [mem EXCEPT !.lost = @ \cup {ns[x]}]
  /\ UNCHANGED <<ns, rows, states, current, expect, seen, moves>>

-----------------------------------------------------------------------------
(* Moving to a recorded state *)

CanMove(kind) == May(kind) /\ moves < MaxMoves /\ moves' = moves + 1

\* load_artifact: what a version loads, through the parent or the alias its file names.
Loads(v) == rows[v].data

\* The step an artifact came from: the first that made a row of it, which is no
\* alias, under its own id.
Origin(b) ==
  LET made == {i \in DOMAIN rows : rows[i].art = b /\ rows[i].kind # "alias" /\ rows[i].at # None}
  IN  IF made = {} THEN None ELSE Min({rows[i].at : i \in made})

\* load_state_artifacts: the rows of state s whose artifact came from a line x = ...
RowsNamed(s, x) ==
  {i \in DOMAIN rows : /\ rows[i].at = s /\ Origin(rows[i].art) # None
                       /\ states[Origin(rows[i].art)].line = x}

\* _restore_bound: the names of s that get a value.
BoundAt(s) == {x \in Names : states[s].bind[x] # None}

\* The version every name of s gets.  With no binding at all the names are read
\* off the lines the artifacts came from, and of two the newer wins (_restore_legacy).
HandedBack(s) ==
  IF BoundAt(s) # {} \/ states[s].label THEN [x \in BoundAt(s) |-> states[s].bind[x]]
  ELSE [x \in {y \in Names : RowsNamed(s, y) # {}} |->
          CHOOSE i \in RowsNamed(s, x) :
            \A j \in RowsNamed(s, x) : Origin(rows[j].art) <= Origin(rows[i].art)]

\* What the names of s stand for; the ones an off object had are given up.
Expected(s) == [x \in Names |-> IF x \in states[s].off THEN Unknown ELSE states[s].expect[x]]

Rewound(m, s) ==
  [m EXCEPT !.bind = states[s].bind, !.tracked = [x \in Names |-> Untracked]]

\* checkout: the notebook's variables stay what they are.
Positioned(s) ==
  /\ mem' = Rewound(mem, s)
  /\ current' = s
  /\ expect' = Expected(s)
  /\ seen' = {}

Checkout(s) ==
  /\ CanMove("checkout")
  /\ Positioned(s)
  /\ UNCHANGED <<ns, objs, rows, states, plain>>

\* restore_state(s, into=globals()): a new object for every name that loads (names=
\* would ask for some of them).  Without checkout the tracker learns nothing of it.
Restore(s, checkout) ==
  /\ CanMove("restore")
  /\ LET handed == HandedBack(s)
         xs == SetToSeq(DOMAIN handed)
         Version(i) == Loads(handed[xs[i]])
         Loaded(x) == IF x \in ToSet(xs) THEN Len(objs) + CHOOSE i \in DOMAIN xs : xs[i] = x ELSE ns[x]
     IN  /\ \E at \in [DOMAIN xs -> Room(Len(xs))] :
              /\ IsInjective(at)
              /\ objs' = objs \o [i \in DOMAIN xs |-> [NewAt(at[i], Version(i).tok, Version(i).cut)
                                                     EXCEPT !.print = Fresh + i]]
         /\ ns' = [x \in Names |-> Loaded(x)]
         /\ IF checkout
            THEN Positioned(s)
            ELSE /\ expect' = [x \in Names |-> IF x \in ToSet(xs) THEN Unknown ELSE expect[x]]
                 /\ seen' = seen \ ToSet(xs)
                 /\ UNCHANGED <<mem, current>>
  /\ UNCHANGED <<rows, states, plain>>

\* The process ends and another resumes the history: no variable, no registry,
\* the bindings of the active state.
Resume ==
  /\ CanMove("resume")
  /\ current # 0
  /\ ns' = [x \in Names |-> None]
  /\ mem' = Rewound(EmptyMemory, current)
  /\ expect' = Expected(current)
  /\ seen' = {}
  /\ UNCHANGED <<objs, rows, states, current, plain>>

-----------------------------------------------------------------------------
Next ==
  \/ \E x \in Names \cup {None}, y \in {z \in Names : ns[z] # None} \cup {None} : Call(x, y)
  \/ \E x, y \in Names : Filter(x, y) \/ Loop(x, y) \/ Alias(x, y)
  \/ \E x, y, z \in Names : Pair(x, y, z)
  \/ \E x \in Names : Change(x) \/ Widget(x) \/ Rebind(x) \/ Reshape(x) \/ Edit(x)
  \/ \E s \in DOMAIN states : Checkout(s) \/ Restore(s, TRUE) \/ Restore(s, FALSE)
  \/ Resume

Spec == Init /\ [][Next]_vars

-----------------------------------------------------------------------------
(* Properties *)

\* What binding v of a state loads is content c; a name that stands for nothing
\* is not bound.
Restores(v, c) == IF c = Nothing THEN v = None ELSE v # None /\ Loads(v) = c

\* What a state binds a variable to is the variable as it was when the state was
\* made (restore.py, _restore_bound), whatever moved in between and whichever steps
\* stored their outputs: except variables changed in a way _fingerprint does not
\* see or rebound by a statement that is not recorded, and variables of frames
\* whose version is another's (off, see RestoredExactly).
RestoredAsRecorded ==
  \A s \in DOMAIN states : \A x \in Names \ states[s].off :
    states[s].expect[x] # Unknown => Restores(states[s].bind[x], states[s].expect[x])

\* The same with no frame left out: "exactly as they were when the state was
\* created" (restore.py:94).
RestoredExactly ==
  \A s \in DOMAIN states : \A x \in Names :
    states[s].expect[x] # Unknown => Restores(states[s].bind[x], states[s].expect[x])

\* The version a parameter of a step names loads the content the call was given,
\* so that a replay runs on the same input (runtime.py, phase 5 of trace_step): for
\* every frame that did not change since its version was stored.
ArgumentsAsGiven ==
  \A s \in DOMAIN states : \A i \in DOMAIN states[s].args :
    LET g == states[s].args[i] IN g.sure => Loads(g.ver) = g.was

\* A frame _refresh_tracked leaves alone, because its print is the remembered one,
\* is registered at a version that loads its content: an unstored change, a change
\* through another name or an object at the address of a dead one never leaves a
\* variable the tracker follows behind its frame.
RegistryIsCurrent ==
  \A x \in seen :
    LET o == ns[x]
    IN  mem.tracked[x].print = objs[o].print /\ o \notin mem.off \cup mem.lost =>
          mem.reg[objs[o].addr].obj = o /\ Loads(mem.reg[objs[o].addr].ver) = Data(objs[o])
=============================================================================
