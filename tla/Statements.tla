------------------------------ MODULE Statements ------------------------------
(***************************************************************************)
(* What becomes of a top-level statement of a notebook: how the rewriter   *)
(* wraps it (tracker/ast_rewriter.py, tracker/step_ops.py), and what       *)
(* trace_step is told by it of the names it binds and the objects it       *)
(* changes (tracker/runtime.py, tracker/snapshot_policy.py).               *)
(*                                                                         *)
(* An expression is what the rewriter sees of it, the name at its root     *)
(* included; how a call turns out is open.  Objects are told apart by what *)
(* _fingerprint and _save_pickle make of them: a frame (shape, columns,    *)
(* types), a small object (a hash of its pickle), a large one, which has   *)
(* no fingerprint, and a sealed one, which pickle refuses.  Artifacts has  *)
(* what is stored and restored; here a name is bound to a version of an    *)
(* object.  Left out: a Series, which an alias stores anew; the bindings   *)
(* under a label that results no name gets are given; chained, starred and *)
(* nested targets; method calls on code and handles, which _is_storable    *)
(* refuses too; objects other than frames that die while they are tracked. *)
(***************************************************************************)
EXTENDS Naturals, Sequences, FiniteSets, FiniteSetsExt, SequencesExt

CONSTANTS
  Names,         \* variables of the notebook
  Targets,       \* left sides of assignments: sequences of targets, a target per name
  MaxStatements, \* bound: statements run
  None           \* no name, no object, no version

ASSUME StatementsAssumption ==
  /\ MaxStatements \in Nat
  /\ None \notin Nat \cup Names \cup [obj : Nat, ver : Nat, shape : Nat \cup {None}]

VARIABLES
  ns,     \* ns[x]: the object x refers to
  objs,   \* objs[o]: kind, version, visible version, and the version stored last
  bound,  \* bound[x]: object and version _bindings has, fingerprint in _tracked or None
  stands, \* stands[x]: what x ought to be bound to: current, none; unknown, unsplit; history
  ran     \* statements so far

vars == <<ns, objs, bound, stands, ran>>

Init ==
  /\ ns = [x \in Names |-> None]
  /\ objs = <<>>
  /\ bound = [x \in Names |-> None]
  /\ stands = [x \in Names |-> "none"]
  /\ ran = 0

-----------------------------------------------------------------------------
(* Statements *)

Expr(kind, root, name, inplace) == [kind |-> kind, root |-> root, name |-> name, inplace |-> inplace]

\* Calls by what the omit lists say of the name: a step, a step if its result is
\* bound, never a step.
CallExprs ==
  {Expr("call", r, name, FALSE) : r \in Names \cup {None}, name \in {"step", "look", "never"}}
    \cup {Expr("call", r, "step", TRUE) : r \in Names}
OtherExprs == {Expr(k, r, "step", FALSE) : k \in {"subscript", "name", "operator"}, r \in Names}

Stmt(form, left, expr) == [form |-> form, left |-> left, expr |-> expr]

\* A loop or another block assigns once; the root of a loop is its variable.
Statement ==
  LET Assigning == {l \in Targets : Len(l) = 1}
  IN  {Stmt("assign", left, e) : left \in Targets, e \in CallExprs \cup OtherExprs}
        \cup {Stmt("expr", <<>>, e) : e \in CallExprs}
        \cup {Stmt("block", left, Expr("operator", None, "step", FALSE)) : left \in Assigning}
        \cup {s \in {Stmt("loop", left, Expr("operator", r, "step", FALSE)) :
                       left \in Assigning, r \in Names} :
                 s.left[1].to = "name" \/ s.left[1].x # s.expr.root}

\* A target is a name, an item or attribute of a name, or one further down.
Target(to, x) == [to |-> to, x |-> x]
ASSUME TargetsAssumption ==
  Targets \subseteq {<<Target(to, x)>> : to \in {"name", "item", "deep"}, x \in Names}
                      \cup {<<Target("name", x), Target("name", y)>> : x, y \in Names}

Binds(s)  == {t.x : t \in {u \in Range(s.left) : u.to = "name"}}
Stores(s) == {t.x : t \in {u \in Range(s.left) : u.to # "name"}}
Single(s, to) == Len(s.left) = 1 /\ s.left[1].to = to

-----------------------------------------------------------------------------
(* The rewriter: what a statement is wrapped in, and the names that is told *)

\* _is_omitted
Omitted(e, isBound) == e.name = "never" \/ (e.name = "look" /\ ~isBound)

Plain == [op |-> "plain", told |-> {}]
Step(op, told) == [op |-> op, told |-> told]

\* _assigned_names: the names at the roots of the targets; mutant: plain names.
AssignedNames(s) == Binds(s)
Assigned(s) == Binds(s) \cup Stores(s)

WrapAssign(s) ==
  LET e == s.expr
  IN  CASE Single(s, "item") -> Step("setitem", Stores(s))
        [] ~Single(s, "item") /\ e.kind = "call" ->
             IF Omitted(e, TRUE) THEN Plain ELSE Step("call", Assigned(s))
        [] Single(s, "name") /\ e.kind # "call" -> Step(e.kind, Binds(s))
        [] OTHER -> Plain

WrapCall(s) ==
  IF Omitted(s.expr, FALSE) THEN Plain
  ELSE Step("call", IF s.expr.inplace THEN {s.expr.root} ELSE {})

\* _loop_mutations: what the body assigns or stores into, but not the loop variable.
Mutated(s) == Assigned(s) \ {s.expr.root}
WrapLoop(s) == IF Mutated(s) = {} THEN Plain ELSE Step("block", Mutated(s))

Rewritten(s) ==
  CASE s.form = "assign" -> WrapAssign(s)
    [] s.form = "expr" -> WrapCall(s)
    [] s.form = "loop" -> WrapLoop(s)
    [] s.form = "block" -> Plain

-----------------------------------------------------------------------------
(* How the statement runs *)

Frame(o) == o # None /\ objs[o].kind = "frame"
New(kind) == [kind |-> kind, ver |-> 0, shape |-> 0, kept |-> None]
Kinds == {"frame", "small", "large", "sealed"}

\* The object a store changes, or a method may.
Changed(s) ==
  IF Stores(s) # {} THEN {ns[x] : x \in Stores(s)}
  ELSE IF s.expr.kind = "call" /\ s.expr.root # None THEN {ns[s.expr.root]} ELSE {}

\* What an expression may yield (a new object, only if a name may get it; for two names
\* a tuple or list of two, a pair, or anything else that unpacks into two, unsplit;
\* nothing, its root) and the change it or the store makes: none, hidden or seen, or
\* one that leaves a small object large or sealed.
Possible(s, yields, change) ==
  LET e == s.expr
      root == IF e.root = None THEN None ELSE ns[e.root]
      given == Binds(s) # {} \/ (e.kind = "call" /\ Stores(s) # {} /\ ~Single(s, "item"))
  IN  /\ e.root # None /\ s.form \in {"assign", "expr"} => root # None
      /\ \A x \in Stores(s) : ns[x] # None /\ change # "none"
      /\ (yields \in {"pair", "unsplit"}) <=> (Len(s.left) = 2)
      /\ yields \in Kinds => given
      /\ change = "hidden" => \A o \in Changed(s) : Frame(o)
      /\ change \in {"large", "sealed"} => \A o \in Changed(s) : objs[o].kind = "small"
      /\ IF e.kind # "call"
         THEN /\ yields = "root" <=> e.kind = "name"
              /\ yields = "nothing" => ~given
              /\ Stores(s) = {} => change = "none"
         ELSE /\ yields = "root" => root # None
              /\ Stores(s) = {} /\ root = None => change = "none"
              /\ Stores(s) = {} /\ change = "hidden" => e.inplace \/ e.name = "never"
              /\ e.inplace => Frame(root) /\ yields = "nothing" /\ change # "none"

\* The objects afterwards, and the object each target gets.
After(s, yields, change) ==
  [o \in DOMAIN objs |->
     IF o \notin Changed(s) \/ change = "none" THEN objs[o]
     ELSE [objs[o] EXCEPT !.ver = @ + 1, !.shape = IF change = "hidden" THEN @ ELSE @ + 1,
                          !.kind = IF change \in {"large", "sealed"} THEN change ELSE @]]
  \o CASE yields \in {"pair", "unsplit"} -> <<New("frame"), New("frame")>>
       [] yields \in Kinds -> <<New(yields)>>
       [] yields \in {"root", "nothing"} -> <<>>

\* trace_step returns the receiver of an inplace=True call, where the call has None.
Value(s, yields, i) ==
  CASE yields = "nothing" /\ ~s.expr.inplace -> None
    [] yields = "root" \/ s.expr.inplace -> ns[s.expr.root]
    [] OTHER -> Len(objs) + i

Rebound(s, yields) ==
  [x \in Names |->
     IF x \in Binds(s)
     THEN Value(s, yields, CHOOSE i \in DOMAIN s.left : s.left[i] = Target("name", x))
     ELSE IF s.form = "loop" /\ x = s.expr.root THEN None ELSE ns[x]]

-----------------------------------------------------------------------------
(* trace_step *)

\* Helpers of step_ops that mean something on frames only.
OnFrame(s, op, value) ==
  CASE op = "setitem" -> \A x \in Stores(s) : Frame(ns[x])
    [] op = "subscript" -> Frame(ns[s.expr.root])
    [] op \in {"name", "operator"} -> value.kind = "frame"
    [] op \in {"call", "block"} -> TRUE

\* _split_outputs: each name the step is told with the object it now has; for a call
\* that is its result, its receiver with inplace=True, or the object a method of it
\* has changed.  A result that is not split has no name, and none of those it is bound
\* to is among the outputs.
Outputs(s, w, after, refers, yields) ==
  LET e == s.expr
      itself == IF e.root = None THEN None ELSE ns[e.root]
      given(x) == [name |-> x, obj |-> IF Stores(s) # {} /\ w.op = "setitem" THEN ns[x] ELSE refers[x]]
  IN  CASE w.op = "block" -> {[name |-> x, obj |-> refers[x]] :
                               x \in {y \in w.told : refers[y] # None /\ after[refers[y]].kind = "frame"}}
        [] w.op = "call" /\ Stores(s) # {} ->
             {[name |-> x, obj |-> Value(s, yields, 1)] : x \in w.told}
        [] w.op = "call" /\ e.inplace -> {[name |-> x, obj |-> itself] : x \in w.told}
        [] w.op = "call" /\ w.told = {} ->
             IF itself # None /\ ~Frame(itself)
                /\ (yields = "root" \/ (yields = "nothing" /\ bound[e.root] # None))
             THEN {[name |-> e.root, obj |-> itself]}
             ELSE {[name |-> None, obj |-> Value(s, yields, 1)]}
        [] OTHER -> IF yields = "unsplit" THEN {[name |-> None, obj |-> None]}
                    ELSE {given(x) : x \in w.told}
\* A named output that is not stored leaves its name without a binding; mutant:
\* with the binding it had.
PoppedNot(x) == bound[x]
Popped(x) == None

\* _fingerprint and _track: without a fingerprint the name is bound, but not tracked.
Fingerprint(o, after) == IF after[o].kind \in {"frame", "small"} THEN after[o].shape ELSE None
At(o, ver, after) == [obj |-> o, ver |-> ver, shape |-> Fingerprint(o, after)]
Tracked(x) == bound[x] # None /\ bound[x].shape # None

\* _refresh_tracked: a tracked name of an object stored now has that version, one of an
\* object that looks changed has it stored again, or no binding where it cannot be.
\* Frames are tracked while they live.
LookChanged(x, after, refers) ==
  LET o == bound[x].obj
  IN  /\ Fingerprint(o, after) # bound[x].shape
      /\ after[o].kind = "frame" => o \in Range(refers)

Refreshed(outs, now, after, refers) ==
  {x \in Names : /\ Tracked(x) /\ bound[x].obj \notin now
                 /\ \A out \in outs : out.name # x
                 /\ LookChanged(x, after, refers)}

\* The last version stored of each object; mutant: a refreshed one is not noted.
Storable(o, after) == after[o].kind # "sealed"
NotedOutputs(after, now, refreshed) ==
  [o \in DOMAIN after |-> IF o \in now THEN [after[o] EXCEPT !.kept = after[o].ver] ELSE after[o]]
Noted(after, now, refreshed) ==
  [o \in DOMAIN after |->
     IF o \in now \/ (Storable(o, after) /\ \E x \in refreshed : bound[x].obj = o)
     THEN [after[o] EXCEPT !.kept = after[o].ver] ELSE after[o]]

\* The bindings after the step: an alias has the version its object was stored at.
Bindings(outs, now, version, after, refers) ==
  [x \in Names |->
     CASE \E out \in outs : out.name = x /\ out.obj \in now ->
            LET out == CHOOSE out \in outs : out.name = x IN At(out.obj, version[out.obj], after)
       [] \E out \in outs : out.name = x /\ out.obj \notin now -> Popped(x)
       [] (\A out \in outs : out.name # x) /\ bound[x] # None ->
            LET o == bound[x].obj
            IN  IF Tracked(x) /\ o \in now THEN At(o, version[o], after)
                ELSE IF x \notin Refreshed(outs, now, after, refers) THEN bound[x]
                ELSE IF Storable(o, after) THEN At(o, after[o].ver, after)
                ELSE None
       [] OTHER -> None]

\* Frames given to the step that have no version are stored first, as they are after
\* it ran; a call is a method of its root, a value step is given its own result.
Inputs(s, w, yields) ==
  CASE w.op = "setitem" -> {ns[x] : x \in Stores(s)}
    [] w.op = "operator" -> {Value(s, yields, 1)}
    [] w.op \in {"subscript", "name", "call"} -> {ns[r] : r \in {s.expr.root} \ {None}}
    [] w.op = "block" -> {}

InputsKept(s, w, after, yields) ==
  [o \in DOMAIN after |->
     IF o \in Inputs(s, w, yields) /\ after[o].kind = "frame" /\ after[o].kept = None
     THEN [after[o] EXCEPT !.kept = after[o].ver] ELSE after[o]]

Trace(s, w, changed, refers, yields, keep) ==
  LET after == InputsKept(s, w, changed, yields)
      outs == Outputs(s, w, after, refers, yields)
      given == {out.obj : out \in outs} \ {None}
      alias == w.op = "name"
      now == IF alias \/ keep THEN {o \in given : Storable(o, after)} ELSE {}
      version == [o \in now |-> IF alias THEN after[o].kept ELSE after[o].ver]
  IN  /\ bound' = Bindings(outs, now, version, after, refers)
      /\ objs' = Noted(after, IF alias THEN {} ELSE now, Refreshed(outs, now, after, refers))

-----------------------------------------------------------------------------
(* What a name ought to be bound to, from the statement alone.  What it cannot *)
(* say is unknown: a change that leaves no trace, such as one of an object     *)
(* without a fingerprint through another name.                                 *)

\* Statements meant to be steps.
IsStep(s, after, value) ==
  LET e == s.expr
  IN  CASE s.form = "block" -> FALSE
        [] s.form = "loop" -> Assigned(s) # {e.root}
        [] s.form = "expr" -> e.name = "step"
        [] s.form = "assign" /\ Single(s, "item") -> \A x \in Stores(s) : Frame(ns[x])
        [] s.form = "assign" /\ ~Single(s, "item") /\ e.kind = "call" -> e.name # "never"
        [] OTHER -> Single(s, "name")
                      /\ IF e.kind = "subscript" THEN Frame(ns[e.root]) ELSE after[value].kind = "frame"

\* Names it gives another value: a call on an object that is no frame and returns it,
\* or nothing, has changed the object.
Gives(s, yields) ==
  LET e == s.expr
  IN  Binds(s) \cup Stores(s) \cup
      IF s.form = "expr" /\ e.root # None
         /\ (e.inplace \/ (~Frame(ns[e.root])
               /\ (yields = "root" \/ (yields = "nothing" /\ bound[e.root] # None))))
      THEN {e.root} ELSE {}

Stands(s, yields, change, keep, after, refers) ==
  LET e == s.expr
      deep == s.form = "assign" /\ Stores(s) # {} /\ ~Single(s, "item")
      step == IsStep(s, after, Value(s, yields, 1))
      touched(x) == change # "none" /\ refers[x] \in Changed(s)
      lost(x) == s.form = "loop" /\ (x = e.root \/ (x \in Assigned(s) /\ after[refers[x]].kind # "frame"))
      given(x) == IF refers[x] = None THEN "none"
                  ELSE IF e.kind = "name" /\ Single(s, "name")
                       THEN (IF objs[ns[e.root]].kept \in {None, objs[ns[e.root]].ver}
                             THEN "current" ELSE "unknown")
                  ELSE IF yields = "unsplit" THEN "unsplit"
                  ELSE IF keep /\ Storable(refers[x], after) THEN "current" ELSE "none"
      traceable(x) == IF Frame(refers[x]) THEN change # "hidden" \/ (~deep /\ keep)
                      ELSE objs[refers[x]].kind = "small"
  IN  [x \in Names |->
         IF lost(x) \/ (~step /\ (x \in Binds(s) \/ touched(x))) THEN "unknown"
         ELSE IF ~step THEN stands[x]
         ELSE IF deep /\ x \in Stores(s) THEN "unknown"
         ELSE IF x \in Gives(s, yields) THEN given(x)
         ELSE IF ~touched(x) \/ stands[x] # "current" THEN stands[x]
         ELSE IF ~traceable(x) THEN "unknown"
         ELSE IF Storable(refers[x], after) THEN "current" ELSE "none"]

-----------------------------------------------------------------------------
\* should_snapshot: what is set for the name or the type of the operation, or the time
\* the call took, decides; here any step may be stored or not.
ShouldSnapshot == BOOLEAN

Run(s) ==
  /\ ran < MaxStatements
  /\ ran' = ran + 1
  /\ \E yields \in Kinds \cup {"pair", "unsplit", "nothing", "root"},
        change \in {"none", "hidden", "seen", "large", "sealed"}, keep \in ShouldSnapshot :
       /\ Possible(s, yields, change)
       /\ LET w == Rewritten(s)
              after == After(s, yields, change)
              refers == Rebound(s, yields)
              step == w.op # "plain" /\ OnFrame(s, w.op, after[Value(s, yields, 1)])
          IN  /\ ns' = refers
              /\ stands' = Stands(s, yields, change, keep, after, refers)
              /\ \/ step /\ Trace(s, w, after, refers, yields, keep)
                 \/ ~step /\ objs' = after /\ UNCHANGED bound

Next == \E s \in Statement : Run(s)

Spec == Init /\ [][Next]_vars

-----------------------------------------------------------------------------
(* Properties *)

\* A name whose last value the tracker was told of, and stored, is bound to that object
\* at the version it has: nothing done since through another name, by a call that
\* never mentions it or by a step that was not to be stored has left it behind
\* (_assigned_names, _split_outputs, _refresh_tracked).
BoundToCurrent ==
  \A x \in Names : stands[x] = "current" =>
     bound[x] # None /\ bound[x].obj = ns[x] /\ bound[x].ver = objs[ns[x]].ver

\* A name whose last value was not stored is bound to nothing, whatever it or another
\* name of its object was bound to before (runtime.py:785-786): except the names of a
\* result that is not split, low, high = np.percentile(..), which keep what they had.
NoneLeft == \A x \in Names : stands[x] = "none" => bound[x] = None

\* A name bound to a version of an object is never bound to an earlier one again.
NeverBack ==
  [][\A x \in Names :
       bound[x] # None /\ bound'[x] # None /\ bound'[x].obj = bound[x].obj
         => bound'[x].ver >= bound[x].ver]_vars
=============================================================================
