------------------------------ MODULE Histories ------------------------------
(***************************************************************************)
(* What is read back from a stored history while it goes on growing: the   *)
(* review cursor (tracker/review.py), pruned views (tracker/pruning.py),   *)
(* replays and curated copies (tracker/introspection.py), and the reads of *)
(* tracker/storage.py they rest on.                                        *)
(*                                                                         *)
(* The tree grows as Branching has it, one whole trace_step at a time and  *)
(* on one thread.  Its rows reach the database in order, the state's row   *)
(* before that of its step; a fork's row counts as stored with its first   *)
(* state, and artifact rows with the step.  Readers see what is stored.    *)
(***************************************************************************)
EXTENDS Naturals, Sequences, FiniteSets, FiniteSetsExt, SequencesExt

CONSTANTS
  Calls,      \* calls of traced functions: name and parameters
  Categories, \* Categories[f]: the step category of the operation named f
  Outputs,    \* Outputs[f]: artifact rows a step of f leaves: its own, links to others
  MaxStates,  \* bound: states made besides the root
  MaxLag,     \* bound: rows that wait for the writer
  MaxUses,    \* bound: replays, reviews, views and copies
  None        \* not a state, no reviewer, no view

ASSUME HistoriesAssumption ==
  /\ {c.func : c \in Calls} \subseteq DOMAIN Categories
  /\ Outputs \in [DOMAIN Categories -> SUBSET {"own", "link"}]
  /\ MaxStates \in Nat /\ MaxLag \in Nat /\ MaxUses \in Nat
  /\ None \notin Nat

VARIABLES
  made,    \* made[n]: input state, branch, call and artifact rows of state n
  forks,   \* the states where branches 1, 2, .. start
  current, \* _current_state_id
  branch,  \* _branch
  pending, \* _pending_checkout_state_id, or None
  last,    \* last[f]: parameters of the latest call of f on the way to here; history
  stored,  \* rows stored: 2n - 1 with the row of state n, 2n with that of its step
  todo,    \* functions a replay has still to call
  review,  \* the reviewer: path, index, rows stored when it was opened, state asked for
  view,    \* the saved view: hidden states and branches, group_by_category
  copies,  \* curated copies: the finding copied, the states and their artifact rows so
           \* far, the active state or 0
  copying, \* the copy being made: its finding, the chain to it, its number or 0; or None
  uses     \* replays, reviews, views and copies so far

tree == <<made, forks, current, branch, pending, last>>
vars == <<tree, stored, todo, review, view, copies, copying, uses>>

Functions == DOMAIN Categories
States == 0..Len(made)
BranchOf(s) == IF s = 0 THEN 0 ELSE made[s].branch

\* The graph of the first k rows: load_graph.
GraphStates(k) == {s \in States : 2 * s <= k + 1}
GraphSteps(k)  == {n \in DOMAIN made : 2 * n <= k}

Init ==
  /\ made = <<>>
  /\ forks = <<>>
  /\ current = 0
  /\ branch = 0
  /\ pending = None
  /\ last = [f \in Functions |-> None]
  /\ stored = 0
  /\ todo = <<>>
  /\ review = None
  /\ view = None
  /\ copies = <<>>
  /\ copying = None
  /\ uses = 0

-----------------------------------------------------------------------------
(* The history grows *)

\* The state has an artifact row of its own, not only links.
HasOwn(n) == "own" \in made[n].rows

\* A call is recorded as a state, from where _resolve_input_state finds it to start.
Record(call) ==
  LET input == IF pending = None THEN current ELSE pending
      repeats == {n \in GraphSteps(stored) : made[n].input = input /\ made[n].call = call}
  IN  /\ Len(made) < MaxStates
      /\ \/ pending = None /\ UNCHANGED <<branch, pending, forks>>
         \/ /\ pending # None /\ repeats # {}
            /\ \E n \in repeats : pending' = n /\ branch' = made[n].branch
            /\ UNCHANGED forks
         \/ /\ pending # None /\ repeats = {}
            /\ forks' = Append(forks, input)
            /\ branch' = Len(forks')
            /\ pending' = None
      /\ LET nothing == IF \E n \in DOMAIN made : HasOwn(n) THEN {} ELSE {"link"}
         IN  made' = Append(made, [input |-> input, branch |-> branch', call |-> call,
                                   rows |-> Outputs[call.func] \ nothing])
      /\ current' = Len(made')
      /\ last' = [last EXCEPT ![call.func] = call.par]

MayRecord == 2 * Len(made) + 2 <= stored + MaxLag

TraceStep(call) ==
  /\ MayRecord /\ todo = <<>>
  /\ Record(call)
  /\ UNCHANGED <<stored, todo, review, view, copies, copying, uses>>

\* The way from the root to s in the graph of the first k rows, as far as its
\* steps are there.
Path(k, s) ==
  LET up[n \in States] == IF n \in GraphSteps(k) THEN Append(up[made[n].input], n) ELSE <<n>>
  IN  up[s]

\* The calls of f on the way to s, once every row is stored.
CallsOf(f, s) == {n \in Range(Path(2 * Len(made), s)) \ {0} : made[n].call.func = f}

\* checkout, of a state whose row is stored.
CheckedOut(s) ==
  /\ current' = s
  /\ branch' = BranchOf(s)
  /\ pending' = s
  /\ last' = [f \in Functions |->
       IF CallsOf(f, s) = {} THEN None ELSE made[Max(CallsOf(f, s))].call.par]
  /\ UNCHANGED <<made, forks>>

Checkout(s) ==
  /\ todo = <<>>
  /\ s \in GraphStates(stored)
  /\ CheckedOut(s)
  /\ UNCHANGED <<stored, todo, review, view, copies, copying, uses>>

Write ==
  /\ stored < 2 * Len(made)
  /\ stored' = stored + 1
  /\ UNCHANGED <<tree, todo, review, view, copies, copying, uses>>

-----------------------------------------------------------------------------
(* Replays *)

Use == uses < MaxUses /\ uses' = uses + 1

\* replay_state: the function of one step, whose row is stored, is called again on
\* the tracker's current state.
ReplayState ==
  /\ todo = <<>> /\ Use
  /\ \E n \in GraphSteps(stored) : todo' = <<made[n].call.func>>
  /\ UNCHANGED <<tree, stored, review, view, copies, copying>>

\* replay_pipeline: the functions of the steps of a pipeline, here of two of them.
ReplayPipeline ==
  /\ todo = <<>> /\ Use
  /\ \E n, m \in GraphSteps(stored) :
       n < m /\ todo' = <<made[n].call.func, made[m].call.func>>
  /\ UNCHANGED <<tree, stored, review, view, copies, copying>>

\* The next function of the replay, which is recorded like any other call; one that
\* the caller's map lacks, or that raises, is left out.
ReplayStep ==
  /\ todo # <<>>
  /\ todo' = Tail(todo)
  /\ MayRecord
  /\ (\E call \in Calls : call.func = Head(todo) /\ Record(call)) \/ UNCHANGED tree
  /\ UNCHANGED <<stored, review, view, copies, copying, uses>>

-----------------------------------------------------------------------------
(* The review cursor *)

\* The end of the path for s; mutant: the latest state of the branch wherever it is.
TipAlways(k, s) == Max({n \in GraphStates(k) : BranchOf(n) = BranchOf(s)})
Tip(k, s) ==
  LET latest == Max({n \in GraphStates(k) : BranchOf(n) = BranchOf(s)})
  IN  IF Contains(Path(k, latest), s) THEN latest ELSE s

\* _plan: the path is kept if s is on it.
Planned(k, path, s) ==
  LET kept == IF Contains(path, s) THEN path ELSE Path(k, Tip(k, s))
  IN  [path |-> kept, index |-> SelectInSeq(kept, LAMBDA n : n = s), rows |-> k, asked |-> s]

\* review(): a state whose row is not stored is refused.
Open(s) ==
  /\ review = None /\ Use
  /\ s \in GraphStates(stored)
  /\ review' = Planned(stored, <<>>, s)
  /\ UNCHANGED <<tree, stored, todo, view, copies, copying>>

Move(i) ==
  /\ i \in DOMAIN review.path /\ i # review.index
  /\ review' = [review EXCEPT !.index = i, !.asked = None]

Back    == Move(review.index - 1)
Forward == Move(review.index + 1)
First   == Move(1)
ToLast  == Move(Len(review.path))

Goto(s) ==
  /\ s \in GraphStates(review.rows)
  /\ review' = Planned(review.rows, review.path, s)

Reviewing ==
  /\ review # None
  /\ \/ Back \/ Forward \/ First \/ ToLast
     \/ \E s \in States : Goto(s)
  /\ UNCHANGED <<tree, stored, todo, view, copies, copying, uses>>

\* reviewer.restore(checkout=True)
ReviewerRestore ==
  /\ review # None /\ todo = <<>>
  /\ CheckedOut(review.path[review.index])
  /\ UNCHANGED <<stored, todo, review, view, copies, copying, uses>>

-----------------------------------------------------------------------------
(* Pruned views: saved as what they hide, rendered from what is stored *)

SaveView ==
  /\ view = None /\ Use
  /\ \E hidden \in {{}} \cup {{s} : s \in GraphStates(stored)},
        gone \in {{}} \cup {{b} : b \in 1..Len(forks)} :
       view' = [states |-> hidden, branches |-> gone]
  /\ UNCHANGED <<tree, stored, todo, review, copies, copying>>

\* _resolve_hidden_state_ids: hidden states and those of hidden branches.
Seed == view.states \cup {s \in GraphStates(stored) : BranchOf(s) \in view.branches}

\* _cascade_hidden_state_ids: with everything below them; mutant: with the states that
\* follow at once.
HiddenNext == Seed \cup {n \in GraphSteps(stored) : made[n].input \in Seed}
Hidden == Seed \cup {n \in GraphSteps(stored) : \E s \in Seed : Contains(Path(stored, n), s)}

VisibleStates == GraphStates(stored) \ Hidden
VisibleSteps == {n \in GraphSteps(stored) : n \notin Hidden /\ made[n].input \notin Hidden}

CategoryOf(n) == Categories[made[n].call.func]
Kids(s) == {n \in VisibleSteps : made[n].input = s}

\* Two steps that one edge may stand for.
Joined(n, m) == Kids(n) = {m} /\ CategoryOf(n) = CategoryOf(m)

\* _compute_pruned_graph: the runs of steps its edges stand for.
Edges ==
  LET steps == VisibleSteps
      run[n \in steps] ==
        IF \E m \in steps : Joined(n, m)
        THEN <<n>> \o run[CHOOSE m \in steps : Joined(n, m)]
        ELSE <<n>>
  IN  {run[n] : n \in {m \in steps : ~\E p \in steps : Joined(p, m)}}

-----------------------------------------------------------------------------
(* Curated copies *)

\* load_ancestor_chain: back to the nearest state with an artifact row of its own.
Chain(s) ==
  LET up[n \in States] ==
        IF n = 0 THEN <<>>
        ELSE IF HasOwn(n) THEN <<n>> ELSE Append(up[made[n].input], n)
  IN  up[s]

\* The artifact row the copy of state n gets, its own before a link; mutant: a link.
PickedLink(n) == IF "link" \in made[n].rows THEN {"link"} ELSE made[n].rows
Picked(n) == IF HasOwn(n) THEN {"own"} ELSE made[n].rows

\* create_independent_history_from_state: a finding with a step on its way that has
\* data of its own.
CanCopy(s) == s \in GraphSteps(stored) /\ Chain(s) # <<>> /\ HasOwn(Head(Chain(s)))

\* The chain is read with a connection of its own; the states on it do not change.
ReadChain(s) ==
  /\ copying = None /\ Use
  /\ CanCopy(s)
  /\ copying' = [finding |-> s, steps |-> Chain(s), into |-> 0]
  /\ UNCHANGED <<tree, stored, todo, review, view, copies>>

\* materialize_curated_history, each statement committed as it runs.  First the rows of
\* the history, its branch and its root, with no active state.
NewHistory ==
  /\ copying.into = 0
  /\ copies' = Append(copies, [finding |-> copying.finding, from |-> <<>>, rows |-> <<>>,
                               active |-> 0])
  /\ copying' = [copying EXCEPT !.into = Len(copies')]

\* Then, for one step of the chain after the other, the rows of its state and of the
\* step, and the artifact row last.
CopyStep ==
  /\ copying.into # 0
  /\ LET c == copies[copying.into]
     IN  /\ Len(c.rows) = Len(c.from) /\ Len(c.from) < Len(copying.steps)
         /\ copies' = [copies EXCEPT ![copying.into].from =
                         Append(c.from, copying.steps[Len(c.from) + 1])]
  /\ UNCHANGED copying

CopyArtifact ==
  /\ copying.into # 0
  /\ LET c == copies[copying.into]
     IN  /\ Len(c.rows) < Len(c.from)
         /\ copies' = [copies EXCEPT ![copying.into].rows =
                         Append(c.rows, Picked(c.from[Len(c.rows) + 1]))]
  /\ UNCHANGED copying

\* The active state, when the loop over the steps has ended; mutant: when the rows of
\* the last state are there.
StatesCopied(c) == Len(c.from) = Len(copying.steps)
AllCopied(c) == Len(c.rows) = Len(copying.steps)

SetActive ==
  /\ copying.into # 0
  /\ AllCopied(copies[copying.into])
  /\ copies' = [copies EXCEPT ![copying.into].active = Len(copies[copying.into].from)]
  /\ copying' = None

\* A statement fails, or the process dies: the rows written stay.
CopyFails == copying' = None /\ UNCHANGED copies

Copying ==
  /\ copying # None
  /\ NewHistory \/ CopyStep \/ CopyArtifact \/ SetActive \/ CopyFails
  /\ UNCHANGED <<tree, stored, todo, review, view, uses>>

-----------------------------------------------------------------------------
(* last_call_params *)

\* load_last_step_params: the parameters of the nearest step of f on the way back
\* from s through the stored rows; mutant: of the branch of s only.
LastParamsOnBranch(f, s) ==
  LET back[n \in States] ==
        IF n \notin GraphSteps(stored) \/ BranchOf(n) # BranchOf(s) THEN None
        ELSE IF made[n].call.func = f THEN made[n].call.par ELSE back[made[n].input]
  IN  back[s]
LastParams(f, s) ==
  LET back[n \in States] ==
        IF n \notin GraphSteps(stored) THEN None
        ELSE IF made[n].call.func = f THEN made[n].call.par ELSE back[made[n].input]
  IN  back[s]

Next ==
  \/ \E call \in Calls : TraceStep(call)
  \/ \E s \in States : Checkout(s) \/ Open(s) \/ ReadChain(s)
  \/ Write \/ ReplayState \/ ReplayPipeline \/ ReplayStep
  \/ Reviewing \/ ReviewerRestore
  \/ SaveView \/ Copying

Spec == Init /\ [][Next]_vars
-----------------------------------------------------------------------------
(* Properties *)

\* Wherever the reviewer is, it stands on a line of the tree: every state of its path
\* follows from the one before it, the path starts at the root unless a step's row
\* was missing when the graph was read, and after a jump the position is the state
\* asked for, whatever forked meanwhile (review.py:35-62).
CursorOnPath ==
  review # None =>
    /\ review.index \in DOMAIN review.path
    /\ \A i \in 2..Len(review.path) : made[review.path[i]].input = review.path[i - 1]
    /\ review.path[1] = 0 \/ review.path[1] \notin GraphSteps(review.rows)
    /\ review.asked # None => review.path[review.index] = review.asked

\* A pruned view hides a state only with everything below it, and every step it
\* shows is in exactly one edge: a line of steps of one category that nothing else
\* leaves in between (pruning.py:24-43, 51-129).
ViewAccountsForSteps ==
  view # None =>
    /\ \A n \in VisibleSteps : Range(Path(stored, n)) \cap Hidden = {}
    /\ \A n \in VisibleStates \cap GraphSteps(stored) : n \in VisibleSteps
    /\ \A n \in VisibleSteps : Cardinality({e \in Edges : Contains(e, n)}) = 1
    /\ \A e \in Edges : \A i \in 2..Len(e) :
         /\ Kids(e[i - 1]) = {e[i]}
         /\ CategoryOf(e[i]) = CategoryOf(e[1])

\* A copy with an active state, from where a resume of it goes on, ends at the finding it
\* was made for, is all of the way there from the nearest state with data of its own,
\* and holds that data and no other: one that failed half way has no active state
\* (storage.py:588-691, introspection.py:299-313).
CopiesReplayable ==
  \A c \in Range(copies) :
    c.active # 0 =>
      /\ c.active = Len(c.from) /\ c.active = Len(c.rows)
      /\ c.from[c.active] = c.finding
      /\ \E k \in 0..MaxStates : c.from = SubSeq(Path(stored, c.finding), k + 1, k + c.active)
      /\ {i \in DOMAIN c.rows : "own" \in c.rows[i]} = {1}

\* With every row stored, last_call_params gives the parameters the function was last
\* called with on the way to the current state, through forks and replays
\* (runtime.py:479-508, storage.py:1462-1475).
LastCallFound ==
  stored = 2 * Len(made) => \A f \in Functions : LastParams(f, current) = last[f]
=============================================================================
