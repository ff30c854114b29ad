------------------------------- MODULE Sessions -------------------------------
(***************************************************************************)
(* Processes that share one provenance database: the kernel hooks that     *)
(* resume a history or start one (tracker/kernel_hooks.py), the rows of a  *)
(* traced step and of its operation, and annotations, tags and pipelines   *)
(* (tracker/runtime.py, tracker/annotations.py, tracker/storage.py).       *)
(*                                                                         *)
(* A process hands its writes to its writer thread, which runs them one    *)
(* statement at a time, each committed as DuckDB commits it; a caller of a *)
(* sync write goes on once the queue is empty.  A process may die between  *)
(* two statements.  Every history has the one branch it starts with:       *)
(* Branching has the others.                                               *)
(***************************************************************************)
EXTENDS Naturals, Sequences, FiniteSets, SequencesExt

CONSTANTS
  Procs,      \* processes
  Functions,  \* names of traced functions
  Calls,      \* kinds of call the processes make
  MaxCalls,   \* bound: calls of all processes
  MaxCrashes, \* bound: deaths of a process
  None        \* no id

ASSUME SessionsAssumption ==
  MaxCalls \in Nat /\ MaxCrashes \in Nat /\ None \notin Nat

VARIABLES
  db,      \* rows of the database
  newest,  \* the history of the state row stored last, or None
  up,      \* up[p]: process p has a tracker
  hist,    \* hist[p]: its history
  env,     \* env[p]: its runtime environment
  cache,   \* cache[p][f]: _operation_cache
  todo,    \* todo[p]: statements queued for its writer, in order
  sync,    \* sync[p]: its caller waits for the queue
  tagging, \* tagging[p]: the tag id save_tag_sync is about to return, or None
  untag,   \* untag[p]: assignments an untag call found; history
  minted,  \* new operations, with those of the same name other processes had queued; history
  removed, \* annotations whose removal returned; history
  ids,     \* ids given out
  calls, crashes

vars == <<db, newest, up, hist, env, cache, todo, sync, tagging, untag, minted, removed, ids,
          calls, crashes>>

\* A row: its table, key, the key of the row it belongs to, and a second one
\* (a step's environment, an operation's name).
Row(tab, id, ref, with) == [tab |-> tab, id |-> id, ref |-> ref, with |-> with]
Put(row)  == [op |-> "put", row |-> row]    \* INSERT OR REPLACE
Edit(row) == [op |-> "edit", row |-> row]   \* UPDATE .. WHERE
Del(tab, id) == [op |-> "del", row |-> Row(tab, id, None, None)]
Seek(row) == [op |-> "seek", row |-> row]   \* SELECT before an INSERT: _write_tag

Same(r, q) == r.tab = q.tab /\ r.id = q.id
Rows(tab)  == {r \in db : r.tab = tab}
Key(tab, id) == \E r \in db : r.tab = tab /\ r.id = id

Init ==
  /\ db = {}
  /\ newest = None
  /\ up = [p \in Procs |-> FALSE]
  /\ hist = [p \in Procs |-> None]
  /\ env = [p \in Procs |-> None]
  /\ cache = [p \in Procs |-> [f \in Functions |-> None]]
  /\ todo = [p \in Procs |-> <<>>]
  /\ sync = [p \in Procs |-> FALSE]
  /\ tagging = [p \in Procs |-> None]
  /\ untag = [p \in Procs |-> {}]
  /\ minted = <<>>
  /\ removed = {}
  /\ ids = 0
  /\ calls = 0
  /\ crashes = 0

-----------------------------------------------------------------------------
(* The writer thread of a process *)

\* A statement's effect on the rows; mutant: an update stores the row anyway.
AppliedAlways(s) ==
  LET others == {r \in db : ~Same(r, s.row)}
  IN  IF s.op \in {"put", "edit"} THEN others \cup {s.row} ELSE IF s.op = "del" THEN others ELSE db
Applied(s) ==
  LET others == {r \in db : ~Same(r, s.row)}
  IN  CASE s.op = "put" -> others \cup {s.row}
        [] s.op = "edit" -> IF others = db THEN db ELSE others \cup {s.row}
        [] s.op = "del" -> others
        [] s.op = "seek" -> db

\* _write_tag: the id of a tag that has the name; the insert is left out then.
Found(s) == {r.id : r \in {t \in Rows("tag") : t.with = s.row.with}}

Write(p) ==
  /\ todo[p] # <<>>
  /\ LET s == Head(todo[p])
         known == s.op = "seek" /\ Found(s) # {}
     IN  /\ db' = Applied(s)
         /\ newest' = IF s.op = "put" /\ s.row.tab = "state" THEN s.row.ref ELSE newest
         /\ todo' = [todo EXCEPT ![p] = IF known THEN Tail(Tail(@)) ELSE Tail(@)]
         /\ \/ known /\ \E g \in Found(s) : tagging' = [tagging EXCEPT ![p] = g]
            \/ ~known /\ UNCHANGED tagging
         /\ removed' = IF s.op = "del" /\ s.row.tab = "note" THEN removed \cup {s.row.id} ELSE removed
  /\ UNCHANGED <<up, hist, env, cache, sync, untag, minted, ids, calls, crashes>>

-----------------------------------------------------------------------------
(* Calls of a process *)

May(kind, p, n) ==
  /\ kind \in Calls
  /\ calls < MaxCalls
  /\ sync[p] => todo[p] = <<>>
  /\ tagging[p] = None /\ untag[p] = {}
  /\ calls' = calls + 1
  /\ ids' = ids + n

Queue(p, stmts, waits) ==
  /\ todo' = [todo EXCEPT ![p] = @ \o stmts]
  /\ sync' = [sync EXCEPT ![p] = waits]

\* What resume needs: a state to continue from, the active one or the root, and
\* the branch it is on among those of the history.
ActiveOf(h) == {r.ref : r \in {a \in Rows("active") : a.id = h}}
RootOf(h) == {r.id : r \in {s \in Rows("state") : s.ref = h /\ s.id = h}}
BranchesOf(h) == {r.id : r \in {b \in Rows("branch") : b.ref = h}}
CanResume(h) ==
  /\ \A s \in ActiveOf(h) : Key("state", s)
  /\ RootOf(h) # {}
  /\ h \in BranchesOf(h)

\* Rows of a new history, its root state, agent and environment; mutant: the
\* state before the branch.
OpeningStateFirst(h, e) ==
  <<Put(Row("history", h, None, None)), Put(Row("state", h, h, None)), Put(Row("branch", h, h, None)),
    Put(Row("agent", 0, h, None)), Put(Row("env", e, h, None))>>
Opening(h, e) ==
  <<Put(Row("history", h, None, None)), Put(Row("branch", h, h, None)), Put(Row("state", h, h, None)),
    Put(Row("agent", 0, h, None)), Put(Row("env", e, h, None))>>

\* init_jupyter, init_marimo: resume the history that find_latest_history_by_name
\* returns, the one with the newest state row, unless a fresh one is asked for or
\* there is none.
Existing(fresh) == IF fresh THEN None ELSE newest

Open(p, fresh) ==
  /\ ~up[p]
  /\ May("open", p, 2)
  /\ LET e == ids + 1
         h == Existing(fresh)
     IN  /\ hist' = [hist EXCEPT ![p] = IF h = None THEN ids + 2 ELSE h]
         /\ env' = [env EXCEPT ![p] = e]
         /\ Queue(p, IF h = None THEN Opening(ids + 2, e)
                     ELSE <<Put(Row("agent", 0, h, None)), Put(Row("env", e, h, None))>>, TRUE)
  /\ up' = [up EXCEPT ![p] = TRUE]
  /\ cache' = [cache EXCEPT ![p] = [f \in Functions |-> None]]
  /\ UNCHANGED <<db, newest, tagging, untag, minted, removed, crashes>>

\* find_operation_by_name: any of the operations of that name.
OperationsOf(f) == {r.id : r \in {o \in Rows("operation") : o.with = f /\ Key("type", o.ref)}}

\* _get_or_create_operation: the cached one, one the database has, a new one;
\* mutant: the cache is not asked.
OperationsUncached(p, f) == IF OperationsOf(f) # {} THEN OperationsOf(f) ELSE {ids + 2}
Operations(p, f) ==
  IF cache[p][f] # None THEN {cache[p][f]}
  ELSE IF OperationsOf(f) # {} THEN OperationsOf(f) ELSE {ids + 2}

\* Statements of one step; mutant: none for the operation.
StepRowsAlone(p, s, o, f) ==
  <<Put(Row("state", s, hist[p], None)), Put(Row("step", s, o, env[p])),
    Put(Row("active", hist[p], s, None))>>
StepRows(p, s, o, f) ==
  <<Put(Row("state", s, hist[p], None)), Put(Row("step", s, o, env[p])),
    Put(Row("type", o, None, None)), Put(Row("operation", o, o, f)),
    Put(Row("active", hist[p], s, None))>>

\* Operations of name f that a process has queued.
Queued(f, q) ==
  {todo[q][i].row.id : i \in {j \in DOMAIN todo[q] : todo[q][j].row.tab = "operation"
                                                     /\ todo[q][j].row.with = f}}

Trace(p, f) ==
  /\ up[p]
  /\ May("trace", p, 2)
  /\ \E o \in Operations(p, f) :
       /\ cache' = [cache EXCEPT ![p][f] = o]
       /\ Queue(p, StepRows(p, ids + 1, o, f), FALSE)
       /\ minted' = IF o = ids + 2
                    THEN Append(minted, [op |-> o, beside |-> UNION {Queued(f, q) : q \in Procs \ {p}}])
                    ELSE minted
  /\ UNCHANGED <<db, newest, up, hist, env, tagging, untag, removed, crashes>>

\* annotate(): the note, then its targets.  The mutant has the targets first.
NoteRowsTargetsFirst(n) == <<Put(Row("target", n, n, None)), Put(Row("note", n, None, 0))>>
NoteRows(n) == <<Put(Row("note", n, None, 0)), Put(Row("target", n, n, None))>>

Annotate(p) ==
  /\ up[p]
  /\ May("annotate", p, 1)
  /\ Queue(p, NoteRows(ids + 1), TRUE)
  /\ UNCHANGED <<db, newest, up, hist, env, cache, tagging, untag, minted, removed, crashes>>

UpdateNote(p, n) ==
  /\ up[p]
  /\ May("update", p, 0)
  /\ Queue(p, <<Edit(Row("note", n, None, 1))>>, TRUE)
  /\ UNCHANGED <<db, newest, up, hist, env, cache, tagging, untag, minted, removed, crashes>>

\* remove_annotation(): the targets, then the note.
RemoveNote(p, n) ==
  /\ up[p]
  /\ May("remove", p, 0)
  /\ Queue(p, <<Del("target", n), Del("note", n)>>, TRUE)
  /\ UNCHANGED <<db, newest, up, hist, env, cache, tagging, untag, minted, removed, crashes>>

\* create_pipeline(): the pipeline, then its fragment.
PipelineRows(n, h) ==
  <<Put(Row("pipeline", n, h, None)), Put(Row("fragment", n, n, None))>>

Pipeline(p) ==
  /\ up[p]
  /\ May("pipeline", p, 1)
  /\ Queue(p, PipelineRows(ids + 1, hist[p]), TRUE)
  /\ UNCHANGED <<db, newest, up, hist, env, cache, tagging, untag, minted, removed, crashes>>

\* tag(): find or make the tag, then assign it once its id is back.
Tag(p) ==
  /\ up[p]
  /\ May("tag", p, 1)
  /\ LET g == Row("tag", ids + 1, None, 0)
     IN  Queue(p, <<Seek(g), Put(g)>>, TRUE)
  /\ tagging' = [tagging EXCEPT ![p] = ids + 1]
  /\ UNCHANGED <<db, newest, up, hist, env, cache, untag, minted, removed, crashes>>

Assign(p) ==
  /\ tagging[p] # None /\ todo[p] = <<>>
  /\ ids' = ids + 1
  /\ Queue(p, <<Put(Row("assigned", ids + 1, tagging[p], None))>>, TRUE)
  /\ tagging' = [tagging EXCEPT ![p] = None]
  /\ UNCHANGED <<db, newest, up, hist, env, cache, untag, minted, removed, calls, crashes>>

\* untag(): every assignment of a tag of the name; mutant: the first one.
UnassignFirst(as) == IF as = {} THEN <<>> ELSE <<Del("assigned", CHOOSE a \in as : TRUE)>>
Unassign(as) == [i \in 1..Cardinality(as) |-> Del("assigned", SetToSeq(as)[i])]

Untag(p) ==
  /\ up[p]
  /\ May("untag", p, 0)
  /\ LET as == {a.id : a \in {r \in Rows("assigned") : Key("tag", r.ref)}}
     IN  /\ as # {}
         /\ untag' = [untag EXCEPT ![p] = as]
         /\ Queue(p, Unassign(as), TRUE)
  /\ UNCHANGED <<db, newest, up, hist, env, cache, tagging, minted, removed, crashes>>

Untagged(p) ==
  /\ untag[p] # {} /\ todo[p] = <<>>
  /\ untag' = [untag EXCEPT ![p] = {}]
  /\ UNCHANGED <<db, newest, up, hist, env, cache, todo, sync, tagging, minted, removed, ids, calls, crashes>>

\* The process ends: at exit with an empty queue, or by dying with what is left.
Ends(p) ==
  /\ up' = [up EXCEPT ![p] = FALSE]
  /\ todo' = [todo EXCEPT ![p] = <<>>]
  /\ sync' = [sync EXCEPT ![p] = FALSE]
  /\ tagging' = [tagging EXCEPT ![p] = None]
  /\ untag' = [untag EXCEPT ![p] = {}]
  /\ UNCHANGED <<db, newest, hist, env, cache, minted, removed, ids>>

Exit(p) ==
  /\ up[p] /\ todo[p] = <<>> /\ tagging[p] = None /\ untag[p] = {}
  /\ "exit" \in Calls /\ calls < MaxCalls /\ calls' = calls + 1
  /\ Ends(p)
  /\ UNCHANGED crashes

Crash(p) ==
  /\ up[p] /\ crashes < MaxCrashes
  /\ crashes' = crashes + 1
  /\ Ends(p)
  /\ UNCHANGED calls

\* Annotations a caller can know of: load_annotations finds them by their targets.
Notes == {r.id : r \in Rows("target")} \cup removed

\* Rows load_step_detail joins a step with, its operation aside: state, branch, agent
\* and environment.
HasOrigin(r) ==
  \E s \in Rows("state") :
    s.id = r.id /\ Key("branch", s.ref) /\ Key("agent", 0) /\ Key("env", r.with)

\* load_state_detail finds the step of a state if its operation is there too.
HasDetail(r) ==
  HasOrigin(r) /\ \E o \in Rows("operation") : o.id = r.ref /\ Key("type", o.ref)

Next ==
  \E p \in Procs :
    \/ Write(p) \/ Assign(p) \/ Untagged(p) \/ Exit(p) \/ Crash(p)
    \/ \E fresh \in BOOLEAN : Open(p, fresh)
    \/ \E f \in Functions : Trace(p, f)
    \/ Annotate(p) \/ Pipeline(p) \/ Tag(p) \/ Untag(p)
    \/ \E n \in Notes : UpdateNote(p, n) \/ RemoveNote(p, n)

Spec == Init /\ [][Next]_vars

-----------------------------------------------------------------------------
(* Properties *)

\* A history that find_latest_history_by_name can return can be resumed, however
\* far the process that made it or another that works on it got (runtime.py,
\* the ValueErrors of resume).
FoundCanResume == \A h \in {r.ref : r \in Rows("state")} : CanResume(h)

\* The details of a stored step can be read (load_state_detail, load_step_detail), or
\* only its operation is missing: still to come from the process that runs, or lost
\* with the process that died.
DetailComplete ==
  \A r \in Rows("step") :
    LET session == {p \in Procs : up[p] /\ env[p] = r.with}
    IN  /\ HasOrigin(r)
        /\ \/ HasDetail(r)
           \/ session = {}
           \/ \E p \in session : \E f \in Functions : r.ref \in Queued(f, p)

\* A function has one operation row, except when another process had its own
\* queued at the time (runtime.py:989, "otherwise every session would mint its own").
OneOperationPerName ==
  \A i \in DOMAIN minted : \A r, q \in Rows("operation") :
    r.with = q.with /\ r.id < q.id /\ q.id = minted[i].op => r.id \in minted[i].beside

\* What names another row is stored after it and deleted before it, whatever
\* statement a process dies at (storage.py, _write_annotation, _delete_annotation,
\* _write_fragment, _write_operation).
NoOrphans ==
  /\ \A r \in Rows("target") : Key("note", r.ref)
  /\ \A r \in Rows("assigned") : Key("tag", r.ref)
  /\ \A r \in Rows("fragment") : Key("pipeline", r.ref)
  /\ \A r \in Rows("operation") : Key("type", r.ref)

\* An annotation that was removed stays removed, whoever was updating it
\* (storage.py, _update_annotation).
RemovedStaysRemoved == \A n \in removed : ~Key("note", n)

\* When untag returns, no assignment of the name that it could see is left,
\* under whichever of several tags of that name (annotations.py, _untag).
UntagRemovesAll ==
  \A p \in Procs : todo[p] = <<>> => \A a \in untag[p] : ~Key("assigned", a)
=============================================================================
