------------------------------ MODULE Branching ------------------------------
(***************************************************************************)
(* The state tree of one AnalysisHistory as RuntimeTracker grows it        *)
(* (tracker/runtime.py, tracker/ui_interactions.py): steps that append,    *)
(* checkout, the lazy fork of a replay that diverges, the rows each of     *)
(* them queues for the writer thread, and resume after the process ended.  *)
(* Artifacts and bindings are left out; the queue is the ordered store     *)
(* that WriteQueue implements, taken one row at a time.                    *)
(*                                                                         *)
(* States and branches are numbered in the order they are made; state 0 is *)
(* the root and branch 0 the first branch, which __init__ stores before    *)
(* anything is traced.  A signature is what load_child_steps is compared   *)
(* by: function name and parameter fingerprint.                            *)
(***************************************************************************)
EXTENDS Naturals, Sequences, FiniteSets

CONSTANTS
  Threads,       \* threads that run cells and widget callbacks
  Calls,         \* signatures of traced calls
  Interactions,  \* signatures of traced widget interactions
  Settled,       \* callers wait for the queue to drain before every call, and before the end
  MaxStates,     \* bound: states made besides the root
  MaxRestarts,   \* bound: ends of the process
  MaxReadFaults, \* bound: reads of the database that fail
  MaxQueue,      \* bound: rows queued when a checkout is made
  NoState        \* not a state

ASSUME BranchingAssumption ==
  /\ Settled \in BOOLEAN
  /\ MaxStates \in Nat /\ MaxRestarts \in Nat /\ MaxReadFaults \in Nat
  /\ MaxQueue \in Nat
  /\ NoState \notin Nat

Sigs == Calls \cup Interactions

VARIABLES
  made,      \* made[s]: input state, signature and branch of state s
  forks,     \* forks[b]: the state where branch b starts, the signature that diverged,
             \* and whether a step from that state with that signature was recorded
  current,   \* _current_state_id
  branch,    \* _branch
  pending,   \* _pending_checkout_state_id, or NoState
  job,       \* job[t]: the step thread t is recording
  queue,     \* rows queued for the writer, in order
  dbStates,  \* states with a row in analysis_states
  dbSteps,   \* states whose producing step has a row in analysis_steps
  dbBranches,\* branches with a row in analysis_branches
  dbActive,  \* active_state_id of the history
  restarts,  \* ends of the process so far
  readFaults \* reads that failed so far

memory == <<current, branch, pending, job>>
db     == <<dbStates, dbSteps, dbBranches, dbActive>>
vars   == <<made, forks, memory, queue, db, restarts, readFaults>>

States   == 0..Len(made)
Branches == 0..Len(forks)
NoJob    == [sig |-> NoState, input |-> NoState]

BranchOf(s) == IF s = 0 THEN 0 ELSE made[s].branch

Init ==
  /\ made = <<>>
  /\ forks = <<>>
  /\ current = 0
  /\ branch = 0
  /\ pending = NoState
  /\ job = [t \in Threads |-> NoJob]
  /\ queue = <<>>
  /\ dbStates = {0}
  /\ dbSteps = {}
  /\ dbBranches = {0}
  /\ dbActive = 0
  /\ restarts = 0
  /\ readFaults = 0

-----------------------------------------------------------------------------
(* Which state a step starts from: _resolve_input_state *)

\* load_child_steps: stored steps from s, each with its stored output state.
Children(s) == {n \in dbSteps \cap dbStates : made[n].input = s}

\* Stored repeats of a step from s; mutant: any child is one.
MatchesAny(s, sig) == Children(s)
Matches(s, sig) == {n \in Children(s) : made[n].sig = sig}

\* Where a replay goes on after rejoining through n; mutant: it does not move.
ReplayStays(n) == pending
ReplayAfter(n) == n

Row(kind, id) == [kind |-> kind, id |-> id]

\* The queue with more rows; mutant: the newest first.
QueuedFirst(rows) == rows \o queue
Queued(rows) == queue \o rows

\* The step of state n is recorded: stored, or queued for the writer.
Recorded(n) == n \in dbSteps \/ \E i \in DOMAIN queue : queue[i] = Row("step", n)

Takes(t, sig, input) == job' = [job EXCEPT ![t] = [sig |-> sig, input |-> input]]

\* Ordinary execution appends, whatever ran before.
Appends(t, sig) ==
  /\ pending = NoState
  /\ Takes(t, sig, current)
  /\ UNCHANGED <<current, branch, pending, forks, queue>>

\* A replayed step that repeats a stored one follows it.
Rejoins(t, sig) ==
  /\ pending # NoState
  /\ \E n \in Matches(pending, sig) :
       /\ branch' = made[n].branch
       /\ pending' = ReplayAfter(n)
  /\ Takes(t, sig, pending)
  /\ UNCHANGED <<current, forks, queue>>

\* A replayed step that repeats none forks where the replay is, and ends it.
Diverges(t, sig) ==
  /\ pending # NoState
  /\ Matches(pending, sig) = {}
  /\ forks' = Append(forks, [start |-> pending, sig |-> sig])
  /\ branch' = Len(forks')
  /\ queue' = Queued(<<Row("branch", Len(forks'))>>)
  /\ current' = pending
  /\ pending' = NoState
  /\ Takes(t, sig, pending)

\* The database cannot be read: the step stays where the tracker is.
Unresolved(t, sig) ==
  /\ pending # NoState
  /\ readFaults < MaxReadFaults
  /\ readFaults' = readFaults + 1
  /\ Takes(t, sig, current)
  /\ UNCHANGED <<current, branch, pending, forks, queue>>

-----------------------------------------------------------------------------
(* The operations of RuntimeTracker *)

InProgress == {t \in Threads : job[t] # NoJob}

MayCall(t) == job[t] = NoJob /\ (Settled => queue = <<>>)

\* The traced function has run; its parameters are known and its input state is resolved.
Begin(t, sig) ==
  /\ MayCall(t)
  /\ Len(made) + Cardinality(InProgress) < MaxStates
  /\ \/ (Appends(t, sig) \/ Rejoins(t, sig) \/ Diverges(t, sig)) /\ UNCHANGED readFaults
     \/ Unresolved(t, sig)
  /\ UNCHANGED <<made, db, restarts>>

TraceStep(t) == \E sig \in Calls : Begin(t, sig)

TraceUiStep(t) == \E sig \in Interactions : Begin(t, sig)

\* What a step queues for its state n; mutant: the pointer before the rows.
ActiveFirst(n) == <<Row("active", n), Row("state", n), Row("step", n)>>
RowsOf(n) == <<Row("state", n), Row("step", n), Row("active", n)>>

\* The rest of the handler: the output state, its rows, the current state.
Finish(t) ==
  /\ job[t] # NoJob
  /\ made' = Append(made, [input |-> job[t].input, sig |-> job[t].sig, branch |-> branch])
  /\ queue' = Queued(RowsOf(Len(made')))
  /\ current' = Len(made')
  /\ job' = [job EXCEPT ![t] = NoJob]
  /\ UNCHANGED <<forks, branch, pending, db, restarts, readFaults>>

\* find_operation_by_name cannot read the database: the handler raises, and what
\* the step has changed so far stays.
Abandon(t) ==
  /\ job[t] # NoJob
  /\ readFaults < MaxReadFaults
  /\ readFaults' = readFaults + 1
  /\ job' = [job EXCEPT ![t] = NoJob]
  /\ UNCHANGED <<made, forks, current, branch, pending, queue, db, restarts>>

\* The branch a checkout returns to; mutant: the tracker stays on its branch.
BranchKept(s) == branch
BranchAt(s) == BranchOf(s)

\* checkout of a state the database knows; of another it raises and changes nothing.
Checkout(t, s) ==
  /\ MayCall(t)
  /\ Len(queue) < MaxQueue
  /\ s \in dbStates
  /\ branch' = BranchAt(s)
  /\ current' = s
  /\ pending' = s
  /\ queue' = Queued(<<Row("active", s)>>)
  /\ UNCHANGED <<made, forks, job, db, restarts, readFaults>>

\* The bindings of the state cannot be read: checkout raises when the branch and
\* the current state are set, and the replay position and the active pointer are not.
CheckoutFails(t, s) ==
  /\ MayCall(t)
  /\ readFaults < MaxReadFaults
  /\ s \in dbStates
  /\ branch' = BranchAt(s)
  /\ current' = s
  /\ readFaults' = readFaults + 1
  /\ UNCHANGED <<made, forks, pending, job, queue, db, restarts>>

\* The writer stores the oldest queued row.  That the database takes every row is
\* assumed here; rows it refuses, and what then becomes of the others, are in WriteQueue.
Store ==
  /\ queue # <<>>
  /\ queue' = Tail(queue)
  /\ LET row == Head(queue)
     IN  /\ dbStates'   = IF row.kind = "state"  THEN dbStates \cup {row.id}   ELSE dbStates
         /\ dbSteps'    = IF row.kind = "step"   THEN dbSteps \cup {row.id}    ELSE dbSteps
         /\ dbBranches' = IF row.kind = "branch" THEN dbBranches \cup {row.id} ELSE dbBranches
         /\ dbActive'   = IF row.kind = "active" THEN row.id ELSE dbActive
  /\ UNCHANGED <<made, forks, memory, restarts, readFaults>>

CanResume == dbActive \in dbStates /\ BranchOf(dbActive) \in dbBranches

\* The process ends, losing what is queued, and a new one resumes the history.
Restart ==
  /\ restarts < MaxRestarts
  /\ Settled => queue = <<>>
  /\ CanResume
  /\ restarts' = restarts + 1
  /\ queue' = <<>>
  /\ job' = [t \in Threads |-> NoJob]
  /\ current' = dbActive
  /\ branch' = BranchOf(dbActive)
  /\ pending' = NoState
  /\ UNCHANGED <<made, forks, db, readFaults>>

Next ==
  \/ \E t \in Threads :
       \/ TraceStep(t) \/ TraceUiStep(t) \/ Finish(t) \/ Abandon(t)
       \/ \E s \in States : Checkout(t, s) \/ CheckoutFails(t, s)
  \/ Store
  \/ Restart

Spec == Init /\ [][Next]_vars

-----------------------------------------------------------------------------
(* Properties *)

TypeOK ==
  /\ made \in Seq([input : Nat, sig : Sigs, branch : Nat])
  /\ forks \in Seq([start : Nat, sig : Sigs])
  /\ current \in States
  /\ branch \in Branches
  /\ pending \in States \cup {NoState}
  /\ job \in [Threads -> [sig : Sigs, input : States] \cup {NoJob}]
  /\ queue \in Seq([kind : {"state", "step", "branch", "active"}, id : Nat])
  /\ dbStates \subseteq States
  /\ dbSteps \subseteq DOMAIN made
  /\ dbBranches \subseteq Branches
  /\ dbActive \in States
  /\ restarts \in 0..MaxRestarts
  /\ readFaults \in 0..MaxReadFaults

StartOf(b) == IF b = 0 THEN 0 ELSE forks[b].start

\* Whenever the process ends, a new one can resume the history: the state it was
\* at is stored, with the branch of that state and the state where that branch
\* starts; and the first process to end takes no step of that state with it
\* (runtime.py:436-453, order of the rows in 757-758, 806-808).  The process may
\* end between any two rows; a database that refuses a row is not in this model.
Resumable ==
  /\ CanResume
  /\ StartOf(BranchOf(dbActive)) \in dbStates
  /\ restarts = 0 => dbActive \in dbSteps \cup {0}

\* A stored step never starts from a state that is not stored, and the step that
\* made that state is stored unless a crash lost it for good (runtime.py:757-758):
\* the walk from a state to the root finds every step there still is.
ChainStored ==
  \A n \in dbSteps :
    /\ made[n].input \in dbStates
    /\ made[n].input \in dbSteps \cup {0}
       \/ (restarts > 0 /\ ~Recorded(made[n].input))

\* A branch is a line that continues its parent where it starts: the state a
\* state is derived from is on its branch, or is the start of its branch
\* (runtime.py:866-872, 931-947, 957-976).
LineageConnected ==
  \A n \in DOMAIN made :
    \/ BranchOf(made[n].input) = made[n].branch
    \/ StartOf(made[n].branch) = made[n].input

\* Recorded steps that differ never leave one state on one branch: whatever
\* diverges is on a branch of its own (runtime.py:831-852).
BranchesDiverge ==
  \A m, n \in {s \in DOMAIN made : Recorded(s)} :
    made[m].input = made[n].input /\ made[m].branch = made[n].branch =>
      made[m].sig = made[n].sig

\* As long as every read succeeds, the replay position is where the tracker is, or
\* the stored step that the tracker's last step repeated, on the same branch
\* (runtime.py:931-949).
ReplayShadows ==
  (pending # NoState /\ InProgress = {} /\ readFaults = 0) =>
    \/ pending = current
    \/ pending # 0 /\ current # 0 /\ made[pending] = made[current]
=============================================================================
