---------------------------- MODULE OrderedWrites ----------------------------
(***************************************************************************)
(* What the asynchronous save methods of a storage backend promise to the  *)
(* tracker that calls them, with no threads, queue, flag or session:       *)
(* writes take effect in the order in which they were accepted, rows of a  *)
(* bulk table reach it in the order in which they were queued, the last    *)
(* row of a key winning, and only the end of the process loses any.        *)
(* WriteQueue implements it.                                               *)
(***************************************************************************)
EXTENDS Naturals, Sequences

CONSTANTS
  Tables,    \* the bulk tables
  Keys,      \* primary keys of their rows
  BadRows,   \* rows, by position, that the database rejects
  Writes     \* the other writes

VARIABLES
  waiting,   \* accepted writes that have neither taken effect nor failed, in order
  applied,   \* writes that took effect, in order
  rows,      \* rows[t]: rows queued for table t and not yet given to the database
  stored,    \* stored[t][k]: position of the row of key k in table t, 0 if none
  ending     \* the process is being shut down

vars == <<waiting, applied, rows, stored, ending>>

Init ==
  /\ waiting = <<>>
  /\ applied = <<>>
  /\ rows = [t \in Tables |-> <<>>]
  /\ stored = [t \in Tables |-> [k \in Keys |-> 0]]
  /\ ending = FALSE

Accept(w) ==
  /\ waiting' = Append(waiting, w)
  /\ UNCHANGED <<applied, rows, stored, ending>>

\* The oldest accepted write takes effect, or fails on its own.
Resolve ==
  /\ waiting # <<>>
  /\ waiting' = Tail(waiting)
  /\ applied' \in {applied, Append(applied, Head(waiting))}
  /\ UNCHANGED <<rows, stored, ending>>

Suffix(s, n) == SubSeq(s, n + 1, Len(s))

\* Rows are added after the rows there are.
QueueRows(t) ==
  /\ Len(rows'[t]) > Len(rows[t])
  /\ SubSeq(rows'[t], 1, Len(rows[t])) = rows[t]
  /\ \A u \in Tables \ {t} : rows'[u] = rows[u]
  /\ UNCHANGED <<waiting, applied, stored, ending>>

\* The row of key k in a table after the first n of queue went into it together.
AfterFirst(n, queue, k, old) ==
  LET here == {i \in 1..n : queue[i].key = k}
      last == queue[CHOOSE i \in here : \A j \in here : j <= i].pos
  IN  IF here = {} \/ last \in BadRows THEN old ELSE last

\* The first n rows that wait for table t go into it.
StoreRows(t, n) ==
  /\ n \in 1..Len(rows[t])
  /\ stored' = [stored EXCEPT ![t] = [k \in Keys |-> AfterFirst(n, rows[t], k, @[k])]]
  /\ rows' = [rows EXCEPT ![t] = Suffix(@, n)]
  /\ UNCHANGED <<waiting, applied, ending>>

\* Some keys of a table have the rows that the first n give them, and the rows still wait.
StoreSome(t, n, ks) ==
  /\ n \in 1..Len(rows[t])
  /\ stored' = [stored EXCEPT ![t] =
                  [k \in Keys |-> IF k \in ks THEN AfterFirst(n, rows[t], k, @[k]) ELSE @[k]]]
  /\ UNCHANGED <<waiting, applied, rows, ending>>

BeginToEnd ==
  /\ ~ending
  /\ ending' = TRUE
  /\ UNCHANGED <<waiting, applied, rows, stored>>

\* While the process ends, rows may be given up, oldest first.
GiveUpRows ==
  /\ ending
  /\ \A t \in Tables : \E n \in 0..Len(rows[t]) : rows'[t] = Suffix(rows[t], n)
  /\ UNCHANGED <<waiting, applied, stored, ending>>

\* The process dies and another one starts: the database is all there is.
Die ==
  /\ waiting' = <<>>
  /\ rows' = [t \in Tables |-> <<>>]
  /\ ending' = FALSE
  /\ UNCHANGED <<applied, stored>>

Next ==
  \/ \E w \in Writes : Accept(w)
  \/ Resolve
  \/ \E t \in Tables : QueueRows(t) \/ \E n \in 1..Len(rows[t]) :
                         StoreRows(t, n) \/ \E ks \in SUBSET Keys : StoreSome(t, n, ks)
  \/ BeginToEnd \/ GiveUpRows \/ Die

Spec == Init /\ [][Next]_vars
=============================================================================
