------------------------------ MODULE MCSessions ------------------------------
(* Constants of the runs of Sessions. *)
EXTENDS Sessions

AllCalls == {"open", "exit", "trace", "annotate", "update", "remove", "tag", "untag", "pipeline"}
Symmetry == Permutations(Procs)
=============================================================================
