---------------------------- MODULE MCHistories ----------------------------
(***************************************************************************)
(* Instances of Histories for TLC: two calls of load, which has a          *)
(* category, and one of plot, which has none.                              *)
(***************************************************************************)
EXTENDS Histories

ThreeCalls == {[func |-> "load", par |-> 1], [func |-> "load", par |-> 2],
               [func |-> "plot", par |-> 1]}
LoadsOnly  == [load |-> "input", plot |-> None]
OwnOfLoads == [load |-> {"own", "link"}, plot |-> {"link"}]
=============================================================================
