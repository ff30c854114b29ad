---------------------------- MODULE MCBranching ----------------------------
(***************************************************************************)
(* Instances of Branching for TLC.                                         *)
(***************************************************************************)
EXTENDS Branching

CONSTANTS t1, load, slider

OneThread  == {t1}
Load    == {load}
Slider  == {slider}
=============================================================================
