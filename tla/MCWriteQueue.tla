---------------------------- MODULE MCWriteQueue ----------------------------
(***************************************************************************)
(* Instances of WriteQueue for TLC: the configurations give every constant *)
(* its value; callers and keys are model values.                           *)
(***************************************************************************)
EXTENDS WriteQueue

CONSTANTS k1, k2, c1, c2, none

OneKey  == {k1}
TwoKeys == {k1, k2}
OneCaller  == {c1}
TwoCallers == {c1, c2}

OneOrTwo == {1, 2}
NoBadRow == {}
BadSecond == {2}

NoFault       == {}
WriteFaults   == {"write"}
CrashFaults   == {"write", "crash"}
AnyFault      == {"write", "session", "crash"}
=============================================================================
