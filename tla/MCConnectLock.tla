---------------------------- MODULE MCConnectLock ----------------------------
(***************************************************************************)
(* Instances of ConnectLock for TLC.                                       *)
(***************************************************************************)
EXTENDS ConnectLock

CONSTANTS r1, r2, w1, w2

TwoReaders == {r1, r2}
TwoWriters == {w1, w2}
=============================================================================
