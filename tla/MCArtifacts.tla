----------------------------- MODULE MCArtifacts -----------------------------
(* Constants of the runs of Artifacts. *)
EXTENDS Artifacts

AddressSet == 1..4
AllStatements ==
  {"call", "filter", "change", "pair", "loop", "alias", "widget", "rebind", "reshape", "edit",
   "checkout", "restore", "resume"}
AliasStatements == {"call", "alias", "reshape"}
=============================================================================
