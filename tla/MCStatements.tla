----------------------------- MODULE MCStatements -----------------------------
(* Two names; a statement assigns to a name, into an item, further down, or to both names. *)
EXTENDS Statements

CONSTANTS x, y

Variables == {x, y}
LeftSides ==
  {<<Target(to, n)>> : to \in {"name", "item", "deep"}, n \in Variables}
    \cup {<<Target("name", x), Target("name", y)>>}
=============================================================================
