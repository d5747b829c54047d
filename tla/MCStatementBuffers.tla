------------------------- MODULE MCStatementBuffers -------------------------
(***************************************************************************)
(* F(a, "lit", b), called three times: the literal lies between the two    *)
(* slots the loops over s.vars touch.                                      *)
(***************************************************************************)
EXTENDS StatementBuffers, TLC

CONSTANTS Text

MCSlots == {1, 3}
MCLiteral == 2 :> Text

Symmetric == Permutations(Calls) \cup Permutations(Bufs)
=============================================================================
