----------------------------- MODULE MCToolBatch -----------------------------
(* ToolBatch with three pots and two tools. *)
EXTENDS ToolBatch, TLC

CONSTANTS t1, t2

MCPots == 1..3
MCTools == {t1, t2}

Symmetry == Permutations(MCTools)
=============================================================================
