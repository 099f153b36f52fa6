---------------------------- MODULE MCToolsPane ----------------------------
(* ToolsPane with two tools, two pots and two values of a field.             *)
EXTENDS ToolsPane

MCValues == {0, 1}
MCMagazines == {<<1, 0>>}
=============================================================================
