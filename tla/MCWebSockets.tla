---------------------------- MODULE MCWebSockets ----------------------------
(* WebSockets with both loops, a coroutine of another writer and two        *)
(* dashboards.                                                               *)
EXTENDS WebSockets, TLC

CONSTANTS nameA, nameB, one, two, other

MCCallers == {Loop}
MCPrograms == {nameA, nameB}
MCSockets == {one, two}
MCOthers == {other}
MCWriters == {<<"fast", Loop>>, <<"tool", Loop>>, <<"other", other>>}

Symmetry == Permutations(MCPrograms) \cup Permutations(MCSockets)
=============================================================================
