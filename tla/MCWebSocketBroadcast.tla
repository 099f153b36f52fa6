------------------------ MODULE MCWebSocketBroadcast ------------------------
(* WebSocketBroadcast with three coroutines that broadcast to three clients. *)
EXTENDS WebSocketBroadcast, TLC

CONSTANTS one, two, three, fastLoop, toolLoop, other

MCSockets == {one, two, three}
MCWriters == {fastLoop, toolLoop, other}

AnyOrder == Permutations(MCSockets) \cup Permutations(MCWriters)
=============================================================================
