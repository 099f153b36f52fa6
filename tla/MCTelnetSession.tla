--------------------------- MODULE MCTelnetSession ---------------------------
(* TelnetSession with the poller of a machine and a REST request.            *)
EXTENDS TelnetSession

CONSTANTS poller, request

MCClients == {poller, request}
MCPollers == {poller}
=============================================================================
