-------------------------- MODULE WebSocketBroadcast --------------------------
(***************************************************************************)
(* The sends of WebSocketManager.broadcast_status (services/websocket.py)  *)
(* one by one: a for loop over the list active_connections that awaits the *)
(* send to each connection.  While one broadcast waits, others start and   *)
(* connections come and go, which changes the list under the iterator.     *)
(* broadcast_compressor_status has the same loop.                          *)
(*                                                                         *)
(* A message is the number of its broadcast.  A client stands for one      *)
(* WebSocket object, so it connects once; dashboards that reconnect are    *)
(* new clients.                                                            *)
(***************************************************************************)
EXTENDS Naturals, FiniteSets, Sequences, SequencesExt

CONSTANTS
    Sockets,        \* WebSocket objects
    Writers,        \* coroutines that call broadcast_status
    MaxMessages     \* bound: broadcasts in a behaviour

ASSUME MessagesAssumption == MaxMessages \in Nat

VARIABLES
    active,     \* the list active_connections
    socket,     \* state of each client's socket
    sending,    \* the loop of each writer's broadcast, if it is in one
    received,   \* broadcasts each client received, in order
    messages    \* number of broadcasts so far

sendVars == <<active, socket, sending, received, messages>>

NotSending == [message |-> 0, next |-> 0, failed |-> {}, owed |-> {}, shrank |-> FALSE]
Busy(w) == sending[w].message # 0

-----------------------------------------------------------------------------

\* The k-th smallest of a set of numbers.
Nth(S, k) == CHOOSE i \in S : Cardinality({j \in S : j <= i}) = k

\* list.remove for all that are gone: the connections behind them move up.
Without(list, gone) ==
    LET stay == {i \in DOMAIN list : list[i] \notin gone}
    IN  [k \in 1..Cardinality(stay) |-> list[Nth(stay, k)]]

\* Loops that wait for a send (other than w's, which is over) see it happen.
Shrunk(w, gone) ==
    [v \in Writers |->
        IF v = w THEN NotSending
        ELSE [sending[v] EXCEPT !.owed = @ \ gone,
                                !.shrank = @ \/ (gone # {} /\ Busy(v))]]

\* The endpoint accepts the client; connect() appends it to the list.
Accept(c) ==
    /\ socket[c] = "new"
    /\ socket' = [socket EXCEPT ![c] = "open"]
    /\ active' = Append(active, c)
    /\ UNCHANGED <<sending, received, messages>>

\* The client goes away; the server does not know yet.
Close(c) ==
    /\ socket[c] = "open"
    /\ socket' = [socket EXCEPT ![c] = "closed"]
    /\ UNCHANGED <<active, sending, received, messages>>

\* The endpoint's receive_text raises and disconnect() removes the connection.
Disconnected(c) ==
    /\ socket[c] = "closed"
    /\ c \in Range(active)
    /\ active' = Without(active, {c})
    /\ sending' = [w \in Writers |->
                     IF Busy(w) THEN [sending[w] EXCEPT !.owed = @ \ {c},
                                                        !.shrank = TRUE]
                     ELSE sending[w]]
    /\ UNCHANGED <<socket, received, messages>>

\* The connection at the iterator's index is taken and written to; the await
\* comes after the write.
Turn_again(w, s) ==                 \* defect: a failed send starts the loop over
    LET c == active[s.next]
    IN  /\ received' = [received EXCEPT ![c] =
             IF socket[c] = "open" THEN Append(@, s.message) ELSE @]
        /\ active' = IF socket[c] = "open" THEN active ELSE Without(active, {c})
        /\ sending' = [sending EXCEPT ![w] =
             [s EXCEPT !.next = IF socket[c] = "open" THEN @ + 1 ELSE 1,
                       !.owed = @ \ {c}]]
Turn(w, s) ==
    LET c == active[s.next]
    IN  /\ received' = [received EXCEPT ![c] =
             IF socket[c] = "open" THEN Append(@, s.message) ELSE @]
        /\ sending' = [sending EXCEPT ![w] =
             [s EXCEPT !.next = @ + 1, !.owed = @ \ {c},
                       !.failed = IF socket[c] = "open" THEN @ ELSE @ \cup {c}]]
        /\ UNCHANGED active

\* A broadcast starts with its first turn; without a connection it is over.
StartBroadcast(w) ==
    /\ ~Busy(w)
    /\ messages < MaxMessages
    /\ messages' = messages + 1
    /\ IF active = <<>>
       THEN UNCHANGED <<active, sending, received>>
       ELSE Turn(w, [message |-> messages', next |-> 1, failed |-> {},
                     owed |-> Range(active), shrank |-> FALSE])
    /\ UNCHANGED socket

Send(w) ==
    /\ Busy(w)
    /\ sending[w].next <= Len(active)
    /\ Turn(w, sending[w])
    /\ UNCHANGED <<socket, messages>>

\* The iterator is exhausted; the connections whose send failed are removed.
Finish(w) ==
    /\ Busy(w)
    /\ sending[w].next > Len(active)
    /\ LET gone == sending[w].failed \cap Range(active)
       IN  /\ active' = Without(active, gone)
           /\ sending' = Shrunk(w, gone)
    /\ UNCHANGED <<socket, received, messages>>

\* The coroutine is cancelled while it waits for a send.
Abandon(w) ==
    /\ Busy(w)
    /\ sending' = [sending EXCEPT ![w] = NotSending]
    /\ UNCHANGED <<active, socket, received, messages>>

-----------------------------------------------------------------------------

SendsInit ==
    /\ active = <<>>
    /\ socket = [c \in Sockets |-> "new"]
    /\ sending = [w \in Writers |-> NotSending]
    /\ received = [c \in Sockets |-> <<>>]
    /\ messages = 0

SendsNext ==
    \/ \E c \in Sockets : Accept(c) \/ Close(c) \/ Disconnected(c)
    \/ \E w \in Writers : StartBroadcast(w) \/ Send(w) \/ Finish(w) \/ Abandon(w)

SendsSpec == SendsInit /\ [][SendsNext]_sendVars

-----------------------------------------------------------------------------
(* Properties *)

(* The types, and that the list and the sockets agree: a connection is in the *)
(* list at most once and every open one is in it.                             *)
SendsTypeOK ==
    /\ active \in Seq(Sockets)
    /\ IsInjective(active)
    /\ \A c \in Sockets : /\ socket[c] \in {"new", "open", "closed"}
                          /\ socket[c] = "open" => c \in Range(active)
                          /\ socket[c] = "new" => c \notin Range(active)
    /\ received \in [Sockets -> Seq(1..MaxMessages)]
    /\ messages \in 0..MaxMessages

(* A broadcast reaches no client twice, although removals shift the list      *)
(* under its iterator.                                                        *)
SentOnce == \A c \in Sockets : IsInjective(received[c])

(* A broadcast serves each client at most once. When it ends it has taken its *)
(* turn with every client that stayed connected, unless a connection was      *)
(* removed by somebody else meanwhile: its own removals wait for its end.     *)
ServedOnce ==
    [][/\ SentOnce'
       /\ \A w \in Writers : Finish(w) /\ ~sending[w].shrank
            => sending[w].owed = {}]_sendVars

(* What the docstring of broadcast_status says and the code does not do: a    *)
(* broadcast that ends has taken its turn with every client that stayed       *)
(* connected.                                                                 *)
EveryoneServed ==
    [][\A w \in Writers : Finish(w) => sending[w].owed = {}]_sendVars
=============================================================================
