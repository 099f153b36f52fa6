---------------------------- MODULE TelnetSession ----------------------------
(***************************************************************************)
(* The telnet clients of one machine (clients/telnet_client.py with its    *)
(* mixins): batches of calls on a connection of their own, the machine's   *)
(* lock, the retries of load_data, replies that come late or in pieces,    *)
(* and polls that wait_for cancels.                                        *)
(*                                                                         *)
(* The machine executes one command and answers it; one that arrives while *)
(* it executes is the overlap that aborts with CM7522.  Kinds of calls:    *)
(* "load" is load_data with its retries, "single" a read or write of one   *)
(* command, "macro" write_macro_variable with its read-back.               *)
(***************************************************************************)
EXTENDS Naturals, Sequences, SequencesExt

CONSTANTS
    Clients,        \* coroutines that use the port
    Pollers,        \* those that run under wait_for
    None,
    MaxAttempts,    \* max_retries + 1 of load_data
    MaxCommands,    \* bound: commands sent
    MaxCancels,     \* bound: polls cancelled
    MaxSplits       \* bound: replies that come in two pieces

ASSUME PollersAssumption == Pollers \subseteq Clients
ASSUME NoneAssumption == None \notin Clients \cup Nat
ASSUME AttemptsAssumption == MaxAttempts \in Nat \ {0}
ASSUME BoundAssumption == {MaxCommands, MaxCancels, MaxSplits} \subseteq Nat

VARIABLES
    client,     \* the coroutine of each client
    lock,       \* clients at the machine's lock, the holder first
    busy,       \* command the machine executes, with the client it came from
    last,       \* client whose command the machine got last
    wire,       \* pieces of replies on each client's connection
    rest,       \* command whose second piece is still to come
    commands, cancels, splits      \* bounded counts

vars == <<client, lock, busy, last, wire, rest, commands, cancels, splits>>
machine == <<busy, last, wire, rest>>
counts == <<commands, cancels, splits>>

-----------------------------------------------------------------------------
(* Helpers *)

Kinds == {"load", "single", "macro"}
Reading(c) == client[c].pc \in {"reading", "reading back"}

Holder(c) == lock # <<>> /\ Head(lock) = c

Without_everyone(c) == <<>>         \* defect: the waiters lose their place
\* the lock's queue when c releases it or gives up
Without(c) == RemoveFirst(lock, c)

\* c closes its connection: what the machine still sends there is lost.
Hangup(c) ==
    /\ wire' = [wire EXCEPT ![c] = <<>>]
    /\ rest' = [rest EXCEPT ![c] = None]
    /\ busy' = IF busy # None /\ busy.client = c
               THEN [busy EXCEPT !.client = None] ELSE busy

Disconnected(c, pc) ==
    client' = [client EXCEPT ![c].pc = pc, ![c].connected = FALSE]

AttemptsLeft(c) == client[c].attempt < MaxAttempts

\* load_data tries again on a new connection, any other call fails.
RetryOrFail(c) ==
    /\ Hangup(c)
    /\ IF client[c].kind = "load" /\ AttemptsLeft(c)
         THEN /\ client' = [client EXCEPT ![c].pc = "turn",
                                          ![c].connected = FALSE,
                                          ![c].attempt = @ + 1]
              /\ UNCHANGED lock
         ELSE /\ Disconnected(c, "ready")
              /\ lock' = Without(c)

-----------------------------------------------------------------------------
(* The machine *)

\* It answers with the whole reply or with a first piece.
Answer ==
    /\ busy # None
    /\ busy' = None
    /\ IF busy.client = None THEN UNCHANGED <<wire, rest, splits>>
       ELSE /\ rest[busy.client] = None
            /\ \E piece \in {"whole", "first"} :
                 /\ wire' = [wire EXCEPT ![busy.client] =
                       Append(@, [command |-> busy.command, piece |-> piece])]
                 /\ IF piece = "whole" THEN UNCHANGED <<rest, splits>>
                    ELSE /\ splits < MaxSplits
                         /\ splits' = splits + 1
                         /\ rest' = [rest EXCEPT ![busy.client] = busy.command]
    /\ UNCHANGED <<client, lock, last, commands, cancels>>

RestArrives(c) ==
    /\ rest[c] # None
    /\ wire' = [wire EXCEPT ![c] =
          IF @ # <<>> THEN [@ EXCEPT ![Len(@)].piece = "whole"]
          ELSE <<[command |-> rest[c], piece |-> "second"]>>]
    /\ rest' = [rest EXCEPT ![c] = None]
    /\ UNCHANGED <<client, lock, busy, last, commands, cancels, splits>>

-----------------------------------------------------------------------------
(* Batches and calls *)

\* create_fresh_connection connects without the lock; the pollers leave that
\* to their first call.
Begin(c) ==
    /\ client[c].pc = "idle"
    /\ \E connected \in BOOLEAN :
         client' = [client EXCEPT ![c].pc = "ready", ![c].connected = connected]
    /\ UNCHANGED <<lock, machine, counts>>

\* Writes connect before they ask for the lock.
Call(c) ==
    /\ client[c].pc = "ready"
    /\ \E kind \in Kinds, connected \in {client[c].connected, TRUE} :
         /\ kind = "macro" => connected
         /\ kind = "load" => connected = client[c].connected
         /\ client' = [client EXCEPT ![c].pc = "queued", ![c].kind = kind,
                                     ![c].connected = connected,
                                     ![c].attempt = 1, ![c].taken = FALSE,
                                     ![c].awaits = None, ![c].got = None]
    /\ lock' = Append(lock, c)
    /\ UNCHANGED <<machine, counts>>

Acquire(c) ==
    /\ client[c].pc = "queued" /\ Holder(c)
    /\ client' = [client EXCEPT ![c].pc = "turn"]
    /\ UNCHANGED <<lock, machine, counts>>

Connect(c) ==
    /\ client[c].pc = "turn" /\ ~client[c].connected
    /\ client' = [client EXCEPT ![c].connected = TRUE]
    /\ UNCHANGED <<lock, machine, counts>>

\* No connection, or one that breaks before the command is sent (status None).
SendFails(c) ==
    /\ client[c].pc \in {"turn", "verify"}
    /\ RetryOrFail(c)
    /\ UNCHANGED <<last, counts>>

Send(c) ==
    /\ client[c].pc \in {"turn", "verify"} /\ client[c].connected
    /\ commands < MaxCommands
    /\ commands' = commands + 1
    /\ busy' = [command |-> commands + 1, client |-> c]
    /\ last' = c
    /\ client' = [client EXCEPT ![c].pc = IF @ = "turn" THEN "reading"
                                          ELSE "reading back",
                                ![c].taken = TRUE, ![c].got = None,
                                ![c].awaits = commands + 1]
    /\ UNCHANGED <<lock, wire, rest, cancels, splits>>

Timeout_retries(c) ==               \* defect: a timeout is retried like a None
    /\ Reading(c) /\ wire[c] = <<>>
    /\ RetryOrFail(c)
    /\ UNCHANGED <<last, counts>>
Timeout_staysConnected(c) ==        \* defect: the connection is used again
    /\ Reading(c) /\ wire[c] = <<>>
    /\ client' = [client EXCEPT ![c].pc = "ready"]
    /\ lock' = Without(c)
    /\ UNCHANGED <<machine, counts>>
\* Nothing came in time: the command may still run, so it is not retried.
Timeout(c) ==
    /\ Reading(c) /\ wire[c] = <<>>
    /\ Hangup(c)
    /\ Disconnected(c, "ready")
    /\ lock' = Without(c)
    /\ UNCHANGED <<last, counts>>

\* What stands first on the connection is taken for the answer.
Took(c, pc) ==
    /\ client' = [client EXCEPT ![c].pc = pc, ![c].got = Head(wire[c]).command]
    /\ wire' = [wire EXCEPT ![c] = Tail(@)]
    /\ UNCHANGED <<busy, rest>>

\* The write of a macro succeeded; its read-back follows under the same lock.
Proceed(c) ==
    /\ Took(c, "verify")
    /\ UNCHANGED lock

\* Status 00, or a first piece alone: no more came within read_timeout.
Succeed(c) ==
    /\ Reading(c) /\ wire[c] # <<>>
    /\ IF client[c].kind = "macro" /\ client[c].pc = "reading"
         THEN Proceed(c)
         ELSE Took(c, "ready") /\ lock' = Without(c)
    /\ UNCHANGED <<last, counts>>

\* Any other status, also one misread from a piece: load_data disconnects.
Refused(c) ==
    /\ Reading(c) /\ wire[c] # <<>>
    /\ lock' = Without(c)
    /\ IF client[c].kind = "load"
         THEN Hangup(c) /\ Disconnected(c, "ready")
         ELSE Took(c, "ready")
    /\ UNCHANGED <<last, counts>>

\* Status 40: the machine did not execute the command.
Conflict(c) ==
    /\ client[c].pc = "reading" /\ client[c].kind = "load"
    /\ wire[c] # <<>> /\ Head(wire[c]).piece # "first"
    /\ AttemptsLeft(c)
    /\ Hangup(c)
    /\ client' = [client EXCEPT ![c].pc = "turn", ![c].connected = FALSE,
                     ![c].attempt = @ + 1,
                     ![c].taken = Head(wire[c]).command # client[c].awaits]
    /\ UNCHANGED <<lock, last, counts>>

\* wait_for cancels the poll: the lock is released on the way out.
Cancel(c) ==
    /\ c \in Pollers /\ cancels < MaxCancels
    /\ client[c].pc \notin {"idle", "leaving"}
    /\ cancels' = cancels + 1
    /\ client' = [client EXCEPT ![c].pc = "leaving"]
    /\ lock' = Without(c)
    /\ UNCHANGED <<machine, commands, splits>>

\* finally: disconnect.
Leave(c) ==
    /\ client[c].pc \in {"ready", "leaving"}
    /\ Hangup(c)
    /\ Disconnected(c, "idle")
    /\ UNCHANGED <<lock, last, counts>>

-----------------------------------------------------------------------------

Init ==
    /\ client = [c \in Clients |->
          [pc |-> "idle", kind |-> "load", connected |-> FALSE, attempt |-> 1,
           taken |-> FALSE, awaits |-> None, got |-> None]]
    /\ lock = <<>>
    /\ busy = None /\ last = None
    /\ wire = [c \in Clients |-> <<>>]
    /\ rest = [c \in Clients |-> None]
    /\ commands = 0 /\ cancels = 0 /\ splits = 0

Locked(c) ==
    \/ Acquire(c) \/ Connect(c) \/ Send(c) \/ SendFails(c)
    \/ Timeout(c) \/ Succeed(c) \/ Refused(c) \/ Conflict(c)

Next ==
    \/ Answer
    \/ \E c \in Clients : RestArrives(c) \/ Begin(c) \/ Call(c)
                          \/ Locked(c) \/ Cancel(c) \/ Leave(c)

Spec == Init /\ [][Next]_vars

\* Every await of a call that has the lock is bounded by a timeout.
Fairness == \A c \in Clients : WF_vars(Locked(c))

FairSpec == Spec /\ Fairness

-----------------------------------------------------------------------------
(* Properties *)

Commands == 1..MaxCommands

ClientType ==
    [pc : {"idle", "ready", "queued", "turn", "reading", "verify",
           "reading back", "leaving"},
     kind : Kinds, connected : BOOLEAN, attempt : 1..MaxAttempts,
     taken : BOOLEAN, awaits : Commands \cup {None}, got : Commands \cup {None}]

(* The types of the coroutines, of the lock and of what the machine holds.    *)
TypeOK ==
    /\ client \in [Clients -> ClientType]
    /\ lock \in Seq(Clients)
    /\ busy \in [command : Commands, client : Clients \cup {None}] \cup {None}
    /\ last \in Clients \cup {None}
    /\ wire \in [Clients -> Seq([command : Commands,
                                 piece : {"whole", "first", "second"}])]
    /\ rest \in [Clients -> Commands \cup {None}]
    /\ commands \in 0..MaxCommands
    /\ cancels \in 0..MaxCancels
    /\ splits \in 0..MaxSplits

(* While a client waits for the answer to its command, the machine gets no    *)
(* other: whichever clients time out, are cancelled or retry.                 *)
AwaitedUndisturbed ==
    [][busy # None /\ commands' # commands
        => \A c \in Clients : Reading(c) => client[c].awaits # busy.command]_vars

(* load_data sends its command again only when the machine never got it or    *)
(* answered that it was in conflict, as long as replies come whole.           *)
NotSentTwice ==
    [][\A c \in Clients :
        client[c].pc = "turn" /\ client'[c].pc = "reading" /\ splits = 0
            => ~client[c].taken]_vars

(* A command goes out once and is left alone until its answer is there.       *)
CommandsOnce == AwaitedUndisturbed /\ NotSentTwice

(* As long as replies come whole, an answer a call takes is the one to its    *)
(* own command, never the late one to a command that was given up.            *)
RepliesMatch ==
    splits = 0 => \A c \in Clients : client[c].got \in {None, client[c].awaits}

(* Between the write of a macro and its read-back no other command reaches    *)
(* the machine, so a mismatch is never another client's doing.                *)
MacroUndisturbed ==
    \A c \in Clients : client[c].pc = "verify" => last = c

(* No client's commands or answers get mixed up with another's.               *)
CallsIsolated == RepliesMatch /\ MacroUndisturbed

\* The callers that wait for the port and the one that has it.
Waiting == {c \in Clients : client[c].pc = "queued"}
Served ==
    LET holders == {c \in Clients : Reading(c)
                                    \/ client[c].pc \in {"turn", "verify"}}
    IN  IF holders = {} THEN None ELSE CHOOSE c \in holders : TRUE

(* The lock behaves as the port's abstract specification: one call at a time, *)
(* and every caller that waits is served or gives up.                         *)
Port == INSTANCE SerialPort WITH waiting <- Waiting, serving <- Served
PortSpec == Port!Spec

(* What the comment in load_data wants and only load_data's own retry         *)
(* ensures: no command reaches the machine while it still processes another.  *)
NoOverlap == [][commands' # commands => busy = None]_vars

(* What callers take for granted and the partial-response branch of           *)
(* _send_command breaks: data returned by a call belongs to its command.      *)
DataIsOwn == \A c \in Clients : client[c].got \in {None, client[c].awaits}
=============================================================================
