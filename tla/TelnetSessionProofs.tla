------------------------- MODULE TelnetSessionProofs -------------------------
(***************************************************************************)
(* Theorems about TelnetSession, for every set of clients and pollers, any *)
(* number of attempts and every bound on commands, cancellations and       *)
(* replies that come in pieces.                                            *)
(***************************************************************************)
EXTENDS TelnetSession, DataLemmas

-----------------------------------------------------------------------------
(* Types *)

Replies == [command : Commands, piece : {"whole", "first", "second"}]

LEMMA BoundTypes ==
    /\ MaxCommands \in Nat /\ MaxCancels \in Nat /\ MaxSplits \in Nat
    /\ MaxAttempts \in Nat /\ 1 \in 1..MaxAttempts
  BY BoundAssumption, AttemptsAssumption

\* A client's record with some of its fields replaced.
LEMMA ClientTypes ==
    ASSUME NEW k \in ClientType,
           NEW pc \in {"idle", "ready", "queued", "turn", "reading", "verify",
                       "reading back", "leaving"},
           NEW b \in BOOLEAN, NEW n \in Commands \cup {None}
    PROVE  /\ [k EXCEPT !.pc = pc] \in ClientType
           /\ [k EXCEPT !.pc = pc, !.connected = b] \in ClientType
           /\ [k EXCEPT !.connected = b] \in ClientType
           /\ [k EXCEPT !.pc = pc, !.got = n] \in ClientType
  BY DEF ClientType

LEMMA AttemptType ==
    ASSUME NEW k \in ClientType, NEW b \in BOOLEAN, k.attempt < MaxAttempts
    PROVE  /\ [k EXCEPT !.pc = "turn", !.connected = FALSE, !.attempt = k.attempt + 1]
                \in ClientType
           /\ [k EXCEPT !.pc = "turn", !.connected = FALSE, !.attempt = k.attempt + 1,
                        !.taken = b] \in ClientType
<1>0. k.attempt \in 1..MaxAttempts BY DEF ClientType
<1>1. k.attempt + 1 \in 1..MaxAttempts BY <1>0, AttemptsAssumption
<1> QED BY <1>1 DEF ClientType

LEMMA WithoutType ==
    ASSUME NEW c, lock \in Seq(Clients), IsInjective(lock)
    PROVE  Without(c) \in Seq(Clients)
  BY RemoveKeeps DEF Without

LEMMA HangupType ==
    ASSUME TypeOK, NEW c \in Clients, Hangup(c)
    PROVE  /\ busy' \in [command : Commands, client : Clients \cup {None}] \cup {None}
           /\ wire' \in [Clients -> Seq(Replies)]
           /\ rest' \in [Clients -> Commands \cup {None}]
<1>1. wire' \in [Clients -> Seq(Replies)]
  BY EmptySeq DEF TypeOK, Hangup, Replies
<1> QED BY <1>1 DEF TypeOK, Hangup

LEMMA InitType == Init => TypeOK
  BY BoundTypes, EmptySeq DEF Init, TypeOK, ClientType, Kinds

\* The clients and what the machine holds for them.
Locals ==
    /\ client \in [Clients -> ClientType]
    /\ busy \in [command : Commands, client : Clients \cup {None}] \cup {None}
    /\ last \in Clients \cup {None}
    /\ wire \in [Clients -> Seq(Replies)]
    /\ rest \in [Clients -> Commands \cup {None}]

LEMMA RetryOrFailType ==
    ASSUME TypeOK, NEW c \in Clients, RetryOrFail(c)
    PROVE  client' \in [Clients -> ClientType]
<1>0. client[c] \in ClientType BY DEF TypeOK
<1>1. CASE client[c].kind = "load" /\ AttemptsLeft(c)
  <2>1. client' = [client EXCEPT ![c] = [client[c] EXCEPT !.pc = "turn",
                        !.connected = FALSE, !.attempt = client[c].attempt + 1]]
    BY <1>1 DEF RetryOrFail, TypeOK
  <2>2. client'[c] \in ClientType
    BY <1>0, <1>1, <2>1, AttemptType DEF TypeOK, AttemptsLeft
  <2> QED BY <2>1, <2>2 DEF TypeOK
<1>2. CASE ~(client[c].kind = "load" /\ AttemptsLeft(c))
  <2>1. client' = [client EXCEPT ![c] = [client[c] EXCEPT !.pc = "ready",
                                                  !.connected = FALSE]]
    BY <1>2 DEF RetryOrFail, Disconnected
  <2> QED BY <1>0, <2>1, ClientTypes DEF TypeOK
<1> QED BY <1>1, <1>2

LEMMA DisconnectedType ==
    ASSUME TypeOK, NEW c \in Clients,
           NEW pc \in {"idle", "ready"}, Disconnected(c, pc)
    PROVE  client' \in [Clients -> ClientType]
<1>0. client[c] \in ClientType BY DEF TypeOK
<1>1. client' = [client EXCEPT ![c] = [client[c] EXCEPT !.pc = pc, !.connected = FALSE]]
  BY DEF Disconnected
<1> QED BY <1>0, <1>1, ClientTypes DEF TypeOK

LEMMA TookType ==
    ASSUME TypeOK, NEW c \in Clients, NEW pc \in {"ready", "verify"},
           wire[c] # <<>>, Took(c, pc)
    PROVE  /\ client' \in [Clients -> ClientType]
           /\ wire' \in [Clients -> Seq(Replies)]
<1>0. client[c] \in ClientType /\ wire[c] \in Seq(Replies)
  BY DEF TypeOK, Replies
<1>1. Head(wire[c]) \in Replies /\ Tail(wire[c]) \in Seq(Replies)
  BY <1>0, HeadTailProperties
<1>2. client' = [client EXCEPT ![c] = [client[c] EXCEPT !.pc = pc,
                                        !.got = Head(wire[c]).command]]
  BY DEF Took
<1>3. client' \in [Clients -> ClientType]
  BY <1>0, <1>1, <1>2, ClientTypes DEF TypeOK, Replies
<1> QED BY <1>1, <1>3 DEF Took, TypeOK, Replies

LEMMA SendType ==
    ASSUME TypeOK, NEW c \in Clients, Send(c) PROVE Locals'
<1>0. client[c] \in ClientType BY DEF TypeOK
<1>1. commands + 1 \in Commands
  <2>1. commands \in 0..MaxCommands BY DEF TypeOK
  <2>2. commands < MaxCommands BY DEF Send
  <2> QED BY <2>1, <2>2, BoundAssumption DEF Commands
<1> DEFINE pc == IF client[c].pc = "turn" THEN "reading" ELSE "reading back"
<1>2. client' = [client EXCEPT ![c] = [client[c] EXCEPT !.pc = pc, !.taken = TRUE,
                                !.got = None, !.awaits = commands + 1]]
  BY DEF Send, TypeOK
<1>3. pc \in {"reading", "reading back"} OBVIOUS
<1> HIDE DEF pc
<1>4. client' \in [Clients -> ClientType]
  BY <1>0, <1>1, <1>2, <1>3 DEF TypeOK, ClientType
<1> QED BY <1>1, <1>4 DEF Send, TypeOK, Locals, Replies

LEMMA AnswerType == ASSUME TypeOK, Answer PROVE Locals'
<1>1. CASE busy.client = None BY <1>1 DEF Answer, TypeOK, Locals, Replies
<1>2. CASE busy.client # None
  <2> DEFINE c == busy.client
  <2>1. c \in Clients /\ busy.command \in Commands BY <1>2 DEF Answer, TypeOK
  <2>2. PICK piece \in {"whole", "first"} :
          /\ wire' = [wire EXCEPT ![c] =
                Append(@, [command |-> busy.command, piece |-> piece])]
          /\ piece = "whole" => UNCHANGED rest
          /\ piece # "whole" => rest' = [rest EXCEPT ![c] = busy.command]
    BY <1>2 DEF Answer
  <2> HIDE DEF c
  <2>3. [command |-> busy.command, piece |-> piece] \in Replies
    BY <2>1 DEF Replies
  <2>4. wire' \in [Clients -> Seq(Replies)]
    BY <2>1, <2>2, <2>3, AppendProperties DEF TypeOK, Replies
  <2>5. rest' \in [Clients -> Commands \cup {None}]
    BY <2>1, <2>2 DEF TypeOK
  <2> QED BY <2>4, <2>5 DEF Answer, TypeOK, Locals
<1> QED BY <1>1, <1>2

LEMMA RestType ==
    ASSUME TypeOK, NEW c \in Clients, RestArrives(c) PROVE Locals'
<1>0. wire[c] \in Seq(Replies) /\ rest[c] \in Commands
  BY DEF RestArrives, TypeOK, Replies
<1>1. CASE wire[c] # <<>>
  <2> DEFINE whole == [wire[c][Len(wire[c])] EXCEPT !.piece = "whole"]
  <2>1. wire' = [wire EXCEPT ![c] =
                  [wire[c] EXCEPT ![Len(wire[c])] = whole]]
    BY <1>1 DEF RestArrives, TypeOK
  <2>2. Len(wire[c]) \in 1..Len(wire[c]) BY <1>0, <1>1, EmptySeq
  <2>3. whole \in Replies
    <3>1. wire[c][Len(wire[c])] \in Replies BY <1>0, <2>2, ElementOfSeq
    <3> QED BY <3>1 DEF Replies
  <2> HIDE DEF whole
  <2>5. wire'[c] \in Seq(Replies)
    BY <1>0, <2>1, <2>2, <2>3, ExceptSeq DEF TypeOK
  <2>4. wire' \in [Clients -> Seq(Replies)]
    BY <2>1, <2>5 DEF TypeOK, Replies
  <2> QED BY <2>4 DEF RestArrives, TypeOK, Locals
<1>2. CASE wire[c] = <<>>
  <2>1. [command |-> rest[c], piece |-> "second"] \in Replies
    BY <1>0 DEF Replies
  <2>2. wire' = [wire EXCEPT ![c] =
                   <<[command |-> rest[c], piece |-> "second"]>>]
    BY <1>2 DEF RestArrives
  <2>3. wire' \in [Clients -> Seq(Replies)]
    <3>1. <<[command |-> rest[c], piece |-> "second"]>> \in Seq(Replies)
      BY <2>1
    <3> QED BY <2>2, <3>1 DEF TypeOK, Replies
  <2> QED BY <2>3 DEF RestArrives, TypeOK, Locals
<1> QED BY <1>1, <1>2

\* The record of a client that begins a call.
CallOf(c, kind, b) ==
    client' = [client EXCEPT ![c] =
        [client[c] EXCEPT !.pc = "queued", !.kind = kind, !.connected = b,
                          !.attempt = 1, !.taken = FALSE, !.awaits = None,
                          !.got = None]]

LEMMA CallShape ==
    ASSUME TypeOK, NEW c \in Clients, Call(c)
    PROVE  \E kind \in Kinds, b \in {client[c].connected, TRUE} : CallOf(c, kind, b)
<1>1. PICK kind \in Kinds, b \in {client[c].connected, TRUE} :
        /\ kind = "macro" => b
        /\ kind = "load" => b = client[c].connected
        /\ client' = [client EXCEPT ![c].pc = "queued", ![c].kind = kind,
                                    ![c].connected = b,
                                    ![c].attempt = 1, ![c].taken = FALSE,
                                    ![c].awaits = None, ![c].got = None]
  BY Zenon DEF Call
<1>2. CallOf(c, kind, b) BY <1>1 DEF CallOf, TypeOK
<1> QED BY <1>2

LEMMA BeginShape ==
    ASSUME TypeOK, NEW c \in Clients, Begin(c)
    PROVE  \E b \in BOOLEAN : client' = [client EXCEPT ![c] =
              [client[c] EXCEPT !.pc = "ready", !.connected = b]]
  BY DEF Begin, TypeOK

LEMMA DisconnectedShape ==
    ASSUME TypeOK, NEW c \in Clients, NEW pc, Disconnected(c, pc)
    PROVE  client' = [client EXCEPT ![c] =
              [client[c] EXCEPT !.pc = pc, !.connected = FALSE]]
  BY DEF Disconnected, TypeOK

LEMMA RetryShape ==
    ASSUME TypeOK, NEW c \in Clients, RetryOrFail(c)
    PROVE  \/ /\ client[c].kind = "load" /\ AttemptsLeft(c)
              /\ client' = [client EXCEPT ![c] =
                   [client[c] EXCEPT !.pc = "turn", !.connected = FALSE,
                                     !.attempt = client[c].attempt + 1]]
              /\ UNCHANGED lock
           \/ /\ client' = [client EXCEPT ![c] =
                   [client[c] EXCEPT !.pc = "ready", !.connected = FALSE]]
              /\ lock' = Without(c)
  BY DisconnectedShape DEF RetryOrFail, TypeOK

LEMMA TookShape ==
    ASSUME TypeOK, NEW c \in Clients, NEW pc, Took(c, pc)
    PROVE  client' = [client EXCEPT ![c] =
              [client[c] EXCEPT !.pc = pc, !.got = Head(wire[c]).command]]
  BY DEF Took, TypeOK

LEMMA LocalsNext == TypeOK /\ [Next]_vars => Locals'
<1> SUFFICES ASSUME TypeOK, [Next]_vars PROVE Locals'
  OBVIOUS
<1>1. CASE Answer BY <1>1, AnswerType
<1>2. ASSUME NEW c \in Clients,
             RestArrives(c) \/ Begin(c) \/ Call(c) \/ Locked(c) \/ Cancel(c) \/ Leave(c)
      PROVE  Locals'
  <2>0. client[c] \in ClientType BY DEF TypeOK
  <2>1. CASE RestArrives(c) BY <2>1, RestType
  <2>0a. ASSUME client' \in [Clients -> ClientType], UNCHANGED machine PROVE Locals'
    BY <2>0a DEF machine, TypeOK, Locals, Replies
  <2>2. CASE Begin(c)
    <3>1. PICK b \in BOOLEAN : client' = [client EXCEPT ![c] =
                          [client[c] EXCEPT !.pc = "ready", !.connected = b]]
      BY <2>2 DEF Begin, TypeOK
    <3> QED BY <2>0, <2>0a, <2>2, <3>1, ClientTypes DEF Begin, TypeOK
  <2>3. CASE Call(c)
    <3>1. PICK kind \in Kinds, b \in {client[c].connected, TRUE} : CallOf(c, kind, b)
      BY <2>3, CallShape
    <3>2. b \in BOOLEAN BY <2>0 DEF ClientType
    <3>3. client' \in [Clients -> ClientType]
      BY <2>0, <3>1, <3>2, BoundTypes DEF CallOf, TypeOK, ClientType
    <3> QED BY <2>0a, <2>3, <3>3 DEF Call
  <2>4. CASE Acquire(c)
    <3>1. client' = [client EXCEPT ![c] = [client[c] EXCEPT !.pc = "turn"]]
      BY <2>4 DEF Acquire, TypeOK
    <3> QED BY <2>0, <2>0a, <2>4, <3>1, ClientTypes DEF Acquire, TypeOK
  <2>5. CASE Connect(c)
    <3>1. client' = [client EXCEPT ![c] = [client[c] EXCEPT !.connected = TRUE]]
      BY <2>5 DEF Connect, TypeOK
    <3> QED BY <2>0, <2>0a, <2>5, <3>1, ClientTypes DEF Connect, TypeOK
  <2>6. CASE Send(c) BY <2>6, SendType
  <2>7. CASE SendFails(c)
    <3>1. RetryOrFail(c) /\ UNCHANGED last BY <2>7 DEF SendFails
    <3>2. Hangup(c) BY <3>1 DEF RetryOrFail
    <3> QED BY <3>1, <3>2, RetryOrFailType, HangupType DEF TypeOK, Locals
  <2>8. CASE Timeout(c)
    <3>1. Hangup(c) /\ Disconnected(c, "ready") /\ UNCHANGED last
      BY <2>8 DEF Timeout
    <3> QED BY <3>1, DisconnectedType, HangupType DEF TypeOK, Locals
  <2>9. CASE Succeed(c) \/ Refused(c)
    <3>1. CASE Hangup(c) /\ Disconnected(c, "ready") /\ UNCHANGED last
      BY <3>1, DisconnectedType, HangupType DEF TypeOK, Locals
    <3>2. ASSUME NEW pc \in {"ready", "verify"}, wire[c] # <<>>, Took(c, pc),
                 UNCHANGED last
          PROVE  Locals'
      BY <3>2, TookType DEF Took, TypeOK, Locals
    <3> QED BY <2>9, <3>1, <3>2 DEF Succeed, Refused, Proceed
  <2>10. CASE Conflict(c)
    <3>1. /\ Hangup(c) /\ UNCHANGED last /\ client[c].attempt < MaxAttempts
          /\ \E b \in BOOLEAN : client' = [client EXCEPT ![c] =
                [client[c] EXCEPT !.pc = "turn", !.connected = FALSE,
                       !.attempt = client[c].attempt + 1, !.taken = b]]
      BY <2>10 DEF Conflict, TypeOK, AttemptsLeft
    <3>2. client' \in [Clients -> ClientType]
      BY <2>0, <3>1, AttemptType DEF TypeOK
    <3> QED BY <3>1, <3>2, HangupType DEF TypeOK, Locals
  <2>11. CASE Cancel(c)
    <3>1. client' = [client EXCEPT ![c] = [client[c] EXCEPT !.pc = "leaving"]]
      BY <2>11 DEF Cancel, TypeOK
    <3> QED BY <2>0, <2>0a, <2>11, <3>1, ClientTypes DEF Cancel, TypeOK
  <2>12. CASE Leave(c)
    <3>1. Hangup(c) /\ Disconnected(c, "idle") /\ UNCHANGED last
      BY <2>12 DEF Leave
    <3> QED BY <3>1, DisconnectedType, HangupType DEF TypeOK, Locals
  <2> QED BY <1>2, <2>1, <2>2, <2>3, <2>4, <2>5, <2>6, <2>7, <2>8, <2>9, <2>10,
             <2>11, <2>12 DEF Locked
<1>3. CASE UNCHANGED vars
  BY <1>3 DEF vars, TypeOK, Locals, Replies
<1> QED BY <1>1, <1>2, <1>3 DEF Next

LEMMA CountsNext ==
    TypeOK /\ [Next]_vars => /\ commands' \in 0..MaxCommands
                             /\ cancels' \in 0..MaxCancels
                             /\ splits' \in 0..MaxSplits
                             /\ splits' = 0 => splits = 0
<1> SUFFICES ASSUME TypeOK, [Next]_vars
             PROVE  /\ commands' \in 0..MaxCommands
                    /\ cancels' \in 0..MaxCancels
                    /\ splits' \in 0..MaxSplits
                    /\ splits' = 0 => splits = 0
  OBVIOUS
<1>0. /\ commands \in 0..MaxCommands /\ cancels \in 0..MaxCancels
      /\ splits \in 0..MaxSplits
  BY DEF TypeOK
<1>1. /\ UNCHANGED commands \/ (commands < MaxCommands /\ commands' = commands + 1)
      /\ UNCHANGED cancels \/ (cancels < MaxCancels /\ cancels' = cancels + 1)
      /\ UNCHANGED splits \/ (splits < MaxSplits /\ splits' = splits + 1)
  BY DEF Next, Answer, RestArrives, Begin, Call, Locked, Acquire, Connect, Send,
     SendFails, Timeout, Succeed, Refused, Conflict, Cancel, Leave, vars, counts
<1> QED BY <1>0, <1>1, BoundAssumption

-----------------------------------------------------------------------------
(* What the steps do to a client *)

\* c gets to pc with these fields, the other clients stay as they are.
Becomes(c, pc, taken, awaits, got) ==
    /\ \A d \in Clients \ {c} : client'[d] = client[d]
    /\ client'[c].pc = pc /\ client'[c].kind = client[c].kind
    /\ client'[c].taken = taken /\ client'[c].awaits = awaits
    /\ client'[c].got = got

\* A step that takes no reply.
Gets(c, pc) == Becomes(c, pc, client[c].taken, client[c].awaits, client[c].got)

LEMMA PcOnly ==
    ASSUME NEW k \in ClientType, NEW pc
    PROVE  LET r == [k EXCEPT !.pc = pc]
           IN  /\ r.pc = pc /\ r.kind = k.kind /\ r.taken = k.taken
               /\ r.awaits = k.awaits /\ r.got = k.got
  BY DEF ClientType

LEMMA PcAndConnection ==
    ASSUME NEW k \in ClientType, NEW pc, NEW b \in BOOLEAN
    PROVE  LET r == [k EXCEPT !.pc = pc, !.connected = b]
           IN  /\ r.pc = pc /\ r.kind = k.kind /\ r.taken = k.taken
               /\ r.awaits = k.awaits /\ r.got = k.got
  BY DEF ClientType

LEMMA BeginDoes ==
    ASSUME TypeOK, NEW c \in Clients, Begin(c) PROVE Gets(c, "ready")
<1>0. client[c] \in ClientType BY DEF TypeOK
<1>1. PICK b \in BOOLEAN : client' = [client EXCEPT ![c] =
                        [client[c] EXCEPT !.pc = "ready", !.connected = b]]
  BY BeginShape
<1>2. client'[c] = [client[c] EXCEPT !.pc = "ready", !.connected = b]
  BY <1>1 DEF TypeOK
<1>3. \A d \in Clients \ {c} : client'[d] = client[d] BY <1>1 DEF TypeOK
<1> QED BY <1>0, <1>2, <1>3, PcAndConnection DEF Gets, Becomes

LEMMA CallDoes ==
    ASSUME TypeOK, NEW c \in Clients, Call(c)
    PROVE  /\ \A d \in Clients \ {c} : client'[d] = client[d]
           /\ client'[c].pc = "queued" /\ client'[c].taken = FALSE
           /\ client'[c].got = None
<1>0. client[c] \in ClientType BY DEF TypeOK
<1>1. PICK kind \in Kinds, b \in {client[c].connected, TRUE} : CallOf(c, kind, b)
  BY CallShape
<1>2. \A d \in Clients \ {c} : client'[d] = client[d]
  BY <1>1 DEF CallOf, TypeOK
<1> QED BY <1>0, <1>1, <1>2 DEF CallOf, TypeOK, ClientType

LEMMA AcquireDoes ==
    ASSUME TypeOK, NEW c \in Clients, Acquire(c) PROVE Gets(c, "turn")
<1>0. client[c] \in ClientType BY DEF TypeOK
<1>1. client' = [client EXCEPT ![c] = [client[c] EXCEPT !.pc = "turn"]]
  BY DEF Acquire, TypeOK
<1> QED BY <1>0, <1>1, PcOnly DEF Gets, Becomes, TypeOK

LEMMA ConnectDoes ==
    ASSUME TypeOK, NEW c \in Clients, Connect(c) PROVE Gets(c, "turn")
<1>0. client[c] \in ClientType BY DEF TypeOK
<1>1. client' = [client EXCEPT ![c] = [client[c] EXCEPT !.connected = TRUE]]
  BY DEF Connect, TypeOK
<1>2. client[c].pc = "turn" BY DEF Connect
<1> QED BY <1>0, <1>1, <1>2 DEF Gets, Becomes, TypeOK, ClientType

LEMMA CancelDoes ==
    ASSUME TypeOK, NEW c \in Clients, Cancel(c) PROVE Gets(c, "leaving")
<1>0. client[c] \in ClientType BY DEF TypeOK
<1>1. client' = [client EXCEPT ![c] = [client[c] EXCEPT !.pc = "leaving"]]
  BY DEF Cancel, TypeOK
<1> QED BY <1>0, <1>1, PcOnly DEF Gets, Becomes, TypeOK

LEMMA DisconnectedDoes ==
    ASSUME TypeOK, NEW c \in Clients, NEW pc, Disconnected(c, pc) PROVE Gets(c, pc)
<1>0. client[c] \in ClientType BY DEF TypeOK
<1>1. client' = [client EXCEPT ![c] =
                  [client[c] EXCEPT !.pc = pc, !.connected = FALSE]]
  BY DisconnectedShape
<1>2. client'[c] = [client[c] EXCEPT !.pc = pc, !.connected = FALSE]
  BY <1>1 DEF TypeOK
<1>3. \A d \in Clients \ {c} : client'[d] = client[d] BY <1>1 DEF TypeOK
<1> QED BY <1>0, <1>2, <1>3, PcAndConnection DEF Gets, Becomes

LEMMA LeaveDoes ==
    ASSUME TypeOK, NEW c \in Clients, Leave(c) PROVE Gets(c, "idle")
  BY DisconnectedDoes DEF Leave

LEMMA TimeoutDoes ==
    ASSUME TypeOK, NEW c \in Clients, Timeout(c) PROVE Gets(c, "ready")
  BY DisconnectedDoes DEF Timeout

LEMMA SendFailsDoes ==
    ASSUME TypeOK, NEW c \in Clients, SendFails(c)
    PROVE  \/ client[c].kind = "load" /\ Gets(c, "turn") /\ UNCHANGED lock
           \/ Gets(c, "ready") /\ lock' = Without(c)
<1>0. client[c] \in ClientType BY DEF TypeOK
<1>1. RetryOrFail(c) BY DEF SendFails
<1>2. CASE client[c].kind = "load" /\ AttemptsLeft(c)
  <2>1. /\ client' = [client EXCEPT ![c] =
               [client[c] EXCEPT !.pc = "turn", !.connected = FALSE,
                                 !.attempt = client[c].attempt + 1]]
        /\ UNCHANGED lock
    BY <1>1, <1>2 DEF RetryOrFail, TypeOK
  <2>2. Gets(c, "turn") BY <1>0, <2>1 DEF Gets, Becomes, TypeOK, ClientType
  <2> QED BY <1>2, <2>1, <2>2
<1>3. CASE ~(client[c].kind = "load" /\ AttemptsLeft(c))
  BY <1>1, <1>3, DisconnectedDoes DEF RetryOrFail
<1> QED BY <1>2, <1>3

LEMMA SendDoes ==
    ASSUME TypeOK, NEW c \in Clients, Send(c)
    PROVE  Becomes(c, IF client[c].pc = "turn" THEN "reading" ELSE "reading back",
                   TRUE, commands + 1, None)
<1>0. client[c] \in ClientType BY DEF TypeOK
<1> DEFINE pc == IF client[c].pc = "turn" THEN "reading" ELSE "reading back"
<1>1. client' = [client EXCEPT ![c] = [client[c] EXCEPT !.pc = pc, !.taken = TRUE,
                                !.got = None, !.awaits = commands + 1]]
  BY DEF Send, TypeOK
<1> HIDE DEF pc
<1>2. Becomes(c, pc, TRUE, commands + 1, None)
  BY <1>0, <1>1 DEF Becomes, TypeOK, ClientType
<1> QED BY <1>2 DEF pc

\* c takes the first reply on its connection.
Takes(c, pc) ==
    Becomes(c, pc, client[c].taken, client[c].awaits, Head(wire[c]).command)

LEMMA TookDoes ==
    ASSUME TypeOK, NEW c \in Clients, NEW pc, Took(c, pc)
    PROVE  Takes(c, pc)
<1>0. client[c] \in ClientType BY DEF TypeOK
<1> DEFINE n == Head(wire[c]).command
<1>1. client' = [client EXCEPT ![c] = [client[c] EXCEPT !.pc = pc, !.got = n]]
  BY TookShape
<1> HIDE DEF n
<1>2. Becomes(c, pc, client[c].taken, client[c].awaits, n)
  BY <1>0, <1>1 DEF Becomes, TypeOK, ClientType
<1> QED BY <1>2 DEF Takes, n

LEMMA SucceedDoes ==
    ASSUME TypeOK, NEW c \in Clients, Succeed(c)
    PROVE  \/ /\ client[c].kind = "macro" /\ client[c].pc = "reading"
              /\ Takes(c, "verify") /\ UNCHANGED lock
           \/ Takes(c, "ready") /\ lock' = Without(c)
<1>1. CASE client[c].kind = "macro" /\ client[c].pc = "reading"
  <2>1. Took(c, "verify") /\ UNCHANGED lock BY <1>1 DEF Succeed, Proceed
  <2> QED BY <1>1, <2>1, TookDoes
<1>2. CASE ~(client[c].kind = "macro" /\ client[c].pc = "reading")
  <2>1. Took(c, "ready") /\ lock' = Without(c) BY <1>2 DEF Succeed
  <2> QED BY <2>1, TookDoes
<1> QED BY <1>1, <1>2

LEMMA RefusedDoes ==
    ASSUME TypeOK, NEW c \in Clients, Refused(c)
    PROVE  /\ Gets(c, "ready") \/ Takes(c, "ready")
           /\ lock' = Without(c)
<1>1. lock' = Without(c) BY DEF Refused
<1>2. CASE client[c].kind = "load"
  <2>1. Disconnected(c, "ready") BY <1>2 DEF Refused
  <2> QED BY <1>1, <2>1, DisconnectedDoes
<1>3. CASE client[c].kind # "load"
  <2>1. Took(c, "ready") BY <1>3 DEF Refused
  <2> QED BY <1>1, <2>1, TookDoes
<1> QED BY <1>2, <1>3

LEMMA ConflictDoes ==
    ASSUME TypeOK, NEW c \in Clients, Conflict(c)
    PROVE  Becomes(c, "turn", Head(wire[c]).command # client[c].awaits,
                   client[c].awaits, client[c].got)
<1>0. client[c] \in ClientType BY DEF TypeOK
<1> DEFINE b == Head(wire[c]).command # client[c].awaits
<1>1. client' = [client EXCEPT ![c] =
                  [client[c] EXCEPT !.pc = "turn", !.connected = FALSE,
                     !.attempt = client[c].attempt + 1, !.taken = b]]
  BY DEF Conflict, TypeOK
<1> HIDE DEF b
<1>2. Becomes(c, "turn", b, client[c].awaits, client[c].got)
  BY <1>0, <1>1 DEF Becomes, TypeOK, ClientType
<1> QED BY <1>2 DEF b

-----------------------------------------------------------------------------
(* The lock *)

InLock == {"queued", "turn", "reading", "verify", "reading back"}
Serving == InLock \ {"queued"}

\* A client is at the lock at most once, only while it needs it, and has it
\* from its turn on.
LockInv ==
    /\ IsInjective(lock)
    /\ \A c \in Clients : c \in Range(lock) => client[c].pc \in InLock
    /\ \A c \in Clients : client[c].pc \in Serving => Holder(c)

\* What a step of c does to the lock.
LockStep(c) ==
    /\ \A d \in Clients \ {c} : client'[d].pc = client[d].pc
    /\ \/ /\ client[c].pc \notin InLock /\ client'[c].pc = "queued"
          /\ lock' = Append(lock, c)
       \/ /\ UNCHANGED lock
          /\ client[c].pc \in InLock => client'[c].pc \in InLock
          /\ client'[c].pc \in Serving => Holder(c)
          /\ client'[c].pc = "queued" => client[c].pc = "queued"
       \/ /\ lock' = Without(c)
          /\ client'[c].pc \notin InLock

LEMMA LockStepKeeps ==
    ASSUME TypeOK, LockInv, NEW c \in Clients, LockStep(c)
    PROVE  lock' \in Seq(Clients) /\ LockInv'
<1>0. lock \in Seq(Clients) /\ IsInjective(lock) BY DEF TypeOK, LockInv
<1>1. CASE /\ client[c].pc \notin InLock /\ client'[c].pc = "queued"
           /\ lock' = Append(lock, c)
  <2>1. c \notin Range(lock) BY <1>1 DEF LockInv
  <2>2. /\ lock' \in Seq(Clients) /\ IsInjective(lock')
        /\ \A d : d \in Range(lock') <=> d = c \/ d \in Range(lock)
        /\ lock # <<>> => lock' # <<>> /\ Head(lock') = Head(lock)
    BY <1>0, <1>1, <2>1, AppendKeeps
  <2>3. \A d \in Clients : d \in Range(lock') => client'[d].pc \in InLock
    BY <1>1, <2>2 DEF LockStep, LockInv, InLock
  <2>4. \A d \in Clients : client'[d].pc \in Serving => Holder(d)'
    BY <1>1, <2>2 DEF LockStep, LockInv, Serving, Holder
  <2> QED BY <2>2, <2>3, <2>4 DEF LockInv
<1>2. CASE /\ UNCHANGED lock
           /\ client[c].pc \in InLock => client'[c].pc \in InLock
           /\ client'[c].pc \in Serving => Holder(c)
  BY <1>0, <1>2 DEF LockStep, LockInv, Holder
<1>3. CASE lock' = Without(c) /\ client'[c].pc \notin InLock
  <2>1. /\ lock' \in Seq(Clients) /\ IsInjective(lock')
        /\ c \notin Range(lock')
        /\ \A d : d # c => (d \in Range(lock') <=> d \in Range(lock))
    BY <1>0, <1>3, RemoveKeeps DEF Without
  <2>2. \A d \in Clients : d \in Range(lock') => client'[d].pc \in InLock
    BY <2>1 DEF LockStep, LockInv
  <2>3. ASSUME NEW d \in Clients, client'[d].pc \in Serving PROVE Holder(d)'
    <3>1. d # c /\ Holder(d) BY <1>3, <2>3 DEF LockStep, LockInv, Serving
    <3> QED BY <1>0, <1>3, <3>1, RemoveKeepsHead DEF Without, Holder
  <2> QED BY <2>1, <2>2, <2>3 DEF LockInv
<1> QED BY <1>1, <1>2, <1>3 DEF LockStep

LEMMA StepsAtLock ==
    ASSUME TypeOK, LockInv, NEW c \in Clients,
           Begin(c) \/ Call(c) \/ Locked(c) \/ Cancel(c) \/ Leave(c)
    PROVE  LockStep(c)
<1>1. client[c].pc \in Serving => Holder(c) BY DEF LockInv
<1>2. CASE Begin(c)
  BY <1>2, BeginDoes DEF Begin, LockStep, Becomes, Gets, Takes, InLock, Serving
<1>3. CASE Call(c)
  BY <1>3, CallDoes DEF Call, LockStep, InLock
<1>4. CASE Acquire(c)
  BY <1>4, AcquireDoes DEF Acquire, LockStep, Becomes, Gets, Takes, InLock, Serving
<1>5. CASE Connect(c)
  BY <1>1, <1>5, ConnectDoes DEF Connect, LockStep, Becomes, Gets, Takes, InLock, Serving
<1>6. CASE Send(c)
  <2>1. /\ Holder(c) /\ UNCHANGED lock
        /\ client[c].pc \in InLock
    BY <1>1, <1>6 DEF Send, InLock, Serving
  <2>2. client'[c].pc \in {"reading", "reading back"}
    BY <1>6, SendDoes DEF Becomes
  <2>3. \A d \in Clients \ {c} : client'[d].pc = client[d].pc
    BY <1>6, SendDoes DEF Becomes
  <2> QED BY <2>1, <2>2, <2>3 DEF LockStep, InLock
<1>7. CASE SendFails(c)
  BY <1>1, <1>7, SendFailsDoes
     DEF SendFails, LockStep, Becomes, Gets, InLock, Serving
<1>8. CASE Timeout(c)
  BY <1>8, TimeoutDoes DEF Timeout, LockStep, Becomes, Gets, Takes, InLock
<1>9. CASE Succeed(c)
  BY <1>1, <1>9, SucceedDoes
     DEF Succeed, Reading, LockStep, Becomes, Takes, InLock, Serving
<1>10. CASE Refused(c)
  BY <1>10, RefusedDoes DEF LockStep, Becomes, Gets, Takes, InLock
<1>11. CASE Conflict(c)
  BY <1>1, <1>11, ConflictDoes DEF Conflict, LockStep, Becomes, Gets, Takes, InLock, Serving
<1>12. CASE Cancel(c)
  BY <1>12, CancelDoes DEF Cancel, LockStep, Becomes, Gets, Takes, InLock
<1>13. CASE Leave(c)
  BY <1>13, LeaveDoes DEF Leave, LockStep, Becomes, Gets, Takes, InLock, Serving
<1> QED BY <1>2, <1>3, <1>4, <1>5, <1>6, <1>7, <1>8, <1>9, <1>10, <1>11, <1>12,
           <1>13 DEF Locked

LEMMA LockNext ==
    TypeOK /\ LockInv /\ [Next]_vars => lock' \in Seq(Clients) /\ LockInv'
<1> SUFFICES ASSUME TypeOK, LockInv, [Next]_vars
             PROVE  lock' \in Seq(Clients) /\ LockInv'
  OBVIOUS
<1>1. CASE UNCHANGED <<lock, client>>
  BY <1>1 DEF TypeOK, LockInv, Holder
<1>2. ASSUME NEW c \in Clients,
             Begin(c) \/ Call(c) \/ Locked(c) \/ Cancel(c) \/ Leave(c)
      PROVE  lock' \in Seq(Clients) /\ LockInv'
  BY <1>2, StepsAtLock, LockStepKeeps
<1> QED BY <1>1, <1>2 DEF Next, Answer, RestArrives, vars

-----------------------------------------------------------------------------
(* The port: whose command the machine got last *)

\* From the command of a call to its end, and through the read-back of a
\* macro, the machine got no other client's command.
PortInv ==
    \A c \in Clients :
        /\ client[c].pc \in {"reading", "verify", "reading back"} => last = c
        /\ client[c].pc = "verify" => client[c].kind = "macro"
        /\ client[c].pc = "queued" => ~client[c].taken

\* What a step of c does to what PortInv says.
PortStep(c) ==
    /\ \A d \in Clients \ {c} : client'[d] = client[d]
    /\ client'[c].pc = "verify" => client'[c].kind = "macro"
    /\ client'[c].pc = "queued" => ~client'[c].taken
    /\ \/ /\ UNCHANGED last
          /\ client'[c].pc \in {"reading", "verify", "reading back"}
                => client[c].pc \in {"reading", "verify", "reading back"}
       \/ last' = c /\ client[c].pc \in Serving

LEMMA PortStepKeeps ==
    ASSUME TypeOK, LockInv, PortInv, NEW c \in Clients, PortStep(c)
    PROVE  PortInv'
<1> DEFINE Has(d) == client[d].pc \in {"reading", "verify", "reading back"}
<1>1. ASSUME NEW d \in Clients \ {c}
      PROVE  /\ Has(d)' => last' = d
             /\ client'[d].pc = "verify" => client'[d].kind = "macro"
             /\ client'[d].pc = "queued" => ~client'[d].taken
  <2>1. client'[d] = client[d] BY DEF PortStep
  <2>2. Has(d) => last' = d
    <3>1. CASE UNCHANGED last BY <3>1 DEF PortInv
    <3>2. CASE last' = c /\ client[c].pc \in Serving
      <4>1. client[d].pc \notin Serving BY <3>2 DEF LockInv, Holder
      <4> QED BY <4>1 DEF Serving, InLock
    <3> QED BY <3>1, <3>2 DEF PortStep
  <2> QED BY <2>1, <2>2 DEF PortInv
<1>2. Has(c)' => last' = c BY DEF PortStep, PortInv
<1>3. /\ client'[c].pc = "verify" => client'[c].kind = "macro"
      /\ client'[c].pc = "queued" => ~client'[c].taken
  BY DEF PortStep
<1> QED BY <1>1, <1>2, <1>3 DEF PortInv

LEMMA StepsAtPort ==
    ASSUME TypeOK, PortInv, NEW c \in Clients,
           Begin(c) \/ Call(c) \/ Locked(c) \/ Cancel(c) \/ Leave(c)
    PROVE  PortStep(c)
<1>2. CASE Begin(c)
  BY <1>2, BeginDoes DEF Begin, machine, PortStep, Becomes, Gets
<1>3. CASE Call(c)
  BY <1>3, CallDoes DEF Call, machine, PortStep
<1>4. CASE Acquire(c)
  BY <1>4, AcquireDoes DEF Acquire, machine, PortStep, Becomes, Gets
<1>5. CASE Connect(c)
  BY <1>5, ConnectDoes DEF Connect, machine, PortStep, Becomes, Gets
<1>6. CASE Send(c)
  <2>1. last' = c /\ client[c].pc \in Serving BY <1>6 DEF Send, InLock, Serving
  <2>2. client'[c].pc \in {"reading", "reading back"}
    BY <1>6, SendDoes DEF Becomes
  <2>3. \A d \in Clients \ {c} : client'[d] = client[d]
    BY <1>6, SendDoes DEF Becomes
  <2> QED BY <2>1, <2>2, <2>3 DEF PortStep
<1>7. CASE SendFails(c)
  BY <1>7, SendFailsDoes DEF SendFails, PortStep, Becomes, Gets
<1>8. CASE Timeout(c)
  BY <1>8, TimeoutDoes DEF Timeout, PortStep, Becomes, Gets
<1>9. CASE Succeed(c)
  BY <1>9, SucceedDoes DEF Succeed, PortStep, Becomes, Takes
<1>10. CASE Refused(c)
  <2>1. UNCHANGED last BY <1>10 DEF Refused
  <2> QED BY <1>10, <2>1, RefusedDoes DEF PortStep, Becomes, Gets, Takes
<1>11. CASE Conflict(c)
  BY <1>11, ConflictDoes DEF Conflict, PortStep, Becomes
<1>12. CASE Cancel(c)
  BY <1>12, CancelDoes DEF Cancel, machine, PortStep, Becomes, Gets
<1>13. CASE Leave(c)
  BY <1>13, LeaveDoes DEF Leave, PortStep, Becomes, Gets
<1> QED BY <1>2, <1>3, <1>4, <1>5, <1>6, <1>7, <1>8, <1>9, <1>10, <1>11, <1>12,
           <1>13 DEF Locked

LEMMA PortNext == TypeOK /\ LockInv /\ PortInv /\ [Next]_vars => PortInv'
<1> SUFFICES ASSUME TypeOK, LockInv, PortInv, [Next]_vars PROVE PortInv'
  OBVIOUS
<1>1. CASE UNCHANGED <<last, client>> BY <1>1 DEF PortInv
<1>2. ASSUME NEW c \in Clients,
             Begin(c) \/ Call(c) \/ Locked(c) \/ Cancel(c) \/ Leave(c)
      PROVE  PortInv'
  BY <1>2, StepsAtPort, PortStepKeeps
<1> QED BY <1>1, <1>2 DEF Next, Answer, RestArrives, vars

-----------------------------------------------------------------------------
(* Replies that come whole *)

Answering(c) == busy # None /\ busy.client = c

\* The only reply that is or will be on c's connection is the one it awaits.
OwnReply(c) ==
    /\ rest[c] = None
    /\ client[c].got \in {None, client[c].awaits}
    /\ client[c].pc = "turn" => ~client[c].taken
    /\ Reading(c) =>
         \/ /\ wire[c] = <<>>
            /\ Answering(c) => busy.command = client[c].awaits
         \/ /\ Len(wire[c]) = 1 /\ Head(wire[c]).command = client[c].awaits
            /\ ~Answering(c)
    /\ client[c].pc # "leaving" /\ ~Reading(c) => wire[c] = <<>> /\ ~Answering(c)

ReplyInv == splits = 0 => \A c \in Clients : OwnReply(c)

\* The connections of the others are left alone.
OthersAlone(c) ==
    \A d \in Clients \ {c} :
        /\ client'[d] = client[d] /\ wire'[d] = wire[d] /\ rest'[d] = rest[d]
        /\ Answering(d)' => Answering(d) /\ busy'.command = busy.command

LEMMA OthersKeep ==
    ASSUME NEW c \in Clients, OthersAlone(c), NEW d \in Clients \ {c}, OwnReply(d)
    PROVE  OwnReply(d)'
  BY DEF OthersAlone, OwnReply, Reading

LEMMA HangupDoes ==
    ASSUME TypeOK, NEW c \in Clients, Hangup(c)
    PROVE  /\ wire'[c] = <<>> /\ rest'[c] = None /\ ~Answering(c)'
           /\ \A d \in Clients \ {c} :
                /\ wire'[d] = wire[d] /\ rest'[d] = rest[d]
                /\ Answering(d)' => Answering(d) /\ busy'.command = busy.command
<1>1. wire'[c] = <<>> /\ rest'[c] = None BY DEF Hangup, TypeOK
<1>2. \A d \in Clients \ {c} : wire'[d] = wire[d] /\ rest'[d] = rest[d]
  BY DEF Hangup, TypeOK
<1>3. CASE busy # None /\ busy.client = c
  <2>1. busy' = [busy EXCEPT !.client = None] BY <1>3 DEF Hangup
  <2>2. busy'.client = None BY <1>3, <2>1 DEF TypeOK
  <2> QED BY <1>1, <1>2, <2>2, NoneAssumption DEF Answering
<1>4. CASE ~(busy # None /\ busy.client = c)
  <2>1. busy' = busy BY <1>4 DEF Hangup
  <2> QED BY <1>1, <1>2, <1>4, <2>1 DEF Answering
<1> QED BY <1>3, <1>4

\* c hangs up and is where nothing is awaited.
LEMMA HangupKeeps ==
    ASSUME TypeOK, NEW c \in Clients, Hangup(c), NEW pc \in {"idle", "ready", "turn"},
           NEW b \in BOOLEAN, pc = "turn" => ~b,
           Becomes(c, pc, b, client[c].awaits, client[c].got), OwnReply(c)
    PROVE  OthersAlone(c) /\ OwnReply(c)'
<1>1. OthersAlone(c) BY HangupDoes DEF OthersAlone, Becomes
<1>2. client'[c].pc = pc /\ client'[c].taken = b
  BY DEF Becomes
<1>3. client'[c].got \in {None, client'[c].awaits}
  BY DEF Becomes, OwnReply
<1> QED BY <1>1, <1>2, <1>3, HangupDoes DEF OwnReply, Reading

\* c takes the one reply on its connection.
LEMMA TookKeeps ==
    ASSUME TypeOK, NEW c \in Clients, NEW pc \in {"ready", "verify"}, Took(c, pc),
           Reading(c), wire[c] # <<>>, OwnReply(c)
    PROVE  OthersAlone(c) /\ OwnReply(c)'
<1>1. Takes(c, pc) BY TookDoes
<1>2. /\ Len(wire[c]) = 1 /\ Head(wire[c]).command = client[c].awaits
      /\ ~Answering(c)
  BY DEF OwnReply
<1>3. wire[c] \in Seq(Replies) BY DEF TypeOK, Replies
<1>4. Tail(wire[c]) = <<>>
  <2>1. Tail(wire[c]) \in Seq(Replies) /\ Len(Tail(wire[c])) = 0
    BY <1>2, <1>3, HeadTailProperties
  <2> QED BY <2>1, EmptySeq
<1>5. wire'[c] = <<>> /\ \A d \in Clients \ {c} : wire'[d] = wire[d]
  BY <1>4 DEF Took, TypeOK
<1>6. UNCHANGED <<busy, rest>> BY DEF Took
<1>7. OthersAlone(c) BY <1>1, <1>5, <1>6 DEF OthersAlone, Takes, Becomes, Answering
<1>8. /\ client'[c].pc = pc
      /\ client'[c].got = client'[c].awaits
  BY <1>1, <1>2 DEF Takes, Becomes
<1> QED BY <1>2, <1>5, <1>6, <1>7, <1>8 DEF OwnReply, Reading, Answering

LEMMA RetryKeeps ==
    ASSUME TypeOK, PortInv, NEW c \in Clients, SendFails(c), OwnReply(c)
    PROVE  OthersAlone(c) /\ OwnReply(c)'
<1>1. Hangup(c) /\ client[c].pc \in {"turn", "verify"}
  BY DEF SendFails, RetryOrFail
<1>2. client[c].taken \in BOOLEAN BY DEF TypeOK, ClientType
<1>3. CASE client[c].kind = "load" /\ Gets(c, "turn")
  <2>1. client[c].pc = "turn" BY <1>1, <1>3 DEF PortInv, Kinds
  <2>2. ~client[c].taken BY <2>1 DEF OwnReply
  <2> QED BY <1>1, <1>2, <1>3, <2>2, HangupKeeps DEF Gets
<1>4. CASE Gets(c, "ready")
  BY <1>1, <1>2, <1>4, HangupKeeps DEF Gets
<1> QED BY <1>3, <1>4, SendFailsDoes

LEMMA ConflictKeeps ==
    ASSUME TypeOK, NEW c \in Clients, Conflict(c), OwnReply(c)
    PROVE  OthersAlone(c) /\ OwnReply(c)'
<1>1. Hangup(c) /\ Reading(c) /\ wire[c] # <<>> BY DEF Conflict, Reading
<1>2. Head(wire[c]).command = client[c].awaits BY <1>1 DEF OwnReply
<1> DEFINE b == Head(wire[c]).command # client[c].awaits
<1>3. b \in BOOLEAN /\ ~b BY <1>2
<1>4. Becomes(c, "turn", b, client[c].awaits, client[c].got) BY ConflictDoes
<1> HIDE DEF b
<1> QED BY <1>1, <1>3, <1>4, HangupKeeps

\* A step that leaves the machine alone and neither starts nor ends a wait.
LEMMA QuietKeeps ==
    ASSUME TypeOK, NEW c \in Clients, UNCHANGED machine, OwnReply(c),
           \A d \in Clients \ {c} : client'[d] = client[d],
           client[c].pc # "leaving", ~Reading(c),
           ~Reading(c)', client'[c].pc = "turn" => ~client'[c].taken,
           client'[c].got \in {None, client'[c].awaits}
    PROVE  OthersAlone(c) /\ OwnReply(c)'
<1>1. UNCHANGED <<wire, rest, busy>> BY DEF machine
<1>2. wire[c] = <<>> /\ ~Answering(c) BY DEF OwnReply
<1> QED BY <1>1, <1>2 DEF OthersAlone, OwnReply, Answering

LEMMA SendKeeps ==
    ASSUME TypeOK, NEW c \in Clients, Send(c), OwnReply(c)
    PROVE  OthersAlone(c) /\ OwnReply(c)'
<1>1. /\ busy' = [command |-> commands + 1, client |-> c]
      /\ UNCHANGED <<wire, rest>> /\ wire[c] = <<>>
  BY DEF Send, OwnReply, Reading
<1>2. /\ client'[c].pc \in {"reading", "reading back"}
      /\ client'[c].awaits = commands + 1 /\ client'[c].got = None
      /\ \A d \in Clients \ {c} : client'[d] = client[d]
  BY SendDoes DEF Becomes
<1>3. busy'.client = c /\ busy'.command = commands + 1 BY <1>1
<1>4. OthersAlone(c) BY <1>1, <1>2, <1>3 DEF OthersAlone, Answering
<1> QED BY <1>1, <1>2, <1>3, <1>4 DEF OwnReply, Reading

LEMMA StepsAtReplies ==
    ASSUME TypeOK, PortInv, NEW c \in Clients, OwnReply(c),
           Begin(c) \/ Call(c) \/ Locked(c) \/ Cancel(c) \/ Leave(c)
    PROVE  OthersAlone(c) /\ OwnReply(c)'
<1>0. client[c].taken \in BOOLEAN BY DEF TypeOK, ClientType
<1>2. CASE Begin(c)
  <2>1. /\ client[c].pc = "idle" /\ UNCHANGED machine /\ Gets(c, "ready")
    BY <1>2, BeginDoes DEF Begin
  <2> QED BY <2>1, QuietKeeps DEF Gets, Becomes, Reading, OwnReply
<1>3. CASE Call(c)
  <2>1. /\ client[c].pc = "ready" /\ UNCHANGED machine
        /\ \A d \in Clients \ {c} : client'[d] = client[d]
        /\ client'[c].pc = "queued" /\ client'[c].got = None
    BY <1>3, CallDoes DEF Call
  <2> QED BY <2>1, QuietKeeps DEF Reading
<1>4. CASE Acquire(c)
  <2>1. /\ client[c].pc = "queued" /\ UNCHANGED machine /\ Gets(c, "turn")
    BY <1>4, AcquireDoes DEF Acquire
  <2>2. ~client[c].taken BY <2>1 DEF PortInv
  <2> QED BY <2>1, <2>2, QuietKeeps DEF Gets, Becomes, Reading, OwnReply
<1>5. CASE Connect(c)
  <2>1. /\ client[c].pc = "turn" /\ UNCHANGED machine /\ Gets(c, "turn")
    BY <1>5, ConnectDoes DEF Connect
  <2> QED BY <2>1, QuietKeeps DEF Gets, Becomes, Reading, OwnReply
<1>6. CASE Send(c) BY <1>6, SendKeeps
<1>7. CASE SendFails(c) BY <1>7, RetryKeeps
<1>8. CASE Timeout(c)
  <2>1. Hangup(c) /\ Gets(c, "ready") BY <1>8, TimeoutDoes DEF Timeout
  <2> QED BY <1>0, <2>1, HangupKeeps DEF Gets
<1>9. CASE Succeed(c)
  <2>1. /\ Reading(c) /\ wire[c] # <<>>
        /\ Took(c, "verify") \/ Took(c, "ready")
    BY <1>9 DEF Succeed, Proceed
  <2> QED BY <2>1, TookKeeps
<1>10. CASE Refused(c)
  <2>1. Reading(c) /\ wire[c] # <<>> BY <1>10 DEF Refused
  <2>2. CASE Hangup(c) /\ Disconnected(c, "ready")
    <3>1. Gets(c, "ready") BY <2>2, DisconnectedDoes
    <3> QED BY <1>0, <2>2, <3>1, HangupKeeps DEF Gets
  <2>3. CASE Took(c, "ready") BY <2>1, <2>3, TookKeeps
  <2> QED BY <1>10, <2>2, <2>3 DEF Refused
<1>11. CASE Conflict(c) BY <1>11, ConflictKeeps
<1>12. CASE Cancel(c)
  <2>1. Gets(c, "leaving") /\ UNCHANGED machine
    BY <1>12, CancelDoes DEF Cancel
  <2>2. UNCHANGED <<wire, rest, busy>> BY <2>1 DEF machine
  <2> QED BY <2>1, <2>2
          DEF Gets, Becomes, OthersAlone, OwnReply, Answering, Reading
<1>13. CASE Leave(c)
  <2>1. Hangup(c) /\ Gets(c, "idle") BY <1>13, LeaveDoes DEF Leave
  <2> QED BY <1>0, <2>1, HangupKeeps DEF Gets
<1> QED BY <1>2, <1>3, <1>4, <1>5, <1>6, <1>7, <1>8, <1>9, <1>10, <1>11, <1>12,
           <1>13 DEF Locked

\* The machine answers with the whole reply.
LEMMA AnswerKeeps ==
    ASSUME TypeOK, Answer, splits' = 0, \A c \in Clients : OwnReply(c)
    PROVE  \A c \in Clients : OwnReply(c)'
<1>0. /\ busy # None /\ busy' = None /\ UNCHANGED client BY DEF Answer
<1>1. CASE busy.client = None
  <2>1. UNCHANGED <<wire, rest>> BY <1>1 DEF Answer
  <2> QED BY <1>0, <2>1 DEF OwnReply, Reading, Answering
<1>2. CASE busy.client # None
  <2>0. busy.client \in Clients BY <1>0, <1>2 DEF TypeOK
  <2>1. PICK c \in Clients : busy.client = c BY <2>0
  <2> DEFINE reply == [command |-> busy.command, piece |-> "whole"]
  <2>2. wire' = [wire EXCEPT ![c] = Append(wire[c], reply)] /\ UNCHANGED rest
    <3>1. PICK piece \in {"whole", "first"} :
             /\ wire' = [wire EXCEPT ![c] =
                   Append(@, [command |-> busy.command, piece |-> piece])]
             /\ piece = "whole" => UNCHANGED rest
             /\ piece # "whole" => splits' = splits + 1
      BY <1>2, <2>1 DEF Answer
    <3>2. piece = "whole" BY <3>1 DEF TypeOK
    <3> QED BY <2>1, <3>1, <3>2 DEF TypeOK
  <2>3. Answering(c) BY <1>0, <2>1 DEF Answering
  <2>4. reply \in Replies /\ reply.command = busy.command
    BY <1>0, <2>0 DEF Replies, TypeOK
  <2> HIDE DEF reply
  <2>5. ASSUME Reading(c)
        PROVE  Len(wire'[c]) = 1 /\ Head(wire'[c]).command = client[c].awaits
    <3>1. wire[c] = <<>> /\ busy.command = client[c].awaits
      BY <2>3, <2>5 DEF OwnReply
    <3>2. wire'[c] = Append(<<>>, reply) BY <2>2, <3>1 DEF TypeOK
    <3>3. wire'[c] = <<reply>> BY <2>4, <3>2
    <3>4. Len(<<reply>>) = 1 /\ Head(<<reply>>) = reply OBVIOUS
    <3> QED BY <2>4, <3>1, <3>3, <3>4
  <2>6. \A d \in Clients : ~Answering(d)' BY <1>0 DEF Answering
  <2>7. ASSUME NEW d \in Clients PROVE OwnReply(d)'
    <3>1. CASE d = c
      <4>1. OwnReply(c) /\ client'[c] = client[c] /\ rest'[c] = rest[c]
        BY <1>0, <2>2
      <4>2. client[c].pc = "leaving" \/ Reading(c)
        BY <2>3, <4>1 DEF OwnReply
      <4> QED BY <2>5, <2>6, <3>1, <4>1, <4>2 DEF OwnReply, Reading
    <3>2. CASE d # c
      <4>1. wire'[d] = wire[d] BY <2>2, <3>2 DEF TypeOK
      <4> QED BY <1>0, <2>1, <2>2, <2>6, <3>2, <4>1
              DEF OwnReply, Reading, Answering
    <3> QED BY <3>1, <3>2
  <2> QED BY <2>7
<1> QED BY <1>1, <1>2

LEMMA ReplyNext == TypeOK /\ PortInv /\ ReplyInv /\ [Next]_vars => ReplyInv'
<1> SUFFICES ASSUME TypeOK, PortInv, ReplyInv, [Next]_vars, splits' = 0
             PROVE  \A c \in Clients : OwnReply(c)'
  BY DEF ReplyInv
<1>0. \A c \in Clients : OwnReply(c) BY CountsNext DEF ReplyInv
<1>1. CASE Answer BY <1>0, <1>1, AnswerKeeps
<1>2. ASSUME NEW c \in Clients,
             Begin(c) \/ Call(c) \/ Locked(c) \/ Cancel(c) \/ Leave(c)
      PROVE  \A d \in Clients : OwnReply(d)'
  <2>1. OthersAlone(c) /\ OwnReply(c)' BY <1>0, <1>2, StepsAtReplies
  <2>2. ASSUME NEW d \in Clients \ {c} PROVE OwnReply(d)'
    BY <1>0, <2>1, <2>2, OthersKeep
  <2> QED BY <2>1, <2>2
<1>3. ASSUME NEW c \in Clients, RestArrives(c) PROVE FALSE
  BY <1>0, <1>3 DEF RestArrives, OwnReply
<1>4. CASE UNCHANGED vars
  BY <1>0, <1>4 DEF vars, OwnReply, Reading, Answering
<1> QED BY <1>1, <1>2, <1>3, <1>4 DEF Next

-----------------------------------------------------------------------------
(* Theorems *)

Inv == TypeOK /\ LockInv /\ PortInv /\ ReplyInv

LEMMA InitInv == Init => Inv
<1> SUFFICES ASSUME Init PROVE LockInv /\ PortInv /\ ReplyInv
  BY InitType DEF Inv
<1>1. \A c \in Clients : /\ client[c].pc = "idle" /\ client[c].got = None
                         /\ wire[c] = <<>> /\ rest[c] = None
  BY DEF Init
<1>2. lock = <<>> /\ busy = None BY DEF Init
<1>3. LockInv BY <1>1, <1>2, EmptyQueue DEF LockInv, InLock, Serving
<1>4. PortInv BY <1>1 DEF PortInv
<1>5. ReplyInv BY <1>1, <1>2 DEF ReplyInv, OwnReply, Reading, Answering
<1> QED BY <1>3, <1>4, <1>5

LEMMA NextInv == Inv /\ [Next]_vars => Inv'
<1> SUFFICES ASSUME Inv, [Next]_vars PROVE Inv'
  OBVIOUS
<1>1. LockInv' /\ PortInv' /\ ReplyInv'
  BY LockNext, PortNext, ReplyNext DEF Inv
<1>2. TypeOK'
  BY LocalsNext, LockNext, CountsNext DEF Inv, Locals, TypeOK, Replies
<1> QED BY <1>1, <1>2 DEF Inv

LEMMA Invariance == Spec => []Inv
  BY InitInv, NextInv, PTL DEF Spec

(* Typing: whatever the clients do, the coroutines, the lock, the connections *)
(* and the machine keep their types, and no call of load_data is tried more   *)
(* than MaxAttempts times.                                                    *)
THEOREM Typing == Spec => []TypeOK
<1>1. Inv => TypeOK BY DEF Inv
<1> QED BY <1>1, Invariance, PTL

(* CallsIsolated: an answer a call takes is the one to its own command as     *)
(* long as replies come whole, and no other client's command gets between the *)
(* write of a macro and its read-back, for every number of clients.           *)
THEOREM Isolation == Spec => []CallsIsolated
<1>1. Inv => CallsIsolated
  BY DEF Inv, PortInv, ReplyInv, OwnReply, CallsIsolated, RepliesMatch,
         MacroUndisturbed
<1> QED BY <1>1, Invariance, PTL

LEMMA SendAlone ==
    ASSUME Inv, [Next]_vars, commands' # commands
    PROVE  \A d \in Clients : ~Reading(d)
<1>1. PICK c \in Clients : Send(c)
  BY DEF Next, Answer, RestArrives, Begin, Call, Locked, Acquire, Connect,
     SendFails, Timeout, Succeed, Refused, Conflict, Cancel, Leave, vars, counts
<1>2. client[c].pc \in {"turn", "verify"} BY <1>1 DEF Send
<1>3. Holder(c) BY <1>2 DEF Inv, LockInv, InLock, Serving
<1>4. ASSUME NEW d \in Clients, Reading(d) PROVE FALSE
  <2>1. Holder(d) BY <1>4 DEF Inv, LockInv, InLock, Serving, Reading
  <2> QED BY <1>2, <1>3, <1>4, <2>1 DEF Holder, Reading
<1> QED BY <1>4

(* CommandsOnce: no command reaches the machine while a client waits for the  *)
(* answer to another, and load_data sends its command again only when the     *)
(* machine never got it or answered that it was in conflict.                  *)
THEOREM OneCommand == Spec => CommandsOnce
<1>1. Inv /\ [Next]_vars =>
        [busy # None /\ commands' # commands
          => \A c \in Clients : Reading(c) => client[c].awaits # busy.command]_vars
  BY SendAlone
<1>2. Inv /\ [Next]_vars =>
        [\A c \in Clients :
           client[c].pc = "turn" /\ client'[c].pc = "reading" /\ splits = 0
              => ~client[c].taken]_vars
  BY DEF Inv, ReplyInv, OwnReply
<1>3. Spec => AwaitedUndisturbed
  BY <1>1, Invariance, PTL DEF Spec, AwaitedUndisturbed
<1>4. Spec => NotSentTwice
  BY <1>2, Invariance, PTL DEF Spec, NotSentTwice
<1> QED BY <1>3, <1>4 DEF CommandsOnce

-----------------------------------------------------------------------------
(* The lock implements the port *)

LEMMA ServedIs ==
    ASSUME LockInv, NEW c \in Clients, client[c].pc \in Serving
    PROVE  Served = c
<1> DEFINE holders == {d \in Clients : Reading(d)
                                       \/ client[d].pc \in {"turn", "verify"}}
<1>1. c \in holders BY DEF Serving, InLock, Reading
<1>2. ASSUME NEW d \in holders PROVE d = c
  <2>1. client[d].pc \in Serving BY <1>2 DEF Serving, InLock, Reading
  <2> QED BY <2>1 DEF LockInv, Holder
<1>3. (CHOOSE d \in holders : TRUE) \in holders BY <1>1
<1> QED BY <1>1, <1>2, <1>3 DEF Served

LEMMA ServedAfter ==
    (LockInv => \A c \in Clients : client[c].pc \in Serving => Served = c)'
<1>1. LockInv => \A c \in Clients : client[c].pc \in Serving => Served = c
  BY ServedIs
<1> QED BY <1>1, PTL

LEMMA NobodyServed ==
    ASSUME \A c \in Clients : client[c].pc \notin Serving
    PROVE  Served = None
  BY DEF Served, Serving, InLock, Reading

LEMMA ServedServes ==
    ASSUME LockInv, NEW c \in Clients, client[c].pc \notin Serving
    PROVE  Served # c
<1>1. CASE \E d \in Clients : client[d].pc \in Serving BY <1>1, ServedIs
<1>2. CASE \A d \in Clients : client[d].pc \notin Serving
  BY <1>2, NobodyServed, NoneAssumption
<1> QED BY <1>1, <1>2

\* Who is served changes only with the steps of a client that is or gets there.
LEMMA ServedStays ==
    ASSUME LockInv, LockInv', NEW c \in Clients, LockStep(c),
           client[c].pc \notin Serving, client'[c].pc \notin Serving
    PROVE  UNCHANGED Served
<1>0. \A d \in Clients : client'[d].pc \in Serving <=> client[d].pc \in Serving
  BY DEF LockStep
<1>1. ASSUME NEW d \in Clients, client[d].pc \in Serving PROVE UNCHANGED Served
  <2>1. Served = d BY <1>1, ServedIs
  <2>2. client'[d].pc \in Serving BY <1>0, <1>1
  <2>3. Served' = d BY <2>2, ServedAfter
  <2> QED BY <2>1, <2>3
<1>2. CASE \A d \in Clients : client[d].pc \notin Serving
  <2>1. \A d \in Clients : client'[d].pc \notin Serving BY <1>0, <1>2
  <2>2. Served' = None BY <2>1 DEF Served, Serving, InLock, Reading
  <2> QED BY <1>2, <2>2, NobodyServed
<1> QED BY <1>1, <1>2

LEMMA LockStepRefines ==
    ASSUME TypeOK, LockInv, LockInv', NEW c \in Clients, LockStep(c)
    PROVE  [Port!Next]_(Port!vars)
<1> DEFINE before == client[c].pc
           after == client'[c].pc
<1>0. \A d \in Clients \ {c} : client'[d].pc = client[d].pc BY DEF LockStep
<1>1. CASE before \notin Serving /\ after \notin Serving
  <2>1. UNCHANGED Served BY <1>1, ServedStays
  <2>2. Served # c BY <1>1, ServedServes
  <2>3. CASE before # "queued" /\ after = "queued"
    <3>1. c \notin Waiting /\ Waiting' = Waiting \cup {c}
      BY <1>0, <2>3 DEF Waiting
    <3> QED BY <2>1, <2>2, <3>1 DEF Port!Next, Port!Ask
  <2>4. CASE before = "queued" /\ after # "queued"
    <3>1. c \in Waiting /\ Waiting' = Waiting \ {c}
      BY <1>0, <2>4 DEF Waiting
    <3> QED BY <2>1, <3>1 DEF Port!Next, Port!GiveUp
  <2>5. CASE before = "queued" <=> after = "queued"
    <3>1. UNCHANGED Waiting BY <1>0, <2>5 DEF Waiting
    <3> QED BY <2>1, <3>1 DEF Port!vars
  <2> QED BY <2>3, <2>4, <2>5
<1>2. CASE before \notin Serving /\ after \in Serving
  <2>1. Holder(c) BY <1>2 DEF LockStep, Serving, InLock
  <2>2. c \in Range(lock) BY <2>1, HeadIn DEF TypeOK, Holder
  <2>3. before = "queued" BY <1>2, <2>2 DEF LockInv, Serving
  <2>4. \A d \in Clients : client[d].pc \notin Serving
    BY <1>2, <2>1 DEF LockInv, Holder
  <2>5. Served = None BY <2>4, NobodyServed
  <2>6. Served' = c BY <1>2, ServedAfter
  <2>7. c \in Waiting /\ Waiting' = Waiting \ {c}
    BY <1>0, <1>2, <2>3 DEF Waiting, Serving
  <2> QED BY <2>5, <2>6, <2>7 DEF Port!Next, Port!Serve
<1>3. CASE before \in Serving /\ after \notin Serving
  <2>1. Served = c BY <1>3, ServedIs
  <2>2. \A d \in Clients \ {c} : client[d].pc \notin Serving
    BY <1>3 DEF LockInv, Holder
  <2>3. \A d \in Clients : client'[d].pc \notin Serving BY <1>0, <1>3, <2>2
  <2>4. Served' = None BY <2>3 DEF Served, Serving, InLock, Reading
  <2>5. after # "queued" /\ before # "queued"
    BY <1>3 DEF LockStep, Serving, InLock
  <2>6. UNCHANGED Waiting BY <1>0, <2>5 DEF Waiting
  <2> QED BY <2>1, <2>4, <2>6 DEF Port!Next, Port!Release
<1>4. CASE before \in Serving /\ after \in Serving
  <2>1. UNCHANGED Served BY <1>4, ServedIs, ServedAfter
  <2>2. UNCHANGED Waiting BY <1>0, <1>4 DEF Waiting, Serving
  <2> QED BY <2>1, <2>2 DEF Port!vars
<1> QED BY <1>1, <1>2, <1>3, <1>4

LEMMA NextRefines == Inv /\ Inv' /\ [Next]_vars => [Port!Next]_(Port!vars)
<1> SUFFICES ASSUME Inv, Inv', [Next]_vars PROVE [Port!Next]_(Port!vars)
  OBVIOUS
<1>1. CASE UNCHANGED client
  <2>1. UNCHANGED <<Waiting, Served>> BY <1>1 DEF Waiting, Served, Reading
  <2> QED BY <2>1 DEF Port!vars
<1>2. ASSUME NEW c \in Clients,
             Begin(c) \/ Call(c) \/ Locked(c) \/ Cancel(c) \/ Leave(c)
      PROVE  [Port!Next]_(Port!vars)
  BY <1>2, StepsAtLock, LockStepRefines DEF Inv
<1> QED BY <1>1, <1>2 DEF Next, Answer, RestArrives, vars

(* The lock of a machine implements the safe part of the abstract port of     *)
(* SerialPort: calls are served one at a time, a call is served only after it *)
(* asked, and a client leaves the queue only to be served or by giving up.    *)
THEOREM LockImplementsPort == Spec => Port!SafeSpec
<1>1. Init => Port!Init
  <2> SUFFICES ASSUME Init PROVE Waiting = {} /\ Served = None
    BY DEF Port!Init
  <2>1. \A c \in Clients : client[c].pc = "idle" BY DEF Init
  <2> QED BY <2>1, NobodyServed DEF Waiting, Serving, InLock
<1> QED BY <1>1, NextRefines, Invariance, PTL DEF Spec, Port!SafeSpec
=============================================================================
