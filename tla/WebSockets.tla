------------------------------ MODULE WebSockets ------------------------------
(***************************************************************************)
(* WebSocketManager and the dashboards: the writers of StatusCache hand    *)
(* their payload to the sends of WebSocketBroadcast, and a dashboard       *)
(* merges what its socket receives (useWebSocket.ts).  A broadcast caches  *)
(* its payload and takes its first turn without an await in between; the   *)
(* other turns come whenever the send before them returns, and until the   *)
(* last one has returned the writer goes no further.                       *)
(***************************************************************************)
EXTENDS StatusCache, WebSocketBroadcast

CONSTANT Others     \* coroutines of FTP runs and of PUT /machines

ASSUME WritersAssumption ==
    Writers = ({"fast"} \X FastCallers) \cup ({"tool"} \X ToolCallers)
                                        \cup ({"other"} \X Others)

VARIABLES
    contents,   \* the payload of each broadcast, by its number
    views,      \* what each dashboard shows of the machine
    heard       \* the broadcast a dashboard got last, or the last of its snapshot

dashboards == <<views, heard>>
allVars == <<vars, sendVars, contents, dashboards>>

-----------------------------------------------------------------------------
(* The manager *)

\* A poll between its broadcasts, and the machine.
Poll ==
    /\ \/ \E c \in FastCallers :
            ~Busy(<<"fast", c>>) /\ (StartFast(c) \/ EndFast(c) \/ FailFast(c))
       \/ \E c \in ToolCallers :
            ~Busy(<<"tool", c>>) /\ (StartTool(c) \/ ReadTable(c) \/ GiveUpTool(c))
       \/ ChangeTools
    /\ UNCHANGED <<sendVars, contents>>

\* The time limit of poll_tool_data runs out while its broadcast waits.
TimeOut(c) ==
    /\ GiveUpTool(c)
    /\ Abandon(<<"tool", c>>)
    /\ UNCHANGED contents

\* broadcast_status up to its first await.
Write ==
    /\ \/ \E c \in FastCallers : BroadcastFast(c) /\ StartBroadcast(<<"fast", c>>)
       \/ \E c \in ToolCallers :
            /\ ReadMagazine(c) \/ MissMagazine(c) \/ BroadcastTool(c)
            /\ StartBroadcast(<<"tool", c>>)
       \/ \E o \in Others :
            (FtpProgress \/ UpdateConfig) /\ StartBroadcast(<<"other", o>>)
    /\ contents' = Append(contents, cache')

\* A broadcast goes on after a send, connections come and go.
Serve ==
    /\ \/ \E w \in Writers : Send(w) \/ Finish(w)
       \/ \E c \in Sockets : Accept(c) \/ Close(c) \/ Disconnected(c)
    /\ UNCHANGED <<vars, contents>>

-----------------------------------------------------------------------------
(* The dashboards *)

\* connect(): the cached entry over the machine's row; written with no await
\* since the list got the connection.
Snapshot == Over(cache, [online |-> FALSE, program |-> None])

Accepted(c) == socket[c] = "new" /\ socket'[c] = "open"
Receives(c) == received'[c] # received[c]

\* initial_status replaces the machine's entry, status_update is merged in.
Show ==
    /\ heard' = [c \in Sockets |-> IF Accepted(c) THEN messages
                                   ELSE IF Receives(c) THEN Last(received'[c])
                                   ELSE heard[c]]
    /\ views' = [c \in Sockets |-> IF Accepted(c) THEN Snapshot
                                   ELSE IF Receives(c) THEN Over(contents'[heard'[c]], views[c])
                                   ELSE views[c]]

-----------------------------------------------------------------------------

SocketsInit ==
    /\ Init /\ SendsInit
    /\ contents = <<>>
    /\ views = [c \in Sockets |-> Empty]
    /\ heard = [c \in Sockets |-> 0]

Manager == Poll \/ (\E c \in ToolCallers : TimeOut(c)) \/ Write \/ Serve
SocketsNext == Manager /\ Show

SocketsSpec == SocketsInit /\ [][SocketsNext]_allVars

-----------------------------------------------------------------------------
(* Properties *)

\* What every payload carries if the cache has it.
Kept == {"program", "table", "tools"}

\* A dashboard that has heard the newest broadcast, or whose snapshot is newer.
UpToDate(c) == socket[c] = "open" /\ heard[c] = messages

ViewsFollow ==
    \A c \in Sockets : UpToDate(c) => \A k \in Kept : Get(views[c], k) = Get(cache, k)

(* A dashboard that hears the newest broadcast shows the program, the tool    *)
(* table and the magazine of the cache, whichever broadcasts before it were   *)
(* skipped, overtaken or abandoned; and no writer, however late, brings a     *)
(* placeholder back for a program name.                                       *)
ViewsKept ==
    [][/\ ViewsFollow'
       /\ Get(cache, "program") # None => Get(cache', "program") # None]_allVars

(* A stronger property, which the code does not keep: whenever no broadcast   *)
(* is under way, all connected dashboards show one program, table and         *)
(* magazine.  A dashboard that a broadcast skipped, or that it had not        *)
(* reached when the tool poll timed out, waits for the next broadcast.        *)
ClientsAgree ==
    (\A w \in Writers : ~Busy(w)) =>
        \A c, d \in Sockets : socket[c] = "open" /\ socket[d] = "open" =>
            \A k \in Kept : Get(views[c], k) = Get(views[d], k)

(* What WEBSOCKET_PROTOCOL.md promises and the code does not do: the merge on *)
(* the server keeps every client's data, so two dashboards that are up to     *)
(* date agree on is_online too, whenever they connected.                      *)
SnapshotAgrees ==
    \A c, d \in Sockets : UpToDate(c) /\ UpToDate(d) =>
        Get(views[c], "online") = Get(views[d], "online")
=============================================================================
