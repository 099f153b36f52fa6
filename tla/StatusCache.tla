----------------------------- MODULE StatusCache -----------------------------
(***************************************************************************)
(* The status cache of WebSocketManager (services/websocket.py) for one    *)
(* machine and its writers.                                                *)
(*                                                                         *)
(* A writer computes a payload, then hands it to broadcast_status, which   *)
(* completes it from the cache and replaces the cache entry before it      *)
(* awaits the first send.                                                  *)
(* Between the two the fast and the tool loop wait for the polls of all    *)
(* other machines (asyncio.gather) and a REST caller for its connection to *)
(* close, so other writers come in between: a poll is a start, an end that *)
(* fixes the payload and a broadcast.  The sends that follow, which hold   *)
(* up the writer, and the dashboards are in WebSockets.                    *)
(*                                                                         *)
(* A payload is a function from its keys, so a key may be absent:          *)
(*   online   is_online, like status, counters and machine_name            *)
(*   program  program_name                                                 *)
(*   table    tool_table, the tool offsets, as the version read            *)
(*   tools    the magazine as the version read; NoMagazine is the list []  *)
(*   unified  tools_unified, as its flag atc_available                     *)
(***************************************************************************)
EXTENDS Naturals

CONSTANTS
    FastCallers,        \* who awaits poll(): the fast loop, a REST refresh
    ToolCallers,        \* who awaits poll_tool_data(): the tool loop, a refresh
    Loop,               \* the background loop, in both sets
    Programs,           \* meaningful program names
    None,               \* Python's None
    OfflineThreshold,   \* consecutive failures before "offline"
    MaxVersion          \* bound: versions of the machine's tool data

ASSUME LoopAssumption == Loop \in FastCallers \cap ToolCallers
ASSUME ThresholdAssumption == OfflineThreshold \in Nat \ {0}
ASSUME VersionAssumption == MaxVersion \in Nat \ {0}
ASSUME NoneAssumption == None \notin Programs \cup Nat

NoMagazine == 0
Versions == 1..MaxVersion

VARIABLES
    version,    \* version of the tool data in the machine
    failures,   \* the poller's consecutive_failures, saturated
    succeeded,  \* last_successful_fast_poll_at is set
    knownName,  \* the poller's cached_program_name
    cache,      \* last_status[machine], the empty function if there is none
    fast,       \* the poll() coroutine of each caller
    tool        \* the poll_tool_data() coroutine of each caller

vars == <<version, failures, succeeded, knownName, cache, fast, tool>>
pollerVars == <<failures, succeeded, knownName>>

-----------------------------------------------------------------------------
(* Payloads *)

Empty == [k \in {} |-> None]
Restricted(f, keys) == [k \in DOMAIN f \cap keys |-> f[k]]

\* {**g, **f}: where both have a key, f's value counts.
Over(f, g) == [k \in DOMAIN f \cup DOMAIN g |-> IF k \in DOMAIN f THEN f[k] ELSE g[k]]

Get(f, k) == IF k \in DOMAIN f THEN f[k] ELSE None

Idle == [pc |-> "idle", data |-> Empty]

\* display_online()
DisplayOnline == succeeded /\ failures < OfflineThreshold

Preserved_noTools == {"program", "table"}    \* defect: a key is forgotten
\* Keys broadcast_status completes from the cache.
Preserved == {"program", "table", "tools"}

\* The payload completed from the cache: a missing key, and a placeholder name.
Completed(payload) ==
    LET full == Over(payload, Restricted(cache, Preserved))
    IN  IF Get(full, "program") = None /\ Get(cache, "program") # None
        THEN [full EXCEPT !["program"] = cache["program"]]
        ELSE full

\* broadcast_status, up to its sends: the completed payload is cached and sent.
Remember(payload) == cache' = Completed(payload)

-----------------------------------------------------------------------------
(* The fast poll *)

\* A REST program-name refresh stores the name it read before it polls.
NameRead(c) == IF c = Loop THEN {knownName} ELSE {knownName} \cup Programs

StartFast(c) ==
    /\ fast[c].pc = "idle"
    /\ knownName' \in NameRead(c)
    /\ fast' = [fast EXCEPT ![c].pc = "polling"]
    /\ UNCHANGED <<version, failures, succeeded, cache, tool>>

\* A poll that ends well copies the tool data the cache holds at that moment.
SuccessPayload(program) ==
    Over([online |-> TRUE, program |-> program],
         Restricted(cache, {"tools", "table", "unified"}))

EndFast(c) ==
    /\ fast[c].pc = "polling"
    /\ failures' = 0
    /\ succeeded' = TRUE
    /\ \E program \in Programs \cup {None} :
         fast' = [fast EXCEPT ![c] = [pc |-> "ended",
                                      data |-> SuccessPayload(program)]]
    /\ UNCHANGED <<version, knownName, cache, tool>>

\* A poll that fails sends table and tools as null when the cache has none,
\* the name a REST refresh left, and no unified view.
FailurePayload(online) ==
    [online |-> online, program |-> knownName,
     table |-> Get(cache, "table"), tools |-> Get(cache, "tools")]

FailFast(c) ==
    /\ fast[c].pc = "polling"
    /\ failures' = IF failures < OfflineThreshold THEN failures + 1 ELSE failures
    /\ fast' = [fast EXCEPT ![c] = [pc |-> "ended",
                   data |-> FailurePayload(succeeded /\ failures' < OfflineThreshold)]]
    /\ UNCHANGED <<version, succeeded, knownName, cache, tool>>

BroadcastFast(c) ==
    /\ fast[c].pc = "ended"
    /\ Remember(fast[c].data)
    /\ fast' = [fast EXCEPT ![c] = Idle]
    /\ UNCHANGED <<version, pollerVars, tool>>

-----------------------------------------------------------------------------
(* The tool poll *)

\* Skipped while the machine counts as offline; that it is operating is a poll
\* that does not start.
StartTool(c) ==
    /\ tool[c].pc = "idle"
    /\ failures < OfflineThreshold
    /\ tool' = [tool EXCEPT ![c].pc = "reading"]
    /\ UNCHANGED <<version, pollerVars, cache, fast>>

ReadTable(c) ==
    /\ tool[c].pc = "reading"
    /\ tool' = [tool EXCEPT ![c] = [pc |-> "magazine", data |-> [table |-> version]]]
    /\ UNCHANGED <<version, pollerVars, cache, fast>>

\* No table, an exception or the timeout: {} is returned, nothing is broadcast
\* any more.  A timeout during the first broadcast comes after its cache write,
\* and the loop may find after the gather that the machine's poller is gone.
GiveUpTool(c) ==
    /\ tool[c].pc # "idle"
    /\ tool' = [tool EXCEPT ![c] = Idle]
    /\ UNCHANGED <<version, pollerVars, cache, fast>>

\* {**cached, **tool_data, is_online}
Merged(data) == Over([online |-> DisplayOnline], Over(data, cache))

\* The first broadcast, inside poll_tool_data.
Store(c, data) ==
    /\ Remember(Merged(data))
    /\ tool' = [tool EXCEPT ![c] = [pc |-> "ended", data |-> data]]
    /\ UNCHANGED <<version, pollerVars, fast>>

ReadMagazine(c) ==
    /\ tool[c].pc = "magazine"
    /\ Store(c, Over([tools |-> version, unified |-> TRUE], tool[c].data))

\* The magazine stays unreadable after the retries.  The prior one is kept only
\* if the unified view in the cache says there was one.
MissMagazine(c) ==
    /\ tool[c].pc = "magazine"
    /\ LET tools == IF Get(cache, "tools") = None THEN NoMagazine
                    ELSE cache["tools"]
           keep  == Get(cache, "unified") = TRUE
       IN  Store(c, Over([tools |-> IF keep THEN tools ELSE NoMagazine,
                          unified |-> keep], tool[c].data))

\* The second broadcast, by the caller: after the gather, or at once.
BroadcastTool(c) ==
    /\ tool[c].pc = "ended"
    /\ Remember(Merged(tool[c].data))
    /\ tool' = [tool EXCEPT ![c] = Idle]
    /\ UNCHANGED <<version, pollerVars, fast>>

-----------------------------------------------------------------------------
(* Other writers and the machine *)

\* FTP sync progress: a payload with none of the keys.
FtpProgress ==
    /\ Remember(Empty)
    /\ UNCHANGED <<version, pollerVars, fast, tool>>

\* PUT /machines: the cached entry with the new configuration.
UpdateConfig ==
    /\ Remember(cache)
    /\ UNCHANGED <<version, pollerVars, fast, tool>>

\* An operator or a write batch changes the machine's tool data.
ChangeTools ==
    /\ version < MaxVersion
    /\ version' = version + 1
    /\ UNCHANGED <<pollerVars, cache, fast, tool>>

-----------------------------------------------------------------------------

Init ==
    /\ version = 1
    /\ failures = 0
    /\ succeeded = FALSE
    /\ knownName = None
    /\ cache = Empty
    /\ fast = [c \in FastCallers |-> Idle]
    /\ tool = [c \in ToolCallers |-> Idle]

Fast(c) ==
    StartFast(c) \/ EndFast(c) \/ FailFast(c) \/ BroadcastFast(c)
Tool(c) ==
    \/ StartTool(c) \/ ReadTable(c) \/ GiveUpTool(c)
    \/ ReadMagazine(c) \/ MissMagazine(c) \/ BroadcastTool(c)

Next ==
    \/ \E c \in FastCallers : Fast(c)
    \/ \E c \in ToolCallers : Tool(c)
    \/ FtpProgress \/ UpdateConfig \/ ChangeTools

Spec == Init /\ [][Next]_vars

-----------------------------------------------------------------------------
(* Safety *)

EntryType(e) ==
    /\ DOMAIN e \subseteq {"online", "program", "table", "tools", "unified"}
    /\ Get(e, "online") \in BOOLEAN \cup {None}
    /\ Get(e, "program") \in Programs \cup {None}
    /\ Get(e, "table") \in Versions \cup {None}
    /\ Get(e, "tools") \in Versions \cup {NoMagazine, None}
    /\ "unified" \in DOMAIN e => e["unified"] \in BOOLEAN

(* The types of the cache's variables: what is cached or waits to be          *)
(* broadcast holds the values its readers expect, e.g. a unified view that is *)
(* there has its flag.                                                        *)
TypeOK ==
    /\ version \in Versions
    /\ failures \in 0..OfflineThreshold
    /\ succeeded \in BOOLEAN
    /\ knownName \in Programs \cup {None}
    /\ EntryType(cache)
    /\ \A c \in FastCallers : /\ fast[c].pc \in {"idle", "polling", "ended"}
                              /\ EntryType(fast[c].data)
    /\ \A c \in ToolCallers : /\ tool[c].pc \in {"idle", "reading", "magazine", "ended"}
                              /\ EntryType(tool[c].data)

(* What BACKEND_ARCHITECTURE.md promises and the code does not do: the        *)
(* broadcast of a fast poll leaves the tool table as it is.                   *)
FastKeepsTable ==
    [][\A c \in FastCallers :
         BroadcastFast(c) /\ Get(cache, "table") # None
             => Get(cache', "table") = cache["table"]]_vars

(* What the tool poll's warning says and the code does not do: when the       *)
(* magazine cannot be read, the prior one is preserved if there is one.       *)
MagazinePreserved ==
    [][\A c \in ToolCallers :
         MissMagazine(c) /\ Get(cache, "tools") \in Versions
             => Get(cache', "tools") = cache["tools"]]_vars
=============================================================================
