----------------------------- MODULE FtpSyncRuns -----------------------------
(***************************************************************************)
(* The runs of FtpSyncService (services/ftp_sync_service.py) for the       *)
(* configurations of one machine: triggers, the map of active runs, the    *)
(* machine's lock, the run coroutine, the watcher and the reconciliation   *)
(* of rows at start and stop.  What an item does to a file is FtpSyncFile. *)
(*                                                                         *)
(* A run is its row in ftp_sync_runs together with its coroutine, so it    *)
(* has a status (committed) and a pc.  An upload configuration is          *)
(* triggered without an await; a download one awaits the remote listing    *)
(* between the check of the active map and the creation of the run.        *)
(***************************************************************************)
EXTENDS Naturals, Sequences, FiniteSets, SequencesExt

CONSTANTS
    Configs,        \* sync configurations of the machine
    Downloads,      \* those with sync_direction "download"
    Callers,        \* REST requests that trigger runs
    None,           \* no run, no request
    MaxItems,       \* bound: files of a run
    MaxRuns,        \* bound: runs in a behaviour
    MaxStops,       \* bound: stops and crashes
    MaxDbFailures,  \* bound: failed commits
    MaxChanges      \* bound: edits of local files

ASSUME DownloadsAssumption == Downloads \subseteq Configs
ASSUME NoneAssumption == None \notin Configs \cup Nat
ASSUME RunsBoundAssumption ==
    {MaxItems, MaxRuns, MaxStops, MaxDbFailures, MaxChanges} \subseteq Nat

VARIABLES
    up,         \* the service runs
    runs,       \* rows and coroutines, oldest first
    active,     \* _active_run_by_config
    lock,       \* runs at the machine's lock, the holder first
    triggers,   \* configuration each caller awaits the remote listing for
    changed,    \* configurations with a file newer than the watcher's snapshot
    unsynced,   \* configurations with an edit no run was made for or has read
    stops, dbFailures, changes     \* bounded counts

runsVars == <<up, runs, active, lock, triggers, changed, unsynced,
          stops, dbFailures, changes>>
runCounts == <<stops, dbFailures, changes>>
watchVars == <<changed, unsynced>>

-----------------------------------------------------------------------------
(* Helpers *)

Ids == 1..Len(runs)
Uploads == Configs \ Downloads
Unfinished == {"queued", "in_progress"}
Final == {"completed", "completed_with_conflicts", "failed", "interrupted"}

Live(r) == runs[r].pc # "gone"

\* list of the lock's waiters without r
Without(queue, r) == RemoveFirst(queue, r)

CountFailure(ok) ==
    /\ ok \/ dbFailures < MaxDbFailures
    /\ dbFailures' = IF ok THEN dbFailures ELSE dbFailures + 1

CanRun_perConfig(r) ==              \* defect: the lock is taken per config
    \A i \in 1..Len(lock) :
        lock[i] = r \/ runs[lock[i]].config # runs[r].config \/ r < lock[i]
\* r holds the lock, or is the first waiter and the holder has gone.
CanRun(r) == lock # <<>> /\ Head(lock) = r

Verdict(run) ==
    IF run.failed THEN IF run.ok THEN "completed" ELSE "failed"
    ELSE IF run.conflict THEN "completed_with_conflicts" ELSE "completed"

-----------------------------------------------------------------------------
(* Triggers *)

\* Rows, active map and task are made without an await.
Create(c) ==
    /\ Len(runs) < MaxRuns
    /\ \E n \in 0..MaxItems :
         runs' = Append(runs, [config |-> c, status |-> "queued",
                               pc |-> "scheduled", left |-> n, ok |-> FALSE,
                               failed |-> FALSE, conflict |-> FALSE])
    /\ active' = [active EXCEPT ![c] = Len(runs) + 1]

TriggerUpload(t, c) ==
    /\ up /\ triggers[t] = None
    /\ c \in Uploads /\ active[c] = None
    /\ Create(c)
    /\ unsynced' = unsynced \ {c}
    /\ UNCHANGED <<up, lock, triggers, changed, runCounts>>

TriggerDownload(t, c) ==
    /\ up /\ triggers[t] = None
    /\ c \in Downloads /\ active[c] = None
    /\ triggers' = [triggers EXCEPT ![t] = c]
    /\ UNCHANGED <<up, runs, active, lock, watchVars, runCounts>>

\* The remote folder was listed; nothing is checked again.
Listed(t) ==
    /\ triggers[t] # None
    /\ Create(triggers[t])
    /\ triggers' = [triggers EXCEPT ![t] = None]
    /\ UNCHANGED <<up, lock, watchVars, runCounts>>

ListingFails(t) ==
    /\ triggers[t] # None
    /\ triggers' = [triggers EXCEPT ![t] = None]
    /\ UNCHANGED <<up, runs, active, lock, watchVars, runCounts>>

-----------------------------------------------------------------------------
(* The watcher *)

\* A file already in the snapshot is saved, later than the debounce time.
Edit(c) ==
    /\ up /\ changes < MaxChanges
    /\ c \in Uploads
    /\ changed' = changed \cup {c}
    /\ unsynced' = unsynced \cup {c}
    /\ changes' = changes + 1
    /\ UNCHANGED <<up, runs, active, lock, triggers, stops, dbFailures>>

\* A scan moves the snapshot on before it looks at the active map.
Scan(c) ==
    /\ up /\ c \in changed
    /\ changed' = changed \ {c}
    /\ IF active[c] = None
         THEN Create(c) /\ unsynced' = unsynced \ {c}
         ELSE UNCHANGED <<runs, active, unsynced>>
    /\ UNCHANGED <<up, lock, triggers, runCounts>>

-----------------------------------------------------------------------------
(* The run coroutine, _process_run *)

Begin(r) ==
    /\ runs[r].pc = "scheduled"
    /\ runs' = [runs EXCEPT ![r].pc = "waiting"]
    /\ lock' = Append(lock, r)
    /\ UNCHANGED <<up, active, triggers, watchVars, runCounts>>

\* The except clause: the lock is already released, the row says failed.
Abort(r) ==
    /\ runs' = [runs EXCEPT ![r].pc = "closing", ![r].status = "failed"]
    /\ lock' = Without(lock, r)

Acquire(r) ==
    /\ runs[r].pc = "waiting" /\ CanRun(r)
    /\ \E ok \in BOOLEAN :
         /\ CountFailure(ok)
         /\ IF ok THEN /\ runs' = [runs EXCEPT ![r].pc = "preparing",
                                               ![r].status = "in_progress"]
                       /\ UNCHANGED lock
            ELSE Abort(r)
    /\ UNCHANGED <<up, active, triggers, watchVars, stops, changes>>

\* The remote folder is made ready and listed, the tool data prefetched.
Prepare(r) ==
    /\ runs[r].pc = "preparing"
    /\ runs' = [runs EXCEPT ![r].pc = "items"]
    /\ UNCHANGED <<up, active, lock, triggers, watchVars, runCounts>>
PrepareFails(r) ==
    /\ runs[r].pc = "preparing"
    /\ runs[r].config \in Uploads
    /\ Abort(r)
    /\ UNCHANGED <<up, active, triggers, watchVars, runCounts>>

\* One item is processed and committed; an exception counts as a failed file.
Item(r) ==
    /\ runs[r].pc = "items" /\ runs[r].left > 0
    /\ \E flag \in {"ok", "failed", "conflict", "skipped"} :
         runs' = [runs EXCEPT ![r].left = @ - 1,
                              ![r].ok = @ \/ flag = "ok",
                              ![r].failed = @ \/ flag = "failed",
                              ![r].conflict = @ \/ flag = "conflict"]
    /\ unsynced' = unsynced \ {runs[r].config}
    /\ UNCHANGED <<up, active, lock, triggers, changed, runCounts>>

\* The final status is committed; the last broadcast is still in the lock.
Conclude(r) ==
    /\ runs[r].pc = "items" /\ runs[r].left = 0
    /\ \E ok \in BOOLEAN :
         /\ CountFailure(ok)
         /\ IF ok THEN /\ runs' = [runs EXCEPT ![r].pc = "closing",
                                               ![r].status = Verdict(runs[r])]
                       /\ UNCHANGED lock
            ELSE Abort(r)
    /\ UNCHANGED <<up, active, triggers, watchVars, stops, changes>>

Close_noPop(r) ==                   \* defect: the entry is left in the map
    /\ runs[r].pc = "closing"
    /\ runs' = [runs EXCEPT ![r].pc = "gone"]
    /\ lock' = Without(lock, r)
    /\ UNCHANGED <<up, active, triggers, watchVars, runCounts>>
Close_keepsLock(r) ==               \* defect: the lock is not released
    /\ runs[r].pc = "closing"
    /\ runs' = [runs EXCEPT ![r].pc = "gone"]
    /\ active' = [active EXCEPT ![runs[r].config] = None]
    /\ UNCHANGED <<up, lock, triggers, watchVars, runCounts>>
\* The lock is released and finally pops the configuration's entry, whichever
\* run it names.
Close(r) ==
    /\ runs[r].pc = "closing"
    /\ runs' = [runs EXCEPT ![r].pc = "gone"]
    /\ lock' = Without(lock, r)
    /\ active' = [active EXCEPT ![runs[r].config] = None]
    /\ UNCHANGED <<up, triggers, watchVars, runCounts>>

-----------------------------------------------------------------------------
(* Start, stop and crash *)

\* Rows _reconcile_stale_runs takes for interrupted.
Stale(run) == run.status \in Unfinished

\* The coroutines are gone; a reconciliation that fails is only logged.
Reconcile(ok) ==
    runs' = [r \in Ids |-> [runs[r] EXCEPT
                !.pc = "gone",
                !.status = IF ok /\ Stale(runs[r]) THEN "interrupted" ELSE @]]

\* shutdown: requests in flight are served first, then stop() cancels.
Stop ==
    /\ up /\ stops < MaxStops
    /\ \A t \in Callers : triggers[t] = None
    /\ \E ok \in BOOLEAN : CountFailure(ok) /\ Reconcile(ok)
    /\ up' = FALSE
    /\ active' = [c \in Configs |-> None]
    /\ lock' = <<>>
    /\ changed' = {} /\ unsynced' = {}
    /\ stops' = stops + 1
    /\ UNCHANGED <<triggers, changes>>

ServiceCrash ==
    /\ up /\ stops < MaxStops
    /\ up' = FALSE
    /\ runs' = [r \in Ids |-> [runs[r] EXCEPT !.pc = "gone"]]
    /\ active' = [c \in Configs |-> None]
    /\ lock' = <<>>
    /\ triggers' = [t \in Callers |-> None]
    /\ changed' = {} /\ unsynced' = {}
    /\ stops' = stops + 1
    /\ UNCHANGED <<dbFailures, changes>>

\* The watcher's first scan only takes a snapshot: earlier edits are no changes.
Start ==
    /\ ~up
    /\ \E ok \in BOOLEAN : CountFailure(ok) /\ Reconcile(ok)
    /\ up' = TRUE
    /\ UNCHANGED <<active, lock, triggers, watchVars, stops, changes>>

-----------------------------------------------------------------------------

RunsInit ==
    /\ up = FALSE
    /\ runs = <<>>
    /\ active = [c \in Configs |-> None]
    /\ lock = <<>>
    /\ triggers = [t \in Callers |-> None]
    /\ changed = {} /\ unsynced = {}
    /\ stops = 0 /\ dbFailures = 0 /\ changes = 0

Process(r) ==
    \/ Begin(r) \/ Acquire(r) \/ Prepare(r) \/ PrepareFails(r)
    \/ Item(r) \/ Conclude(r) \/ Close(r)

RunsNext ==
    \/ \E t \in Callers, c \in Configs : TriggerUpload(t, c) \/ TriggerDownload(t, c)
    \/ \E t \in Callers : Listed(t) \/ ListingFails(t)
    \/ \E c \in Configs : Edit(c) \/ Scan(c)
    \/ \E r \in Ids : Process(r)
    \/ Stop \/ ServiceCrash \/ Start

RunsSpec == RunsInit /\ [][RunsNext]_runsVars

\* Coroutines that can go on do, the watcher scans, and a service that is down
\* is started again.
RunsFairness ==
    /\ \A r \in 1..MaxRuns : WF_runsVars(r \in Ids /\ Process(r))
    /\ \A t \in Callers : WF_runsVars(Listed(t) \/ ListingFails(t))
    /\ \A c \in Configs : WF_runsVars(Scan(c))
    /\ WF_runsVars(Start)

FairRunsSpec == RunsSpec /\ RunsFairness

-----------------------------------------------------------------------------
(* Properties *)

RunType ==
    [config : Configs, status : Unfinished \cup Final,
     pc : {"scheduled", "waiting", "preparing", "items", "closing", "gone"},
     left : 0..MaxItems, ok : BOOLEAN, failed : BOOLEAN, conflict : BOOLEAN]

(* The types of the service's maps and of the rows.                           *)
RunsTypeOK ==
    /\ up \in BOOLEAN
    /\ runs \in Seq(RunType) /\ Len(runs) <= MaxRuns
    /\ active \in [Configs -> Ids \cup {None}]
    /\ lock \in Seq(Ids)
    /\ triggers \in [Callers -> Configs \cup {None}]
    /\ changed \subseteq Uploads /\ unsynced \subseteq Uploads
    /\ stops \in 0..MaxStops
    /\ dbFailures \in 0..MaxDbFailures
    /\ changes \in 0..MaxChanges

(* At most one run of the machine touches its files, whichever configuration  *)
(* and trigger it came from.                                                  *)
OneSyncPerMachine ==
    Cardinality({r \in Ids : runs[r].pc \in {"preparing", "items"}}) <= 1

(* An upload configuration has at most one live run, and the active map names *)
(* it: for uploads the check and the entry are in one step.                   *)
UploadsRegistered ==
    \A r \in Ids : Live(r) /\ runs[r].config \in Uploads
        => active[runs[r].config] = r

(* An entry of the active map never outlives the configuration's runs, so no  *)
(* configuration stays blocked by a run that ended, failed or was cancelled.  *)
NoneBlocked ==
    \A c \in Configs : active[c] # None
        => \E r \in Ids : Live(r) /\ runs[r].config = c

(* While the service runs and no commit failed, every row that is queued or   *)
(* in progress has its coroutine: rows of an earlier process are reconciled.  *)
NoDanglingRow ==
    up /\ dbFailures = 0
        => \A r \in Ids : runs[r].status \in Unfinished => Live(r)

(* The service's books are right: the map of active runs and the rows in the  *)
(* database both tell which coroutines there are, in every interleaving of    *)
(* triggers, failures, cancellations and restarts.                            *)
RunsTracked == UploadsRegistered /\ NoneBlocked /\ NoDanglingRow

(* What the error of trigger_config_sync says ("already has an in-progress    *)
(* run") and the code does not ensure: a configuration has one live run.      *)
OneRunPerConfig ==
    \A r, s \in Ids : Live(r) /\ Live(s) /\ runs[r].config = runs[s].config
        => r = s

(* Every run ends: no lock is left behind, whatever failed or was cancelled.  *)
EveryRunEnds ==
    \A i \in 1..MaxRuns : (i \in Ids) ~> (i \in Ids /\ ~Live(i))

(* What the watcher is for and the code does not ensure: after a save a run is *)
(* made, or one under way reads it, unless the service stops or MaxRuns binds. *)
EditIsRead ==
    \A c \in Uploads : c \in unsynced ~> c \notin unsynced \/ Len(runs) = MaxRuns
=============================================================================
