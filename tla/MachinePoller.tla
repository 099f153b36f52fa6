--------------------------- MODULE MachinePoller ---------------------------
(***************************************************************************)
(* The MachinePoller objects of services/_machine_poller.py of one machine: *)
(* the fast poll, the debounced online flag, the event-log tasks the poll  *)
(* leaves on the event loop, the production-run bookkeeping and the        *)
(* notifications.  A new object replaces one whose polls and tasks may     *)
(* still be under way.                                                     *)
(*                                                                         *)
(* The event loop is single threaded and database calls block it, so the   *)
(* code between two awaits that really suspend is one action.  A poll      *)
(* suspends on the network; tasks made by create_task wait in FIFO order   *)
(* and run before time passes.  A new poll starts after them: to start one *)
(* commutes with a log task, and to get an answer takes a later iteration. *)
(*                                                                         *)
(* Time is kept as ages in ticks (since the poll's timestamp, since the    *)
(* last heartbeat), so the model needs no bound on the number of polls.    *)
(***************************************************************************)
EXTENDS Naturals, Sequences

CONSTANTS
    Slots,              \* callers of poll(): the fast loop and REST refreshes
    Loop,               \* the slot of the fast loop
    Programs,           \* meaningful program names
    NoProgram,          \* the placeholder name "----"
    None,               \* Python's None
    Codes,              \* statuses the machine's PRD3 file may report
    Settled,            \* conditions the machine may stay in: "down" or a code
    OfflineThreshold,   \* consecutive failures before "offline"
    HeartbeatInterval,  \* ticks between heartbeat events
    PollTimeout,        \* ticks after which wait_for cancels a poll
    MaxDbFailures,      \* bound: database failures in a behaviour
    MaxRestarts         \* bound: backend restarts and poller re-creations

Statuses == {"off", "standby", "operating", "stopped", "error"}

ASSUME CodesAssumption ==
    /\ Codes \subseteq Statuses \cup {"unreadable"}
    /\ Settled \subseteq Codes \cup {"down"}
ASSUME ThresholdAssumption == OfflineThreshold \in Nat \ {0}
ASSUME TimeAssumption ==
    /\ PollTimeout \in Nat
    /\ HeartbeatInterval \in Nat
    /\ PollTimeout < HeartbeatInterval
ASSUME LoopAssumption == Loop \in Slots
ASSUME BoundAssumption == MaxDbFailures \in Nat /\ MaxRestarts \in Nat
ASSUME NoneAssumption ==
    /\ None \notin Statuses
    /\ None \notin Nat
    /\ NoProgram \notin Programs

VARIABLES
    machine,    \* environment: "changing", or the condition the CNC stays in
    poller,     \* the fields of each MachinePoller object
    polls,      \* the poll() coroutine of each slot
    tasks,      \* event-log tasks on the event loop, oldest first
    lastEvent,  \* status of the newest row of machine_status_events
    own,        \* history: whether the poller of today wrote or read that row
    openRuns,   \* production_runs rows with ended_at NULL
    out,        \* what this step committed or scheduled for the outside
    dbFailures, \* database failures so far
    restarts    \* restarts and re-creations so far

vars == <<machine, poller, polls, tasks, lastEvent, own, openRuns,
          out, dbFailures, restarts>>

dbVars == <<lastEvent, own, openRuns>>
countVars == <<dbFailures, restarts>>

-----------------------------------------------------------------------------
(* Helpers *)

\* A step's output: the event row it committed, the run row it closed and the
\* kinds of notification it scheduled.
NoOutput == [event |-> None, run |-> None, notes |-> {}]

Idle == [phase |-> "idle", of |-> None, age |-> 0, status |-> None]

NewPoller_standby(lastStatus, notifier) ==     \* defect: any stored status is standby
    [failures |-> 0, succeeded |-> FALSE, online |-> FALSE,
     lastStatus |-> IF lastStatus = None THEN None ELSE "standby", lastPrd3 |-> None, sinceBeat |-> None,
     loggedOffline |-> FALSE, notifier |-> notifier]
NewPoller(lastStatus, notifier) ==
    [failures |-> 0, succeeded |-> FALSE, online |-> FALSE,
     lastStatus |-> lastStatus, lastPrd3 |-> None, sinceBeat |-> None,
     loggedOffline |-> FALSE, notifier |-> notifier]

\* The objects so far; the poller of today is the last.
Pollers == 1..(MaxRestarts + 1)
Current == restarts + 1

\* What the event loop still refers to after the step.  An object that it forgets,
\* or that was never made, has the fields of a new one.
Referred(o) ==
    \/ o = Current'
    \/ \E s \in Slots : polls'[s].of = o
    \/ \E i \in 1..Len(tasks') : tasks'[i].of = o
Unused == NewPoller(None, FALSE)
Collect(objects) == [o \in Pollers |-> IF Referred(o) THEN objects[o] ELSE Unused]

\* display_online(): the debounced flag shown to clients.
DisplayOnline(p) == p.succeeded /\ p.failures < OfflineThreshold

\* Ages saturate where no comparison of the code can tell them apart.
MaxAge == HeartbeatInterval + PollTimeout
Older(age) == IF age = None \/ age = MaxAge THEN age ELSE age + 1

BeatDue_never(p, age) == FALSE                  \* defect: the timer is never due
\* poll_timestamp - last_heartbeat_time >= heartbeat_interval
BeatDue(p, age) == p.sinceBeat # None /\ p.sinceBeat >= HeartbeatInterval + age

\* A PRD3 "off" from a machine that looks active is read as standby; a line
\* whose status field is no number gives no status.
MachineStatus(code, active) ==
    IF code = "off" /\ active THEN "standby"
    ELSE IF code = "unreadable" THEN None ELSE code

\* A halting alarm turns every status but off and operating into error.
ReportedStatus(status, halting) ==
    IF halting /\ status \notin {"off", "operating"} THEN "error" ELSE status

-----------------------------------------------------------------------------
(* The machine *)

Conditions == {"changing"} \cup Settled

\* What PRD3 reads as, if the machine answers at all.
Readings == IF machine = "changing" THEN Codes ELSE {machine} \ {"down"}

MachineChanges ==
    /\ machine' \in Conditions \ {machine}
    /\ out' = NoOutput
    /\ UNCHANGED <<poller, polls, tasks, dbVars, countVars>>

\* Pending tasks run in the current iteration of the event loop, and wait_for
\* lets no poll live past its timeout.
Tick ==
    /\ tasks = <<>>
    /\ \A s \in Slots : polls[s].phase = "idle" \/ polls[s].age < PollTimeout
    /\ poller' = [o \in Pollers |-> [poller[o] EXCEPT !.sinceBeat = Older(@)]]
    /\ polls' = [s \in Slots |-> IF polls[s].phase = "idle" THEN polls[s]
                                 ELSE [polls[s] EXCEPT !.age = @ + 1]]
    /\ out' = NoOutput
    /\ UNCHANGED <<machine, tasks, dbVars, countVars>>

-----------------------------------------------------------------------------
(* The poll *)

\* A caller that is not waiting for one polls the object of today.
StartPoll(s) ==
    /\ polls[s].phase = "idle"
    /\ tasks = <<>>
    /\ polls' = [polls EXCEPT ![s] = [phase |-> "connecting", of |-> Current,
                                      age |-> 0, status |-> None]]
    /\ out' = NoOutput
    /\ UNCHANGED <<machine, poller, tasks, dbVars, countVars>>

\* MONTR arrived and PRD3 was read: last_known_prd3_status is set here, even
\* if the poll times out afterwards.
ReadPrd3(s) ==
    /\ polls[s].phase = "connecting"
    /\ \E code \in Readings, active \in BOOLEAN :
         LET status == MachineStatus(code, active)
         IN  /\ polls' = [polls EXCEPT ![s].phase = "collecting",
                                       ![s].status = status]
             /\ poller' = [poller EXCEPT ![polls[s].of].lastPrd3 = status]
    /\ out' = NoOutput
    /\ UNCHANGED <<machine, tasks, dbVars, countVars>>

\* MONTR arrived, PRD3 did not: the last known status stands in for it.
MissPrd3(s) ==
    /\ polls[s].phase = "connecting"
    /\ machine # "down"
    /\ LET known == poller[polls[s].of].lastPrd3
       IN  polls' = [polls EXCEPT ![s].phase = "collecting",
                                  ![s].status = IF known = None THEN "standby" ELSE known]
    /\ out' = NoOutput
    /\ UNCHANGED <<machine, poller, tasks, dbVars, countVars>>

\* The remaining reads tolerate failure; the poll ends in its success block.
Succeed(p, status) ==
    LET ok == [p EXCEPT !.failures = 0, !.succeeded = TRUE,
                        !.loggedOffline = @ /\ status = None]
    IN  [ok EXCEPT !.online = DisplayOnline(ok)]

CompletePoll(s) ==
    /\ polls[s].phase = "collecting"
    /\ polls' = [polls EXCEPT ![s] = Idle]
    /\ UNCHANGED <<machine, dbVars, countVars>>
    /\ \E halting \in BOOLEAN, program \in Programs \cup {NoProgram} :
         LET o      == polls[s].of
             status == ReportedStatus(polls[s].status, halting)
         IN  /\ tasks' = IF status = None THEN tasks
                         ELSE Append(tasks,
                           [kind |-> "log", of |-> o, success |-> TRUE, status |-> status,
                            previous |-> None, program |-> program,
                            age |-> polls[s].age])
             /\ poller' = Collect([poller EXCEPT ![o] = Succeed(@, status)])
    /\ out' = NoOutput

\* _finalize_poll_failure of the poller p.  The failure count saturates at the
\* threshold.
Failures(p) == IF p.failures < OfflineThreshold THEN p.failures + 1 ELSE p.failures
GoesOff(p) == Failures(p) >= OfflineThreshold /\ ~p.loggedOffline
Beats(p, age) == p.loggedOffline /\ BeatDue(p, age)

Fail(p, age) ==
    LET failed == [p EXCEPT !.failures = Failures(p)]
    IN  [failed EXCEPT
           !.online = DisplayOnline(failed),
           !.lastStatus = IF GoesOff(p) THEN "off" ELSE @,
           !.loggedOffline = @ \/ GoesOff(p),
           !.sinceBeat = IF GoesOff(p) \/ Beats(p, age) THEN age ELSE @]

FailPoll(s) ==
    /\ \/ polls[s].phase = "connecting"
       \/ polls[s].phase = "collecting" /\ polls[s].age = PollTimeout
    /\ polls' = [polls EXCEPT ![s] = Idle]
    /\ UNCHANGED <<machine, dbVars, countVars>>
    /\ LET o    == polls[s].of
           p    == poller[o]
           age  == polls[s].age
           task == [kind |-> "log", of |-> o, success |-> FALSE,
                    status |-> "off", previous |-> p.lastStatus,
                    program |-> NoProgram, age |-> age]
       IN  /\ tasks' = IF GoesOff(p) THEN Append(tasks, task)
                       ELSE IF Beats(p, age)
                       THEN Append(tasks, [task EXCEPT !.kind = "offlineBeat",
                                                       !.previous = "off"])
                       ELSE tasks
           /\ poller' = Collect([poller EXCEPT ![o] = Fail(p, age)])
    /\ out' = NoOutput

-----------------------------------------------------------------------------
(* The log tasks *)

\* Where a log task's database work fails: nowhere; at its first query, before
\* anything changed; at the production-run query, whose exception is swallowed
\* but leaves a session that cannot commit; or at the commit.
Outcomes(t) == {"ok", "run", "commit"} \cup (IF t.success THEN {"early"} ELSE {})

StartsRun_unchecked(t) ==               \* defect: no query for an open run
    t.status = "operating" /\ t.program # NoProgram
EndsRun_notOnStandby(t) ==              \* defect: only a stop ends the run
    t.status \in {"stopped", "error"} /\ openRuns # <<>>

\* The row _log_production_run leaves open, and what it reports.
StartsRun(t) ==
    t.status = "operating" /\ t.program # NoProgram /\ openRuns = <<>>
EndsRun(t) ==
    t.status \in {"stopped", "standby", "error"} /\ openRuns # <<>>
Completed(t) == t.status \in {"stopped", "standby"}

EndsUnrecorded_never(t) == FALSE        \* defect: no message without a run row
\* Fallback: operating ended but no run row is open.
EndsUnrecorded(t) ==
    Completed(t) /\ openRuns = <<>> /\ poller[t.of].lastStatus = "operating"

CycleNote(t) ==
    poller[t.of].notifier /\ (EndsUnrecorded(t) \/ (EndsRun(t) /\ Completed(t)))

\* A run row as StartsRun opens it, and as EndsRun closes it.  "notified" counts the cycle-complete
\* messages sent for the run.
Opened(t) == [program |-> t.program, by |-> t.of, notified |-> 0]
Notify(run, t) == [run EXCEPT !.notified = IF CycleNote(t) THEN @ + 1 ELSE @]
Close(run, completion) ==
    [program |-> run.program, notified |-> run.notified, completion |-> completion]
ClosedRow(t) ==
    IF EndsRun(t)
    THEN Close(Notify(Head(openRuns), t),
               IF Completed(t) THEN "completed" ELSE t.status)
    ELSE None

RunsAfter_notEnded(t, outcome) ==       \* defect: ended_at is not written
    IF outcome = "ok" /\ StartsRun(t)
    THEN Append(openRuns, Opened(t))
    ELSE IF outcome \in {"ok", "commit"} /\ EndsRun(t)
    THEN <<Notify(Head(openRuns), t)>> \o Tail(openRuns)
    ELSE openRuns

\* The open rows after the task.  Messages are scheduled before the commit: a
\* failed commit leaves the run open and the message sent.
RunsAfter(t, outcome) ==
    IF outcome = "ok" /\ StartsRun(t)
    THEN Append(openRuns, Opened(t))
    ELSE IF outcome = "ok" /\ EndsRun(t)
    THEN Tail(openRuns)
    ELSE IF outcome = "commit" /\ EndsRun(t)
    THEN <<Notify(Head(openRuns), t)>> \o Tail(openRuns)
    ELSE openRuns

\* The database work of a step may fail as long as the bound allows it.
CountFailure(outcome) ==
    /\ outcome # "ok" => dbFailures < MaxDbFailures
    /\ dbFailures' = IF outcome = "ok" THEN dbFailures ELSE dbFailures + 1

\* _log_events_async, from the lock to the commit or the rollback.
LogEvents ==
    /\ tasks # <<>>
    /\ Head(tasks).kind = "log"
    /\ tasks' = Tail(tasks)
    /\ UNCHANGED <<machine, polls, restarts>>
    /\ LET t       == Head(tasks)
           p       == poller[t.of]
           changed == p.lastStatus # t.status
           beats   == ~changed /\ t.success /\ BeatDue(p, t.age)
           starts  == ~changed /\ t.success /\ p.sinceBeat = None
           logged  == [p EXCEPT !.lastStatus = t.status,
                                !.sinceBeat = IF changed \/ beats \/ starts THEN t.age ELSE @]
           row     == [status |-> t.status,
                       previous |-> IF ~changed \/ p.lastStatus = None
                                    THEN t.status
                                    ELSE IF t.success THEN p.lastStatus
                                    ELSE t.previous]
           tells   == changed /\ p.notifier /\ p.lastStatus # None
       IN  \E outcome \in Outcomes(t) :
             LET writes == outcome = "ok" /\ (changed \/ beats)
             IN
             /\ CountFailure(outcome)
             /\ IF outcome = "early"
                THEN /\ out' = NoOutput
                     /\ poller' = Collect(poller)
                     /\ UNCHANGED dbVars
                ELSE /\ poller' = Collect([poller EXCEPT ![t.of] = logged])
                     /\ lastEvent' = IF writes THEN t.status ELSE lastEvent
                     /\ own' = IF writes THEN t.of = Current ELSE own
                     /\ openRuns' = RunsAfter(t, outcome)
                     /\ out' = [event |-> IF writes THEN row ELSE None,
                                run |-> IF outcome = "ok" THEN ClosedRow(t)
                                        ELSE None,
                                notes |-> (IF tells THEN {"status"} ELSE {})
                                          \cup (IF outcome # "run" /\ CycleNote(t)
                                                THEN {"cycle"} ELSE {})]

\* _log_offline_heartbeat
LogOfflineBeat ==
    /\ tasks # <<>>
    /\ Head(tasks).kind = "offlineBeat"
    /\ tasks' = Tail(tasks)
    /\ UNCHANGED <<machine, polls, openRuns, restarts>>
    /\ \E outcome \in {"ok", "commit"} :
         /\ CountFailure(outcome)
         /\ lastEvent' = IF outcome = "ok" THEN "off" ELSE lastEvent
         /\ own' = IF outcome = "ok" THEN Head(tasks).of = Current ELSE own
         /\ out' = IF outcome = "ok"
                   THEN [NoOutput EXCEPT !.event = [status |-> "off",
                                                    previous |-> "off"]]
                   ELSE NoOutput
    /\ poller' = Collect(poller)

-----------------------------------------------------------------------------
(* Life of the object *)

\* seed_last_status_from_db for a new object.  It fails at its first query,
\* leaving nothing, or at the commit, leaving the status but not the runs.
Seed(notifier) ==
    /\ restarts < MaxRestarts
    /\ restarts' = restarts + 1
    /\ \E outcome \in {"ok", "early", "commit"} :
         /\ CountFailure(outcome)
         /\ poller' = Collect([poller EXCEPT ![Current'] =
                                 NewPoller(IF outcome = "early" THEN None ELSE lastEvent,
                                           notifier)])
         /\ openRuns' = IF outcome = "ok" THEN <<>> ELSE openRuns
         /\ out' = IF outcome = "ok" /\ openRuns # <<>>
                   THEN [NoOutput EXCEPT !.run = Close(Head(openRuns), "interrupted")]
                   ELSE NoOutput
    /\ own' = TRUE
    /\ UNCHANGED <<machine, lastEvent>>

\* The process dies with its polls and tasks; the new one's fast loop runs
\* before its tool loop and makes the poller.
Restart ==
    /\ polls' = [s \in Slots |-> Idle]
    /\ tasks' = <<>>
    /\ Seed(TRUE)

\* The machine was disabled and enabled again, and the loop that saw it first
\* made the new poller; the tool loop gives it no notification service.  What the
\* old one has under way goes on.
Recreate ==
    /\ UNCHANGED <<polls, tasks>>
    /\ \E notifier \in BOOLEAN : Seed(notifier)

-----------------------------------------------------------------------------

Init ==
    /\ machine \in Conditions
    /\ poller = [o \in Pollers |-> IF o = 1 THEN NewPoller(None, TRUE) ELSE Unused]
    /\ polls = [s \in Slots |-> Idle]
    /\ tasks = <<>>
    /\ lastEvent = None
    /\ own = TRUE
    /\ openRuns = <<>>
    /\ out = NoOutput
    /\ dbFailures = 0
    /\ restarts = 0

Poll(s) ==
    StartPoll(s) \/ ReadPrd3(s) \/ MissPrd3(s) \/ CompletePoll(s) \/ FailPoll(s)

Next ==
    \/ MachineChanges
    \/ Tick
    \/ \E s \in Slots : Poll(s)
    \/ LogEvents
    \/ LogOfflineBeat
    \/ Restart
    \/ Recreate

Spec == Init /\ [][Next]_vars

\* The loop polls again and again, created tasks run, wait_for ends every poll,
\* and time passes.  The strong conditions on the reads are an assumption about
\* the machine: one that stays reachable answers a poll from time to time.
Fairness ==
    /\ WF_vars(StartPoll(Loop))
    /\ \A s \in Slots : /\ SF_vars(ReadPrd3(s))
                        /\ SF_vars(CompletePoll(s))
                        /\ WF_vars(FailPoll(s))
    /\ WF_vars(LogEvents)
    /\ WF_vars(LogOfflineBeat)
    /\ SF_vars(Tick)

FairSpec == Spec /\ Fairness

-----------------------------------------------------------------------------
(* Types *)

PollerType ==
    [failures : 0..OfflineThreshold, succeeded : BOOLEAN, online : BOOLEAN,
     lastStatus : Statuses \cup {None}, lastPrd3 : Statuses \cup {None},
     sinceBeat : 0..MaxAge \cup {None}, loggedOffline : BOOLEAN, notifier : BOOLEAN]

PollType ==
    {Idle} \cup [phase : {"connecting", "collecting"}, of : Pollers, age : 0..PollTimeout,
                 status : Statuses \cup {None}]

TaskType ==
    [kind : {"log", "offlineBeat"}, of : Pollers, success : BOOLEAN,
     status : Statuses, previous : Statuses \cup {None},
     program : Programs \cup {NoProgram}, age : 0..PollTimeout]

RunType == [program : Programs, by : Pollers, notified : Nat]
ClosedType == [program : Programs, notified : Nat,
               completion : {"completed", "error", "interrupted"}]

OutputType ==
    [event : [status : Statuses, previous : Statuses \cup {None}] \cup {None},
     run : ClosedType \cup {None},
     notes : SUBSET {"status", "cycle"}]

(* The values the variables of the pollers and their tables range over.       *)
TypeOK ==
    /\ machine \in Conditions
    /\ poller \in [Pollers -> PollerType]
    /\ polls \in [Slots -> PollType]
    /\ tasks \in Seq(TaskType)
    /\ lastEvent \in Statuses \cup {None}
    /\ own \in BOOLEAN
    /\ openRuns \in Seq(RunType)
    /\ out \in OutputType
    /\ dbFailures \in 0..MaxDbFailures
    /\ restarts \in 0..MaxRestarts

-----------------------------------------------------------------------------
(* Safety *)

(* The stored flags never drift from the failure count, however the polls of  *)
(* the loop, of REST refreshes and of replaced pollers overlap: is_online is  *)
(* what display_online() would answer, the offline flag is up once the        *)
(* threshold is reached, and while it is up and no log task of the poller is  *)
(* pending, its status in memory is off.                                      *)
FlagsMatchFailures ==
    \A o \in Pollers :
      /\ poller[o].online = DisplayOnline(poller[o])
      /\ poller[o].failures >= OfflineThreshold => poller[o].loggedOffline
      /\ poller[o].loggedOffline /\ (\A i \in 1..Len(tasks) : tasks[i].of # o)
           => poller[o].lastStatus = "off"

(* A machine never has two open production runs: query and insert happen in   *)
(* one log task, and a new poller closes what the last one left open, which   *)
(* may open one again.                                                        *)
OneOpenRun == Len(openRuns) <= 1

(* While no database work failed, a poller that holds a status other than off *)
(* holds the status of the newest event in the table, across polls, restarts  *)
(* and re-creations, unless a poller it replaced has written that event since *)
(* the new one read the table or wrote to it.                                 *)
MemoryMatchesTable ==
    dbFailures = 0 /\ own /\ poller[Current].lastStatus \notin {None, "off"}
        => lastEvent = poller[Current].lastStatus

(* While no database work failed, the run a poller has opened is open only    *)
(* while that poller has last seen the machine operating, or when the machine *)
(* went off before its run was closed.                                        *)
OpenRunMeansOperating ==
    dbFailures = 0
        => \A i \in 1..Len(openRuns) :
             openRuns[i].by = Current => poller[Current].lastStatus \in {"operating", "off"}

(* A run is reported complete at most once, plus once for each database       *)
(* failure: a commit that fails after the message was scheduled leaves the    *)
(* run open, and the next poll reports it again.                              *)
CycleReportedOnce ==
    /\ \A i \in 1..Len(openRuns) : openRuns[i].notified <= dbFailures
    /\ out.run # None => out.run.notified <= dbFailures + 1

(* Whenever a poller sees operating end in standby or stopped, the            *)
(* cycle-complete message goes out, with a run row or without (a restart may  *)
(* have closed the row, or the program had no name).                          *)
CycleEndReported ==
    [][/\ tasks # <<>> /\ tasks' = Tail(tasks)
       /\ poller[Head(tasks).of].lastStatus = "operating"
       /\ Head(tasks).status \in {"standby", "stopped"}
       /\ poller[Head(tasks).of].notifier
       /\ <<dbFailures, restarts>>' = <<dbFailures, restarts>>
       => "cycle" \in out'.notes]_vars

(* What an operator of the table would expect, and the code does not keep: the *)
(* poller of today holds the newest event.  A task of the poller it replaced  *)
(* may write one when the new poller has read the table.                      *)
MemoryIsNewest ==
    dbFailures = 0 /\ poller[Current].lastStatus \notin {None, "off"}
        => lastEvent = poller[Current].lastStatus

(* What users are promised and the code does not do (README.md line 41: rules *)
(* fire on status transitions, including offline): the log task of an offline *)
(* transition from a known status schedules the status message.               *)
OfflineNotified ==
    [][/\ tasks # <<>> /\ tasks' = Tail(tasks)
       /\ Head(tasks).kind = "log" /\ ~Head(tasks).success
       /\ Head(tasks).previous \notin {None, "off"}
       /\ poller[Head(tasks).of].notifier
       /\ UNCHANGED restarts
       => "status" \in out'.notes]_vars

-----------------------------------------------------------------------------
(* Liveness *)

(* A machine that stays unreachable ends up off in the table: the transition  *)
(* itself is not logged, but the offline heartbeat records it.                *)
OfflineRecorded ==
    <>[](machine = "down")
        => <>[](lastEvent = "off")

(* A machine that stays in standby ends up with no open run, although polls   *)
(* and commits may have failed on the way.                                    *)
RunCloses ==
    <>[](machine = "standby") => <>[](openRuns = <<>>)

(* A status that memory keeps reaches the table, even if the commit of its    *)
(* transition failed: the next heartbeat writes it.                           *)
TableCatchesUp ==
    \A s \in Statuses :
        <>[](poller[Current].lastStatus = s)
            => <>[](lastEvent = s)
=============================================================================
