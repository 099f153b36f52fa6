------------------------------ MODULE SyncPanel ------------------------------
(* The sync panel of a machine: its configs and runs, the form that creates  *)
(* or edits a config, the runs' polling and the folder picker                *)
(* (components/MachineSyncPanel.tsx, SyncRunProgress.tsx, api/ftpSync.ts).   *)
(*                                                                           *)
(* The buttons are disabled while an operation is under way; the inputs, the *)
(* tabs, the picker and the polls are not. The server and its watcher, which *)
(* starts runs of its own, are external; any request may fail, also after    *)
(* the server has carried it out. Of a config there is its folder and        *)
(* whether it is enabled.                                                    *)
EXTENDS Naturals, FiniteSets, Screen

CONSTANTS ConfigIds, RunIds,
          Dirs, DirAbove,  \* the local folders, and what is above each, or None
          Root,
          Default,         \* the form as it is opened: a config
          FirstConfigs,    \* the configs at the start, by id
          MaxOps,          \* bound on the operations and folders asked for
          MaxPolls         \* and on the polls under way

VARIABLES
    server,  \* its configs and the status of its runs
    panel,   \* the panel's state: tab, configs, runs, selectedRun, form, editing
    op,      \* the operation under way, or NoOp
    polls,   \* the polls under way, each with the list it was answered with
    picker,  \* the folder picker: shown, the folder browsed, loading, requests
    ops,
    origin   \* the config the form was filled from: what an edit started from

syncVars == <<server, panel, op, polls, picker, ops, origin>>

-----------------------------------------------------------------------------
Active == {"queued", "in_progress", "processing"}

NoOp == [kind |-> None, id |-> None, at |-> None, sent |-> None, list |-> None]

loading == op # NoOp

With(f, k, v) == [x \in DOMAIN f \cup {k} |-> IF x = k THEN v ELSE f[x]]

\* What SyncRunProgress shows of a run.
SyncRunProgress(status) == IF status \in Active THEN "In Progress" ELSE status

-----------------------------------------------------------------------------
(* The server (external)                                                     *)

\* A run goes on, and ends in one way or another.
RunSteps ==
    /\ \E r \in {x \in DOMAIN server.runs : server.runs[x].status \in Active} :
         server' = [server EXCEPT !.runs[r].status =
                      CASE @ = "queued" -> "in_progress" [] @ = "in_progress" -> "completed"]
    /\ UNCHANGED <<panel, op, polls, picker, ops, origin>>

\* Ids of configs and of runs are not used again.
Started(s, r, c) ==
    [s EXCEPT !.runs = With(@, r, [config |-> c, status |-> "queued"]), !.ran = @ \cup {r}]

\* The watcher starts a run of an enabled config.
WatcherStarts ==
    /\ \E r \in RunIds \ server.ran, c \in DOMAIN server.configs :
         /\ server.configs[c].enabled
         /\ server' = Started(server, r, c)
    /\ UNCHANGED <<panel, op, polls, picker, ops, origin>>

\* What a request changes on the server, or nothing when it refuses it.
Effect(o, s) ==
    CASE o.kind = "create"  -> \E c \in ConfigIds \ s.used :
                                  server' = [s EXCEPT !.configs = With(@, c, o.sent), !.used = @ \cup {c}]
      [] o.kind \in {"save", "toggle"} ->
            o.id \in DOMAIN s.configs /\ server' = [s EXCEPT !.configs[o.id] = o.sent]
      [] o.kind = "delete"  -> o.id \in DOMAIN s.configs
              /\ server' = [s EXCEPT !.configs = [c \in DOMAIN @ \ {o.id} |-> @[c]],
                          !.runs = [r \in {x \in DOMAIN @ : @[x].config # o.id} |-> @[r]]]
      [] o.kind = "trigger" -> o.id \in DOMAIN s.configs /\ \E r \in RunIds \ s.ran : server' = Started(s, r, o.id)
      [] OTHER              -> o.id \in DOMAIN s.runs /\ UNCHANGED server

RequestServed ==
    /\ op.at = "asked"
    /\ \/ Effect(op, server) /\ \E answer \in {"done", "failed"} : op' = [op EXCEPT !.at = answer, !.list = server.runs]
       \/ UNCHANGED server /\ op' = [op EXCEPT !.at = "failed"]
    /\ UNCHANGED <<panel, polls, picker, ops, origin>>

\* The list of runs that a refresh has asked for is read.
ListServed ==
    /\ op.at = "refresh"
    /\ op' = [op EXCEPT !.at = "listed", !.list = server.runs]
    /\ UNCHANGED <<server, panel, polls, picker, ops, origin>>

-----------------------------------------------------------------------------
(* The operations                                                            *)

Starts(kind, id, at, sent) ==
    /\ ~loading /\ ops < MaxOps
    /\ op' = [kind |-> kind, id |-> id, at |-> at, sent |-> sent, list |-> None]
    /\ ops' = ops + 1
    /\ UNCHANGED <<server, panel, polls, picker, origin>>

refreshMachineData == Starts("refresh", None, "refresh", None)

onCreateConfig ==
    /\ panel.tab = "create" /\ panel.editing = None
    /\ Starts("create", None, "asked", panel.form)

onSaveConfig ==
    /\ panel.tab = "create" /\ panel.editing # None
    /\ Starts("save", panel.editing, "asked", panel.form)

\* What is toggled is what the panel shows.
onToggleConfig(c) ==
    /\ panel.tab = "configs" /\ c \in DOMAIN panel.configs
    /\ Starts("toggle", c, "asked", [panel.configs[c] EXCEPT !.enabled = ~@])

onDeleteConfig(c) ==
    /\ panel.tab = "configs" /\ c \in DOMAIN panel.configs
    /\ Starts("delete", c, "asked", None)

onTriggerConfig(c) ==
    /\ panel.tab = "configs" /\ c \in DOMAIN panel.configs
    /\ Starts("trigger", c, "asked", None)

onOpenRun(r) ==
    /\ panel.tab = "runs" /\ r \in DOMAIN panel.runs
    /\ Starts("open", r, "asked", None)

\* A failure is shown and ends the operation. After a success the form is cleared
\* by what used it, and the lists are read again.
RequestArrives ==
    /\ op.at \in {"done", "failed"}
    /\ CASE op.at = "failed" -> op' = NoOp /\ UNCHANGED <<panel, origin>>
         [] op.at = "done" /\ op.kind = "open" ->
              /\ panel' = [panel EXCEPT !.selectedRun = [id |-> op.id, status |-> op.list[op.id].status],
                                        !.tab = "details"]
              /\ op' = NoOp
              /\ UNCHANGED origin
         [] op.at = "done" /\ op.kind \in {"create", "save"} ->
              /\ panel' = [panel EXCEPT !.form = Default, !.editing = IF op.kind = "save" THEN None ELSE @]
              /\ origin' = None
              /\ op' = [op EXCEPT !.at = "refresh"]
         [] OTHER -> op' = [op EXCEPT !.at = "refresh"] /\ UNCHANGED <<panel, origin>>
    /\ UNCHANGED <<server, polls, picker, ops>>

\* The tab an operation ends on, whether the lists came or not.
TabAfter == IF op.kind \in {"create", "save"} THEN "configs"
            ELSE IF op.kind = "trigger" THEN "runs" ELSE panel.tab

RefreshArrives ==
    /\ \/ /\ op.at = "listed"
          /\ panel' = [panel EXCEPT !.configs = server.configs, !.runs = op.list, !.tab = TabAfter]
       \/ /\ op.at \in {"refresh", "listed"}
          /\ panel' = [panel EXCEPT !.tab = TabAfter]
    /\ op' = NoOp
    /\ UNCHANGED <<server, polls, picker, ops, origin>>

-----------------------------------------------------------------------------
(* The form                                                                  *)

\* defect: [ EDIT ] is not disabled while an operation is under way
startEditConfig_loading(c) ==
    /\ panel.tab = "configs" /\ c \in DOMAIN panel.configs
    /\ panel' = [panel EXCEPT !.editing = c, !.form = panel.configs[c], !.tab = "create"]
    /\ origin' = c
    /\ UNCHANGED <<server, op, polls, picker, ops>>

startEditConfig(c) ==
    /\ ~loading /\ panel.tab = "configs" /\ c \in DOMAIN panel.configs
    /\ panel' = [panel EXCEPT !.editing = c, !.form = panel.configs[c], !.tab = "create"]
    /\ origin' = c
    /\ UNCHANGED <<server, op, polls, picker, ops>>

cancelEditConfig ==
    /\ ~loading /\ panel.tab = "create" /\ panel.editing # None
    /\ panel' = [panel EXCEPT !.editing = None, !.form = Default]
    /\ origin' = None
    /\ UNCHANGED <<server, op, polls, picker, ops>>

updateForm ==
    /\ panel.tab = "create"
    /\ panel' = [panel EXCEPT !.form.enabled = ~@]
    /\ UNCHANGED <<server, op, polls, picker, ops, origin>>

SetTab(t) ==
    /\ panel.tab # t
    /\ panel' = [panel EXCEPT !.tab = t]
    /\ UNCHANGED <<server, op, polls, picker, ops, origin>>

-----------------------------------------------------------------------------
(* The polls of the runs                                                     *)

\* defect: a run that only waits does not count
hasActiveRun_started == \E r \in DOMAIN panel.runs : panel.runs[r].status \in Active \ {"queued"}

\* There is an interval as long as a run is shown that has not ended.
hasActiveRun == \E r \in DOMAIN panel.runs : panel.runs[r].status \in Active

PollFires ==
    /\ hasActiveRun
    /\ \E n \in 1..MaxPolls \ {p.n : p \in polls} : polls' = polls \cup {[n |-> n, list |-> None]}
    /\ UNCHANGED <<server, panel, op, picker, ops, origin>>

PollServed ==
    /\ \E p \in polls : p.list = None /\ polls' = (polls \ {p}) \cup {[p EXCEPT !.list = server.runs]}
    /\ UNCHANGED <<server, panel, op, picker, ops, origin>>

PollArrives(p) ==
    /\ p \in polls /\ p.list # None
    /\ polls' = polls \ {p}
    /\ panel' = [panel EXCEPT !.runs = p.list]
    /\ UNCHANGED <<server, op, picker, ops, origin>>

\* A failed poll is dropped without a word.
PollFails(p) ==
    /\ p \in polls /\ p.list # None
    /\ polls' = polls \ {p}
    /\ UNCHANGED <<server, panel, op, picker, ops, origin>>

-----------------------------------------------------------------------------
(* The folder picker                                                         *)

\* The folder asked for replaces what is shown when it arrives; any answer ends
\* the loading.
loadFolderBrowser(d) ==
    /\ ops < MaxOps /\ ops' = ops + 1
    /\ picker' = [picker EXCEPT !.shown = TRUE, !.loading = TRUE, !.asked = @ \cup {d}]

openFolderPicker ==
    /\ panel.tab = "create" /\ ~picker.shown
    /\ loadFolderBrowser(Root)
    /\ UNCHANGED <<server, panel, op, polls, origin>>

\* [ UP ], [ ROOT ] and [ OPEN ] of the folders listed.
Browse ==
    /\ picker.shown /\ ~picker.loading
    /\ \E d \in Dirs :
         /\ \/ d = Root
            \/ picker.folder # None /\ (DirAbove[d] = picker.folder \/ DirAbove[picker.folder] = d)
         /\ loadFolderBrowser(d)
    /\ UNCHANGED <<server, panel, op, polls, origin>>

FolderArrives ==
    /\ \E d \in picker.asked, ok \in BOOLEAN :
         picker' = [picker EXCEPT !.asked = @ \ {d}, !.loading = FALSE, !.folder = IF ok THEN d ELSE @]
    /\ UNCHANGED <<server, panel, op, polls, ops, origin>>

\* [ USE CURRENT ] and [ SELECT ] of the folders listed; the form takes it on.
SelectFolder ==
    /\ picker.shown /\ ~picker.loading /\ picker.folder # None
    /\ \E d \in Dirs :
         /\ d = picker.folder \/ DirAbove[d] = picker.folder
         /\ panel' = [panel EXCEPT !.form.folder = d]
    /\ picker' = [picker EXCEPT !.shown = FALSE]
    /\ UNCHANGED <<server, op, polls, ops, origin>>

CloseFolderPicker ==
    /\ picker.shown
    /\ picker' = [picker EXCEPT !.shown = FALSE]
    /\ UNCHANGED <<server, panel, op, polls, ops, origin>>

-----------------------------------------------------------------------------
\* Opened, the panel reads its lists.
SyncInit ==
    /\ server = [configs |-> FirstConfigs, runs |-> [r \in {} |-> None],
               used |-> DOMAIN FirstConfigs, ran |-> {}]
    /\ panel = [tab |-> "create", configs |-> [c \in {} |-> None], runs |-> [r \in {} |-> None],
                selectedRun |-> None, form |-> Default, editing |-> None]
    /\ op = [NoOp EXCEPT !.kind = "refresh", !.at = "refresh"]
    /\ polls = {}
    /\ picker = [shown |-> FALSE, folder |-> None, loading |-> FALSE, asked |-> {}]
    /\ ops = 0 /\ origin = None

SyncNext ==
    \/ RunSteps \/ WatcherStarts \/ RequestServed \/ ListServed
    \/ refreshMachineData \/ onCreateConfig \/ onSaveConfig
    \/ \E c \in ConfigIds : onToggleConfig(c) \/ onDeleteConfig(c) \/ onTriggerConfig(c) \/ startEditConfig(c)
    \/ \E r \in RunIds : onOpenRun(r)
    \/ RequestArrives \/ RefreshArrives
    \/ cancelEditConfig \/ updateForm
    \/ \E t \in {"create", "configs", "runs", "details"} : SetTab(t)
    \/ PollFires \/ PollServed \/ \E p \in polls : PollArrives(p) \/ PollFails(p)
    \/ openFolderPicker \/ Browse \/ FolderArrives \/ SelectFolder \/ CloseFolderPicker

\* The interval fires again and again, and a poll that is asked again and again
\* is at last answered.
SyncFairness ==
    /\ WF_syncVars(PollFires) /\ WF_syncVars(PollServed)
    /\ \A n \in 1..MaxPolls : SF_syncVars(\E p \in polls : p.n = n /\ PollArrives(p))

SyncSpec == SyncInit /\ [][SyncNext]_syncVars /\ SyncFairness

-----------------------------------------------------------------------------
(* Properties                                                                *)

\* What a save would overwrite is the config the form was filled from: no answer
\* that arrives meanwhile swaps the one without the other.
FormFollowsEdit == panel.editing = origin

ShownInProgress(r) == r \in DOMAIN panel.runs /\ SyncRunProgress(panel.runs[r].status) = "In Progress"

Running(r) == r \in DOMAIN server.runs /\ server.runs[r].status \in Active

\* A run that has ended, or is gone with its config, is not shown in progress for ever, in whatever order the
\* polls and the refreshes are answered.
RunsSettle ==
    \A r \in RunIds : ShownInProgress(r) /\ ~Running(r) ~> ~ShownInProgress(r)

\* A config that the list has lost is not edited any more. It is: the edit stays
\* when its config is deleted, and its save is refused.
EditedExists == panel.editing # None => panel.editing \in DOMAIN server.configs

\* A newer list of runs is never replaced by an older one. It is: polls overtake
\* each other.
ListsAdvance == [][\A r \in DOMAIN panel.runs : r \in DOMAIN panel'.runs]_syncVars
=============================================================================
