----------------------------- MODULE FtpSyncFile -----------------------------
(***************************************************************************)
(* What the runs of one sync configuration do to one file                  *)
(* (services/ftp_sync_service.py, _process_item): the local copy, the copy *)
(* on the machine, the hash recorded in ftp_sync_file_states and the       *)
(* program registered from it, while people edit both copies, transfers    *)
(* and commits fail, and the configuration changes its direction.          *)
(*                                                                         *)
(* Runs of a configuration are taken one after another; FtpSyncRuns says   *)
(* when that is so.  A content stands for its hash.  What is registered is *)
(* text: bytes that are not UTF-8 are replaced, so two contents may have   *)
(* one text and a registered text need not be the file's bytes.            *)
(***************************************************************************)
EXTENDS Naturals, FiniteSets

CONSTANTS
    Contents,       \* contents of the file
    Absent,         \* no file, no hash
    Cut,            \* what a transfer that broke off leaves
    Texts,          \* programs as text
    Decoded,        \* decode('utf-8', errors='replace') of each content
    MaxEdits,       \* bound: edits of either copy
    MaxSwitches,    \* bound: changes of direction
    MaxFaults       \* bound: failed transfers, registrations, commits, crashes

ASSUME ContentAssumption == Absent \notin Contents /\ Cut \notin Contents
                            /\ Absent # Cut
ASSUME DecodedAssumption == Decoded \in [Contents \cup {Cut} -> Texts]
ASSUME BoundAssumption == {MaxEdits, MaxSwitches, MaxFaults} \subseteq Nat

VARIABLES
    local, remote,  \* the two copies
    recorded,       \* last_uploaded_hash, committed
    registered,     \* texts registered as deployed programs
    direction,      \* sync_direction of the configuration
    run,            \* the run at this file: pc, listed (its name was in the
                    \* listing) and the bytes it holds
    status,         \* item status the last run ended with
    onMachine,      \* history: contents the machine has had
    byOperator,     \* history: remote is an edit made after the run's listing
    edits, switches, faults         \* bounded counts

vars == <<local, remote, recorded, registered, direction, run, status,
          onMachine, byOperator, edits, switches, faults>>
counts == <<edits, switches, faults>>
copies == <<local, remote, onMachine, byOperator>>
tables == <<recorded, registered>>

-----------------------------------------------------------------------------
(* Helpers *)

Copies == Contents \cup {Cut, Absent}
NoRun == [pc |-> "none", listed |-> FALSE, bytes |-> Absent]

Fault == faults < MaxFaults /\ faults' = faults + 1

\* The item is over: its status is committed.
End(s) == run' = NoRun /\ status' = s

PutRemote(content) ==
    /\ remote' = content
    /\ onMachine' = onMachine \cup {content}
    /\ byOperator' = FALSE

-----------------------------------------------------------------------------
(* People and the configuration *)

EditLocal ==
    /\ edits < MaxEdits /\ edits' = edits + 1
    /\ \E content \in Contents \cup {Absent} :
         content # local /\ local' = content
    /\ UNCHANGED <<remote, onMachine, byOperator, tables, direction, run,
                   status, switches, faults>>

EditRemote ==
    /\ edits < MaxEdits /\ edits' = edits + 1
    /\ \E content \in Contents \cup {Absent} :
         /\ content # remote
         /\ remote' = content
         /\ onMachine' = onMachine \cup ({content} \ {Absent})
    /\ byOperator' = (run.pc # "none")
    /\ UNCHANGED <<local, tables, direction, run, status, switches, faults>>

\* update_sync_config does not ask whether a run is active.
SwitchDirection ==
    /\ switches < MaxSwitches /\ switches' = switches + 1
    /\ direction' = IF direction = "upload" THEN "download" ELSE "upload"
    /\ UNCHANGED <<copies, tables, run, status, edits, faults>>

-----------------------------------------------------------------------------
(* A run reaches the file *)

\* The trigger found the file on either side; it may be gone again.  Only an
\* upload run lists the remote folder.
StartRun ==
    /\ run.pc = "none"
    /\ local # Absent \/ remote # Absent
    /\ run' = [pc |-> "item", bytes |-> Absent,
               listed |-> direction = "upload" /\ remote # Absent]
    /\ byOperator' = FALSE
    /\ UNCHANGED <<local, remote, onMachine, tables, direction, status, counts>>

Fail(pcs) ==
    /\ run.pc \in pcs
    /\ Fault
    /\ End("failed")
    /\ UNCHANGED <<copies, tables, direction, edits, switches>>

\* The process dies; the tables keep what was committed.
Crash ==
    /\ run.pc # "none"
    /\ Fault
    /\ run' = NoRun
    /\ UNCHANGED <<copies, tables, direction, status, edits, switches>>

-----------------------------------------------------------------------------
(* Upload *)

\* The listing has the name, and the local content is not the recorded one.
Conflicts == run.listed /\ recorded # local

LocalGone == local = Absent

\* _process_item up to the upload; validation happens in between.
TakeUpload ==
    /\ run.pc = "item" /\ direction = "upload"
    /\ IF LocalGone THEN End("failed")
       ELSE IF Conflicts THEN End("conflict")
       ELSE IF recorded = local THEN End("skipped")
       ELSE run' = [run EXCEPT !.pc = "uploading", !.bytes = local] /\ UNCHANGED status
    /\ UNCHANGED <<copies, tables, direction, counts>>

Upload ==
    /\ run.pc = "uploading"
    /\ PutRemote(run.bytes)
    /\ run' = [run EXCEPT !.pc = "uploaded"]
    /\ UNCHANGED <<local, tables, direction, status, counts>>

\* All retries fail.  The machine keeps the old copy, a cut one or, when only
\* the answer was lost, the new one.
UploadFails_recorded ==             \* defect: success of the upload is not checked
    /\ run.pc = "uploading"
    /\ Fault
    /\ recorded' = run.bytes
    /\ End("uploaded")
    /\ UNCHANGED <<copies, registered, direction, edits, switches>>
UploadFails ==
    /\ run.pc = "uploading"
    /\ Fault
    /\ End("failed")
    /\ \/ UNCHANGED <<remote, onMachine, byOperator>>
       \/ PutRemote(Cut)
       \/ PutRemote(run.bytes)
    /\ UNCHANGED <<local, tables, direction, edits, switches>>

\* upload_program commits the program and its deployment by itself.  The text is
\* made from the bytes that were sent.
Register ==
    /\ run.pc = "uploaded"
    /\ registered' = registered \cup {Decoded[run.bytes]}
    /\ run' = [run EXCEPT !.pc = "registered"]
    /\ UNCHANGED <<copies, recorded, direction, status, counts>>

\* Straight after the upload when auto_register is off.
RecordUpload ==
    /\ run.pc \in {"uploaded", "registered"}
    /\ recorded' = run.bytes
    /\ End(run.pc)
    /\ UNCHANGED <<copies, registered, direction, counts>>

-----------------------------------------------------------------------------
(* Download *)

Fetch ==
    /\ run.pc = "item" /\ direction = "download"
    /\ IF remote = Absent THEN End("failed")
       ELSE run' = [run EXCEPT !.pc = "fetched", !.bytes = remote] /\ UNCHANGED status
    /\ UNCHANGED <<copies, tables, direction, counts>>

Unchanged == recorded = run.bytes /\ local = run.bytes

LocalModified_never == FALSE        \* defect: edits of the local copy are not seen
\* The local copy differs from what came and is not what was last synced.
LocalModified == local \notin {Absent, run.bytes, recorded}

\* The comparison and the write are one step; the commit may fail after it.
Store ==
    /\ run.pc = "fetched"
    /\ IF local # Absent /\ Unchanged
         THEN End("skipped") /\ UNCHANGED <<local, recorded, faults>>
       ELSE IF LocalModified
         THEN End("conflict") /\ UNCHANGED <<local, recorded, faults>>
       ELSE /\ local' = run.bytes
            /\ \/ recorded' = run.bytes /\ End("downloaded") /\ UNCHANGED faults
               \/ Fault /\ End("failed") /\ UNCHANGED recorded
    /\ UNCHANGED <<remote, onMachine, byOperator, registered, direction,
                   edits, switches>>

-----------------------------------------------------------------------------

Init ==
    /\ local \in Contents \cup {Absent}
    /\ remote \in Contents \cup {Absent}
    /\ recorded = Absent /\ registered = {}
    /\ direction \in {"upload", "download"}
    /\ run = NoRun /\ status = "queued"
    /\ onMachine = {remote} \ {Absent}
    /\ byOperator = FALSE
    /\ edits = 0 /\ switches = 0 /\ faults = 0

Next ==
    \/ EditLocal \/ EditRemote \/ SwitchDirection
    \/ StartRun \/ Fail({"item", "uploading", "uploaded", "registered"}) \/ Crash
    \/ TakeUpload \/ Upload \/ UploadFails \/ Register \/ RecordUpload
    \/ Fetch \/ Store

Spec == Init /\ [][Next]_vars

\* The configuration is triggered again and again, and runs go on.
FairSpec ==
    /\ Spec
    /\ WF_vars(StartRun) /\ WF_vars(TakeUpload) /\ WF_vars(Upload)
    /\ WF_vars(Register) /\ WF_vars(RecordUpload)
    /\ WF_vars(Fetch) /\ WF_vars(Store)

-----------------------------------------------------------------------------
(* Properties *)

(* The values of the copies, of the tables and of the run, which holds bytes  *)
(* exactly while it transfers or has transferred them.                        *)
TypeOK ==
    /\ local \in Copies /\ remote \in Copies /\ recorded \in Copies
    /\ registered \subseteq Texts
    /\ direction \in {"upload", "download"}
    /\ run \in [pc : {"none", "item", "uploading", "uploaded", "registered",
                      "fetched"},
                listed : BOOLEAN, bytes : Copies]
    /\ run.pc \in {"none", "item"} <=> run.bytes = Absent
    /\ status \in {"queued", "failed", "conflict", "skipped", "uploaded",
                   "registered", "downloaded"}
    /\ onMachine \subseteq Contents \cup {Cut}
    /\ byOperator \in BOOLEAN
    /\ edits \in 0..MaxEdits /\ switches \in 0..MaxSwitches
    /\ faults \in 0..MaxFaults

(* A hash is recorded only for content the machine really had, and a program  *)
(* registered only with the text of such a content (its bytes, if they are    *)
(* UTF-8), whatever failed, crashed or changed direction on the way.          *)
RecordsAreReal ==
    /\ recorded \in onMachine \cup {Absent}
    /\ registered \subseteq {Decoded[content] : content \in onMachine}

(* A download never destroys a local copy the machine has not had: somebody's *)
(* work on the local file survives every run, also after a change of          *)
(* direction or a commit that failed.                                         *)
LocalWorkKept ==
    [][run.pc = "fetched" /\ local' # local /\ run'.pc = "none"
        => local \in onMachine \cup {Absent}]_vars

(* An upload replaces a copy on the machine only if that copy was put there   *)
(* after the run listed the folder, or the run began in the other direction   *)
(* and did not list it.                                                       *)
ListedCopyKept ==
    [][run.pc = "uploading" /\ remote' # remote /\ remote # Absent
        /\ switches = 0 /\ UNCHANGED edits
        => byOperator]_vars

(* What the conflict policy is for and the stale listing breaks: an upload    *)
(* never replaces a copy somebody else put on the machine.                    *)
RemoteWorkKept ==
    [][run.pc = "uploading" /\ remote' # remote /\ UNCHANGED edits
        => remote = Absent]_vars

(* What the message of a conflict says ("Remote file exists with unknown or   *)
(* different hash") and the code does not look at: the copy on the machine is *)
(* neither the recorded nor the local one.                                    *)
ConflictMeansForeign ==
    [][run.pc = "item" /\ status' = "conflict" /\ run'.pc = "none"
        => remote \notin {recorded, local}]_vars

(* A download configuration settles: the copies agree or the conflict is      *)
(* reported, once nobody removes the file from the machine.                   *)
DownloadsSettle ==
    <>[](direction = "download" /\ remote # Absent)
        => <>(local = remote \/ status = "conflict")
=============================================================================
