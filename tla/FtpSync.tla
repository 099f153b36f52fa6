------------------------------ MODULE FtpSync ------------------------------
(* FtpSyncService: its runs (FtpSyncRuns), and what they do to one file      *)
(* (FtpSyncFile). Each is modelled with the other one left open - an item of *)
(* a run ends in any way, and a file is taken up whenever a run may - so     *)
(* they share no state and one of them is looked at.                         *)
EXTENDS FtpSyncFile, FtpSyncRuns

VARIABLE part

\* While the runs are looked at there is no file.
SyncInit ==
    /\ Init /\ RunsInit
    /\ \/ part = "runs" /\ local = Absent /\ remote = Absent /\ direction = "upload"
       \/ part = "file"

SyncNext ==
    /\ UNCHANGED part
    /\ \/ part = "runs" /\ RunsNext /\ UNCHANGED vars
       \/ part = "file" /\ Next /\ UNCHANGED runsVars

SyncSpec == SyncInit /\ [][SyncNext]_<<vars, runsVars, part>>

FairSyncSpec == SyncSpec /\ RunsFairness
=============================================================================
