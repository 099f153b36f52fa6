----------------------------- MODULE UploadModal -----------------------------
(* The upload of a program from a machine's card: the file is checked, the   *)
(* dialog opens with the results and asks for a free O-number, the file is   *)
(* sent to the machine and then recorded (UploadConfirmationModal.tsx, and   *)
(* the part of MachineCard.tsx that owns the dialog).                        *)
(*                                                                           *)
(* The dialog can be closed with its frame at any time, and nothing under    *)
(* way is cancelled then. A file's content is its name. The rows of the      *)
(* results are in Validation; what a number replaces is left out.            *)
EXTENDS FileBrowser

CONSTANTS Cards,       \* the machines whose cards are looked at
          Numbers,     \* the O-numbers there are
          FirstNumber, \* the one assumed when none can be had
          Countdown,   \* 5 seconds, until a success closes itself
          MaxUploads   \* bound on the uploads started

ASSUME CardsAssumption == Cards \subseteq Machines /\ Countdown \in Nat \ {0}

VARIABLES
    dialog,   \* the state of the card and its dialog, and what is under way
    sent,     \* the uploads the machine took: number, content
    recorded, \* the uploads the database took
    started

dialogVars == <<dialog, sent, recorded, started>>

-----------------------------------------------------------------------------
Pending(kind) == {r \in dialog.requests : r.kind = kind}
Ask(d, r) == [d EXCEPT !.requests = @ \cup {r}]
Answered(d, r) == [d EXCEPT !.requests = @ \ {r}]

\* When it closes, all but the loading of the number.
Reset(d) == [d EXCEPT !.number = FirstNumber, !.uploading = FALSE, !.error = FALSE,
                      !.success = FALSE, !.deployed = None, !.countdown = 0]

\* The card forgets the file with its dialog.
onClose(d) == [Reset(d) EXCEPT !.open = FALSE, !.result = None, !.filename = None, !.content = None]

Dialog(d) == dialog' = d /\ UNCHANGED <<link, page, clicks>>

-----------------------------------------------------------------------------
(* The card                                                                  *)

\* The file is kept before it is checked.
CardFileSelect(f) ==
    /\ ~dialog.open /\ ~dialog.validating
    /\ Dialog(Ask([dialog EXCEPT !.filename = f, !.content = f, !.validating = TRUE],
                  [kind |-> "check", f |-> f]))
    /\ UNCHANGED <<store, sent, recorded, started>>

\* With results the dialog opens and asks for the number.
CheckArrives ==
    /\ \E r \in Pending("check") :
         LET d == [Answered(dialog, r) EXCEPT !.validating = FALSE]
         IN \/ Dialog(Ask([d EXCEPT !.result = r.f, !.open = TRUE, !.loading = TRUE],
                          [kind |-> "number", f |-> dialog.filename]))
            \/ Dialog([d EXCEPT !.content = None])
    /\ UNCHANGED <<store, sent, recorded, started>>

-----------------------------------------------------------------------------
(* The dialog                                                                *)

\* The answer is for whatever the dialog shows now.
fetchNextONumber ==
    /\ \E r \in Pending("number") :
         LET d == [Answered(dialog, r) EXCEPT !.loading = FALSE]
         IN \/ \E n \in Numbers : Dialog([d EXCEPT !.number = n])
            \/ Dialog([d EXCEPT !.number = FirstNumber])
    /\ UNCHANGED <<store, sent, recorded, started>>

\* The buttons of the footer. The frame closes the dialog at any time.
Footer ==
    IF ~dialog.open THEN {}
    ELSE IF dialog.success /\ dialog.deployed # None THEN {"close", "go"}
    ELSE {b \in {"cancel", "upload", "type"} :
            /\ ~dialog.uploading
            /\ b = "upload" => ~dialog.loading /\ dialog.number # ""
            /\ b = "type" => ~dialog.loading}

TypeNumber(n) ==
    /\ "type" \in Footer
    /\ n # dialog.number
    /\ Dialog([dialog EXCEPT !.number = n])
    /\ UNCHANGED <<store, sent, recorded, started>>

performUpload ==
    /\ "upload" \in Footer
    /\ started < MaxUploads /\ started' = started + 1
    /\ IF dialog.content = None THEN Dialog([dialog EXCEPT !.error = TRUE])
       ELSE Dialog(Ask([dialog EXCEPT !.uploading = TRUE, !.error = FALSE],
                       [kind |-> "upload", f |-> dialog.content, n |-> dialog.number, id |-> started]))
    /\ UNCHANGED <<store, sent, recorded>>

UploadFails(r) == Dialog([Answered(dialog, r) EXCEPT !.error = TRUE, !.uploading = FALSE])

\* The machine has the file, or the transfer failed.
TransferEnds ==
    /\ \E r \in Pending("upload") :
         \/ /\ sent' = sent \cup {[n |-> r.n, f |-> r.f]}
            /\ Dialog(Ask(Answered(dialog, r), [r EXCEPT !.kind = "record"]))
         \/ UploadFails(r) /\ UNCHANGED sent
    /\ UNCHANGED <<store, recorded, started>>

\* defect: nothing ends the upload when it could not be recorded
RecordEnds_stuck ==
    /\ \E r \in Pending("record") :
         \/ /\ recorded' = recorded \cup {[n |-> r.n, f |-> r.f]}
            /\ Dialog(Ask([Answered(dialog, r) EXCEPT
                             !.success = TRUE, !.deployed = [n |-> r.n, f |-> r.f],
                             !.countdown = Countdown, !.uploading = FALSE],
                          [kind |-> "prefetch", f |-> r.f]))
         \/ Dialog([Answered(dialog, r) EXCEPT !.error = TRUE]) /\ UNCHANGED recorded
    /\ UNCHANGED <<store, sent, started>>

\* Recorded, the success is shown, and the new list of the directory is fetched.
RecordEnds ==
    /\ \E r \in Pending("record") :
         \/ /\ recorded' = recorded \cup {[n |-> r.n, f |-> r.f]}
            /\ Dialog(Ask([Answered(dialog, r) EXCEPT
                             !.success = TRUE, !.deployed = [n |-> r.n, f |-> r.f],
                             !.countdown = Countdown, !.uploading = FALSE],
                          [kind |-> "prefetch", f |-> r.f]))
         \/ UploadFails(r) /\ UNCHANGED recorded
    /\ UNCHANGED <<store, sent, started>>

\* It is stored for the file page, whoever is shown by then.
PrefetchArrives ==
    /\ \E r \in Pending("prefetch") :
         /\ Dialog(Answered(dialog, r))
         /\ \/ store' = store \cup {<<dialog.machine, Default[dialog.machine]>>}
            \/ UNCHANGED store
    /\ UNCHANGED <<sent, recorded, started>>

\* The seconds pass although the dialog is closed, and close another one.
Tick ==
    /\ dialog.success /\ dialog.countdown > 0
    /\ Dialog(IF dialog.countdown = 1 THEN onClose(dialog)
              ELSE [dialog EXCEPT !.countdown = @ - 1])
    /\ UNCHANGED <<store, sent, recorded, started>>

\* The frame's cross, its overlay or Escape, and the buttons of the footer.
handleClose ==
    /\ dialog.open
    /\ Dialog(onClose(dialog))
    /\ UNCHANGED <<store, sent, recorded, started>>

\* The file page is opened for the number in the dialog.
handleGoToFileManager ==
    /\ "go" \in Footer
    /\ dialog' = onClose(dialog)
    /\ link' = [m |-> dialog.machine, f |-> dialog.number, p |-> None]
    /\ page' = Empty
    /\ clicks' = MaxClicks
    /\ UNCHANGED <<store, sent, recorded, started>>

-----------------------------------------------------------------------------
DialogInit ==
    /\ link = [m |-> None, f |-> None, p |-> None]
    /\ page = Empty
    /\ store = {}
    /\ clicks = 0
    /\ \E m \in Cards :
         dialog = [machine |-> m, filename |-> None, content |-> None, result |-> None,
                   open |-> FALSE, validating |-> FALSE, number |-> FirstNumber,
                   loading |-> FALSE, uploading |-> FALSE, error |-> FALSE,
                   success |-> FALSE, deployed |-> None, countdown |-> 0, requests |-> {}]
    /\ sent = {} /\ recorded = {} /\ started = 0

DialogNext ==
    \/ \E f \in Files : CardFileSelect(f)
    \/ CheckArrives
    \/ fetchNextONumber
    \/ \E n \in Numbers \cup {""} : TypeNumber(n)
    \/ performUpload
    \/ TransferEnds \/ RecordEnds
    \/ Tick
    \/ handleClose

DialogSpec == DialogInit /\ [][DialogNext \/ PrefetchArrives]_<<vars, dialogVars>>
=============================================================================
