-------------------------------- MODULE Files --------------------------------
(* The screens that deal with files. They share the address and the lists in *)
(* sessionStorage, and one of them is mounted: the page of all machines, the *)
(* pane of one, or the card of one with its upload dialog, which leads to    *)
(* the page.                                                                 *)
EXTENDS FileManagerPane, UploadModal

VARIABLE screen

FilesInit ==
    \/ /\ screen = "page" /\ Init
       /\ dialog = None /\ sent = {} /\ recorded = {} /\ started = 0
    \/ /\ screen = "pane" /\ PaneInit
       /\ dialog = None /\ sent = {} /\ recorded = {} /\ started = 0
    \/ screen = "card" /\ DialogInit

\* A list that the dialog has asked for is stored although the page has come.
FilesNext ==
    \/ screen = "page" /\ Next /\ UNCHANGED <<screen, dialogVars>>
    \/ screen = "pane" /\ PaneNext /\ UNCHANGED <<screen, dialogVars>>
    \/ screen = "card" /\ DialogNext /\ UNCHANGED screen
    \/ screen = "card" /\ handleGoToFileManager /\ screen' = "page"
    \/ dialog # None /\ PrefetchArrives /\ UNCHANGED screen

filesVars == <<vars, dialogVars, screen>>

FilesSpec == FilesInit /\ [][FilesNext]_filesVars

-----------------------------------------------------------------------------
(* Properties                                                                *)

Here == <<page.machine, page.path>>

\* The rows and the selected file of the page are of the machine and the
\* directory it names once that is known, whatever order the answers come in and
\* whatever is stored.
ListMatches ==
    screen = "page" /\ page.path # None /\ ~page.pathLoading =>
      /\ page.list.of \in {Here, NoList.of}
      /\ page.selected # None => page.selected.of = Here

\* In the pane, only the list that an upload asks for is put in the place of
\* another directory's.
PaneListMatches ==
    [][screen = "pane" /\ page'.list.of # page.list.of =>
         \/ page'.list.of \in {Here', NoList.of}
         \/ \E r \in Answer("relist") : page'.list.of = <<r.m, r.p>>]_filesVars

\* Neither screen stays loading or empty: what it waits for has been asked for
\* and not been cancelled, or it shows its directory or an error.
AnswerIsDue ==
    page.machine # None =>
      IF page.pathLoading THEN \E r \in Answer("path") : r.m = page.machine
      ELSE \/ \E r \in Answer("programs") : page.loading /\ <<r.m, r.p>> = Here
           \/ ~page.loading /\ (page.error \/ screen = "pane" \/ page.list.of = Here)

\* A file that the address asks for ends up selected, if the machine has it and
\* the user leaves the screen alone.
LinkedFileSelected ==
    page.requests = {} /\ clicks = 0 /\ link.f # None /\ link.f \in Listed(page)
      => page.selected # None /\ page.selected.f = link.f

\* What the dialog waits for is under way, so that it never stays busy, and the
\* success it announces is of a file that the machine and the database have,
\* however often it was closed and opened before the answers came.
DialogHonest ==
    screen = "card" =>
      /\ dialog.validating => Pending("check") # {}
      /\ dialog.loading => Pending("number") # {}
      /\ dialog.uploading => Pending("upload") \cup Pending("record") # {}
      /\ dialog.success => dialog.deployed \in sent \cap recorded /\ dialog.countdown > 0
=============================================================================
