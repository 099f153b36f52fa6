--------------------------- MODULE FileManagerPane ---------------------------
(* The file manager of one machine, a pane of its card and of the tablet     *)
(* (components/machine-detail/FileManagerPane.tsx). It grew out of the file  *)
(* page and keeps the same state: what is not said here is that page's.      *)
(* Three things differ. The file that the address names is selected again    *)
(* whenever the number of rows or their loading changes. A new path fetches  *)
(* for the file that was selected before. And files are uploaded from here.  *)
EXTENDS FileBrowser

CONSTANT Opened  \* the machines whose pane is looked at

ASSUME OpenedAssumption == Opened \subseteq Machines

-----------------------------------------------------------------------------
(* Effects                                                                   *)

PanePreview(s, f) == fetchFilePreview(s, f)

\* Its note is for the row of the selected file, wherever it was fetched from.
PaneMetadata(s, f) ==
    IF s.path = None THEN s
    ELSE Fetch(s, {[Request("metadata", s.machine, s.path, f) EXCEPT !.d = s.selected.of[2]]})

PaneDetail(s, f) == fetchDeploymentDetail(s, f)

PaneSelectedDeployment(s, id) == fetchSelectedDeploymentDetails(s, id)

PaneHistoryEffect(old, s) ==
    LET history(x) == IF x.detail = None THEN None ELSE x.detail.history
    IN IF (old.picked = s.picked /\ history(old) = history(s)) \/ s.detail = None THEN s
       ELSE PaneSelectedDeployment(s, IF s.picked # None THEN s.picked ELSE "current")

\* What is fetched for a file, or what is cleared.
About(s) ==
    LET cleared == [s EXCEPT !.fresh = None, !.picked = None]
        f == s.selected.f
        asked == PaneMetadata(PanePreview(cleared, f), f)
    IN IF s.selected = None \/ f \notin NC
       THEN [cleared EXCEPT !.preview = None, !.detail = None]
       ELSE IF f \in ONumber THEN PaneDetail(asked, f)
       ELSE [asked EXCEPT !.detail = None]

\* A new path comes with the old selection, which is dropped a moment later.
PaneSelectionEffect(old, s) ==
    LET stray == About([s EXCEPT !.selected = old.selected])
        moved == old.path # s.path /\ old.selected # None
        t == IF moved THEN [stray EXCEPT !.selected = s.selected] ELSE s
    IN IF t.selected = old.selected THEN t ELSE About(t)

\* The file of the address.
LinkEffect(old, s) ==
    LET changed == old.loading # s.loading \/ Cardinality(Listed(old)) # Cardinality(Listed(s))
    IN IF changed /\ link.f # None /\ ~s.loading /\ link.f \in Listed(s)
       THEN [s EXCEPT !.selected = [f |-> link.f, of |-> s.list.of]] ELSE s

\* The rows of a new path, or of the same one fetched anew.
\* defect: a list is stored under the machine alone
PaneProgramsEffect_anyPath(old, s) ==
    LET stored == {p \in Paths : <<s.machine, p>> \in store}
    IN IF s.path # old.path /\ stored # {}
       THEN [s EXCEPT !.list = [of |-> <<s.machine, CHOOSE p \in stored : TRUE>>, notes |-> {}],
                      !.loading = FALSE, !.selected = None]
       ELSE ProgramsEffect(old, s)

PaneProgramsEffect(old, s) == ProgramsEffect(old, s)

PaneRender(old, s) ==
    LET a == LinkEffect(old, PaneProgramsEffect(old, s))
    IN PaneHistoryEffect(old, PaneSelectionEffect(old, a))

-----------------------------------------------------------------------------
(* Answers                                                                   *)

PaneBecomes(s) == page' = PaneRender(page, s) /\ UNCHANGED <<link, store, clicks>>

\* The path is the one the machine is configured with, whatever the address says.
PanePathArrives ==
    \E r \in Answer("path"), ok \in BOOLEAN :
      PaneBecomes([Done(page, r) EXCEPT !.pathLoading = FALSE,
                                        !.path = IF ok THEN Default[r.m] ELSE Root])

PaneProgramsArrive ==
    \E r \in Answer("programs"), ok \in BOOLEAN :
      PaneBecomes([Done(page, r) EXCEPT !.loading = FALSE,
                     !.list = IF ok THEN [of |-> <<r.m, r.p>>, notes |-> {}] ELSE @,
                     !.error = IF ok THEN @ ELSE TRUE])

PaneBadgesArrive ==
    \E r \in Answer("badges"), ok \in BOOLEAN :
      PaneBecomes([Done(page, r) EXCEPT !.badges = IF ok THEN r.m ELSE None])

PanePreviewArrives ==
    \E r \in Answer("preview"), ok \in BOOLEAN :
      PaneBecomes([Done(page, r) EXCEPT !.preview = IF ok THEN <<r.m, r.p, r.f>> ELSE None])

PaneMetadataArrives ==
    \E r \in Answer("metadata"), ok \in BOOLEAN :
      PaneBecomes([Done(page, r) EXCEPT
                     !.list.notes = IF ok /\ r.d = page.list.of[2] /\ r.f \in Listed(page)
                                    THEN {n \in @ : n[1] # r.f} \cup {<<r.f, r.m>>} ELSE @])

PaneDetailArrives ==
    \E r \in Answer("detail") \cup Answer("validated"), found \in BOOLEAN :
      LET s == [Done(page, r) EXCEPT !.seq = IF found THEN @ + 1 ELSE @,
                  !.detail = IF found THEN [of |-> <<r.m, r.f>>, history |-> page.seq,
                                            shows |-> "current"] ELSE None]
      IN PaneBecomes(IF r.kind = "detail" THEN s
                     ELSE [s EXCEPT !.fresh = None, !.validating = FALSE])

PaneDeploymentArrives(f) ==
    \E r \in Answer("deployment") :
      /\ r.d.of[2] = f
      /\ \/ PaneBecomes([Done(page, r) EXCEPT !.detail = [r.d EXCEPT !.shows = r.f]])
         \/ PaneBecomes(Done(page, r))

PaneViewArrives ==
    \E r \in Answer("view") :
      \/ PaneBecomes([Done(page, r) EXCEPT !.view = <<r.m, r.p, r.f>>])
      \/ PaneBecomes([Done(page, r) EXCEPT !.error = TRUE])

PaneDownloadArrives ==
    \E r \in Answer("download"), ok \in BOOLEAN :
      PaneBecomes([Done(page, r) EXCEPT !.error = IF ok THEN @ ELSE TRUE])

PaneValidateArrives ==
    \E r \in Answer("validate") :
      \/ PaneBecomes(Fetch([Done(page, r) EXCEPT !.fresh = <<r.m, r.p, r.f>>],
                           {Request("deploy", r.m, r.p, r.f)}))
      \/ PaneBecomes([Done(page, r) EXCEPT !.validating = FALSE])

PaneDeployArrives ==
    \E r \in Answer("deploy") :
      \/ /\ store' = store \ {<<r.m, r.p>>}
         /\ page' = PaneHistoryEffect(page, PaneSelectionEffect(page, LinkEffect(page, Recorded(r))))
         /\ UNCHANGED <<link, clicks>>
      \/ PaneBecomes([Done(page, r) EXCEPT !.validating = FALSE])

\* The directory is listed anew after an upload, for the path it was made to.
UploadArrives ==
    \E r \in Answer("upload") :
      \/ PaneBecomes(Fetch([Done(page, r) EXCEPT !.error = FALSE],
                           {Request("relist", r.m, r.p, None)}))
      \/ PaneBecomes([Done(page, r) EXCEPT !.error = TRUE])

RelistArrives ==
    \E r \in Answer("relist"), ok \in BOOLEAN :
      PaneBecomes([Done(page, r) EXCEPT
                     !.list = IF ok THEN [of |-> <<r.m, r.p>>, notes |-> {}] ELSE @])

-----------------------------------------------------------------------------
(* The user                                                                  *)

\* The table is there unless the page is loading, shows an error or has no file.
PaneRows == IF page.loading \/ page.error THEN {} ELSE Listed(page)

PaneRowActions(f) ==
    {a \in {"download", "view", "validate"} :
       f \in PaneRows /\ (a = "view" => f \in NC) /\ (a = "validate" => f \in ONumber)}

PaneDetailActions(f) ==
    {a \in {"download", "view", "validate"} :
       /\ page.selected # None /\ page.selected.f = f
       /\ (a = "view" => f \in NC) /\ (a = "validate" => f \in ONumber /\ ~page.validating)}

PaneHistoryOffered ==
    /\ page.selected # None /\ page.selected.f \in ONumber
    /\ page.detail # None /\ page.fresh = None

PaneClick(s) ==
    /\ clicks < MaxClicks /\ Cardinality(page.requests) <= MaxBusy
    /\ clicks' = clicks + 1
    /\ page' = PaneRender(page, s)
    /\ UNCHANGED <<link, store>>

PaneItemClick(f) ==
    \/ /\ f = Dir /\ page.path = Root /\ PaneRows # {}
       /\ PaneClick([page EXCEPT !.path = Dir])
    \/ /\ f = ".." /\ page.path = Dir /\ PaneRows # {}
       /\ PaneClick([page EXCEPT !.path = Root])
    \/ /\ f \in PaneRows
       /\ PaneClick([page EXCEPT !.selected = [f |-> f, of |-> page.list.of]])

PaneDownload(f) ==
    /\ "download" \in PaneRowActions(f) \cup PaneDetailActions(f) /\ page.path # None
    /\ PaneClick(Fetch(page, {Request("download", page.machine, page.path, f)}))

PaneViewCode(f) ==
    /\ "view" \in PaneRowActions(f) \cup PaneDetailActions(f) /\ page.path # None
    /\ PaneClick(Fetch(page, {Request("view", page.machine, page.path, f)}))

PaneCloseView ==
    /\ page.view # None
    /\ PaneClick([page EXCEPT !.view = None])

PaneValidate(f) ==
    /\ "validate" \in PaneRowActions(f) \cup PaneDetailActions(f) /\ page.path # None
    /\ PaneClick(Fetch([page EXCEPT !.validating = TRUE, !.fresh = None],
                       {Request("validate", page.machine, page.path, f)}))

PanePickDeployment(id) ==
    /\ PaneHistoryOffered /\ page.picked # id
    /\ PaneClick([page EXCEPT !.picked = id])

\* The button is there in every state of the pane.
handleFileSelect(f) ==
    /\ page.path # None
    /\ PaneClick(Fetch([page EXCEPT !.error = FALSE],
                       {Request("upload", page.machine, page.path, f)}))

-----------------------------------------------------------------------------
PaneInit ==
    /\ link \in Links
    /\ \E m \in Opened :
         page = [Empty EXCEPT !.machine = m, !.pathLoading = TRUE, !.loading = FALSE,
                   !.requests = {Request("path", m, None, None), Request("badges", m, None, None)}]
    /\ store \in Stores
    /\ clicks = 0

PaneAnswers ==
    \/ PanePathArrives \/ PaneProgramsArrive \/ PaneBadgesArrive
    \/ PanePreviewArrives \/ PaneMetadataArrives \/ PaneDetailArrives
    \/ PaneViewArrives \/ PaneDownloadArrives \/ PaneValidateArrives \/ PaneDeployArrives
    \/ UploadArrives \/ RelistArrives

PaneNext ==
    \/ PaneAnswers
    \/ \E f \in Files : PaneDeploymentArrives(f)
    \/ \E f \in Files \cup {Dir, ".."} : PaneItemClick(f)
    \/ \E f \in Files : PaneDownload(f) \/ PaneViewCode(f) \/ PaneValidate(f) \/ handleFileSelect(f)
    \/ PaneCloseView
    \/ \E id \in {None, "older"} : PanePickDeployment(id)
    \/ Expire
=============================================================================
