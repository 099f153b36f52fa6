----------------------------- MODULE FileBrowser -----------------------------
(* The file page (src/frontend/src/pages/FileBrowser.tsx): a machine, one of *)
(* its directories, the list of its files, and what is fetched about the     *)
(* file that is selected. Answers come in any order, and only the requests   *)
(* for the path, the list and the deployments are cancelled when they are    *)
(* no longer wanted.                                                         *)
(*                                                                           *)
(* A rendering with the effects it triggers is one step. Two directories     *)
(* stand for the tree. Spinners, scrolling and texts are left out, and so is *)
(* handleFileSelect (666-748): nothing on this page opens its hidden input.  *)
EXTENDS Naturals, FiniteSets

CONSTANTS Machines, Files, NC, ONumber,   \* NC and ONumber: files with such names
          Disk,                           \* the files of each machine and path
          Default,                        \* the path a machine is configured with
          Links,                          \* what the address may ask for
          Stores,                         \* the lists that may be stored
          None,                           \* no value
          MaxClicks,                      \* bound on what the user does
          MaxBusy                         \* and on the requests under way while they do it

Root == "root"
Dir == "dir"
Paths == {Root, Dir}

ASSUME PathsAssumption ==
    /\ None \notin Machines \cup Paths
    /\ Default \in [Machines -> Paths]
    /\ Links \subseteq [m : Machines \cup {None}, f : Files \cup {None}, p : Paths \cup {None}]

\* The application's own links name the machine with the file.
ASSUME LinksAssumption == \A l \in Links : l.f # None => l.m # None

\* A directory is finite, and a selected file is a value.
ASSUME DiskAssumption ==
    \A m \in Machines, p \in Paths :
      /\ IsFiniteSet(Disk[m][p])
      /\ \A f \in Disk[m][p] : [f |-> f, of |-> <<m, p>>] # None

ASSUME ClicksAssumption == MaxClicks \in Nat

VARIABLES
    link,   \* the address: machine, file and path, or None
    page,   \* the state of the component and its requests under way
    store,  \* the lists in sessionStorage that are younger than a minute
    clicks

vars == <<link, page, store, clicks>>

-----------------------------------------------------------------------------
(* Requests, with the values their closure holds                             *)

Request(kind, m, p, f) == [kind |-> kind, m |-> m, p |-> p, f |-> f, d |-> None]

Fetch(s, rs) == [s EXCEPT !.requests = @ \cup rs]

\* defect: no effect cancels what it has asked for
Abort_none(s, kinds) == s

Abort(s, kinds) == [s EXCEPT !.requests = {r \in @ : r.kind \notin kinds}]
Done(s, r) == [s EXCEPT !.requests = @ \ {r}]

NoList == [of |-> <<None, None>>, notes |-> {}]
Listed(s) == IF s.list = NoList THEN {} ELSE Disk[s.list.of[1]][s.list.of[2]]

-----------------------------------------------------------------------------
(* Effects                                                                   *)

fetchFilePreview(s, f) ==
    IF s.path = None THEN s ELSE Fetch(s, {Request("preview", s.machine, s.path, f)})

fetchFileMetadata(s, f) ==
    IF s.path = None THEN s ELSE Fetch(s, {Request("metadata", s.machine, s.path, f)})

fetchDeploymentDetail(s, f) == Fetch(s, {Request("detail", s.machine, None, f)})

\* The details of one deployment, to be put into the detail shown now.
fetchSelectedDeploymentDetails(s, id) ==
    Fetch(s, {[Request("deployment", s.machine, None, id) EXCEPT !.d = s.detail]})

\* A new choice in the history, or a new history: the chosen or the current one.
HistoryEffect(old, s) ==
    LET history(x) == IF x.detail = None THEN None ELSE x.detail.history
    IN IF (old.picked = s.picked /\ history(old) = history(s)) \/ s.detail = None THEN s
       ELSE fetchSelectedDeploymentDetails(s, IF s.picked # None THEN s.picked ELSE "current")

\* What is fetched for a file that is selected, and what is cleared.
SelectionEffect(old, s) ==
    LET cleared == [s EXCEPT !.fresh = None]
        f == s.selected.f
        asked == fetchFileMetadata(fetchFilePreview(cleared, f), f)
    IN IF s.selected = old.selected THEN s
       ELSE IF s.selected = None \/ f \notin NC
       THEN [cleared EXCEPT !.preview = None, !.detail = None, !.picked = None]
       ELSE IF f \in ONumber THEN fetchDeploymentDetail([asked EXCEPT !.picked = None], f)
       ELSE [asked EXCEPT !.detail = None, !.picked = None]

\* The file the address asks for is selected when a list that has it is there.
\* It is looked for when the list's length, loading or the file itself changes.
\* defect: the rows are looked at only when the file is asked for
PendingEffect_once(old, s) ==
    IF old.wanted # s.wanted /\ s.wanted # None /\ ~s.loading /\ s.wanted \in Listed(s)
    THEN [s EXCEPT !.selected = [f |-> s.wanted, of |-> s.list.of], !.wanted = None] ELSE s

PendingEffect(old, s) ==
    LET changed == old.wanted # s.wanted \/ old.loading # s.loading
                   \/ Cardinality(Listed(old)) # Cardinality(Listed(s))
    IN IF changed /\ s.wanted # None /\ ~s.loading /\ s.wanted \in Listed(s)
       THEN [s EXCEPT !.selected = [f |-> s.wanted, of |-> s.list.of], !.wanted = None]
       ELSE s

\* A fresh list from the store is shown at once, another one is fetched.
ShowPrograms(s) ==
    LET key == <<s.machine, s.path>>
        empty == [s EXCEPT !.list = NoList, !.loading = TRUE, !.error = FALSE, !.selected = None]
    IN IF s.path = None \/ s.pathLoading THEN s
       ELSE IF key \in store
       THEN [s EXCEPT !.list = [of |-> key, notes |-> {}], !.loading = FALSE,
                      !.error = FALSE, !.selected = None]
       ELSE Fetch(empty, {Request("programs", s.machine, s.path, None)})

ProgramsEffect(old, s) ==
    IF <<old.machine, old.path, old.pathLoading, old.refresh>>
       = <<s.machine, s.path, s.pathLoading, s.refresh>>
    THEN s ELSE ShowPrograms(Abort(s, {"programs"}))

\* Everything that follows from a new state.
Render(old, s) ==
    LET a == ProgramsEffect(old, s)
        b == PendingEffect(old, a)
        c == SelectionEffect(old, b)
    IN HistoryEffect(old, c)

\* The address names a machine and a file: the machine is forced.
DeepLink(m) == IF link.m # None /\ link.f # None THEN link.m ELSE m

\* Another machine: its path is asked for, and which of its files are deployed.
\* The list is looked for under the old path first, before that is cleared.
MachineEffects(s, m) ==
    LET to == DeepLink(m)
        shown == ShowPrograms([Abort(s, {"programs"}) EXCEPT !.machine = m])
        t == Abort(shown, {"path", "programs", "badges"})
    IN Fetch([t EXCEPT !.machine = to, !.path = None, !.pathLoading = TRUE,
                       !.wanted = IF link.m # None /\ link.f # None THEN link.f ELSE @],
             {Request("path", to, None, None), Request("badges", to, None, None)})

-----------------------------------------------------------------------------
(* Answers                                                                   *)

Answer(kind) == {r \in page.requests : r.kind = kind}
Becomes(s) == page' = Render(page, s) /\ UNCHANGED <<link, clicks>>

\* The machines are there: the first one is chosen.
MachinesArrive ==
    /\ \E r \in Answer("machines") :
         \/ \E m \in Machines : Becomes(MachineEffects(Done(page, r), m))
         \/ Becomes(Done(page, r))
    /\ UNCHANGED store

\* defect: a failure is not caught
PathArrives_uncaught ==
    /\ \E r \in Answer("path"), ok \in BOOLEAN :
         Becomes(IF ok THEN [Done(page, r) EXCEPT !.pathLoading = FALSE, !.path = Default[r.m]]
                 ELSE Done(page, r))
    /\ UNCHANGED store

PathArrives ==
    /\ \E r \in Answer("path"), ok \in BOOLEAN :
         Becomes([Done(page, r) EXCEPT !.pathLoading = FALSE,
                    !.path = IF ~ok THEN Root
                             ELSE IF link.m = r.m /\ link.p # None THEN link.p ELSE Default[r.m]])
    /\ UNCHANGED store

ProgramsArrive ==
    /\ \E r \in Answer("programs"), ok \in BOOLEAN :
         Becomes([Done(page, r) EXCEPT !.loading = FALSE,
                    !.list = IF ok THEN [of |-> <<r.m, r.p>>, notes |-> {}] ELSE @,
                    !.error = IF ok THEN @ ELSE TRUE])
    /\ UNCHANGED store

BadgesArrive ==
    /\ \E r \in Answer("badges"), ok \in BOOLEAN :
         Becomes([Done(page, r) EXCEPT !.badges = IF ok THEN r.m ELSE None])
    /\ UNCHANGED store

PreviewArrives ==
    /\ \E r \in Answer("preview"), ok \in BOOLEAN :
         Becomes([Done(page, r) EXCEPT !.preview = IF ok THEN <<r.m, r.p, r.f>> ELSE None])
    /\ UNCHANGED store

\* The note of a file goes to the row with its path and name.
MetadataArrives ==
    /\ \E r \in Answer("metadata"), ok \in BOOLEAN :
         Becomes([Done(page, r) EXCEPT
                    !.list.notes = IF ok /\ r.p = page.list.of[2] /\ r.f \in Listed(page)
                                   THEN {n \in @ : n[1] # r.f} \cup {<<r.f, r.m>>} ELSE @])
    /\ UNCHANGED store

\* What a file was deployed as, with its history. There may be none.
DetailArrives ==
    /\ \E r \in Answer("detail") \cup Answer("validated") :
         \/ Becomes([Done(page, r) EXCEPT !.seq = @ + 1,
                       !.detail = [of |-> <<r.m, r.f>>, history |-> page.seq, shows |-> "current"],
                       !.fresh = IF r.kind = "validated" THEN None ELSE @,
                       !.validating = IF r.kind = "validated" THEN FALSE ELSE @])
         \/ Becomes([Done(page, r) EXCEPT !.detail = None,
                       !.fresh = IF r.kind = "validated" THEN None ELSE @,
                       !.validating = IF r.kind = "validated" THEN FALSE ELSE @])
    /\ UNCHANGED store

\* The answer is put into the detail that was shown when it was asked for.
DeploymentArrives(f) ==
    /\ \E r \in Answer("deployment") :
         /\ r.d.of[2] = f
         /\ \/ Becomes([Done(page, r) EXCEPT !.detail = [r.d EXCEPT !.shows = r.f]])
            \/ Becomes(Done(page, r))
    /\ UNCHANGED store

ViewArrives ==
    /\ \E r \in Answer("view") :
         \/ Becomes([Done(page, r) EXCEPT !.view = <<r.m, r.p, r.f>>])
         \/ Becomes([Done(page, r) EXCEPT !.error = TRUE])
    /\ UNCHANGED store

\* A file is saved by the browser, or the list gives way to the error.
DownloadArrives ==
    /\ \E r \in Answer("download"), ok \in BOOLEAN :
         Becomes([Done(page, r) EXCEPT !.error = IF ok THEN @ ELSE TRUE])
    /\ UNCHANGED store

\* The results of a check are shown and then recorded.
ValidateArrives ==
    /\ \E r \in Answer("validate") :
         \/ Becomes(Fetch([Done(page, r) EXCEPT !.fresh = <<r.m, r.p, r.f>>],
                          {Request("deploy", r.m, r.p, r.f)}))
         \/ Becomes([Done(page, r) EXCEPT !.validating = FALSE])
    /\ UNCHANGED store

\* Recorded or not, the list is fetched anew, and the deployment of the file.
Recorded(r) ==
    LET s == [Done(page, r) EXCEPT !.refresh = 1 - @]
        t == IF <<page.machine, page.path>> = <<r.m, r.p>>
             THEN Fetch([Abort(s, {"programs"}) EXCEPT !.list = NoList, !.loading = TRUE,
                           !.error = FALSE, !.selected = None],
                        {Request("programs", r.m, r.p, None)})
             ELSE ProgramsEffect(page, s)
    IN Fetch(t, {Request("validated", r.m, None, r.f)})

DeployArrives ==
    \E r \in Answer("deploy") :
      \/ /\ store' = store \ {<<r.m, r.p>>}
         /\ page' = HistoryEffect(page, SelectionEffect(page, PendingEffect(page, Recorded(r))))
         /\ UNCHANGED <<link, clicks>>
      \/ /\ Becomes([Done(page, r) EXCEPT !.validating = FALSE])
         /\ UNCHANGED store

-----------------------------------------------------------------------------
(* The user                                                                  *)

\* The rows are there unless the page is loading or shows an error.
Rows == IF page.loading \/ page.error THEN {} ELSE Listed(page)

\* The buttons of a row, and those below the details, which stay under an error
\* and let a validation under way finish.
RowActions(f) ==
    {a \in {"download", "view", "validate"} :
       f \in Rows /\ (a = "view" => f \in NC) /\ (a = "validate" => f \in ONumber)}

DetailActions(f) ==
    {a \in {"download", "view", "validate"} :
       /\ page.selected # None /\ page.selected.f = f
       /\ (a = "view" => f \in NC) /\ (a = "validate" => f \in ONumber /\ ~page.validating)}

\* Older deployments are offered for what was deployed, except below results
\* that have just been fetched.
HistoryOffered ==
    /\ page.selected # None /\ page.selected.f \in ONumber
    /\ page.detail # None /\ page.fresh = None

Click(s) ==
    /\ clicks < MaxClicks /\ Cardinality(page.requests) <= MaxBusy
    /\ clicks' = clicks + 1
    /\ page' = Render(page, s)
    /\ UNCHANGED <<link, store>>

SelectMachine(m) ==
    /\ page.machine \notin {None, m}
    /\ Click(MachineEffects(page, m))

\* A directory is entered, or left by its first row. A file is selected.
handleItemClick(f) ==
    \/ /\ f = Dir /\ page.path \in {Root, None} /\ Rows # {}
       /\ Click([page EXCEPT !.path = Dir])
    \/ /\ f = ".." /\ page.path # Root /\ Rows # {}
       /\ Click([page EXCEPT !.path = Root])
    \/ /\ f \in Rows
       /\ Click([page EXCEPT !.selected = [f |-> f, of |-> page.list.of]])

handleDownload(f) ==
    /\ "download" \in RowActions(f) \cup DetailActions(f) /\ page.path # None
    /\ Click(Fetch(page, {Request("download", page.machine, page.path, f)}))

handleViewCode(f) ==
    /\ "view" \in RowActions(f) \cup DetailActions(f) /\ page.path # None
    /\ Click(Fetch(page, {Request("view", page.machine, page.path, f)}))

CloseView ==
    /\ page.view # None
    /\ Click([page EXCEPT !.view = None])

handleValidate(f) ==
    /\ "validate" \in RowActions(f) \cup DetailActions(f) /\ page.path # None
    /\ Click(Fetch([page EXCEPT !.validating = TRUE, !.fresh = None],
                   {Request("validate", page.machine, page.path, f)}))

PickDeployment(id) ==
    /\ HistoryOffered /\ page.picked # id
    /\ Click([page EXCEPT !.picked = id])

\* A minute passes.
Expire ==
    /\ \E key \in store : store' = store \ {key}
    /\ UNCHANGED <<link, page, clicks>>

-----------------------------------------------------------------------------
Empty == [machine |-> None, path |-> None, pathLoading |-> FALSE, list |-> NoList, loading |-> FALSE,
          error |-> FALSE, selected |-> None, wanted |-> None, preview |-> None, detail |-> None,
          picked |-> None, fresh |-> None, validating |-> FALSE, view |-> None, badges |-> None,
          refresh |-> 0, seq |-> 0, requests |-> {Request("machines", None, None, None)}]

Init ==
    /\ link \in Links
    /\ page = Empty
    /\ store \in Stores
    /\ clicks = 0

Answers ==
    \/ MachinesArrive \/ PathArrives \/ ProgramsArrive \/ BadgesArrive
    \/ PreviewArrives \/ MetadataArrives \/ DetailArrives
    \/ ViewArrives \/ DownloadArrives \/ ValidateArrives \/ DeployArrives

Next ==
    \/ Answers
    \/ \E f \in Files : DeploymentArrives(f)
    \/ \E m \in Machines : SelectMachine(m)
    \/ \E f \in Files \cup {Dir, ".."} : handleItemClick(f)
    \/ \E f \in Files : handleDownload(f) \/ handleViewCode(f) \/ handleValidate(f)
    \/ CloseView
    \/ \E id \in {None, "older"} : PickDeployment(id)
    \/ Expire

Spec == Init /\ [][Next]_vars
=============================================================================
