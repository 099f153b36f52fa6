-------------------------------- MODULE Fleet --------------------------------
(* The dashboard with all of its cards. The cards that add an asset          *)
(* (src/frontend/src/components/AddMachineCard.tsx, AddCompressorCard.tsx)   *)
(* are here: one of them is active at most, and both are gone when the grid  *)
(* is; and so are the previews of panes that the rows of a card show.        *)
EXTENDS MachineCard, CompressorCard

-----------------------------------------------------------------------------
(* The cards that add an asset                                               *)

StartAdd(kind) ==
    /\ AddShown(ui) /\ ui.adding = None /\ ~Modal
    /\ Click([ui EXCEPT !.adding = kind])

\* Disabled while the asset is being created.
CancelAdd ==
    /\ AddShown(ui) /\ ui.adding # None /\ ~ui.addSaving /\ ~Modal
    /\ Click([ui EXCEPT !.adding = None])

SaveAdd(kind) ==
    /\ AddShown(ui) /\ ui.adding = kind /\ ~ui.addSaving /\ ~Modal
    /\ Click(Ask([ui EXCEPT !.addSaving = TRUE], [kind |-> "post", a |-> kind, alive |-> TRUE]))

\* The new asset is shown as offline until its first poll. Its identifier is one
\* that nobody knows.
AddArrives(c, new) ==
    /\ c.kind = "post"
    /\ LET u == IF c.alive THEN [Answered(ui, c) EXCEPT !.addSaving = FALSE] ELSE Answered(ui, c)
       IN \/ /\ new \notin Existing \cup DOMAIN server \cup DOMAIN polled \cup DOMAIN ui.shown
             /\ new \in Kind(new) /\ c.a = (IF new \in Cnc THEN "cnc" ELSE "compressor")
             /\ server' = With(server, new, 1)
             /\ Becomes([u EXCEPT !.shown = With(@, new, 1), !.adding = IF c.alive THEN None ELSE @])
          \/ UNCHANGED server /\ Becomes(u)
    /\ UNCHANGED <<polled, clicks>>

AddNext ==
    \/ \E kind \in {"cnc", "compressor"} : StartAdd(kind) \/ SaveAdd(kind)
    \/ CancelAdd
    \/ \E c \in ui.calls, new \in Assets : AddArrives(c, new)

-----------------------------------------------------------------------------
(* The rows of a card in the grid, and the preview of a pane that each shows *)
(* while the pointer is on it (components/MachineCard.tsx, CompressorCard.   *)
(* tsx). A machine hides a preview when the pointer leaves. A compressor     *)
(* gives the pointer 140 ms to reach it.                                     *)

\* there: when the row is. inside: its preview is part of it, so that the
\* pointer does not enter the row when it comes from the preview.
\* keeps: entering it stops the timer that hides the preview. expands: so does a
\* click on the preview.
StatusRow == [there |-> {TRUE}, opens |-> {TRUE}, inside |-> TRUE, keeps |-> FALSE, expands |-> TRUE]
ProgramRow == [there |-> {TRUE}, opens |-> {TRUE}, inside |-> TRUE, keeps |-> FALSE, expands |-> TRUE]
ProductionRunRow == [there |-> {TRUE}, opens |-> {TRUE}, inside |-> TRUE, keeps |-> FALSE, expands |-> TRUE]

\* Only when there are tools.
ToolsRow == [there |-> BOOLEAN, opens |-> {TRUE}, inside |-> TRUE, keeps |-> FALSE, expands |-> TRUE]

\* It shows a preview when there are alarms. A click on that is one on the card.
AlarmsRow == [there |-> {TRUE}, opens |-> BOOLEAN, inside |-> FALSE, keeps |-> FALSE, expands |-> TRUE]

StatusPanelBlock == [there |-> {TRUE}, opens |-> {TRUE}, inside |-> TRUE, keeps |-> TRUE, expands |-> FALSE]
OperationBlock == [there |-> {TRUE}, opens |-> {TRUE}, inside |-> TRUE, keeps |-> TRUE, expands |-> FALSE]

\* Entering these two shows the preview and lets the timer run.
PsiBlock == [there |-> {TRUE}, opens |-> {TRUE}, inside |-> TRUE, keeps |-> FALSE, expands |-> FALSE]
TempBlock == [there |-> {TRUE}, opens |-> {TRUE}, inside |-> TRUE, keeps |-> FALSE, expands |-> FALSE]

RowsOf(a) ==
    IF a \in Cnc
    THEN [status |-> StatusRow, program |-> ProgramRow, runs |-> ProductionRunRow,
          tools |-> ToolsRow, alarms |-> AlarmsRow]
    ELSE [panel |-> StatusPanelBlock, operation |-> OperationBlock, psi |-> PsiBlock, temp |-> TempBlock]

-----------------------------------------------------------------------------
Place(a, r, part) == [a |-> a, r |-> r, part |-> part]

SameRow(p, q) == p # None /\ q # None /\ p.a = q.a /\ p.r = q.r

ShownFor(u, p) == [u EXCEPT !.cards[p.a].previews = @ \cup {p.r}]
Kept(u, p) == [u EXCEPT !.cards[p.a].closing = @ \ {p.r}]

\* defect: a timer that runs is not set again, and a new one is not set
scheduleClose_never(u, p) ==
    IF p.a \in Cnc THEN [u EXCEPT !.cards[p.a].previews = @ \ {p.r}] ELSE u

\* What leaving a row or a preview does.
scheduleClose(u, p) ==
    IF p.a \in Cnc THEN [u EXCEPT !.cards[p.a].previews = @ \ {p.r}]
    ELSE [u EXCEPT !.cards[p.a].closing = @ \cup {p.r}]

\* From one place to the next: out of the row, or out of the preview in it.
MouseLeave(u, p, q) ==
    IF p # None /\ (~SameRow(p, q) \/ p.part = "preview" \/ ~RowsOf(p.a)[p.r].inside)
    THEN scheduleClose(u, p) ELSE u

\* Into the row, then into the preview. Neither is entered from what is in it.
MouseEnter(u, p, q, opens) ==
    LET row == RowsOf(q.a)[q.r]
        fresh == ~SameRow(p, q) \/ ~row.inside
        a == IF q.part = "preview" \/ ~fresh \/ ~opens THEN u
             ELSE IF row.keeps THEN Kept(ShownFor(u, q), q) ELSE ShownFor(u, q)
    IN IF q.part = "preview" THEN Kept(ShownFor(a, q), q) ELSE a

\* The pointer goes to a place on a card of the grid, or off all of them.
MouseMoves(q) ==
    /\ clicks < MaxClicks /\ clicks' = clicks + 1
    /\ q # ui.at /\ ~Modal
    /\ LET u == MouseLeave([ui EXCEPT !.at = q], ui.at, q)
       IN IF q = None THEN Becomes(u)
          ELSE /\ q.a \in DOMAIN ui.cards /\ ui.expanded = None /\ ~FormOpen(q.a) /\ ~Hidden(q.a)
               /\ TRUE \in RowsOf(q.a)[q.r].there
               /\ q.part = "preview" => q.r \in ui.cards[q.a].previews
               /\ \E opens \in RowsOf(q.a)[q.r].opens : Becomes(MouseEnter(u, ui.at, q, opens))
    /\ UNCHANGED <<server, polled>>

\* A compressor's timer.
PreviewTimer(a, r) ==
    /\ a \in DOMAIN ui.cards /\ r \in ui.cards[a].closing
    /\ Becomes([ui EXCEPT !.cards[a].closing = @ \ {r}, !.cards[a].previews = @ \ {r}])
    /\ UNCHANGED <<server, polled, clicks>>

\* A click on a row expands the card, without asking whether the layout of an
\* asset is being edited.
RowClick ==
    /\ ui.at # None /\ ~Modal
    /\ ui.at.part = "preview" => RowsOf(ui.at.a)[ui.at.r].expands
    /\ clicks < MaxClicks /\ clicks' = clicks + 1
    /\ Becomes([ui EXCEPT !.expanded = ui.at.a])
    /\ UNCHANGED <<server, polled>>

\* A message without tools takes the row away under the pointer, which is no
\* leaving. The next one with tools brings it back, and its preview with it.
RowBlinks ==
    /\ ui.at # None /\ FALSE \in RowsOf(ui.at.a)[ui.at.r].there
    /\ Becomes([ui EXCEPT !.at = None])
    /\ UNCHANGED <<server, polled, clicks>>

PreviewNext ==
    \/ MouseMoves(None)
    \/ \E a \in DOMAIN ui.cards : \E r \in Rows \cap DOMAIN RowsOf(a) :
         \/ \E part \in {"row", "preview"} : MouseMoves(Place(a, r, part))
         \/ PreviewTimer(a, r)
    \/ RowClick \/ RowBlinks

-----------------------------------------------------------------------------
Next == DashboardNext \/ MachineNext \/ CompressorNext \/ AddNext \/ PreviewNext

Spec == Init /\ [][Next]_vars

-----------------------------------------------------------------------------
(* Properties                                                                *)

\* At most one form is open: the other cards are out of reach while one is.
OneForm ==
    ui.adding # None => \A a \in DOMAIN ui.cards : ~FormOpen(a)

\* The header names the expanded asset, so that it can be collapsed even when its
\* card is gone.
HeaderNamesExpanded == ui.expanded # None => ui.header = ui.expanded

\* Whatever the order of answers and clicks, an edit can be ended: no second form
\* is open beside it, and the header that collapses it is there.
EditReachable == OneForm /\ HeaderNamesExpanded

\* The preview of a compressor is hidden some time after the pointer has gone, and
\* never while the pointer is in it.
PreviewsClose ==
    \A a \in DOMAIN ui.cards \cap Compressors, r \in Rows :
      /\ r \in ui.cards[a].previews =>
           r \in ui.cards[a].closing \/ \E part \in {"row", "preview"} : ui.at = Place(a, r, part)
      /\ r \in ui.cards[a].closing => ui.at # Place(a, r, "preview")

\* What a form waits for is under way.
FormsNeverStick ==
    /\ \A a \in DOMAIN ui.cards :
         /\ ui.cards[a].saving => \E c \in ui.calls : c.kind = "put" /\ c.a = a /\ c.alive
         /\ ui.cards[a].testing => \E c \in ui.calls : c.kind = "test" /\ c.a = a
    /\ ui.addSaving => \E c \in ui.calls : c.kind = "post" /\ c.alive

\* MachineCard.tsx:166: isAnyMachineEditing tells whether any machine is being
\* edited. After a deletion none is, and it stays set.
AnyEditingIsEdited == ui.there /\ ui.editing # None => FormOpen(ui.editing)
=============================================================================
