------------------------------ MODULE Dashboard ------------------------------
(* The dashboard (src/frontend/src/pages/Dashboard.tsx), the header of the   *)
(* expanded asset, which outlives it (contexts/ExpandedMachineContext.tsx),  *)
(* and the server it shows. The cards are in MachineCard, CompressorCard and *)
(* Fleet.                                                                    *)
(*                                                                           *)
(* An asset's configuration is a number, and Blank is a form that lacks what *)
(* is required. The name is left out: the form of a machine does not send    *)
(* it. One rendering with its effects is one step.                           *)
EXTENDS Naturals, Functions

CONSTANTS Cnc, Compressors, Existing,  \* the assets, and those there at first
          Configs,                     \* 1, 2, ...
          Rows,                        \* the rows of cards that the pointer visits
          None,                        \* no value
          MaxClicks                    \* bound on what the user does

Assets == Cnc \cup Compressors
Blank == 0

Kind(a) == IF a \in Cnc THEN Cnc ELSE Compressors

VARIABLES
    server,  \* the configurations in the database
    polled,  \* the ones the poller has read, of which messages are made
    ui,      \* the browser
    clicks

vars == <<server, polled, ui, clicks>>

\* f, with v for a.
With(f, a, v) == [b \in DOMAIN f \cup {a} |-> IF b = a THEN v ELSE f[b]]

-----------------------------------------------------------------------------
(* Mounting                                                                  *)

\* The card of an expanded asset stands alone.
Mounted(u) ==
    IF ~u.there THEN {}
    ELSE IF u.expanded # None THEN {u.expanded} \cap DOMAIN u.shown
    ELSE DOMAIN u.shown

\* The cards to add assets come below the others unless one of them is edited.
AddShown(u) == u.there /\ u.expanded = None /\ u.editing = None

\* A fresh card has a form filled from what is shown.
Fresh(u, a) == [form |-> u.shown[a], base |-> Blank, success |-> FALSE, saving |-> FALSE,
                testing |-> FALSE, dialog |-> FALSE, previews |-> {}, closing |-> {}]

Local == {"config", "test"}

\* Cards that come or change between the grid and the expanded view start anew,
\* and what they asked for as cards is of no use to the new ones. A machine's
\* card fetches its configuration, an expanded one takes over the header.
Mount(old, u) ==
    LET kept == {a \in Mounted(u) \cap DOMAIN old.cards :
                    (old.expanded = None) = (u.expanded = None)}
        new == Mounted(u) \ kept
        alive(c) == IF c.kind = "post" THEN AddShown(u) /\ u.adding # None ELSE c.a \in kept
    IN [u EXCEPT
          !.cards = [a \in Mounted(u) |-> IF a \in kept THEN u.cards[a] ELSE Fresh(u, a)],
          !.calls = {[c EXCEPT !.alive = @ /\ alive(c)] : c \in {c \in @ : c.kind \in Local => c.a \in kept}}
                    \cup {[kind |-> "config", a |-> a, alive |-> TRUE] : a \in new \cap Cnc},
          !.header = IF u.expanded \in new THEN u.expanded ELSE @,
          !.at = IF @ # None /\ (@.a \notin kept \/ u.expanded # None) THEN None ELSE @,
          !.adding = IF AddShown(u) THEN @ ELSE None,
          !.addSaving = @ /\ AddShown(u)]

Collapsed(u) == [u EXCEPT !.expanded = None, !.header = None, !.layout = FALSE]

\* onEditEnd, of the rendering in which the collapse was waited for or was not.
EditEnd(u, a, collapsing) ==
    LET ended == [u EXCEPT !.editing = IF @ \in Kind(a) THEN None ELSE @]
    IN IF collapsing THEN [Collapsed(ended) EXCEPT !.collapse = @ \ Kind(a)] ELSE ended

\* The baseline is what was fetched. Without one there is nothing to lose.
hasUnsavedChanges(u, a) ==
    IF a \in Cnc THEN u.cards[a].base # Blank /\ u.cards[a].form # u.cards[a].base
    ELSE u.cards[a].form # u.shown[a]

performEditCancel(u, a) ==
    LET back == IF u.cards[a].base # Blank THEN u.cards[a].base ELSE u.shown[a]
    IN EditEnd([u EXCEPT !.cards[a].form = back, !.cards[a].success = FALSE], a, a \in u.collapse)

\* A form that is to be collapsed asks when there is something to lose.
AskOrCancel(u, a) ==
    IF hasUnsavedChanges(u, a) THEN [u EXCEPT !.cards[a].dialog = TRUE]
    ELSE performEditCancel(u, a)

CollapseEffect(old, u) ==
    LET a == u.editing
        due == a \in u.collapse /\ a \in DOMAIN u.cards
        news == a \in Cnc \/ a \notin old.collapse \/ old.editing # a \/ a \notin DOMAIN old.cards
    IN IF due /\ news THEN AskOrCancel(u, a) ELSE u

\* A compressor's form is filled anew when it opens and when what is shown changes.
RefillEffect(old, u) ==
    LET a == u.editing
        shown(v) == IF a \in DOMAIN v.shown THEN v.shown[a] ELSE Blank
    IN IF a \in Compressors /\ a \in DOMAIN u.cards /\ (old.editing # a \/ shown(old) # shown(u))
       THEN [u EXCEPT !.cards[a].form = u.shown[a]] ELSE u

Settle(old, u) ==
    LET a == RefillEffect(old, Mount(old, u))
        b == CollapseEffect(old, a)
    IN Mount(a, b)

Becomes(u) == ui' = Settle(ui, u)

-----------------------------------------------------------------------------
(* What the user can do                                                      *)

\* A dialog lies over the page.
Modal == ui.asked \/ \E a \in DOMAIN ui.cards : ui.cards[a].dialog

\* The pointer is where the click is, on none of the rows of a card.
Click(u) ==
    /\ ui.at = None
    /\ clicks < MaxClicks /\ clicks' = clicks + 1
    /\ Becomes(u)
    /\ UNCHANGED <<server, polled>>

Ask(u, c) == [u EXCEPT !.calls = @ \cup {c}]
Answered(u, c) == [u EXCEPT !.calls = @ \ {c}]

isAnyAssetEditing == ui.editing # None \/ ui.adding # None

\* The other cards are hidden while a form is open, or was.
Hidden(a) == isAnyAssetEditing /\ ui.editing # a

FormOpen(a) == a \in DOMAIN ui.cards /\ ui.editing = a

\* MACHINES in the fleet line: collapses, by way of the form that is open.
CollapseAll ==
    /\ ui.there /\ ~Modal
    /\ Click(IF ui.editing # None
             THEN [ui EXCEPT !.collapse = (@ \ Kind(ui.editing)) \cup {ui.editing}]
             ELSE Collapsed(ui))

\* COLLAPSE in the header, whichever dashboard it came from.
HeaderCollapse ==
    /\ ui.there /\ ui.header # None /\ ~Modal
    /\ Click(Collapsed(ui))

ToggleLayoutEdit ==
    /\ ui.there /\ ui.header # None /\ ~Modal
    /\ Click([ui EXCEPT !.layout = ~@])

\* The popup of the summary lists the assets and expands any of them.
PopupClick(a) ==
    /\ ui.there /\ a \in DOMAIN ui.shown /\ ui.expanded # a /\ ~Modal
    /\ Click([ui EXCEPT !.expanded = a])

\* A click on a card where there is no button: on it the card is expanded, on an
\* expanded one collapsed.
handleCardClick(a) ==
    /\ a \in DOMAIN ui.cards /\ ~Hidden(a) /\ ~FormOpen(a) /\ ~ui.layout /\ ~Modal
    /\ Click(IF ui.expanded = a THEN Collapsed(ui) ELSE [ui EXCEPT !.expanded = a])

\* The DELETE button of a form, and the dialog it opens.
handleDelete(a) ==
    /\ FormOpen(a) /\ ~ui.cards[a].saving /\ ~Modal
    /\ Click([ui EXCEPT !.target = a, !.asked = TRUE])

\* What Escape does to the cards, whose listeners do not know of dialogs. A
\* compressor sees its form as it was when the dashboard was rendered last.
Escaped(u) ==
    IF FormOpen(u.editing)
    THEN {AskOrCancel(u, u.editing)} \cup {performEditCancel(u, a) : a \in {u.editing} \cap Compressors}
    ELSE {IF u.expanded \in DOMAIN u.cards THEN Collapsed(u) ELSE u}

\* CANCEL, a click beside the dialog, or Escape.
DismissDelete ==
    /\ ui.asked
    /\ LET u == [ui EXCEPT !.asked = FALSE]
       IN \E v \in {u} \cup Escaped(u) : Click(v)

confirmDelete ==
    /\ ui.asked /\ ui.target # None
    /\ Click(Ask(ui, [kind |-> "delete", a |-> ui.target, alive |-> TRUE,
                      collapses |-> ui.target \in Compressors /\ ui.expanded = ui.target]))

\* Another page is shown. The header and what is under way outlive the dashboard.
Leave ==
    /\ ui.there /\ ~Modal
    /\ Click([ui EXCEPT !.there = FALSE, !.expanded = None, !.editing = None, !.collapse = {},
                        !.target = None, !.calls = {c \in @ : c.kind # "saved"}])

Return ==
    /\ ~ui.there
    /\ Click([ui EXCEPT !.there = TRUE])

-----------------------------------------------------------------------------
(* Answers and messages                                                      *)

\* defect: the expanded compressor is not collapsed with its removal
DeleteArrives_noCollapse(c) ==
    /\ c.kind = "delete"
    /\ \/ /\ c.a \in DOMAIN server
          /\ server' = Restrict(server, DOMAIN server \ {c.a})
          /\ Becomes([Answered(ui, c) EXCEPT !.asked = FALSE, !.target = None,
                        !.shown = Restrict(@, DOMAIN @ \ {c.a}),
                        !.header = IF c.collapses THEN None ELSE @])
       \/ UNCHANGED server /\ Becomes(Answered(ui, c))
    /\ UNCHANGED <<polled, clicks>>

\* The asset is gone, or the deletion failed and the dialog stays.
DeleteArrives(c) ==
    /\ c.kind = "delete"
    /\ \/ /\ c.a \in DOMAIN server
          /\ server' = Restrict(server, DOMAIN server \ {c.a})
          /\ LET u == [Answered(ui, c) EXCEPT !.asked = FALSE, !.target = None,
                         !.shown = Restrict(@, DOMAIN @ \ {c.a})]
             IN Becomes(IF c.collapses THEN Collapsed(u) ELSE u)
       \/ UNCHANGED server /\ Becomes(Answered(ui, c))
    /\ UNCHANGED <<polled, clicks>>

\* The poller reads an asset's configuration, or finds it gone.
Poll(a) ==
    /\ polled' = IF a \in DOMAIN server THEN With(polled, a, server[a])
                 ELSE Restrict(polled, DOMAIN polled \ {a})
    /\ polled' # polled
    /\ UNCHANGED <<server, ui, clicks>>

\* The message of a poll, which may be of an asset that was deleted since.
StatusUpdate(a) ==
    /\ a \in DOMAIN polled
    /\ Becomes([ui EXCEPT !.shown = With(@, a, polled[a])])
    /\ UNCHANGED <<server, polled, clicks>>

\* A new connection: all that there is, and nothing else.
InitialStatus ==
    /\ Becomes([ui EXCEPT !.shown = polled])
    /\ UNCHANGED <<server, polled, clicks>>

-----------------------------------------------------------------------------
Closed == [there |-> FALSE, expanded |-> None, editing |-> None, collapse |-> {}, adding |-> None,
           addSaving |-> FALSE, target |-> None, asked |-> FALSE, header |-> None, layout |-> FALSE,
           at |-> None,
           shown |-> [a \in Existing |-> 1], cards |-> << >>, calls |-> {}]

Init ==
    /\ server = [a \in Existing |-> 1]
    /\ polled = server
    /\ ui = Mount(Closed, [Closed EXCEPT !.there = TRUE])
    /\ clicks = 0

DashboardNext ==
    \/ CollapseAll \/ HeaderCollapse \/ ToggleLayoutEdit
    \/ \E a \in Assets : PopupClick(a) \/ handleCardClick(a) \/ handleDelete(a)
    \/ DismissDelete \/ confirmDelete \/ Leave \/ Return
    \/ \E c \in ui.calls : DeleteArrives(c)
    \/ \E a \in Assets : Poll(a) \/ StatusUpdate(a)
    \/ InitialStatus
=============================================================================
