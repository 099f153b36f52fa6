----------------------------- MODULE MachineCard -----------------------------
(* The form of a machine (src/frontend/src/components/MachineCard.tsx). It   *)
(* is filled with the configuration that the card fetches when it is         *)
(* mounted. What changes the dashboard after a while changes it by the       *)
(* rendering it was asked in.                                                *)
EXTENDS Dashboard

editFormValid(a) == ui.cards[a].form # Blank

\* The buttons of the form. They are disabled while it is being saved.
EditButtons(a) ==
    IF ~FormOpen(a) \/ ui.cards[a].saving \/ Modal THEN {}
    ELSE {b \in {"type", "test", "cancel", "save"} :
            /\ b = "test" => ~ui.cards[a].testing /\ editFormValid(a)
            /\ b = "save" => editFormValid(a)}

\* A card that can be seen can be edited: the others are hidden during an edit.
startEditing(a) ==
    /\ a \in Cnc \cap DOMAIN ui.cards /\ ui.expanded # a /\ ~Hidden(a) /\ ~FormOpen(a) /\ ~Modal
    /\ Click([ui EXCEPT !.editing = a])

\* The answer fills the form, whatever has been typed by then.
ConfigArrives(c) ==
    /\ c.kind = "config"
    /\ \/ /\ c.a \in DOMAIN server
          /\ Becomes([Answered(ui, c) EXCEPT !.cards[c.a].form = server[c.a], !.cards[c.a].base = server[c.a]])
       \/ Becomes(Answered(ui, c))
    /\ UNCHANGED <<server, polled, clicks>>

TypeMachine(a, v) ==
    /\ a \in Cnc /\ "type" \in EditButtons(a) /\ v # ui.cards[a].form
    /\ Click([ui EXCEPT !.cards[a].form = v])

\* What a save sends, and what it will do to the dashboard as it is now.
Saving(u, a) ==
    Ask([u EXCEPT !.cards[a].saving = TRUE, !.cards[a].success = FALSE],
        [kind |-> "put", a |-> a, v |-> u.cards[a].form, collapses |-> a \in ui.collapse, alive |-> TRUE])

handleEditSave(a) ==
    /\ a \in Cnc /\ "save" \in EditButtons(a)
    /\ Click(Saving(ui, a))

\* defect: a failure does not end the saving
SaveArrives_stuck(c) ==
    /\ c.kind = "put" /\ c.a \in Cnc
    /\ LET u == IF c.alive THEN [Answered(ui, c) EXCEPT !.cards[c.a].saving = FALSE] ELSE Answered(ui, c)
       IN \/ /\ c.a \in DOMAIN server
             /\ server' = [server EXCEPT ![c.a] = c.v]
             /\ Becomes(Ask(IF c.alive THEN [u EXCEPT !.cards[c.a].success = TRUE] ELSE u,
                            [c EXCEPT !.kind = "saved"]))
          \/ UNCHANGED server /\ Becomes(Answered(ui, c))
    /\ UNCHANGED <<polled, clicks>>

\* The baseline stays. The form is to be closed a second and a half later.
SaveArrives(c) ==
    /\ c.kind = "put" /\ c.a \in Cnc
    /\ LET u == IF c.alive THEN [Answered(ui, c) EXCEPT !.cards[c.a].saving = FALSE] ELSE Answered(ui, c)
       IN \/ /\ c.a \in DOMAIN server
             /\ server' = [server EXCEPT ![c.a] = c.v]
             /\ Becomes(Ask(IF c.alive THEN [u EXCEPT !.cards[c.a].success = TRUE] ELSE u,
                            [c EXCEPT !.kind = "saved"]))
          \/ UNCHANGED server /\ Becomes(u)
    /\ UNCHANGED <<polled, clicks>>

\* It closes the form of a machine that is open by then.
SavedTimer(c) ==
    /\ c.kind = "saved"
    /\ LET u == EditEnd(Answered(ui, c), c.a, c.collapses)
       IN Becomes(IF c.alive THEN [u EXCEPT !.cards[c.a].success = FALSE] ELSE u)
    /\ UNCHANGED <<server, polled, clicks>>

\* CANCEL, or Escape, which also works while the form is being saved.
handleEditCancel(a) ==
    /\ a \in Cnc /\ FormOpen(a) /\ ~Modal
    /\ Click(AskOrCancel(ui, a))

handleEditTestConnection(a) ==
    /\ a \in Cnc /\ "test" \in EditButtons(a)
    /\ Click(Ask([ui EXCEPT !.cards[a].testing = TRUE], [kind |-> "test", a |-> a, alive |-> TRUE]))

\* The connection of the saved configuration worked or did not.
TestArrives(c) ==
    /\ c.kind = "test"
    /\ Becomes([Answered(ui, c) EXCEPT !.cards[c.a].testing = FALSE])
    /\ UNCHANGED <<server, polled, clicks>>

\* Escape collapses an expanded machine that is not being edited.
EscapeMachine(a) ==
    /\ a \in Cnc \cap DOMAIN ui.cards /\ ui.expanded = a /\ ~FormOpen(a) /\ ~Modal
    /\ Click(Collapsed(ui))

-----------------------------------------------------------------------------
(* The dialog about unsaved changes                                          *)

NotCollapsing(u, a) == [u EXCEPT !.cards[a].dialog = FALSE, !.collapse = IF a \in @ THEN @ \ Kind(a) ELSE @]

\* Escape on it is also a cancel of the form, which opens it again.
KeepEditing(a) ==
    /\ a \in Cnc \cap DOMAIN ui.cards /\ ui.cards[a].dialog
    /\ \/ Click(NotCollapsing(ui, a))
       \/ FormOpen(a) /\ Click(AskOrCancel(NotCollapsing(ui, a), a))

DiscardEdits(a) ==
    /\ a \in Cnc \cap DOMAIN ui.cards /\ ui.cards[a].dialog
    /\ Click([performEditCancel(ui, a) EXCEPT !.cards[a].dialog = FALSE])

\* It closes as if dismissed and then saves. A form that is not valid only says so.
SaveEdits(a) ==
    /\ a \in Cnc \cap DOMAIN ui.cards /\ ui.cards[a].dialog
    /\ Click(IF editFormValid(a) THEN Saving(NotCollapsing(ui, a), a) ELSE NotCollapsing(ui, a))

MachineNext ==
    \/ \E a \in Assets : startEditing(a) \/ handleEditSave(a) \/ handleEditCancel(a)
         \/ handleEditTestConnection(a) \/ EscapeMachine(a) \/ KeepEditing(a)
         \/ DiscardEdits(a) \/ SaveEdits(a)
    \/ \E a \in Assets, v \in Configs \cup {Blank} : TypeMachine(a, v)
    \/ \E c \in ui.calls : ConfigArrives(c) \/ SaveArrives(c) \/ SavedTimer(c) \/ TestArrives(c)
=============================================================================
