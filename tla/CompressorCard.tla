---------------------------- MODULE CompressorCard ----------------------------
(* The form of a compressor (src/frontend/src/components/CompressorCard.tsx). *)
(* It is filled from what is shown, which is also its baseline, and filled    *)
(* anew when that changes. A save closes it at once.                          *)
EXTENDS Dashboard

\* A name, a host, and all or none of the Kaeser settings.
compressorFormValid(a) == ui.cards[a].form # Blank

CompressorButtons(a) ==
    IF ~FormOpen(a) \/ ui.cards[a].saving \/ Modal THEN {}
    ELSE {b \in {"type", "cancel", "save"} : b = "save" => compressorFormValid(a)}

compressorStartEditing(a) ==
    /\ a \in Compressors \cap DOMAIN ui.cards /\ ui.expanded # a /\ ~Hidden(a) /\ ~FormOpen(a) /\ ~Modal
    /\ Click([ui EXCEPT !.editing = a])

TypeCompressor(a, v) ==
    /\ a \in Compressors /\ "type" \in CompressorButtons(a) /\ v # ui.cards[a].form
    /\ Click([ui EXCEPT !.cards[a].form = v])

\* The dialog about unsaved changes saves a form that is not valid, too.
SavingCompressor(u, a) ==
    Ask([u EXCEPT !.cards[a].saving = TRUE],
        [kind |-> "put", a |-> a, v |-> u.cards[a].form, collapses |-> a \in ui.collapse, alive |-> TRUE])

compressorHandleEditSave(a) ==
    /\ a \in Compressors /\ "save" \in CompressorButtons(a)
    /\ Click(SavingCompressor(ui, a))

\* The server does not take what lacks something.
CompressorSaveArrives(c) ==
    /\ c.kind = "put" /\ c.a \in Compressors
    /\ LET u == IF c.alive THEN [Answered(ui, c) EXCEPT !.cards[c.a].saving = FALSE] ELSE Answered(ui, c)
       IN \/ /\ c.a \in DOMAIN server /\ c.v # Blank
             /\ server' = [server EXCEPT ![c.a] = c.v]
             /\ Becomes(EditEnd(u, c.a, c.collapses))
          \/ UNCHANGED server /\ Becomes(u)
    /\ UNCHANGED <<polled, clicks>>

\* CANCEL.
compressorHandleEditCancel(a) ==
    /\ a \in Compressors /\ FormOpen(a) /\ ~ui.cards[a].saving /\ ~Modal
    /\ Click(AskOrCancel(ui, a))

\* Escape sees the form of the last time the dashboard was rendered. What was
\* typed since is lost without a question.
EscapeForm(a) ==
    /\ a \in Compressors /\ FormOpen(a) /\ ~Modal
    /\ Click(AskOrCancel(ui, a)) \/ Click(performEditCancel(ui, a))

EscapeCompressor(a) ==
    /\ a \in Compressors \cap DOMAIN ui.cards /\ ui.expanded = a /\ ~FormOpen(a) /\ ~Modal
    /\ Click(Collapsed(ui))

-----------------------------------------------------------------------------
CompressorNotCollapsing(u, a) ==
    [u EXCEPT !.cards[a].dialog = FALSE, !.collapse = IF a \in @ THEN @ \ Kind(a) ELSE @]

CompressorKeepEditing(a) ==
    /\ a \in Compressors \cap DOMAIN ui.cards /\ ui.cards[a].dialog
    /\ \/ Click(CompressorNotCollapsing(ui, a))
       \/ FormOpen(a) /\ Click(AskOrCancel(CompressorNotCollapsing(ui, a), a))

CompressorDiscardEdits(a) ==
    /\ a \in Compressors \cap DOMAIN ui.cards /\ ui.cards[a].dialog
    /\ Click([performEditCancel(ui, a) EXCEPT !.cards[a].dialog = FALSE])

CompressorSaveEdits(a) ==
    /\ a \in Compressors \cap DOMAIN ui.cards /\ ui.cards[a].dialog
    /\ Click(SavingCompressor(CompressorNotCollapsing(ui, a), a))

CompressorNext ==
    \/ \E a \in Assets : compressorStartEditing(a) \/ compressorHandleEditSave(a)
         \/ compressorHandleEditCancel(a) \/ EscapeForm(a) \/ EscapeCompressor(a)
         \/ CompressorKeepEditing(a) \/ CompressorDiscardEdits(a) \/ CompressorSaveEdits(a)
    \/ \E a \in Assets, v \in Configs \cup {Blank} : TypeCompressor(a, v)
    \/ \E c \in ui.calls : CompressorSaveArrives(c)
=============================================================================
