------------------------------ MODULE PaneLayout ------------------------------
(* The layout of the panes of an expanded card: loaded when the card is      *)
(* expanded, changed in edit mode, and saved half a second after the last    *)
(* change (components/machine-detail/LayoutManager.tsx, the same code for    *)
(* compressors in CompressorLayoutManager.tsx, utils/layoutUtils.ts and      *)
(* api/layout.ts).                                                           *)
(*                                                                           *)
(* The header's buttons are drawn from a context that outlives the card, and *)
(* the handler a manager left there is still called when it is gone.         *)
(*                                                                           *)
(* The grid library is external: it packs what it is given, and reports what *)
(* it has packed or what the user has dragged. A place stands for x, y, w    *)
(* and h. Requests are answered in any order, or fail.                       *)
EXTENDS Naturals, FiniteSets, Screen

CONSTANTS Kinds,       \* of cards: "machine", "compressor"
          Panes,       \* the panes of each kind
          Legacy,      \* the pane each kind had once
          Heir,        \* the pane that took its place, or None
          DefaultPlace,\* the place of each pane of each kind, which may overlap
          StoredOnce,  \* the layouts that may be stored for each kind
          MaxPuts,     \* bound on the saves
          MaxMounts    \* and on the times the card is expanded

VARIABLES
    kind,
    pane,    \* the state of the manager: mounted, loading, layout, pending; and
             \* of the header: whether it is the card's (headed), and edit
    header,  \* the manager whose reset handler the header holds, or 0
    strays,  \* managers that are gone, and whose reset waits for its timer
    load,    \* the request of the mounted manager: where it is, and its answer
    saved,   \* the layout in the database, or None
    saves,   \* the saves under way
    puts,
    mounts,  \* the managers so far; the last of them is the mounted one
    edited,  \* the last layout a mounted manager was to save
    sent     \* the last layout that was sent for one

layoutVars == <<kind, pane, header, strays, load, saved, saves, puts, mounts, edited, sent>>
headerVars == <<header, strays>>

-----------------------------------------------------------------------------
(* Layouts: panes with a place, visible or not                               *)

getDefaultLayout(k) == [p \in Panes[k] |-> [at |-> DefaultPlace[k][p], visible |-> TRUE]]

\* Every pane of today is there, with what was stored for it or for the pane it
\* took over from. Panes that are not known are kept, but for the old one.
mergeLayoutWithDefaults(k, custom) ==
    LET inherited == Heir[k] # None /\ Legacy[k] \in DOMAIN custom /\ Heir[k] \notin DOMAIN custom
    IN [p \in Panes[k] \cup (DOMAIN custom \ {Legacy[k]}) |->
          IF inherited /\ p = Heir[k] THEN custom[Legacy[k]]
          ELSE IF p \in DOMAIN custom THEN custom[p] ELSE getDefaultLayout(k)[p]]

\* The old pane of a compressor is left out before its layout is merged.
layoutConfigToCompressorPanes(k, custom) ==
    LET cleaned == [p \in DOMAIN custom \ {Legacy[k]} |-> custom[p]]
    IN IF DOMAIN cleaned = {} THEN getDefaultLayout(k) ELSE mergeLayoutWithDefaults(k, cleaned)

layoutConfigToPanes(k, config) ==
    IF config = None \/ DOMAIN config = {} THEN getDefaultLayout(k)
    ELSE IF k = "compressor" THEN layoutConfigToCompressorPanes(k, config)
    ELSE mergeLayoutWithDefaults(k, config)

NoLoad == [at |-> "none", layout |-> None]

ShownPanes(l) == {p \in DOMAIN l : l[p].visible}

\* The panes that are shown, at other places.
Orders(l) ==
    LET places == 0..(Cardinality(ShownPanes(l)) - 1)
    IN {f \in [ShownPanes(l) -> places] : {f[p] : p \in ShownPanes(l)} = places}

Moved(l) ==
    {[p \in DOMAIN l |-> IF l[p].visible THEN [l[p] EXCEPT !.at = f[p]] ELSE l[p]] : f \in Orders(l)}

\* Packed upwards, in the order of their places.
Packed(l) ==
    {m \in Moved(l) : \A p, q \in ShownPanes(l) : l[p].at < l[q].at => m[p].at < m[q].at}

\* The panes of today, and those of the layouts that may be stored.
StoredNames(k) == UNION {DOMAIN l : l \in StoredOnce[k] \ {None}}
PaneNames == UNION {Panes[k] \cup StoredNames(k) : k \in Kinds}

LayoutsOf(names) == [names -> [at : Nat, visible : BOOLEAN]]
Layouts == UNION {LayoutsOf(names) : names \in SUBSET PaneNames}

\* A version that hid panes kept one: a pane of today, or the old one as long as
\* it had no heir.
LeavesSome(k, l) ==
    \/ DOMAIN l = {}
    \/ \E p \in ShownPanes(l) : p # Legacy[k] \/ (Heir[k] # None /\ Heir[k] \notin DOMAIN l)

ASSUME LayoutAssumption ==
    /\ \A names \in SUBSET PaneNames : None \notin LayoutsOf(names)
    /\ IsFiniteSet(PaneNames)
    /\ \A k \in Kinds :
         /\ Panes[k] # {} /\ Legacy[k] \notin Panes[k] /\ Heir[k] \in Panes[k] \cup {None}
         /\ DefaultPlace[k] \in [Panes[k] -> Nat]
         /\ \A l \in StoredOnce[k] \ {None} :
              l \in LayoutsOf(DOMAIN l) /\ (k = "machine" => LeavesSome(k, l))

-----------------------------------------------------------------------------
(* Saving                                                                    *)

\* The last change waits for its timer. A new one starts it again.
debouncedSave(l) ==
    /\ pane' = [pane EXCEPT !.layout = l, !.pending = l]
    /\ edited' = l

\* What waits is sent, for the state s.
Flush(s) ==
    /\ pane' = [s EXCEPT !.pending = None]
    /\ IF s.pending = None THEN UNCHANGED <<saves, puts, sent>>
       ELSE /\ puts < MaxPuts /\ puts' = puts + 1
            /\ saves' = saves \cup {[n |-> puts, l |-> s.pending]}
            /\ sent' = s.pending

TimerFires ==
    /\ pane.pending # None
    /\ Flush(pane)
    /\ UNCHANGED <<kind, headerVars, load, saved, mounts, edited>>

\* The timer of a manager that is gone.
StrayFires ==
    /\ \E m \in strays : strays' = strays \ {m}
    /\ puts < MaxPuts /\ puts' = puts + 1
    /\ saves' = saves \cup {[n |-> puts, l |-> getDefaultLayout(kind)]}
    /\ UNCHANGED <<kind, pane, header, load, saved, mounts, edited, sent>>

\* A save is stored when it arrives, or fails and is only logged.
SaveArrives ==
    /\ \E s \in saves :
         /\ saves' = saves \ {s}
         /\ saved' \in {s.l, saved}
    /\ UNCHANGED <<kind, pane, headerVars, load, puts, mounts, edited, sent>>

-----------------------------------------------------------------------------
(* The card                                                                  *)

\* A manager that is mounted sets the header's handler in edit mode and clears
\* it when the mode ends.
Handler(manager, edit) == header' = IF edit THEN manager ELSE 0

\* Expanded, the default layout is there until the stored one has been loaded.
\* An edit mode that was not ended goes on.
Mount ==
    /\ ~pane.mounted /\ mounts < MaxMounts
    /\ mounts' = mounts + 1
    /\ pane' = [pane EXCEPT !.mounted = TRUE, !.loading = TRUE, !.headed = TRUE,
                            !.layout = getDefaultLayout(kind)]
    /\ Handler(mounts', pane.edit)
    /\ load' = [at |-> "asked", layout |-> None]
    /\ UNCHANGED <<kind, strays, saved, saves, puts, edited, sent>>

\* The server answers with what is stored now; a failure gives the default.
LoadServed ==
    /\ load.at = "asked"
    /\ \E l \in {layoutConfigToPanes(kind, saved), getDefaultLayout(kind)} :
         load' = [at |-> "got", layout |-> l]
    /\ UNCHANGED <<kind, pane, headerVars, saved, saves, puts, mounts, edited, sent>>

LoadArrives ==
    /\ load.at = "got"
    /\ pane' = [pane EXCEPT !.layout = load.layout, !.loading = FALSE]
    /\ load' = NoLoad
    /\ UNCHANGED <<kind, headerVars, saved, saves, puts, mounts, edited, sent>>

\* Leaving the edit mode sends what waits, if there is a manager to see it.
ToggleEdit ==
    /\ pane.headed
    /\ IF pane.mounted THEN Handler(mounts, ~pane.edit) ELSE UNCHANGED header
    /\ IF pane.mounted /\ pane.edit THEN Flush([pane EXCEPT !.edit = FALSE])
       ELSE pane' = [pane EXCEPT !.edit = ~@] /\ UNCHANGED <<saves, puts, sent>>
    /\ UNCHANGED <<kind, strays, load, saved, mounts, edited>>

\* defect: a timer that is cleared takes its change with it
Unmount_lost ==
    /\ pane.mounted
    /\ pane' = [pane EXCEPT !.mounted = FALSE, !.loading = FALSE, !.headed = FALSE,
                            !.edit = FALSE, !.pending = None]
    /\ load' = NoLoad
    /\ UNCHANGED <<kind, headerVars, saved, saves, puts, mounts, edited, sent>>

\* The card is collapsed, which ends the edit mode and hides the header, or its
\* form or another page replaces it, which does neither. What waits is sent,
\* what is loaded is forgotten, and the handler stays where it is.
Unmount ==
    /\ pane.mounted
    /\ \E collapsed \in BOOLEAN :
         Flush([pane EXCEPT !.mounted = FALSE, !.loading = FALSE,
                            !.headed = ~collapsed, !.edit = @ /\ ~collapsed])
    /\ load' = NoLoad
    /\ UNCHANGED <<kind, headerVars, saved, mounts, edited>>

\* The header of a card that is gone is collapsed, or another card takes it, with
\* a handler and an edit mode of its own.
Elsewhere ==
    /\ ~pane.mounted
    /\ \E edit \in BOOLEAN : pane' = [pane EXCEPT !.headed = FALSE, !.edit = edit]
    /\ header' = 0
    /\ UNCHANGED <<kind, strays, load, saved, saves, puts, mounts, edited, sent>>

-----------------------------------------------------------------------------
(* Changes                                                                   *)

\* The layout becomes what the grid reports; it is saved in edit mode only.
handleLayoutChange(l) ==
    IF pane.edit THEN debouncedSave(l)
    ELSE pane' = [pane EXCEPT !.layout = l] /\ UNCHANGED edited

\* The grid reports when it is drawn anew, packed, and after a drag.
GridReports ==
    /\ pane.mounted /\ ~pane.loading
    /\ \E l \in Packed(pane.layout) : handleLayoutChange(l)
    /\ UNCHANGED <<kind, headerVars, load, saved, saves, puts, mounts, sent>>

Drag ==
    /\ pane.mounted /\ ~pane.loading /\ pane.edit
    /\ \E l \in Moved(pane.layout) : handleLayoutChange(l)
    /\ UNCHANGED <<kind, headerVars, load, saved, saves, puts, mounts, sent>>

\* The header's button, which is there while the layout is loaded, too, and calls
\* the handler it holds. A manager that is gone shows nothing any more, but its
\* timer starts.
handleResetToDefault ==
    /\ pane.headed /\ pane.edit /\ header # 0
    /\ IF pane.mounted
       THEN debouncedSave(getDefaultLayout(kind)) /\ UNCHANGED strays
       ELSE strays' = strays \cup {header} /\ UNCHANGED <<pane, edited>>
    /\ UNCHANGED <<kind, header, load, saved, saves, puts, mounts, sent>>

\* defect: the last pane can be hidden
PaneList_all(l) == DOMAIN l

\* The panes that can be hidden or shown, in the list or on the pane itself.
PaneList(l) == {p \in DOMAIN l : ~l[p].visible \/ Cardinality(ShownPanes(l)) > 1}

handleToggleVisibility(p) ==
    /\ pane.mounted /\ ~pane.loading /\ pane.edit
    /\ p \in PaneList(pane.layout)
    /\ debouncedSave([pane.layout EXCEPT ![p].visible = ~@])
    /\ UNCHANGED <<kind, headerVars, load, saved, saves, puts, mounts, sent>>

-----------------------------------------------------------------------------
LayoutInit ==
    /\ kind \in Kinds
    /\ pane = [mounted |-> FALSE, loading |-> FALSE, headed |-> FALSE, edit |-> FALSE,
               layout |-> getDefaultLayout(kind), pending |-> None]
    /\ header = 0 /\ strays = {}
    /\ load = NoLoad
    /\ saved \in StoredOnce[kind]
    /\ saves = {} /\ puts = 0 /\ mounts = 0
    /\ edited = None /\ sent = None

LayoutNext ==
    \/ Mount \/ LoadServed \/ LoadArrives \/ ToggleEdit \/ Unmount \/ Elsewhere
    \/ GridReports \/ Drag \/ handleResetToDefault
    \/ \E p \in UNION {Panes[k] : k \in Kinds} : handleToggleVisibility(p)
    \/ TimerFires \/ StrayFires \/ SaveArrives

LayoutSpec == LayoutInit /\ [][LayoutNext]_layoutVars

-----------------------------------------------------------------------------
(* Properties                                                                *)

\* Types of the manager, of its requests and of the database.
LayoutTypeOK ==
    /\ kind \in Kinds
    /\ pane \in [mounted : BOOLEAN, loading : BOOLEAN, headed : BOOLEAN, edit : BOOLEAN,
                 layout : Layouts, pending : Layouts \cup {None}]
    /\ header \in Nat /\ strays \subseteq Nat
    /\ load \in [at : {"none", "asked", "got"}, layout : Layouts \cup {None}]
    /\ load.at = "got" => load.layout # None
    /\ saved \in Layouts \cup {None}
    /\ saves \subseteq [n : Nat, l : Layouts]
    /\ puts \in Nat /\ mounts \in Nat
    /\ edited \in Layouts \cup {None} /\ sent \in Layouts \cup {None}

\* The last change made in a card is on its way to the server, or it waits for its
\* timer in a card that is there and edited.
ChangeSent ==
    IF pane.pending = None THEN sent = edited
    ELSE pane.pending = edited /\ pane.mounted /\ pane.edit

\* While a card is there the header resets it, in edit mode, and nothing else; a
\* reset that waits is one of a card that is gone.
HeaderCurrent ==
    /\ pane.mounted => header = (IF pane.edit THEN mounts ELSE 0)
    /\ \A m \in strays : m \in 1..mounts /\ ~(pane.mounted /\ m = mounts)

\* Neither the end of the edit mode nor the collapse of the card loses a change,
\* and of the resets of the header only one that is clicked when its card is gone
\* waits without it.
LastEditSent == ChangeSent /\ HeaderCurrent

\* A machine's card always has a pane to show, whatever was stored by an older
\* version and whatever is hidden.
SomePaneShown ==
    kind = "machine" /\ pane.mounted => ShownPanes(pane.layout) # {}

\* When everything has been saved the card shows what was last changed. It does
\* not: a save overtakes another, a load overtakes a save, a layout that is
\* reset while it is loaded is replaced, and a reset clicked when the card was
\* gone is sent after what was changed since.
ShownAsEdited ==
    pane.mounted /\ ~pane.loading /\ saves = {} /\ edited # None /\ pane.pending = None
      => pane.layout \in Packed(edited) \cup {edited}

\* What is stored is only replaced by what the user has changed. It is not:
\* after a failed load the grid reports the default in edit mode.
StoredOnlyByUser ==
    [][GridReports /\ edited = None => edited' = None]_layoutVars
=============================================================================
