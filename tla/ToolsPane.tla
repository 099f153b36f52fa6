------------------------------ MODULE ToolsPane ------------------------------
(* The tool table of a machine in the browser                                *)
(* (src/frontend/src/components/machine-detail/ToolsPane.tsx): edits that    *)
(* are staged locally, the cached view they are shown on, websocket updates  *)
(* that replace the cache under them, and the batch that pushes them.        *)
(*                                                                           *)
(* Tools and pots are numbers, 0 is no tool and no pot. "own" stands for the *)
(* fields of the tool itself (H, D, life, name), "color" for the fields of   *)
(* its pot (color, type). Sorting, searching and wording are left out, and   *)
(* so is the re-read of a stale cache (lines 1566-1609), which runs only     *)
(* when the cache has just been stamped and so never finds it stale. Nothing *)
(* is ever entered into recentlyPushedRef, so its branch is left out too.    *)
EXTENDS Naturals, Screen

CONSTANTS NumTools, NumPots, FieldValues,
          Magazines,                      \* what the pots may hold at first
          MaxEdits, MaxPushes, MaxUpsets, \* bounds: edits, pushes, changes at the machine,
          MaxLates                        \* messages that arrive after a newer one

ASSUME PaneAssumption == {NumTools, NumPots, MaxEdits, MaxPushes, MaxUpsets, MaxLates} \subseteq Nat
                         /\ 0 \in FieldValues
                         /\ Magazines \subseteq [1..NumPots -> 0..(NumTools + 1)]

Tools == 1..NumTools
Pots == 1..NumPots
Cap == NumTools + 1       \* 255 and 999 in the magazine: the pot is capped

VARIABLES
    machine,  \* what the machine holds: slot and color of each pot, own fields, spindle
    ws,       \* the view of the last websocket message
    prior,    \* the view the messages showed before ws
    cache,    \* unifiedCache
    pending,  \* pendingChanges, in the order of the Map's keys
    draft,    \* the number field that has the focus: its tool, text and whether it was typed
    push,     \* "idle", or where handlePushChanges is
    batch,    \* the changes of the last push
    touched,  \* an edit was made since the push began
    edits, pushes, upsets, lates

messages == <<ws, prior, lates>>

toolsVars == <<machine, messages, cache, pending, draft, push, batch, touched, edits, pushes, upsets>>

-----------------------------------------------------------------------------
(* Views                                                                     *)

\* The view of a magazine: rows of the tool table with the pot that holds
\* each tool, and the pots that hold none.
ViewOf(m) ==
    [pot     |-> [t \in Tools |-> LET at == {p \in Pots : m.slot[p] = t}
                                  IN IF at = {} THEN 0 ELSE CHOOSE p \in at : \A q \in at : q <= p],
     color   |-> [t \in Tools |-> LET at == {p \in Pots : m.slot[p] = t}
                                  IN IF at = {} THEN 0
                                     ELSE m.color[CHOOSE p \in at : \A q \in at : q <= p]],
     own     |-> m.own,
     empty   |-> {p \in Pots : m.slot[p] \notin Tools},
     cap     |-> {p \in Pots : m.slot[p] = Cap},
     spindle |-> m.spindle]

clearAtcAssignment(v, t) == [v EXCEPT !.pot[t] = 0, !.color[t] = 0]

\* Giving a tool a pot puts it in the magazine, giving it none takes it out.
applyAssignmentEdge(v, t, p) ==
    IF p = 0 THEN clearAtcAssignment(v, t) ELSE [v EXCEPT !.pot[t] = p]

applyFieldToTool(v, op, t, value) ==
    CASE op = "color" -> [v EXCEPT !.color[t] = value]
      [] op = "own" -> [v EXCEPT !.own[t] = value]
      [] op = "pot_number" -> applyAssignmentEdge(v, t, value)
      [] op = "delete" -> clearAtcAssignment(v, t)

Pocket(c) == c.op \in {"tool_number", "cap"}
OfTool(c) == c.op \in {"color", "own", "pot_number", "delete"}

\* One staged change on a view. A pocket shows its staged tool by itself (Held);
\* the spindle is not merged.
mergeServerToolWithPending(v, c) ==
    CASE OfTool(c) -> applyFieldToTool(v, c.op, c.tool, c.new)
      [] c.op = "cap" -> [v EXCEPT !.cap = @ \cup ({c.pot} \cap v.empty)]
      [] OTHER -> v

mergePendingOntoUnifiedCache(v, cs) == FoldLeft(mergeServerToolWithPending, v, cs)

\* The staged tool of an empty pocket, 0 for none or a cap.
Held(v, cs, p) ==
    LET of == {i \in DOMAIN cs : Pocket(cs[i]) /\ cs[i].pot = p /\ p \in v.empty}
    IN IF of = {} \/ cs[Max(of)].op = "cap" THEN 0 ELSE cs[Max(of)].new

\* Which tools a pot is shown to hold, by its row or as a staged pocket.
Occupants(v, cs, p) ==
    LET shown == mergePendingOntoUnifiedCache(v, cs)
    IN {t \in Tools : shown.pot[t] = p} \cup ({Held(v, cs, p)} \ {0})

\* The pot a tool is shown in.
findToolPotAssignment(v, cs, t) == {p \in Pots : t \in Occupants(v, cs, p)}

-----------------------------------------------------------------------------
(* Staging                                                                   *)

\* Changes with the same key replace each other; a deletion and a pocket go
\* by the pot, the fields of a tool by the tool.
makePendingKey(c) ==
    CASE c.op = "color" -> <<"color", c.tool, c.pot>>
      [] c.op \in {"pot_number", "own"} -> <<c.op, c.tool, 0>>
      [] c.op \in {"tool_number", "delete", "cap"} -> <<c.op, 0, c.pot>>
      [] c.op = "spindle" -> <<"spindle", 0, 0>>

Keys(cs) == {makePendingKey(c) : c \in ToSet(cs)}

ShownView == mergePendingOntoUnifiedCache(cache, pending)

\* A deletion keeps the color the tool is shown with, to restore it.
Change(op, t, p, old, new) ==
    [op |-> op, tool |-> t, pot |-> p, old |-> old, new |-> new,
     color |-> IF op = "delete" THEN ShownView.color[t] ELSE 0]

Without(cs, keys) == Only(cs, {c \in ToSet(cs) : makePendingKey(c) \notin keys})

SetPending(cs, c) ==
    IF makePendingKey(c) \in Keys(cs)
    THEN [i \in DOMAIN cs |-> IF makePendingKey(cs[i]) = makePendingKey(c) THEN c ELSE cs[i]]
    ELSE Append(cs, c)

\* What staging a change does to the cache at once.
applyToTool(v, c) ==
    CASE OfTool(c) -> applyFieldToTool(v, c.op, c.tool, c.new)
      [] c.op = "cap" -> [v EXCEPT !.cap = @ \cup {c.pot}]
      [] c.op = "tool_number" -> [v EXCEPT !.cap = @ \ {c.pot}]
      [] c.op = "spindle" -> [v EXCEPT !.spindle = c.new]

\* Taking a change back: a deleted tool returns to the pot and the color it
\* was deleted from, any other field to its value before the first edit.
revertTool(v, c) ==
    CASE c.op = "delete" -> [v EXCEPT !.pot[c.tool] = c.pot, !.color[c.tool] = c.color]
      [] OfTool(c) /\ c.op # "delete" -> applyFieldToTool(v, c.op, c.tool, c.old)
      [] OTHER -> v

stagePendingChange(c) ==
    LET same == {d \in ToSet(pending) : makePendingKey(d) = makePendingKey(c)}
        base == IF same = {} THEN c.old ELSE (CHOOSE d \in same : TRUE).old
        based == [c EXCEPT !.old = base]
    IN /\ edits' = edits + 1
       /\ touched' = (push # "idle")
       /\ IF based.new = base
          THEN /\ pending' = Without(pending, {makePendingKey(c)})
               /\ cache' = revertTool(cache, based)
          ELSE /\ pending' = SetPending(pending, based)
               /\ cache' = applyToTool(cache, based)
       /\ UNCHANGED <<machine, messages, push, batch, pushes, upsets>>

\* The rows under the three filters of the header.
VisibleTools(filter) ==
    CASE filter = "all" -> Tools
      [] filter = "atc" -> {t \in Tools : ShownView.pot[t] # 0}
      [] filter = "empty" -> {}

VisiblePockets(filter) == IF filter = "empty" THEN cache.empty ELSE {}

RowOf(t) == \E filter \in {"all", "atc", "empty"} : t \in VisibleTools(filter)
PocketOf(p) == \E filter \in {"all", "atc", "empty"} : p \in VisiblePockets(filter)

handleColorChange(t, value) ==
    /\ RowOf(t) /\ ShownView.pot[t] # 0
    /\ stagePendingChange(Change("color", t, ShownView.pot[t], ShownView.color[t], value))
    /\ UNCHANGED draft

\* defect: the tools staged for empty pockets are not looked at
PotFree_rows(t, p) == {u \in Tools : cache.pot[u] = p} \subseteq {t}

\* A pot shown to hold another tool is refused with a warning. The list of
\* pots offers the same ones.
PotFree(t, p) == Occupants(cache, pending, p) \ {t} = {}

handlePotNumberChange(t, p) ==
    /\ RowOf(t) /\ PotFree(t, p)
    /\ stagePendingChange(Change("pot_number", t, ShownView.pot[t], ShownView.pot[t], p))
    /\ UNCHANGED draft

handleDeleteFromPot(t) ==
    /\ RowOf(t) /\ ShownView.pot[t] # 0
    /\ stagePendingChange(Change("delete", t, ShownView.pot[t], t, 0))
    /\ UNCHANGED draft

\* An empty pocket takes a tool that is shown in no other pot, or a cap (0).
PocketFree(p, t) ==
    /\ Occupants(cache, pending, p) = {}
    /\ t = 0 \/ findToolPotAssignment(cache, pending, t) \subseteq {p}

handlePocketChange(p, t) ==
    /\ PocketOf(p) /\ PocketFree(p, t)
    /\ IF t = 0
       THEN stagePendingChange(Change("cap", 0, p, IF p \in ShownView.cap THEN 1 ELSE 0, 1))
       ELSE stagePendingChange(Change("tool_number", 0, p, 0, t))
    /\ UNCHANGED draft

handleSpindleChange(t) ==
    /\ cache.spindle # 0
    /\ stagePendingChange(Change("spindle", 0, 0, cache.spindle, t))
    /\ UNCHANGED draft

\* A field keeps its text while it has the focus, whatever arrives.
Focus(t) ==
    /\ draft.tool = 0 /\ RowOf(t)
    /\ draft' = [tool |-> t, text |-> ShownView.own[t], typed |-> FALSE]
    /\ UNCHANGED <<machine, messages, cache, pending, push, batch, touched, edits, pushes, upsets>>

Type(value) ==
    /\ draft.tool # 0 /\ ~draft.typed /\ value # draft.text
    /\ draft' = [draft EXCEPT !.text = value, !.typed = TRUE]
    /\ UNCHANGED <<machine, messages, cache, pending, push, batch, touched, edits, pushes, upsets>>

NoDraft == [tool |-> 0, text |-> 0, typed |-> FALSE]

\* Leaving the field stages its text when it differs from what is shown now.
Blur ==
    /\ draft.tool # 0
    /\ draft' = NoDraft
    /\ IF draft.text = ShownView.own[draft.tool]
       THEN UNCHANGED <<machine, messages, cache, pending, push, batch, touched, edits, pushes, upsets>>
       ELSE /\ edits < MaxEdits
            /\ stagePendingChange(Change("own", draft.tool, ShownView.pot[draft.tool],
                                         ShownView.own[draft.tool], draft.text))

handleDiscardChanges ==
    /\ pending # <<>> /\ push = "idle"
    /\ cache' = FoldLeft(LAMBDA v, c : IF c.op = "spindle" THEN [v EXCEPT !.spindle = c.old]
                                       ELSE revertTool(IF Pocket(c) THEN [v EXCEPT !.cap = @ \ {c.pot}]
                                                       ELSE v, c),
                         cache, pending)
    /\ pending' = <<>>
    /\ UNCHANGED <<machine, messages, draft, push, batch, touched, edits, pushes, upsets>>

-----------------------------------------------------------------------------
(* Updates                                                                   *)

serverConfirmsPendingChange(c, v) ==
    CASE c.op = "delete" -> v.pot[c.tool] = 0
      [] c.op = "pot_number" -> v.pot[c.tool] = c.new
      [] c.op = "color" -> v.pot[c.tool] # 0 /\ v.color[c.tool] = c.new
      [] c.op = "own" -> v.own[c.tool] = c.new
      [] c.op = "tool_number" -> c.pot \in v.empty /\ v.pot[c.new] = c.pot
      [] OTHER -> FALSE

\* defect: what is staged is merged onto the old view
TakeView_ontoCache(v, pushing, staged) ==
    /\ cache' = mergePendingOntoUnifiedCache(cache, staged)
    /\ pending' = IF pushing THEN staged
                  ELSE Only(staged, {c \in ToSet(staged) : ~serverConfirmsPendingChange(c, v)})

\* The effect on a new view, and when a push begins or ends: the view with
\* the staged changes becomes the cache; between pushes, staged changes the
\* view already shows are dropped.
TakeView(v, pushing, staged) ==
    /\ cache' = mergePendingOntoUnifiedCache(v, staged)
    /\ pending' = IF pushing THEN staged
                  ELSE Only(staged, {c \in ToSet(staged) : ~serverConfirmsPendingChange(c, v)})

WsUpdate ==
    /\ ws' = ViewOf(machine)
    /\ prior' = IF ws' = ws THEN prior ELSE ws
    /\ TakeView(ws', push # "idle", pending)
    /\ UNCHANGED <<lates, machine, draft, push, batch, touched, edits, pushes, upsets>>

\* A copy of the status that was taken before the newest tool table and is
\* sent after it.
WsLate ==
    /\ lates < MaxLates
    /\ lates' = lates + 1
    /\ ws' = prior
    /\ TakeView(ws', push # "idle", pending)
    /\ UNCHANGED <<prior, machine, draft, push, batch, touched, edits, pushes, upsets>>

\* Someone at the machine's panel.
Upset ==
    /\ upsets < MaxUpsets
    /\ \/ \E t \in Tools, value \in FieldValues : machine' = [machine EXCEPT !.own[t] = value]
       \/ \E p \in Pots : machine' = [machine EXCEPT !.slot[p] = 0]
    /\ machine' # machine
    /\ upsets' = upsets + 1
    /\ UNCHANGED <<messages, cache, pending, draft, push, batch, touched, edits, pushes>>

-----------------------------------------------------------------------------
(* The push                                                                  *)

PushStart ==
    /\ push = "idle" /\ pending # <<>> /\ draft.tool = 0
    /\ pushes < MaxPushes
    /\ push' = "sent"
    /\ batch' = pending
    /\ touched' = FALSE
    /\ pushes' = pushes + 1
    /\ TakeView(ws, TRUE, pending)
    /\ UNCHANGED <<machine, messages, draft, edits, upsets>>

\* The batch item of a change: its operation with the pot and tool it names.
pendingToBatchItem(c) ==
    CASE c.op = "pot_number" -> [op |-> "assignment", pot |-> c.new, tool |-> c.tool, value |-> 0]
      [] c.op = "tool_number" -> [op |-> "assignment", pot |-> c.pot, tool |-> c.new, value |-> 0]
      [] OTHER -> [op |-> c.op, pot |-> c.pot, tool |-> c.tool, value |-> c.new]

\* The backend applies deletions first; an assigned tool leaves its old pot.
ApplyItem(m, i) ==
    CASE i.op = "delete" -> IF m.slot[i.pot] = i.tool THEN [m EXCEPT !.slot[i.pot] = 0] ELSE m
      [] i.op = "assignment" ->
           [m EXCEPT !.slot = [p \in Pots |-> IF p = i.pot THEN i.tool
                                              ELSE IF m.slot[p] = i.tool THEN 0 ELSE m.slot[p]]]
      [] i.op = "cap" -> [m EXCEPT !.slot[i.pot] = Cap]
      [] i.op = "color" -> [m EXCEPT !.color[i.pot] = i.value]
      [] i.op = "own" -> [m EXCEPT !.own[i.tool] = i.value]
      [] i.op = "spindle" -> [m EXCEPT !.spindle = i.value]

Applied(m, cs) ==
    LET items == [k \in DOMAIN cs |-> pendingToBatchItem(cs[k])]
        deletes == Only(items, {i \in ToSet(items) : i.op = "delete"})
        others == Only(items, {i \in ToSet(items) : i.op # "delete"})
    IN FoldLeft(ApplyItem, FoldLeft(ApplyItem, m, deletes), others)

\* Two items that fill one pot are refused as a whole.
Fills(i) == i.op \in {"assignment", "cap"}

RefusedAsAWhole(cs) ==
    \E i, j \in DOMAIN cs : LET a == pendingToBatchItem(cs[i]) b == pendingToBatchItem(cs[j])
                            IN i # j /\ Fills(a) /\ Fills(b) /\ a.pot = b.pot

\* The pots the backend empties before it applies anything: those to be filled
\* that hold something else, and those a tool to be assigned leaves.
pots_needing_preclear_before_assignments(m, cs) ==
    LET item(k) == pendingToBatchItem(cs[k])
        AssignedTo(k) == item(k).op = "assignment" /\ \A l \in 1..(k - 1) : item(l).op # "assignment" \/ item(l).tool # item(k).tool
    IN {p \in Pots :
          /\ ~\E k \in DOMAIN cs : item(k).op = "delete" /\ item(k).pot = p
          /\ \E k \in DOMAIN cs :
               \/ item(k).op = "assignment" /\ item(k).pot = p /\ m.slot[p] \notin {0, item(k).tool}
               \/ item(k).op = "cap" /\ item(k).pot = p /\ m.slot[p] \in Tools
               \/ AssignedTo(k) /\ item(k).pot # p /\ item(k).tool = m.slot[p]}

Cleared(m, pots) == [m EXCEPT !.slot = [p \in Pots |-> IF p \in pots THEN 0 ELSE m.slot[p]]]

\* The machine after a batch of which the items of done succeeded.
AfterBatch(cs, done) == Applied(Cleared(machine, pots_needing_preclear_before_assignments(machine, cs)), done)

\* The request fails: refused at once, given up at a pot that could not be
\* emptied, or applied and its answer lost.
BatchRejected ==
    /\ push = "sent"
    /\ push' = "settling"
    /\ \/ UNCHANGED machine
       \/ /\ ~RefusedAsAWhole(batch)
          /\ \/ \E p \in Pots : machine' = Cleared(machine, {q \in pots_needing_preclear_before_assignments(machine, batch) : q < p})
             \/ \E ok \in SUBSET ToSet(batch) : machine' = AfterBatch(batch, Only(batch, ok))
    /\ UNCHANGED <<messages, cache, pending, draft, batch, touched, edits, pushes, upsets>>

\* What a result confirms of the change that is staged now: the value that
\* was sent, but its present pot and tool of an assignment.
getConfirmedValueFromResult(c, done) ==
    IF c.op \in {"color", "own", "spindle"}
    THEN [c EXCEPT !.new = (CHOOSE d \in ToSet(done) : makePendingKey(d) = makePendingKey(c)).new]
    ELSE c

Confirmed(cs, done) ==
    LET found == Only(cs, {c \in ToSet(cs) : makePendingKey(c) \in Keys(done)})
    IN [k \in DOMAIN found |-> getConfirmedValueFromResult(found[k], done)]

\* One successful change on the cache.
reconcileOne(v, c) ==
    LET i == pendingToBatchItem(c)
    IN CASE c.op = "delete" -> [clearAtcAssignment(v, c.tool) EXCEPT !.empty = @ \cup {c.pot}]
         [] i.op = "assignment" ->
              [v EXCEPT !.pot = [t \in Tools |-> IF t = i.tool THEN i.pot
                                                 ELSE IF v.pot[t] = i.pot THEN 0 ELSE v.pot[t]],
                        !.color = [t \in Tools |-> IF t # i.tool /\ v.pot[t] = i.pot
                                                   THEN 0 ELSE v.color[t]],
                        !.empty = @ \ {i.pot}]
         [] c.op = "cap" -> [v EXCEPT !.cap = @ \cup {c.pot}]
         [] c.op = "spindle" -> [v EXCEPT !.spindle = c.new]
         [] OTHER -> applyFieldToTool(v, c.op, c.tool, c.new)

reconcileUnifiedCacheAfterBatch(v, cs) == FoldLeft(reconcileOne, v, cs)

\* defect: the failed changes leave with the others
Drop_all(cs, done, failed) == Without(cs, Keys(done \o failed))

\* The results arrive: successes go into the cache and leave the staged
\* changes by their key, failures stay.
Drop(cs, done, failed) == Without(cs, Keys(done))

BatchAnswered ==
    /\ push = "sent" /\ ~RefusedAsAWhole(batch)
    /\ \E ok \in SUBSET ToSet(batch) :
         LET done == Only(batch, ok)
             failed == Only(batch, ToSet(batch) \ ok)
         IN /\ machine' = AfterBatch(batch, done)
            /\ IF done = <<>>
               THEN push' = "settling" /\ UNCHANGED <<cache, pending>>
               ELSE /\ push' = "reading"
                    /\ cache' = reconcileUnifiedCacheAfterBatch(cache, Confirmed(pending, done))
                    /\ pending' = Drop(pending, done, failed)
    /\ UNCHANGED <<messages, draft, batch, touched, edits, pushes, upsets>>

\* The view read back from the backend, or an error.
FreshArrives ==
    /\ push = "reading"
    /\ push' = "settling"
    /\ \/ cache' = mergePendingOntoUnifiedCache(ViewOf(machine), pending)
       \/ UNCHANGED cache
    /\ UNCHANGED <<machine, messages, pending, draft, batch, touched, edits, pushes, upsets>>

\* setIsPushingChanges(false) runs the effect again, on the last message.
PushEnd ==
    /\ push = "settling"
    /\ push' = "idle"
    /\ batch' = <<>>
    /\ touched' = FALSE
    /\ TakeView(ws, FALSE, pending)
    /\ UNCHANGED <<machine, messages, draft, edits, pushes, upsets>>

-----------------------------------------------------------------------------
ToolsInit ==
    /\ machine \in [slot : Magazines, color : {[p \in Pots |-> 0]}, own : {[t \in Tools |-> 0]}, spindle : {1}]
    /\ ws = ViewOf(machine) /\ prior = ws
    /\ cache = ws
    /\ pending = <<>>
    /\ draft = NoDraft
    /\ push = "idle"
    /\ batch = <<>>
    /\ touched = FALSE
    /\ edits = 0 /\ pushes = 0 /\ upsets = 0 /\ lates = 0

Assignment ==
    /\ edits < MaxEdits
    /\ \/ \E t \in Tools, p \in Pots : handlePotNumberChange(t, p)
       \/ \E p \in Pots, t \in 0..NumTools : handlePocketChange(p, t)

Edit ==
    /\ edits < MaxEdits
    /\ \/ \E t \in Tools, value \in FieldValues : handleColorChange(t, value)
       \/ \E t \in Tools : handleDeleteFromPot(t) \/ handleSpindleChange(t) \/ Focus(t)

ToolsNext ==
    \/ Assignment \/ Edit
    \/ \E value \in FieldValues : Type(value)
    \/ Blur
    \/ handleDiscardChanges
    \/ WsUpdate \/ WsLate
    \/ Upset
    \/ PushStart \/ BatchRejected \/ BatchAnswered \/ FreshArrives \/ PushEnd

ToolsSpec == ToolsInit /\ [][ToolsNext]_toolsVars

\* The backend polls the magazine again and again; a request ends. A message
\* may be late MaxLates times, and is not bound to be.
ToolsFairness ==
    /\ WF_toolsVars(WsUpdate)
    /\ WF_toolsVars(BatchRejected \/ BatchAnswered) /\ WF_toolsVars(FreshArrives) /\ WF_toolsVars(PushEnd)

FairSpec == ToolsSpec /\ ToolsFairness

-----------------------------------------------------------------------------
(* Properties                                                                *)

OnePerPot == \A p \in Pots : \A t, u \in Occupants(cache, pending, p) : t = u

\* Giving a tool a pot, in its row or in an empty pocket, staged or restaged,
\* never puts it where another one is shown.
PotsShownOnce == [][Assignment /\ OnePerPot => OnePerPot']_toolsVars

\* Unassigning does not either. It does: deletions go by the pot, so a second
\* one replaces the first, whose tool is shown in the pot again.
DeletionKeepsPots == [][~Assignment /\ edits' > edits /\ OnePerPot => OnePerPot']_toolsVars

\* No two changes of a batch contradict each other: they give a pot one content
\* and one color, a tool one pot, and do not take out what another puts in.
Simple(cs) ==
    \A i, j \in DOMAIN cs :
        LET a == pendingToBatchItem(cs[i]) b == pendingToBatchItem(cs[j])
        IN /\ i # j /\ {a.op, b.op} \subseteq {"assignment", "cap"} =>
                a.pot # b.pot /\ (a.tool # b.tool \/ a.tool = 0)
           /\ i # j /\ a.op = "color" /\ b.op = "color" => a.pot # b.pot
           /\ a.op = "assignment" /\ b.op = "delete" => a.pot # b.pot \/ a.tool # b.tool

\* A change is on the machine.
OnMachine(c) ==
    LET i == pendingToBatchItem(c)
    IN CASE i.op = "assignment" -> machine.slot[i.pot] = i.tool
         [] i.op = "delete" -> machine.slot[i.pot] # i.tool
         [] i.op = "cap" -> machine.slot[i.pot] = Cap
         [] i.op = "color" -> machine.color[i.pot] = i.value
         [] i.op = "own" -> machine.own[i.tool] = i.value
         [] i.op = "spindle" -> machine.spindle = i.value

\* Whatever a push answers, and whatever arrives meanwhile, each change of the
\* batch is afterwards on the machine or still staged, unless somebody else
\* changed the machine or the user went on editing.
PushAccounted ==
    push \in {"reading", "settling"} /\ Simple(batch) /\ ~touched /\ upsets = 0
      => \A k \in DOMAIN batch :
           OnMachine(batch[k]) \/ makePendingKey(batch[k]) \in Keys(pending)

\* When the user is done and the machine is left alone, the table ends up
\* showing the machine.
ShownSettles ==
    <>[](pending = <<>> /\ push = "idle") => <>[](ShownView = ViewOf(machine))

\* What a push confirmed and the pane has read back stays shown (the comment
\* at recentlyPushedRef). It does not: PushEnd shows the last message again.
ConfirmedKept ==
    [][cache = ViewOf(machine) /\ machine' = machine /\ pending = <<>> /\ pending' = <<>>
       => cache' = cache]_toolsVars

\* An edit made while a push is under way is not lost: it is staged or on the
\* machine. It is lost, since the answer drops it by the key it shares with
\* the change that was sent.
EditDuringPushKept ==
    [][BatchAnswered => \A c \in ToSet(pending) : c \in ToSet(pending') \/ c \in ToSet(batch)]_toolsVars

\* Only what the user typed is staged. A field that had the focus while an
\* update arrived stages the old text.
OnlyTypedStaged == [][Blur /\ ~draft.typed => pending' = pending]_toolsVars

\* Discarding shows the machine's last view again. It shows the values from
\* before the edits, and an unassigned tool loses its pot when its deletion
\* was staged before a new pot.
DiscardShowsView == [][handleDiscardChanges => cache' = ws]_toolsVars

\* A tool is staged for one pot at most. A pocket and a row may claim it both.
OneTargetPerTool ==
    \A t \in Tools : Cardinality({p \in Pots : t \in Occupants(cache, pending, p)}) <= 1
=============================================================================
