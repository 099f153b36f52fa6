---------------------------- MODULE ScreensProofs ----------------------------
(* What holds of the screens whatever the panes, assets, cases and counts:   *)
(* of the layouts, the charts, the tablet and the validation display, of the *)
(* sync panel, of the tool table, of the pie and the traces that the charts  *)
(* draw, and of the screens together.                                        *)
EXTENDS Screens, SyncPanel, ToolsPane, DataLemmas

Placed == [at : Nat, visible : BOOLEAN]

-----------------------------------------------------------------------------
(* Layouts *)

LEMMA LayoutIs ==
    /\ \A names \in SUBSET PaneNames : \A l \in [names -> Placed] : l \in Layouts
    /\ \A l \in Layouts : DOMAIN l \in SUBSET PaneNames /\ l \in [DOMAIN l -> Placed]
  BY DEF Layouts, LayoutsOf, Placed

LEMMA NotNone == None \notin Layouts
  BY LayoutAssumption DEF Layouts

LEMMA StoredType ==
    ASSUME NEW k \in Kinds, NEW l \in StoredOnce[k], l # None
    PROVE  l \in Layouts /\ (k = "machine" => LeavesSome(k, l))
<1>1. DOMAIN l \in SUBSET PaneNames
  BY DEF PaneNames, StoredNames
<1>2. l \in LayoutsOf(DOMAIN l) /\ (k = "machine" => LeavesSome(k, l))
  BY LayoutAssumption
<1> QED BY <1>1, <1>2 DEF Layouts

\* A machine's layout shows a pane, and does not hold the old one.
Kept(k, l) == l \in Layouts /\ (k = "machine" => Legacy[k] \notin DOMAIN l /\ ShownPanes(l) # {})

LEMMA DefaultType ==
    ASSUME NEW k \in Kinds
    PROVE  /\ getDefaultLayout(k) \in Layouts /\ DOMAIN getDefaultLayout(k) = Panes[k]
           /\ ShownPanes(getDefaultLayout(k)) # {}
           /\ Kept(k, getDefaultLayout(k))
<1> DEFINE d == getDefaultLayout(k)
<1>1. /\ Panes[k] \in SUBSET PaneNames /\ Panes[k] # {} /\ Legacy[k] \notin Panes[k]
      /\ DefaultPlace[k] \in [Panes[k] -> Nat]
  BY LayoutAssumption DEF PaneNames
<1>2. d \in [Panes[k] -> Placed]
  BY <1>1 DEF getDefaultLayout, Placed
<1>3. d \in Layouts
  BY <1>1, <1>2, LayoutIs
<1>4. ShownPanes(d) # {}
  BY <1>1 DEF ShownPanes, getDefaultLayout
<1> QED BY <1>1, <1>2, <1>3, <1>4 DEF Kept

\* What is merged is a layout again, of all panes of today and without the old.
LEMMA MergedType ==
    ASSUME NEW k \in Kinds, NEW custom \in Layouts
    PROVE  /\ mergeLayoutWithDefaults(k, custom) \in Layouts
           /\ DOMAIN mergeLayoutWithDefaults(k, custom) = Panes[k] \cup (DOMAIN custom \ {Legacy[k]})
           /\ Legacy[k] \notin DOMAIN mergeLayoutWithDefaults(k, custom)
<1> DEFINE names == Panes[k] \cup (DOMAIN custom \ {Legacy[k]})
           inherited == Heir[k] # None /\ Legacy[k] \in DOMAIN custom /\ Heir[k] \notin DOMAIN custom
           m == [p \in names |->
                   IF inherited /\ p = Heir[k] THEN custom[Legacy[k]]
                   ELSE IF p \in DOMAIN custom THEN custom[p] ELSE getDefaultLayout(k)[p]]
<1>1. m = mergeLayoutWithDefaults(k, custom)
  BY DEF mergeLayoutWithDefaults
<1>2. DOMAIN custom \in SUBSET PaneNames /\ custom \in [DOMAIN custom -> Placed]
  BY LayoutIs
<1>3. Panes[k] \in SUBSET PaneNames /\ Legacy[k] \notin Panes[k]
  BY LayoutAssumption DEF PaneNames
<1>4. getDefaultLayout(k) \in [Panes[k] -> Placed]
  BY DefaultType, LayoutIs
<1>5. \A p \in names : m[p] \in Placed
  BY <1>2, <1>4
<1>6. m \in [names -> Placed]
  BY <1>5
<1> HIDE DEF m
<1>7. names \in SUBSET PaneNames /\ Legacy[k] \notin names
  BY <1>2, <1>3
<1>8. m \in Layouts /\ DOMAIN m = names
  BY <1>6, <1>7, LayoutIs
<1> QED BY <1>1, <1>7, <1>8

\* A pane that was shown still is, or its heir.
LEMMA MergedShows ==
    ASSUME NEW k \in Kinds, NEW custom \in Layouts, LeavesSome(k, custom), DOMAIN custom # {}
    PROVE  ShownPanes(mergeLayoutWithDefaults(k, custom)) # {}
<1> DEFINE inherited == Heir[k] # None /\ Legacy[k] \in DOMAIN custom /\ Heir[k] \notin DOMAIN custom
           m == mergeLayoutWithDefaults(k, custom)
<1>a. DOMAIN m = Panes[k] \cup (DOMAIN custom \ {Legacy[k]})
  BY MergedType
<1>1. PICK p \in ShownPanes(custom) : p # Legacy[k] \/ (Heir[k] # None /\ Heir[k] \notin DOMAIN custom)
  BY DEF LeavesSome
<1>2. p \in DOMAIN custom /\ custom[p].visible
  BY DEF ShownPanes
<1>3. CASE p # Legacy[k]
  <2>1. p \in DOMAIN m
    BY <1>a, <1>2, <1>3
  <2>2. m[p] = custom[p]
    BY <1>2, <1>3 DEF mergeLayoutWithDefaults
  <2> QED BY <1>2, <2>1, <2>2 DEF ShownPanes
<1>4. CASE p = Legacy[k] /\ Heir[k] # None /\ Heir[k] \notin DOMAIN custom
  <2>1. Heir[k] \in Panes[k]
    BY <1>4, LayoutAssumption
  <2>2. Heir[k] \in DOMAIN m
    BY <1>a, <2>1
  <2>3. m[Heir[k]] = custom[p]
    BY <1>2, <1>4, <2>1 DEF mergeLayoutWithDefaults
  <2> QED BY <1>2, <2>2, <2>3 DEF ShownPanes
<1> QED BY <1>1, <1>3, <1>4

\* What is loaded, from what may be in the database.
LEMMA LoadedKept ==
    ASSUME NEW k \in Kinds, NEW config \in Layouts \cup {None},
           config # None /\ k = "machine" => LeavesSome(k, config)
    PROVE  Kept(k, layoutConfigToPanes(k, config))
<1>1. CASE config = None \/ DOMAIN config = {}
  BY <1>1, DefaultType DEF layoutConfigToPanes
<1>2. CASE ~(config = None \/ DOMAIN config = {}) /\ k = "compressor"
  <2> DEFINE cleaned == [p \in DOMAIN config \ {Legacy[k]} |-> config[p]]
  <2>1. DOMAIN config \in SUBSET PaneNames /\ config \in [DOMAIN config -> Placed]
    BY <1>2, LayoutIs
  <2>2. cleaned \in [DOMAIN config \ {Legacy[k]} -> Placed]
    BY <2>1
  <2>3. cleaned \in Layouts
    BY <2>1, <2>2, LayoutIs
  <2>4. layoutConfigToPanes(k, config) =
          IF DOMAIN cleaned = {} THEN getDefaultLayout(k) ELSE mergeLayoutWithDefaults(k, cleaned)
    BY <1>2 DEF layoutConfigToPanes, layoutConfigToCompressorPanes
  <2> HIDE DEF cleaned
  <2>5. mergeLayoutWithDefaults(k, cleaned) \in Layouts
    BY <2>3, MergedType
  <2>6. layoutConfigToPanes(k, config) \in Layouts
    BY <2>4, <2>5, DefaultType
  <2> QED BY <1>2, <2>6 DEF Kept
<1>3. CASE ~(config = None \/ DOMAIN config = {}) /\ k # "compressor"
  <2>1. config \in Layouts /\ layoutConfigToPanes(k, config) = mergeLayoutWithDefaults(k, config)
    BY <1>3 DEF layoutConfigToPanes
  <2> QED BY <1>3, <2>1, MergedType, MergedShows DEF Kept
<1> QED BY <1>1, <1>2, <1>3

\* A layout with its panes at other places.
LEMMA MovedKept ==
    ASSUME NEW k \in Kinds, NEW l, Kept(k, l), NEW m \in Moved(l)
    PROVE  Kept(k, m)
<1>1. l \in Layouts /\ DOMAIN l \in SUBSET PaneNames
  BY LayoutIs DEF Kept
<1>2. Cardinality(ShownPanes(l)) \in Nat
  BY <1>1, LayoutAssumption, FS_Subset, FS_CardinalityType DEF ShownPanes
<1>3. PICK f \in Orders(l) :
        m = [p \in DOMAIN l |-> IF l[p].visible THEN [l[p] EXCEPT !.at = f[p]] ELSE l[p]]
  BY DEF Moved
<1>4. /\ DOMAIN m = DOMAIN l
      /\ \A p \in DOMAIN l : m[p] = IF l[p].visible THEN [l[p] EXCEPT !.at = f[p]] ELSE l[p]
  BY <1>3
<1>5. ASSUME NEW p \in DOMAIN l PROVE m[p] \in Placed /\ m[p].visible = l[p].visible
  <2>1. l[p] \in Placed
    BY <1>1, LayoutIs DEF Kept
  <2>2. CASE l[p].visible
    <3>1. f[p] \in 0..(Cardinality(ShownPanes(l)) - 1)
      BY <2>2 DEF Orders, ShownPanes
    <3>2. f[p] \in Nat
      BY <1>2, <3>1
    <3>3. m[p] = [l[p] EXCEPT !.at = f[p]]
      BY <1>4, <2>2
    <3> QED BY <2>1, <3>2, <3>3 DEF Placed
  <2>3. CASE ~l[p].visible
    BY <1>4, <2>1, <2>3
  <2> QED BY <2>2, <2>3
<1>6. m \in [DOMAIN l -> Placed] /\ DOMAIN m = DOMAIN l
  <2>1. m = [p \in DOMAIN l |-> m[p]]
    BY <1>3
  <2> QED BY <1>4, <1>5, <2>1
<1>7. m \in Layouts
  BY <1>1, <1>6, LayoutIs
<1>8. ShownPanes(m) = ShownPanes(l)
  BY <1>5, <1>6 DEF ShownPanes
<1> QED BY <1>6, <1>7, <1>8 DEF Kept

\* A pane is hidden when another is shown.
LEMMA ToggledKept ==
    ASSUME NEW k \in Kinds, NEW l, Kept(k, l), NEW p \in PaneList(l)
    PROVE  Kept(k, [l EXCEPT ![p].visible = ~@])
<1> DEFINE m == [l EXCEPT ![p].visible = ~@]
<1>1. /\ l \in Layouts /\ DOMAIN l \in SUBSET PaneNames /\ l \in [DOMAIN l -> Placed]
      /\ p \in DOMAIN l /\ l[p] \in Placed
  BY LayoutIs DEF Kept, PaneList
<1>2. DOMAIN m = DOMAIN l /\ (\A q \in DOMAIN l : q # p => m[q] = l[q]) /\ m[p] = [l[p] EXCEPT !.visible = ~@]
  BY <1>1
<1>3. m[p] \in Placed /\ m[p].visible = ~l[p].visible
  <2> DEFINE r == l[p]
             v == ~r.visible
  <2>1. r \in Placed /\ v \in BOOLEAN /\ m[p] = [r EXCEPT !.visible = v]
    BY <1>1, <1>2 DEF Placed
  <2> HIDE DEF r, v, m
  <2>2. m[p] \in Placed /\ m[p].visible = v
    BY <2>1 DEF Placed
  <2> QED BY <2>2 DEF r, v
<1>4. m = [q \in DOMAIN l |-> m[q]]
  BY <1>1
<1> HIDE DEF m
<1>5. \A q \in DOMAIN l : m[q] \in Placed
  BY <1>1, <1>2, <1>3
<1>6. m \in [DOMAIN l -> Placed]
  BY <1>4, <1>5
<1>7. m \in Layouts
  BY <1>1, <1>6, LayoutIs
<1>8. ASSUME k = "machine" PROVE ShownPanes(m) # {}
  <2>1. CASE ~l[p].visible
    <3>1. p \in ShownPanes(m)
      BY <1>1, <1>2, <1>3, <2>1 DEF ShownPanes
    <3> QED BY <3>1
  <2>2. CASE l[p].visible
    <3>1. Cardinality(ShownPanes(l)) > 1
      BY <2>2 DEF PaneList
    <3>2. ShownPanes(l) # {p}
      <4>1. Cardinality({p}) = 1
        BY FS_Singleton
      <4> QED BY <3>1, <4>1
    <3>3. PICK q \in ShownPanes(l) : q # p
      BY <1>1, <2>2, <3>2 DEF ShownPanes
    <3>4. q \in ShownPanes(m)
      BY <1>2, <3>3 DEF ShownPanes
    <3> QED BY <3>4
  <2> QED BY <2>1, <2>2
<1> QED BY <1>2, <1>7, <1>8 DEF Kept, m

-----------------------------------------------------------------------------
(* The invariant *)

PaneType ==
    [mounted : BOOLEAN, loading : BOOLEAN, headed : BOOLEAN, edit : BOOLEAN,
     layout : Layouts, pending : Layouts \cup {None}]

\* What is shown, waits, is saved or loaded has a pane to show.
AllKept ==
    /\ Kept(kind, pane.layout)
    /\ pane.pending # None => Kept(kind, pane.pending)
    /\ \A s \in saves : Kept(kind, s.l)
    /\ load.at = "got" => Kept(kind, load.layout)

StoredLeavesSome == saved # None /\ kind = "machine" => LeavesSome(kind, saved)

LayoutInv == LayoutTypeOK /\ AllKept /\ StoredLeavesSome /\ ChangeSent

HeaderType == header \in Nat /\ strays \subseteq Nat

\* The header holds the handler of a manager there was.
HeaderInv == header \in 0..mounts /\ HeaderCurrent

\* What has been edited may be stored.
LEMMA KeptLeavesSome ==
    ASSUME NEW k, NEW l, Kept(k, l), k = "machine"
    PROVE  LeavesSome(k, l)
<1>1. Legacy[k] \notin DOMAIN l /\ ShownPanes(l) # {}
  BY DEF Kept
<1>2. PICK p \in ShownPanes(l) : TRUE
  BY <1>1
<1>3. p \in DOMAIN l
  BY <1>2 DEF ShownPanes
<1> QED BY <1>1, <1>2, <1>3 DEF LeavesSome

LEMMA LayoutFields ==
    ASSUME LayoutInv
    PROVE  /\ kind \in Kinds /\ pane \in PaneType /\ None \notin Layouts
           /\ pane.layout \in Layouts /\ pane.pending \in Layouts \cup {None}
           /\ pane.mounted \in BOOLEAN /\ pane.edit \in BOOLEAN
           /\ saved \in Layouts \cup {None} /\ edited \in Layouts \cup {None} /\ sent \in Layouts \cup {None}
           /\ saves \subseteq [n : Nat, l : Layouts] /\ puts \in Nat /\ mounts \in Nat
           /\ load \in [at : {"none", "asked", "got"}, layout : Layouts \cup {None}]
  BY NotNone DEF LayoutInv, LayoutTypeOK, PaneType

LEMMA NoLoadType == NoLoad \in [at : {"none", "asked", "got"}, layout : Layouts \cup {None}] /\ NoLoad.at = "none"
  BY DEF NoLoad

LEMMA LayoutInitInv == LayoutInit => LayoutInv
<1> SUFFICES ASSUME LayoutInit PROVE LayoutInv
  OBVIOUS
<1>1. kind \in Kinds /\ Kept(kind, getDefaultLayout(kind)) /\ getDefaultLayout(kind) \in Layouts
  BY DefaultType DEF LayoutInit
<1>2. /\ pane = [mounted |-> FALSE, loading |-> FALSE, headed |-> FALSE, edit |-> FALSE,
                 layout |-> getDefaultLayout(kind), pending |-> None]
      /\ header = 0 /\ strays = {}
      /\ load = NoLoad /\ saved \in StoredOnce[kind]
      /\ saves = {} /\ puts = 0 /\ mounts = 0 /\ edited = None /\ sent = None
  BY DEF LayoutInit
<1>3. saved # None => saved \in Layouts /\ (kind = "machine" => LeavesSome(kind, saved))
  BY <1>1, <1>2, StoredType
<1>4. pane \in PaneType /\ pane.layout = getDefaultLayout(kind) /\ pane.pending = None
  BY <1>1, <1>2 DEF PaneType
<1>5. LayoutTypeOK
  BY <1>1, <1>2, <1>3, <1>4, NoLoadType DEF LayoutTypeOK, PaneType
<1>6. AllKept
  BY <1>1, <1>2, <1>4, NoLoadType DEF AllKept
<1>7. ChangeSent
  BY <1>2, <1>4 DEF ChangeSent
<1> QED BY <1>3, <1>5, <1>6, <1>7 DEF LayoutInv, StoredLeavesSome

-----------------------------------------------------------------------------
(* The steps *)

\* A change is to be saved.
LEMMA SaveKeeps ==
    ASSUME LayoutInv, HeaderType', NEW l, Kept(kind, l), debouncedSave(l), pane.mounted, pane.edit,
           UNCHANGED <<kind, load, saved, saves, puts, mounts, sent>>
    PROVE  LayoutInv'
<1>1. pane \in PaneType /\ l \in Layouts /\ l # None
  BY LayoutFields DEF Kept
<1>2. pane' = [pane EXCEPT !.layout = l, !.pending = l] /\ edited' = l
  BY DEF debouncedSave
<1>3. /\ pane' \in PaneType /\ pane'.layout = l /\ pane'.pending = l
      /\ pane'.mounted = pane.mounted /\ pane'.edit = pane.edit
  BY <1>1, <1>2 DEF PaneType
<1>4. LayoutTypeOK'
  BY <1>1, <1>2, <1>3 DEF LayoutInv, HeaderType, LayoutTypeOK, PaneType
<1>5. AllKept'
  BY <1>3 DEF LayoutInv, AllKept
<1>6. ChangeSent'
  BY <1>1, <1>2, <1>3 DEF ChangeSent
<1> QED BY <1>4, <1>5, <1>6 DEF LayoutInv, StoredLeavesSome

\* A change is shown, and saved in edit mode.
LEMMA ChangeKeeps ==
    ASSUME LayoutInv, HeaderType', NEW l, Kept(kind, l), handleLayoutChange(l), pane.mounted,
           UNCHANGED <<kind, load, saved, saves, puts, mounts, sent>>
    PROVE  LayoutInv'
<1>1. CASE pane.edit
  BY <1>1, SaveKeeps DEF handleLayoutChange
<1>2. CASE ~pane.edit
  <2>1. pane \in PaneType /\ l \in Layouts
    BY LayoutFields DEF Kept
  <2>2. pane' = [pane EXCEPT !.layout = l] /\ edited' = edited
    BY <1>2 DEF handleLayoutChange
  <2>3. /\ pane' \in PaneType /\ pane'.layout = l /\ pane'.pending = pane.pending
        /\ pane'.mounted = pane.mounted /\ pane'.edit = pane.edit
    BY <2>1, <2>2 DEF PaneType
  <2>4. LayoutTypeOK'
    BY <2>2, <2>3 DEF LayoutInv, HeaderType, LayoutTypeOK, PaneType
  <2>5. AllKept'
    BY <2>3 DEF LayoutInv, AllKept
  <2>6. ChangeSent'
    BY <2>2, <2>3 DEF LayoutInv, ChangeSent
  <2> QED BY <2>4, <2>5, <2>6 DEF LayoutInv, StoredLeavesSome
<1> QED BY <1>1, <1>2

\* What waits is sent, whatever else becomes of the manager.
LEMMA FlushKeeps ==
    ASSUME LayoutInv, HeaderType', NEW s \in PaneType, Flush(s),
           s.layout = pane.layout, s.pending = pane.pending,
           load' = load \/ load' = NoLoad,
           UNCHANGED <<kind, saved, mounts, edited>>
    PROVE  LayoutInv'
<1>1. pane' = [s EXCEPT !.pending = None]
  BY DEF Flush
<1>2. pane' \in PaneType /\ pane'.layout = pane.layout /\ pane'.pending = None
  BY <1>1 DEF PaneType
<1>3. CASE pane.pending = None
  <2>1. UNCHANGED <<saves, puts, sent>>
    BY <1>3 DEF Flush
  <2>2. LayoutTypeOK'
    BY <1>2, <2>1, NoLoadType DEF LayoutInv, HeaderType, LayoutTypeOK, PaneType
  <2>3. AllKept'
    BY <1>2, <2>1, NoLoadType DEF LayoutInv, AllKept
  <2>4. ChangeSent'
    BY <1>2, <1>3, <2>1 DEF LayoutInv, ChangeSent
  <2> QED BY <2>2, <2>3, <2>4 DEF LayoutInv, StoredLeavesSome
<1>4. CASE pane.pending # None
  <2> DEFINE r == [n |-> puts, l |-> pane.pending]
  <2>1. puts' = puts + 1 /\ saves' = saves \cup {r} /\ sent' = pane.pending
    BY <1>4 DEF Flush
  <2>2. puts \in Nat /\ pane.pending \in Layouts
    BY <1>4, LayoutFields
  <2>3. r \in [n : Nat, l : Layouts] /\ r.l = pane.pending
    BY <2>2
  <2> HIDE DEF r
  <2>4. LayoutTypeOK'
    BY <1>2, <2>1, <2>2, <2>3, NoLoadType DEF LayoutInv, HeaderType, LayoutTypeOK, PaneType
  <2>5. AllKept'
    BY <1>2, <1>4, <2>1, <2>3, NoLoadType DEF LayoutInv, AllKept
  <2>6. ChangeSent'
    BY <1>2, <1>4, <2>1 DEF LayoutInv, ChangeSent
  <2> QED BY <2>4, <2>5, <2>6 DEF LayoutInv, StoredLeavesSome
<1> QED BY <1>3, <1>4

LEMMA TimerKeeps == LayoutInv /\ HeaderType' /\ TimerFires => LayoutInv'
  BY FlushKeeps, LayoutFields DEF TimerFires

LEMMA UnmountKeeps == LayoutInv /\ HeaderType' /\ Unmount => LayoutInv'
<1> SUFFICES ASSUME LayoutInv, HeaderType', Unmount PROVE LayoutInv'
  OBVIOUS
<1>1. PICK collapsed \in BOOLEAN :
        Flush([pane EXCEPT !.mounted = FALSE, !.loading = FALSE,
                           !.headed = ~collapsed, !.edit = @ /\ ~collapsed])
  BY DEF Unmount
<1> DEFINE s == [pane EXCEPT !.mounted = FALSE, !.loading = FALSE,
                             !.headed = ~collapsed, !.edit = @ /\ ~collapsed]
<1>2. pane \in PaneType
  BY LayoutFields
<1>3. s \in PaneType /\ s.layout = pane.layout /\ s.pending = pane.pending
  BY <1>2 DEF PaneType
<1>4. load' = NoLoad /\ UNCHANGED <<kind, saved, mounts, edited>>
  BY DEF Unmount
<1> QED BY <1>1, <1>3, <1>4, FlushKeeps

LEMMA ToggleKeeps == LayoutInv /\ HeaderType' /\ ToggleEdit => LayoutInv'
<1> SUFFICES ASSUME LayoutInv, HeaderType', ToggleEdit PROVE LayoutInv'
  OBVIOUS
<1>1. pane \in PaneType /\ UNCHANGED <<kind, load, saved, mounts, edited>>
  BY LayoutFields DEF ToggleEdit
<1>2. CASE pane.mounted /\ pane.edit
  <2> DEFINE s == [pane EXCEPT !.edit = FALSE]
  <2>1. Flush(s)
    BY <1>2 DEF ToggleEdit
  <2>2. s \in PaneType /\ s.layout = pane.layout /\ s.pending = pane.pending
    BY <1>1 DEF PaneType
  <2> QED BY <1>1, <2>1, <2>2, FlushKeeps
<1>3. CASE ~(pane.mounted /\ pane.edit)
  <2>1. pane' = [pane EXCEPT !.edit = ~@] /\ UNCHANGED <<saves, puts, sent>>
    BY <1>3 DEF ToggleEdit
  <2>2. pane' \in PaneType /\ pane'.layout = pane.layout /\ pane'.pending = pane.pending
    BY <1>1, <2>1 DEF PaneType
  <2>3. LayoutTypeOK'
    BY <1>1, <2>1, <2>2 DEF LayoutInv, HeaderType, LayoutTypeOK, PaneType
  <2>4. AllKept'
    BY <1>1, <2>1, <2>2 DEF LayoutInv, AllKept
  <2>5. pane.pending = None
    BY <1>3 DEF LayoutInv, ChangeSent
  <2>6. ChangeSent'
    BY <1>1, <2>1, <2>2, <2>5 DEF LayoutInv, ChangeSent
  <2> QED BY <1>1, <2>3, <2>4, <2>6 DEF LayoutInv, StoredLeavesSome
<1> QED BY <1>2, <1>3

LEMMA MountKeeps == LayoutInv /\ HeaderType' /\ Mount => LayoutInv'
<1> SUFFICES ASSUME LayoutInv, HeaderType', Mount PROVE LayoutInv'
  OBVIOUS
<1> DEFINE d == getDefaultLayout(kind)
<1>1. /\ pane' = [pane EXCEPT !.mounted = TRUE, !.loading = TRUE, !.headed = TRUE,
                             !.layout = d]
      /\ ~pane.mounted /\ mounts' = mounts + 1 /\ load' = [at |-> "asked", layout |-> None]
      /\ UNCHANGED <<kind, saved, saves, puts, edited, sent>>
  BY DEF Mount
<1>2. pane \in PaneType /\ kind \in Kinds
  BY LayoutFields
<1>3. d \in Layouts /\ Kept(kind, d)
  BY <1>2, DefaultType
<1> HIDE DEF d
<1>4. pane' \in PaneType /\ pane'.layout = d /\ pane'.pending = pane.pending
  BY <1>1, <1>2, <1>3 DEF PaneType
<1>5. LayoutTypeOK'
  BY <1>1, <1>4 DEF LayoutInv, HeaderType, LayoutTypeOK, PaneType
<1>6. AllKept'
  BY <1>1, <1>3, <1>4 DEF LayoutInv, AllKept
<1>7. ChangeSent'
  BY <1>1, <1>4 DEF LayoutInv, ChangeSent
<1> QED BY <1>1, <1>5, <1>6, <1>7 DEF LayoutInv, StoredLeavesSome

LEMMA ServedKeeps == LayoutInv /\ HeaderType' /\ LoadServed => LayoutInv'
<1> SUFFICES ASSUME LayoutInv, HeaderType', LoadServed PROVE LayoutInv'
  OBVIOUS
<1>1. PICK l \in {layoutConfigToPanes(kind, saved), getDefaultLayout(kind)} :
        load' = [at |-> "got", layout |-> l]
  BY DEF LoadServed
<1>2. UNCHANGED <<kind, pane, saved, saves, puts, mounts, edited, sent>>
  BY DEF LoadServed
<1>3. Kept(kind, layoutConfigToPanes(kind, saved))
  BY LayoutFields, LoadedKept DEF LayoutInv, StoredLeavesSome
<1>4. Kept(kind, l)
  BY <1>1, <1>3, LayoutFields, DefaultType
<1>5. l \in Layouts /\ l # None
  BY <1>4, LayoutFields DEF Kept
<1>6. LayoutTypeOK'
  BY <1>1, <1>2, <1>5 DEF LayoutInv, HeaderType, LayoutTypeOK
<1>7. AllKept'
  BY <1>1, <1>2, <1>4 DEF LayoutInv, AllKept
<1> QED BY <1>2, <1>6, <1>7 DEF LayoutInv, StoredLeavesSome, ChangeSent

LEMMA LoadKeeps == LayoutInv /\ HeaderType' /\ LoadArrives => LayoutInv'
<1> SUFFICES ASSUME LayoutInv, HeaderType', LoadArrives PROVE LayoutInv'
  OBVIOUS
<1>1. /\ load.at = "got" /\ load' = NoLoad
      /\ pane' = [pane EXCEPT !.layout = load.layout, !.loading = FALSE]
      /\ UNCHANGED <<kind, saved, saves, puts, mounts, edited, sent>>
  BY DEF LoadArrives
<1>2. pane \in PaneType /\ Kept(kind, load.layout) /\ load.layout \in Layouts
  BY <1>1, LayoutFields DEF LayoutInv, AllKept, Kept
<1>3. /\ pane' \in PaneType /\ pane'.layout = load.layout /\ pane'.pending = pane.pending
      /\ pane'.mounted = pane.mounted /\ pane'.edit = pane.edit
  BY <1>1, <1>2 DEF PaneType
<1>4. LayoutTypeOK'
  BY <1>1, <1>3, NoLoadType DEF LayoutInv, HeaderType, LayoutTypeOK, PaneType
<1>5. AllKept'
  BY <1>1, <1>2, <1>3, NoLoadType DEF LayoutInv, AllKept
<1>6. ChangeSent'
  BY <1>1, <1>3 DEF LayoutInv, ChangeSent
<1> QED BY <1>1, <1>4, <1>5, <1>6 DEF LayoutInv, StoredLeavesSome

LEMMA StoreKeeps == LayoutInv /\ HeaderType' /\ SaveArrives => LayoutInv'
<1> SUFFICES ASSUME LayoutInv, HeaderType', SaveArrives PROVE LayoutInv'
  OBVIOUS
<1>1. PICK s \in saves : saves' = saves \ {s} /\ saved' \in {s.l, saved}
  BY DEF SaveArrives
<1>2. UNCHANGED <<kind, pane, load, puts, mounts, edited, sent>>
  BY DEF SaveArrives
<1>3. Kept(kind, s.l) /\ s.l \in Layouts
  BY <1>1, LayoutFields DEF LayoutInv, AllKept
<1>4. LayoutTypeOK'
  BY <1>1, <1>2, <1>3 DEF LayoutInv, HeaderType, LayoutTypeOK
<1>5. AllKept'
  BY <1>1, <1>2 DEF LayoutInv, AllKept
<1>6. StoredLeavesSome'
  BY <1>1, <1>2, <1>3, KeptLeavesSome DEF LayoutInv, StoredLeavesSome
<1> QED BY <1>2, <1>4, <1>5, <1>6 DEF LayoutInv, ChangeSent

\* What a manager that is gone sends is a default.
LEMMA StrayKeeps == LayoutInv /\ HeaderType' /\ StrayFires => LayoutInv'
<1> SUFFICES ASSUME LayoutInv, HeaderType', StrayFires PROVE LayoutInv'
  OBVIOUS
<1> DEFINE r == [n |-> puts, l |-> getDefaultLayout(kind)]
<1>1. /\ puts' = puts + 1 /\ saves' = saves \cup {r}
      /\ UNCHANGED <<kind, pane, load, saved, mounts, edited, sent>>
  BY DEF StrayFires
<1>2. puts \in Nat /\ getDefaultLayout(kind) \in Layouts /\ Kept(kind, getDefaultLayout(kind))
  BY LayoutFields, DefaultType
<1>3. r \in [n : Nat, l : Layouts] /\ Kept(kind, r.l)
  BY <1>2
<1> HIDE DEF r
<1>4. LayoutTypeOK'
  BY <1>1, <1>2, <1>3 DEF LayoutInv, HeaderType, LayoutTypeOK
<1>5. AllKept'
  BY <1>1, <1>3 DEF LayoutInv, AllKept
<1> QED BY <1>1, <1>4, <1>5 DEF LayoutInv, StoredLeavesSome, ChangeSent

LEMMA ElsewhereKeeps == LayoutInv /\ HeaderType' /\ Elsewhere => LayoutInv'
<1> SUFFICES ASSUME LayoutInv, HeaderType', Elsewhere PROVE LayoutInv'
  OBVIOUS
<1>1. PICK edit \in BOOLEAN : pane' = [pane EXCEPT !.headed = FALSE, !.edit = edit]
  BY DEF Elsewhere
<1>2. ~pane.mounted /\ UNCHANGED <<kind, load, saved, saves, puts, mounts, edited, sent>>
  BY DEF Elsewhere
<1>3. pane \in PaneType
  BY LayoutFields
<1>4. pane' \in PaneType /\ pane'.layout = pane.layout /\ pane'.pending = pane.pending
  BY <1>1, <1>3 DEF PaneType
<1>5. LayoutTypeOK'
  BY <1>2, <1>4 DEF LayoutInv, HeaderType, LayoutTypeOK, PaneType
<1>6. AllKept'
  BY <1>2, <1>4 DEF LayoutInv, AllKept
<1>7. ChangeSent'
  BY <1>2, <1>4 DEF LayoutInv, ChangeSent
<1> QED BY <1>2, <1>5, <1>6, <1>7 DEF LayoutInv, StoredLeavesSome

LEMMA ResetKeeps == LayoutInv /\ HeaderType' /\ handleResetToDefault => LayoutInv'
<1> SUFFICES ASSUME LayoutInv, HeaderType', handleResetToDefault PROVE LayoutInv'
  OBVIOUS
<1>1. pane.edit /\ UNCHANGED <<kind, load, saved, saves, puts, mounts, sent>>
  BY DEF handleResetToDefault
<1>2. CASE pane.mounted
  <2>1. Kept(kind, getDefaultLayout(kind)) /\ debouncedSave(getDefaultLayout(kind))
    BY <1>2, LayoutFields, DefaultType DEF handleResetToDefault
  <2> QED BY <1>1, <1>2, <2>1, SaveKeeps
<1>3. CASE ~pane.mounted
  <2>1. UNCHANGED <<pane, edited>>
    BY <1>3 DEF handleResetToDefault
  <2>2. LayoutTypeOK'
    BY <1>1, <2>1 DEF LayoutInv, HeaderType, LayoutTypeOK
  <2>3. AllKept'
    BY <1>1, <2>1 DEF LayoutInv, AllKept
  <2> QED BY <1>1, <2>1, <2>2, <2>3 DEF LayoutInv, StoredLeavesSome, ChangeSent
<1> QED BY <1>2, <1>3

\* The step of each action.
LEMMA LayoutInvStep == LayoutInv /\ HeaderType' /\ [LayoutNext]_layoutVars => LayoutInv'
<1> SUFFICES ASSUME LayoutInv, HeaderType', [LayoutNext]_layoutVars PROVE LayoutInv'
  OBVIOUS
<1>1. kind \in Kinds /\ Kept(kind, pane.layout)
  BY LayoutFields DEF LayoutInv, AllKept
<1>2. CASE GridReports
  <2>1. PICK l \in Packed(pane.layout) : handleLayoutChange(l)
    BY <1>2 DEF GridReports
  <2>2. Kept(kind, l)
    BY <1>1, <2>1, MovedKept DEF Packed
  <2> QED BY <1>2, <2>1, <2>2, ChangeKeeps DEF GridReports
<1>3. CASE Drag
  <2>1. PICK l \in Moved(pane.layout) : handleLayoutChange(l)
    BY <1>3 DEF Drag
  <2>2. Kept(kind, l)
    BY <1>1, <2>1, MovedKept
  <2> QED BY <1>3, <2>1, <2>2, ChangeKeeps DEF Drag
<1>4. ASSUME NEW p, handleToggleVisibility(p) PROVE LayoutInv'
  <2> DEFINE l == [pane.layout EXCEPT ![p].visible = ~@]
  <2>1. p \in PaneList(pane.layout) /\ debouncedSave(l)
    BY <1>4 DEF handleToggleVisibility
  <2>2. Kept(kind, l)
    BY <1>1, <2>1, ToggledKept
  <2> HIDE DEF l
  <2> QED BY <1>4, <2>1, <2>2, SaveKeeps DEF handleToggleVisibility
<1>5. CASE UNCHANGED layoutVars
  <2>1. UNCHANGED <<kind, pane, load, saved, saves, puts, mounts, edited, sent>>
    BY <1>5 DEF layoutVars
  <2>2. LayoutTypeOK'
    BY <2>1 DEF LayoutInv, HeaderType, LayoutTypeOK
  <2>3. AllKept'
    BY <2>1 DEF LayoutInv, AllKept
  <2> QED BY <2>1, <2>2, <2>3 DEF LayoutInv, StoredLeavesSome, ChangeSent
<1> QED BY <1>2, <1>3, <1>4, <1>5, MountKeeps, ServedKeeps, LoadKeeps, ToggleKeeps, UnmountKeeps,
           ElsewhereKeeps, ResetKeeps, TimerKeeps, StrayKeeps, StoreKeeps DEF LayoutNext

\* A step that leaves the manager where it is, the mode and the header.
LEMMA HeaderKept ==
    ASSUME HeaderInv, UNCHANGED <<header, strays, mounts>>,
           pane'.mounted = pane.mounted, pane'.edit = pane.edit
    PROVE  HeaderInv'
  BY DEF HeaderInv, HeaderCurrent

\* The steps that report, change or save a layout.
LEMMA HeaderStays ==
    ASSUME LayoutInv, HeaderInv,
           \/ LoadServed \/ LoadArrives \/ GridReports \/ Drag \/ TimerFires \/ SaveArrives
           \/ \E p \in UNION {Panes[k] : k \in Kinds} : handleToggleVisibility(p)
           \/ UNCHANGED layoutVars
    PROVE  HeaderInv'
<1>1. pane \in PaneType
  BY LayoutFields
<1>2. UNCHANGED <<header, strays, mounts>>
  BY DEF LoadServed, LoadArrives, GridReports, Drag, TimerFires, SaveArrives, handleToggleVisibility,
         layoutVars, headerVars
<1>3. pane'.mounted = pane.mounted /\ pane'.edit = pane.edit
  <2>1. CASE LoadServed \/ SaveArrives \/ UNCHANGED layoutVars
    BY <2>1 DEF LoadServed, SaveArrives, layoutVars
  <2>2. CASE LoadArrives
    BY <1>1, <2>2 DEF LoadArrives, PaneType
  <2>3. CASE TimerFires
    BY <1>1, <2>3 DEF TimerFires, Flush, PaneType
  <2>4. CASE GridReports \/ Drag
    BY <1>1, <2>4 DEF GridReports, Drag, handleLayoutChange, debouncedSave, PaneType
  <2>5. CASE \E p \in UNION {Panes[k] : k \in Kinds} : handleToggleVisibility(p)
    BY <1>1, <2>5 DEF handleToggleVisibility, debouncedSave, PaneType
  <2> QED BY <2>1, <2>2, <2>3, <2>4, <2>5
<1> QED BY <1>2, <1>3, HeaderKept

\* A manager sets and clears the handler, and a reset waits for one that is gone.
LEMMA HeaderStep == LayoutInv /\ HeaderInv /\ [LayoutNext]_layoutVars => HeaderInv'
<1> SUFFICES ASSUME LayoutInv, HeaderInv, [LayoutNext]_layoutVars PROVE HeaderInv'
  OBVIOUS
<1>1. pane \in PaneType /\ mounts \in Nat
  BY LayoutFields
<1>2. header \in 0..mounts /\ HeaderCurrent
  BY DEF HeaderInv
<1>3. CASE Mount
  <2>1. /\ pane'.mounted /\ pane'.edit = pane.edit /\ mounts' = mounts + 1 /\ strays' = strays
        /\ header' = IF pane.edit THEN mounts' ELSE 0
    BY <1>1, <1>3 DEF Mount, Handler, PaneType
  <2> QED BY <1>1, <1>2, <2>1 DEF HeaderInv, HeaderCurrent
<1>4. CASE ToggleEdit
  <2>1. UNCHANGED <<strays, mounts>> /\ (pane.mounted \/ header' = header)
    BY <1>4 DEF ToggleEdit
  <2>2. pane'.mounted = pane.mounted /\ pane'.edit = ~pane.edit
    BY <1>1, <1>4 DEF ToggleEdit, Flush, PaneType
  <2>3. CASE pane.mounted
    <3>1. header' = IF ~pane.edit THEN mounts ELSE 0
      BY <1>4, <2>3 DEF ToggleEdit, Handler
    <3>2. header' = IF pane'.edit THEN mounts' ELSE 0
      BY <2>1, <2>2, <3>1, Zenon
    <3>3. header' \in 0..mounts'
      BY <1>1, <2>1, <3>2
    <3>4. \A m \in strays' : m \in 1..mounts' /\ ~(pane'.mounted /\ m = mounts')
      BY <1>2, <2>1, <2>2 DEF HeaderCurrent
    <3> QED BY <3>2, <3>3, <3>4 DEF HeaderInv, HeaderCurrent
  <2>4. CASE ~pane.mounted
    <3>1. ~pane'.mounted /\ header' = header
      BY <2>1, <2>2, <2>4
    <3> QED BY <1>1, <1>2, <2>1, <2>4, <3>1 DEF HeaderInv, HeaderCurrent
  <2> QED BY <2>3, <2>4
<1>5. CASE Unmount
  <2>1. ~pane'.mounted /\ UNCHANGED <<header, strays, mounts>>
    BY <1>1, <1>5 DEF Unmount, Flush, PaneType, headerVars
  <2> QED BY <1>2, <2>1 DEF HeaderInv, HeaderCurrent
<1>6. CASE Elsewhere
  <2>1. ~pane'.mounted /\ header' = 0 /\ UNCHANGED <<strays, mounts>>
    BY <1>1, <1>6 DEF Elsewhere, PaneType
  <2> QED BY <1>1, <1>2, <2>1 DEF HeaderInv, HeaderCurrent
<1>7. CASE handleResetToDefault
  <2>1. CASE pane.mounted
    <3>1. UNCHANGED <<header, strays, mounts>> /\ pane'.mounted = pane.mounted /\ pane'.edit = pane.edit
      BY <1>1, <1>7, <2>1 DEF handleResetToDefault, debouncedSave, PaneType
    <3> QED BY <3>1, HeaderKept
  <2>2. CASE ~pane.mounted
    <3>1. header # 0 /\ strays' = strays \cup {header} /\ UNCHANGED <<pane, header, mounts>>
      BY <1>7, <2>2 DEF handleResetToDefault
    <3> QED BY <1>1, <1>2, <2>2, <3>1 DEF HeaderInv, HeaderCurrent
  <2> QED BY <2>1, <2>2
<1>8. CASE StrayFires
  <2>1. strays' \subseteq strays /\ UNCHANGED <<pane, header, mounts>>
    BY <1>8 DEF StrayFires
  <2> QED BY <1>2, <2>1 DEF HeaderInv, HeaderCurrent
<1> QED BY <1>3, <1>4, <1>5, <1>6, <1>7, <1>8, HeaderStays DEF LayoutNext

LEMMA LayoutInvariance == LayoutSpec => [](LayoutInv /\ HeaderInv)
<1>1. LayoutInit => LayoutInv /\ HeaderInv
  <2>1. LayoutInit => HeaderInv
    BY DEF LayoutInit, HeaderInv, HeaderCurrent
  <2> QED BY <2>1, LayoutInitInv
<1>2. LayoutInv /\ HeaderInv /\ [LayoutNext]_layoutVars => (LayoutInv /\ HeaderInv)'
  <2> SUFFICES ASSUME LayoutInv, HeaderInv, [LayoutNext]_layoutVars PROVE LayoutInv' /\ HeaderInv'
    OBVIOUS
  <2>1. HeaderInv'
    BY HeaderStep
  <2>2. mounts' \in Nat
    <3>1. CASE Mount
      BY <3>1, LayoutFields DEF Mount
    <3>2. CASE ~Mount
      <4>1. UNCHANGED mounts
        BY <3>2 DEF LayoutNext, layoutVars, LoadServed, LoadArrives, ToggleEdit, Unmount, Elsewhere,
           GridReports, Drag, handleResetToDefault, handleToggleVisibility, TimerFires, StrayFires,
           SaveArrives
      <4> QED BY <4>1, LayoutFields
    <3> QED BY <3>1, <3>2
  <2>3. HeaderType'
    BY <2>1, <2>2 DEF HeaderInv, HeaderCurrent, HeaderType
  <2> QED BY <2>1, <2>3, LayoutInvStep
<1> QED BY <1>1, <1>2, PTL DEF LayoutSpec

-----------------------------------------------------------------------------
(* The theorems *)

\* What is shown, saved, loaded or stored is a layout, and None never is.
THEOREM LayoutTyping == LayoutSpec => []LayoutTypeOK
<1>1. LayoutInv => LayoutTypeOK
  BY DEF LayoutInv
<1> QED BY <1>1, LayoutInvariance, PTL

\* Neither the end of the edit mode nor the collapse of the card loses a change,
\* and the header resets no card but the one that is there.
THEOREM LastEditSentHolds == LayoutSpec => []LastEditSent
<1>1. LayoutInv /\ HeaderInv => LastEditSent
  BY DEF LayoutInv, HeaderInv, LastEditSent
<1> QED BY <1>1, LayoutInvariance, PTL

\* A machine's card has a pane to show, whatever is stored, merged and hidden.
THEOREM SomePaneShownHolds == LayoutSpec => []SomePaneShown
<1>1. LayoutInv => SomePaneShown
  BY DEF LayoutInv, AllKept, Kept, SomePaneShown
<1> QED BY <1>1, LayoutInvariance, PTL

AskType ==
    [n : 1..MaxAsks, effect : Nat, choice : Choosable, first : BOOLEAN,
     part : 1..Len(Parts), tries : 1..INITIAL_FETCH_RETRIES, answer : Answer]

ShownType == [{"events", "alarms", "cycles"} -> Answer] \cup [{"rows"} -> Answer]

ChartType ==
    [kind : ChartKinds, choice : Choosable, effect : Nat, loading : BOOLEAN, error : BOOLEAN,
     timer : BOOLEAN, readAt : Nat \cup {None}, shown : ShownType]

-----------------------------------------------------------------------------
(* Types *)

LEMMA NothingType == Nothing \in Answer /\ Nothing.of = None
  BY DEF Nothing, Answer

\* A pane has three parts, or one that every other kind has.
LEMMA PartsAre ==
    /\ chart.kind = "timeline" => Len(Parts) = 3 /\ {Parts[i] : i \in 1..Len(Parts)} = {"events", "alarms", "cycles"}
    /\ chart.kind # "timeline" => Len(Parts) = 1 /\ Parts[1] = "rows" /\ {Parts[i] : i \in 1..Len(Parts)} = {"rows"}
<1>1. CASE chart.kind = "timeline"
  <2>1. Parts = <<"events", "alarms", "cycles">>
    BY <1>1 DEF Parts
  <2>2. Len(Parts) = 3 /\ Parts[1] = "events" /\ Parts[2] = "alarms" /\ Parts[3] = "cycles"
    BY <2>1
  <2>3. 1..Len(Parts) = {1, 2, 3}
    BY <2>2
  <2> QED BY <1>1, <2>2, <2>3
<1>2. CASE chart.kind # "timeline"
  <2>1. Parts = <<"rows">>
    BY <1>2 DEF Parts
  <2>2. Len(Parts) = 1 /\ Parts[1] = "rows"
    BY <2>1
  <2>3. 1..Len(Parts) = {1}
    BY <2>2
  <2> QED BY <1>2, <2>2, <2>3
<1> QED BY <1>1, <1>2

\* As long as fewer requests are under way than may be, a number is free.
LEMMA FreeNumber ==
    ASSUME NEW A, IsFiniteSet(A), Cardinality(A) < MaxAsks
    PROVE  \E i \in 1..MaxAsks : \A a \in A : a.n # i
<1> DEFINE used == {a.n : a \in A}
           f == [a \in A |-> a.n]
<1>1. f \in Surjection(A, used)
  BY DEF Surjection
<1>2. IsFiniteSet(used) /\ Cardinality(used) <= Cardinality(A)
  BY <1>1, FS_Surjection
<1>3. Cardinality(A) \in Nat /\ Cardinality(used) \in Nat
  BY <1>2, FS_CardinalityType
<1>4. Cardinality(1..MaxAsks) = MaxAsks
  BY FS_Interval, ChartsAssumption
<1>5. ~(1..MaxAsks \subseteq used)
  <2> SUFFICES ASSUME 1..MaxAsks \subseteq used PROVE FALSE
    OBVIOUS
  <2>1. Cardinality(1..MaxAsks) <= Cardinality(used)
    BY <1>2, FS_Subset
  <2> QED BY <2>1, <1>2, <1>3, <1>4, ChartsAssumption
<1> QED BY <1>5

\* What is asked for in the state s, beside the requests in A.
LEMMA AskedType ==
    ASSUME ChartsTypeOK, NEW A \in SUBSET AskType, IsFiniteSet(A), Cardinality(A) < MaxAsks,
           NEW s \in ChartType, NEW first \in BOOLEAN
    PROVE  \E b \in AskType :
             /\ Asked(A, s, first) = A \cup {b}
             /\ b.effect = s.effect /\ b.choice = s.choice /\ b.first = first
             /\ b.part = 1 /\ b.answer = Nothing
<1> DEFINE i == CHOOSE k \in 1..MaxAsks : \A a \in A : a.n # k
           b == [n |-> i, effect |-> s.effect, choice |-> s.choice, first |-> first,
                 part |-> 1, tries |-> 1, answer |-> Nothing]
<1>1. i \in 1..MaxAsks
  BY FreeNumber
<1>2. 1 \in 1..Len(Parts) /\ 1 \in 1..INITIAL_FETCH_RETRIES
  BY PartsAre DEF INITIAL_FETCH_RETRIES
<1>3. s.effect \in Nat /\ s.choice \in Choosable
  BY DEF ChartType
<1> HIDE DEF i
<1>4. b \in AskType
  BY <1>1, <1>2, <1>3, NothingType DEF AskType
<1>5. Asked(A, s, first) = A \cup {b}
  BY DEF Asked, i
<1> QED BY <1>4, <1>5

LEMMA TypeIs ==
    ChartsTypeOK <=>
      /\ chart \in ChartType /\ DOMAIN chart.shown = {Parts[i] : i \in 1..Len(Parts)}
      /\ asks \in SUBSET AskType /\ IsFiniteSet(asks)
      /\ now \in Nat /\ polledAt \in Nat \cup {None}
  BY DEF ChartsTypeOK, ChartType, AskType, ShownType

\* A list without an element, and with another one in its place.
LEMMA Removed ==
    ASSUME ChartsTypeOK, NEW a \in asks
    PROVE  asks \ {a} \in SUBSET AskType /\ IsFiniteSet(asks \ {a})
  BY TypeIs, FS_RemoveElement

LEMMA Swapped ==
    ASSUME ChartsTypeOK, NEW a \in asks, NEW b \in AskType
    PROVE  (asks \ {a}) \cup {b} \in SUBSET AskType /\ IsFiniteSet((asks \ {a}) \cup {b})
  BY Removed, FS_AddElement

\* A step keeps the kind of the pane, and with it the names of its parts.
LEMMA SameParts ==
    ASSUME chart'.kind = chart.kind
    PROVE  Parts' = Parts /\ Guarded' = Guarded
  BY DEF Parts, Guarded

LEMMA TypeNextIs ==
    ASSUME chart'.kind = chart.kind, chart' \in ChartType,
           DOMAIN chart'.shown = {Parts[i] : i \in 1..Len(Parts)},
           asks' \in SUBSET AskType, IsFiniteSet(asks'), now' \in Nat, polledAt' \in Nat \cup {None}
    PROVE  ChartsTypeOK'
<1>1. Parts' = Parts
  BY SameParts
<1>2. AskType = [n : 1..MaxAsks, effect : Nat, choice : Choosable, first : BOOLEAN,
                 part : 1..Len(Parts'), tries : 1..INITIAL_FETCH_RETRIES, answer : Answer]
  BY <1>1 DEF AskType
<1> QED BY <1>1, <1>2 DEF ChartsTypeOK, ChartType, ShownType

\* What the effect of an answer does to what is shown.
LEMMA ShownStep ==
    ASSUME ChartsTypeOK, NEW p \in 1..Len(Parts), NEW r \in Answer
    PROVE  /\ [chart.shown EXCEPT ![Parts[p]] = r] \in ShownType
           /\ DOMAIN [chart.shown EXCEPT ![Parts[p]] = r] = DOMAIN chart.shown
           /\ [chart.shown EXCEPT ![Parts[p]] = r][Parts[p]] = r
<1>1. chart.shown \in ShownType /\ Parts[p] \in DOMAIN chart.shown
  BY TypeIs DEF ChartType
<1> QED BY <1>1 DEF ShownType

LEMMA InitType == ChartsInit => ChartsTypeOK
<1> SUFFICES ASSUME ChartsInit PROVE ChartsTypeOK
  OBVIOUS
<1>1. PICK k \in ChartKinds :
        chart = [kind |-> k, choice |-> 0, effect |-> 0, loading |-> TRUE, error |-> FALSE,
                 timer |-> FALSE, readAt |-> None,
                 shown |-> [p \in IF k = "timeline" THEN {"events", "alarms", "cycles"} ELSE {"rows"} |-> Nothing]]
  BY DEF ChartsInit
<1>2. chart.shown \in ShownType
  BY <1>1, NothingType DEF ShownType
<1>3. chart \in ChartType
  BY <1>1, <1>2 DEF ChartType, Choosable
<1>4. DOMAIN chart.shown = {Parts[i] : i \in 1..Len(Parts)}
  BY <1>1, PartsAre
<1>5. asks = {[n |-> 1, effect |-> 0, choice |-> 0, first |-> TRUE, part |-> 1, tries |-> 1, answer |-> Nothing]}
  BY DEF ChartsInit
<1>6. asks \in SUBSET AskType
  BY <1>5, PartsAre, NothingType, ChartsAssumption DEF AskType, Choosable, INITIAL_FETCH_RETRIES
<1>7. IsFiniteSet(asks)
  BY <1>5, FS_Singleton
<1>8. now \in Nat /\ polledAt \in Nat \cup {None}
  BY DEF ChartsInit
<1> QED BY <1>3, <1>4, <1>6, <1>7, <1>8, TypeIs

-----------------------------------------------------------------------------
(* What each action leaves: the pane by its fields, and the requests.        *)

LEMMA ServedStep ==
    ASSUME ChartsTypeOK, Served
    PROVE  ChartsTypeOK' /\ \E a \in asks : \E b \in AskType :
              /\ chart' = chart /\ asks' = (asks \ {a}) \cup {b}
              /\ b.effect = a.effect /\ b.choice = a.choice /\ b.first = a.first /\ b.part = a.part
              /\ b.answer.of = a.choice
<1>1. PICK a \in asks :
        asks' = (asks \ {a}) \cup
            {[a EXCEPT !.answer = [of |-> a.choice, asOf |-> now, rows |-> Rows(chart.kind, a.choice)]]}
  BY DEF Served
<1> DEFINE w == [of |-> a.choice, asOf |-> now, rows |-> Rows(chart.kind, a.choice)]
           b == [a EXCEPT !.answer = w]
<1>2. a \in AskType /\ a.choice \in Choosable /\ now \in Nat
  BY TypeIs DEF AskType
<1>3. Rows(chart.kind, a.choice) \in {"none", "some", "full", LastRows}
  BY DEF Rows, Paged
<1>4. w \in Answer
  BY <1>2, <1>3 DEF Answer
<1>5. b \in AskType /\ b.effect = a.effect /\ b.choice = a.choice /\ b.first = a.first /\ b.part = a.part /\ b.answer = w
  BY <1>2, <1>4 DEF AskType
<1>6. w.of = a.choice
  OBVIOUS
<1>7. UNCHANGED <<chart, now, polledAt>>
  BY DEF Served
<1>8. asks' = (asks \ {a}) \cup {b}
  BY <1>1
<1> HIDE DEF b, w
<1>9. asks' \in SUBSET AskType /\ IsFiniteSet(asks')
  BY <1>5, <1>8, Swapped
<1>10. ChartsTypeOK'
  BY <1>7, <1>9, TypeIs, TypeNextIs
<1> QED BY <1>5, <1>6, <1>7, <1>8, <1>10

LEMMA ArrivesStep ==
    ASSUME ChartsTypeOK, NEW a \in asks, Arrives(a)
    PROVE  /\ ChartsTypeOK'
           /\ a.answer # Nothing /\ ~Stale(a)
           /\ chart'.kind = chart.kind /\ chart'.choice = chart.choice /\ chart'.effect = chart.effect
           /\ chart'.timer = (chart.timer \/ chart.kind = "chart")
           /\ chart.kind # "timeline" =>
                /\ chart'.shown["rows"] = a.answer
                /\ chart'.loading = (chart.loading /\ Guarded /\ ~a.first)
                /\ asks' = asks \ {a}
           /\ chart.kind = "timeline" =>
                \/ a.part = 3 /\ asks' = asks \ {a} /\ chart'.loading = FALSE
                \/ \E b \in AskType : /\ asks' = (asks \ {a}) \cup {b}
                                      /\ b.effect = a.effect /\ b.choice = a.choice
                                      /\ b.answer = Nothing
<1> DEFINE last == a.part = Len(Parts)
           shown == [chart.shown EXCEPT ![Parts[a.part]] = a.answer]
           b == [a EXCEPT !.part = @ + 1, !.answer = Nothing]
<1>1. /\ a \in AskType /\ a.part \in 1..Len(Parts) /\ a.answer \in Answer /\ a.first \in BOOLEAN
      /\ chart \in ChartType /\ now \in Nat
  BY TypeIs DEF AskType
<1>2. a.answer # Nothing /\ ~Stale(a) /\ UNCHANGED <<now, polledAt>>
  BY DEF Arrives
<1>3. chart' = [chart EXCEPT !.shown = shown,
                             !.readAt = IF a.part = 1 THEN now ELSE @,
                             !.error = FALSE,
                             !.loading = @ /\ (IF Guarded THEN ~a.first ELSE ~last),
                             !.timer = @ \/ chart.kind = "chart"]
  BY DEF Arrives
<1>4. asks' = (asks \ {a}) \cup IF last THEN {} ELSE {b}
  BY DEF Arrives
<1>5. shown \in ShownType /\ DOMAIN shown = DOMAIN chart.shown /\ shown[Parts[a.part]] = a.answer
  BY <1>1, ShownStep
<1>6. ~last => b \in AskType /\ b.effect = a.effect /\ b.choice = a.choice /\ b.answer = Nothing
  <2> SUFFICES ASSUME ~last
               PROVE  b \in AskType /\ b.effect = a.effect /\ b.choice = a.choice /\ b.answer = Nothing
    OBVIOUS
  <2>1. Len(Parts) \in Nat
    BY PartsAre
  <2>2. a.part + 1 \in 1..Len(Parts)
    BY <1>1, <2>1
  <2> DEFINE c == [a EXCEPT !.part = a.part + 1]
  <2>3. c \in AskType /\ c.effect = a.effect /\ c.choice = a.choice
    BY <1>1, <2>2 DEF AskType
  <2>4. b = [c EXCEPT !.answer = Nothing]
    BY <1>1 DEF AskType
  <2> HIDE DEF b, c
  <2> QED BY <2>3, <2>4, NothingType DEF AskType
<1> HIDE DEF shown, b
<1>7. /\ chart' \in ChartType
      /\ chart'.kind = chart.kind /\ chart'.choice = chart.choice /\ chart'.effect = chart.effect
      /\ chart'.shown = shown
      /\ chart'.loading = (chart.loading /\ (IF Guarded THEN ~a.first ELSE ~last))
      /\ chart'.timer = (chart.timer \/ chart.kind = "chart")
  <2> DEFINE loads == chart.loading /\ (IF Guarded THEN ~a.first ELSE ~last)
             waits == chart.timer \/ chart.kind = "chart"
             read == IF a.part = 1 THEN now ELSE chart.readAt
  <2>1. loads \in BOOLEAN /\ waits \in BOOLEAN
    OBVIOUS
  <2>2. read \in Nat \cup {None}
    BY <1>1 DEF ChartType
  <2>3. chart' = [chart EXCEPT !.shown = shown, !.readAt = read, !.error = FALSE,
                               !.loading = loads, !.timer = waits]
    BY <1>1, <1>3 DEF ChartType
  <2> HIDE DEF loads, waits, read
  <2>4. /\ chart' \in ChartType
        /\ chart'.kind = chart.kind /\ chart'.choice = chart.choice /\ chart'.effect = chart.effect
        /\ chart'.shown = shown /\ chart'.loading = loads /\ chart'.timer = waits
    BY <1>1, <1>5, <2>1, <2>2, <2>3 DEF ChartType
  <2> QED BY <2>4 DEF loads, waits
<1>8. asks' \in SUBSET AskType /\ IsFiniteSet(asks')
  <2>1. CASE last
    BY <1>4, <2>1, Removed
  <2>2. CASE ~last
    BY <1>4, <1>6, <2>2, Swapped
  <2> QED BY <2>1, <2>2
<1>9. ChartsTypeOK'
  BY <1>2, <1>5, <1>7, <1>8, TypeIs, TypeNextIs
<1>10. ASSUME chart.kind # "timeline"
       PROVE  /\ chart'.shown["rows"] = a.answer
              /\ chart'.loading = (chart.loading /\ Guarded /\ ~a.first)
              /\ asks' = asks \ {a}
  <2>1. last /\ Parts[a.part] = "rows"
    <3>1. Len(Parts) = 1 /\ Parts[1] = "rows"
      BY <1>10, PartsAre
    <3>2. a.part = 1
      BY <1>1, <3>1
    <3> QED BY <3>1, <3>2
  <2>2. chart'.shown["rows"] = a.answer
    BY <2>1, <1>5, <1>7
  <2>3. asks' = asks \ {a}
    BY <2>1, <1>4
  <2>4. (chart.loading /\ (IF Guarded THEN ~a.first ELSE ~last)) = (chart.loading /\ Guarded /\ ~a.first)
    <3>1. (IF Guarded THEN ~a.first ELSE ~last) <=> (Guarded /\ ~a.first)
      BY <2>1
    <3> QED BY <3>1
  <2>5. chart'.loading = (chart.loading /\ Guarded /\ ~a.first)
    BY <2>4, <1>7
  <2> QED BY <2>2, <2>3, <2>5
<1>11. ASSUME chart.kind = "timeline"
       PROVE  \/ a.part = 3 /\ asks' = asks \ {a} /\ chart'.loading = FALSE
              \/ \E c \in AskType : asks' = (asks \ {a}) \cup {c} /\ c.effect = a.effect
                                    /\ c.choice = a.choice /\ c.answer = Nothing
  <2>1. ~Guarded /\ Len(Parts) = 3
    BY <1>11, PartsAre DEF Guarded
  <2> QED BY <2>1, <1>4, <1>6, <1>7
<1> QED BY <1>2, <1>7, <1>9, <1>10, <1>11

LEMMA RefusedStep ==
    ASSUME ChartsTypeOK, NEW a \in asks, Refused(a)
    PROVE  /\ ChartsTypeOK'
           /\ chart.kind = "timeline"
           /\ chart'.kind = chart.kind /\ chart'.choice = chart.choice /\ chart'.effect = chart.effect
           /\ \/ a.part = 3 /\ asks' = asks \ {a} /\ chart'.loading = FALSE
              \/ \E b \in AskType : /\ asks' = (asks \ {a}) \cup {b}
                                    /\ b.effect = a.effect /\ b.choice = a.choice
                                    /\ b.answer = Nothing
<1> DEFINE shown == IF a.part = 3 THEN [chart.shown EXCEPT !["cycles"] = Nothing] ELSE chart.shown
           loads == chart.loading /\ a.part < 3
           c == [a EXCEPT !.part = @ + 1]
           b == [a EXCEPT !.part = @ + 1, !.answer = Nothing]
<1>1. a \in AskType /\ chart \in ChartType /\ a.part \in 1..3
  BY TypeIs, PartsAre DEF AskType, Refused
<1>2. chart.kind = "timeline" /\ Len(Parts) = 3 /\ DOMAIN chart.shown = {"events", "alarms", "cycles"}
  BY TypeIs, PartsAre DEF Refused
<1>3. chart' = [chart EXCEPT !.shown = shown, !.loading = loads]
  BY <1>1 DEF Refused, ChartType
<1>4. asks' = (asks \ {a}) \cup IF a.part = 3 THEN {} ELSE {b}
  BY DEF Refused
<1>5. shown \in ShownType /\ DOMAIN shown = DOMAIN chart.shown
  BY <1>1, <1>2, NothingType DEF ChartType, ShownType
<1>6. loads \in BOOLEAN
  OBVIOUS
<1>7. ASSUME a.part # 3
      PROVE  b \in AskType /\ b.effect = a.effect /\ b.choice = a.choice /\ b.answer = Nothing
  <2>1. a.part + 1 \in 1..Len(Parts)
    BY <1>1, <1>2, <1>7
  <2>2. c \in AskType /\ c.effect = a.effect /\ c.choice = a.choice
    BY <1>1, <2>1 DEF AskType
  <2>3. b = [c EXCEPT !.answer = Nothing]
    BY <1>1 DEF AskType
  <2> HIDE DEF b, c
  <2> QED BY <2>2, <2>3, NothingType DEF AskType
<1> HIDE DEF shown, b
<1>8. /\ chart' \in ChartType /\ chart'.shown = shown /\ chart'.loading = loads
      /\ chart'.kind = chart.kind /\ chart'.choice = chart.choice /\ chart'.effect = chart.effect
  <2> HIDE DEF loads
  <2> QED BY <1>1, <1>3, <1>5, <1>6 DEF ChartType
<1>9. asks' \in SUBSET AskType /\ IsFiniteSet(asks')
  <2>1. CASE a.part = 3
    BY <1>4, <2>1, Removed
  <2>2. CASE a.part # 3
    BY <1>4, <1>7, <2>2, Swapped
  <2> QED BY <2>1, <2>2
<1>10. UNCHANGED <<now, polledAt>>
  BY DEF Refused
<1>11. ChartsTypeOK'
  BY <1>5, <1>8, <1>9, <1>10, TypeIs, TypeNextIs
<1>12. a.part = 3 => loads = FALSE
  OBVIOUS
<1> HIDE DEF loads
<1> QED BY <1>2, <1>4, <1>7, <1>8, <1>11, <1>12

LEMMA FailsStep ==
    ASSUME ChartsTypeOK, NEW a \in asks, Fails(a)
    PROVE  /\ ChartsTypeOK'
           /\ ~Stale(a) /\ asks' = asks \ {a}
           /\ chart'.kind = chart.kind /\ chart'.choice = chart.choice /\ chart'.effect = chart.effect
           /\ chart'.loading = (chart.loading /\ Guarded /\ ~a.first)
           /\ chart'.error = (chart.error \/ (Guarded /\ a.first))
           /\ chart'.timer = (chart.timer \/ chart.kind = "chart")
           /\ Guarded => chart'.shown = chart.shown
<1> DEFINE shown == IF chart.kind \in {"runs", "prd3"} THEN [p \in DOMAIN chart.shown |-> Nothing] ELSE chart.shown
           errs == chart.error \/ (Guarded /\ a.first)
           loads == chart.loading /\ Guarded /\ ~a.first
           waits == chart.timer \/ chart.kind = "chart"
<1>1. chart \in ChartType
  BY TypeIs
<1>2. chart' = [chart EXCEPT !.shown = shown, !.error = errs, !.loading = loads, !.timer = waits]
  BY <1>1 DEF Fails, ChartType
<1>3. shown \in ShownType /\ DOMAIN shown = DOMAIN chart.shown
  BY <1>1, NothingType DEF ChartType, ShownType
<1>4. errs \in BOOLEAN /\ loads \in BOOLEAN /\ waits \in BOOLEAN
  BY <1>1 DEF ChartType
<1>5. Guarded => shown = chart.shown
  BY DEF Guarded
<1> HIDE DEF shown, errs, loads, waits
<1>6. /\ chart' \in ChartType /\ chart'.shown = shown
      /\ chart'.kind = chart.kind /\ chart'.choice = chart.choice /\ chart'.effect = chart.effect
      /\ chart'.error = errs /\ chart'.loading = loads /\ chart'.timer = waits
  BY <1>1, <1>2, <1>3, <1>4 DEF ChartType
<1>7. ~Stale(a) /\ asks' = asks \ {a} /\ UNCHANGED <<now, polledAt>>
  BY DEF Fails
<1>8. ChartsTypeOK'
  BY <1>3, <1>6, <1>7, Removed, TypeIs, TypeNextIs
<1> QED BY <1>5, <1>6, <1>7, <1>8 DEF errs, loads, waits

LEMMA RetryStep ==
    ASSUME ChartsTypeOK, NEW a \in asks, fetchCompressorStatusSamples(a)
    PROVE  ChartsTypeOK' /\ chart' = chart /\ \E b \in AskType :
              /\ asks' = (asks \ {a}) \cup {b}
              /\ b.effect = a.effect /\ b.choice = a.choice /\ b.first = a.first /\ b.answer = Nothing
<1> DEFINE c == [a EXCEPT !.tries = @ + 1]
           b == [a EXCEPT !.tries = @ + 1, !.answer = Nothing]
<1>1. a \in AskType /\ a.tries + 1 \in 1..INITIAL_FETCH_RETRIES
  BY TypeIs DEF AskType, fetchCompressorStatusSamples, INITIAL_FETCH_RETRIES
<1>2. c \in AskType /\ c.effect = a.effect /\ c.choice = a.choice /\ c.first = a.first
  BY <1>1 DEF AskType
<1>3. b = [c EXCEPT !.answer = Nothing]
  BY <1>1 DEF AskType
<1>4. asks' = (asks \ {a}) \cup {b} /\ UNCHANGED <<chart, now, polledAt>>
  BY DEF fetchCompressorStatusSamples
<1> HIDE DEF b, c
<1>5. b \in AskType /\ b.effect = a.effect /\ b.choice = a.choice /\ b.first = a.first /\ b.answer = Nothing
  BY <1>2, <1>3, NothingType DEF AskType
<1>6. ChartsTypeOK'
  BY <1>4, <1>5, Swapped, TypeIs, TypeNextIs
<1> QED BY <1>4, <1>5, <1>6

\* What the interval, the chain of a chart and a choice leave.
LEMMA AskStep ==
    ASSUME ChartsTypeOK, NEW A \in SUBSET asks, Cardinality(A) < MaxAsks,
           NEW s \in ChartType, NEW first \in BOOLEAN,
           s.kind = chart.kind, s.shown = chart.shown,
           chart' = s, asks' = Asked(A, s, first), UNCHANGED <<now, polledAt>>
    PROVE  ChartsTypeOK' /\ \E b \in AskType :
              /\ asks' = A \cup {b}
              /\ b.effect = s.effect /\ b.choice = s.choice /\ b.first = first /\ b.answer = Nothing
<1>1. A \in SUBSET AskType /\ IsFiniteSet(A)
  BY TypeIs, FS_Subset
<1>2. PICK b \in AskType :
        /\ asks' = A \cup {b}
        /\ b.effect = s.effect /\ b.choice = s.choice /\ b.first = first /\ b.answer = Nothing
  BY <1>1, AskedType
<1>3. asks' \in SUBSET AskType /\ IsFiniteSet(asks')
  BY <1>1, <1>2, FS_AddElement
<1>4. ChartsTypeOK'
  BY <1>3, TypeIs, TypeNextIs
<1> QED BY <1>2, <1>4

LEMMA IntervalStep ==
    ASSUME ChartsTypeOK, IntervalFires
    PROVE  /\ ChartsTypeOK'
           /\ chart.kind # "chart"
           /\ chart'.kind = chart.kind /\ chart'.choice = chart.choice /\ chart'.effect = chart.effect
           /\ chart'.shown = chart.shown /\ chart'.error = chart.error
           /\ chart'.loading = (chart.loading \/ ~Guarded)
           /\ \E b \in AskType : /\ asks' = asks \cup {b} /\ b.effect = chart.effect
                                 /\ b.choice = chart.choice /\ b.answer = Nothing
<1> DEFINE loads == chart.loading \/ ~Guarded
           s == [chart EXCEPT !.loading = loads]
<1>1. chart \in ChartType
  BY TypeIs
<1>2. chart' = s
  BY <1>1 DEF IntervalFires, ChartType
<1>3. loads \in BOOLEAN
  BY <1>1 DEF ChartType
<1> HIDE DEF loads
<1>4. /\ s \in ChartType /\ s.kind = chart.kind /\ s.shown = chart.shown /\ s.effect = chart.effect
      /\ s.choice = chart.choice /\ s.error = chart.error /\ s.loading = loads
  BY <1>1, <1>3 DEF ChartType
<1>5. asks' = Asked(asks, s, FALSE)
  BY <1>4 DEF IntervalFires, Asked
<1>6. chart.kind # "chart" /\ Cardinality(asks) < MaxAsks /\ UNCHANGED <<now, polledAt>>
  BY DEF IntervalFires
<1> HIDE DEF s
<1>7. ChartsTypeOK' /\ \E b \in AskType :
              /\ asks' = asks \cup {b}
              /\ b.effect = s.effect /\ b.choice = s.choice /\ b.first = FALSE /\ b.answer = Nothing
  BY <1>2, <1>4, <1>5, <1>6, AskStep
<1> QED BY <1>2, <1>4, <1>6, <1>7 DEF loads

LEMMA PollStep ==
    ASSUME ChartsTypeOK, runPoll
    PROVE  /\ ChartsTypeOK'
           /\ chart.timer /\ chart'.timer = FALSE
           /\ chart'.kind = chart.kind /\ chart'.choice = chart.choice /\ chart'.effect = chart.effect
           /\ chart'.shown = chart.shown /\ chart'.error = chart.error /\ chart'.loading = chart.loading
           /\ \E b \in AskType : /\ asks' = asks \cup {b} /\ b.effect = chart.effect
                                 /\ b.choice = chart.choice /\ b.answer = Nothing
<1> DEFINE s == [chart EXCEPT !.timer = FALSE]
<1>1. chart \in ChartType
  BY TypeIs
<1>2. chart' = s /\ chart.timer /\ Cardinality(asks) < MaxAsks /\ UNCHANGED <<now, polledAt>>
  BY DEF runPoll
<1>3. /\ s \in ChartType /\ s.kind = chart.kind /\ s.shown = chart.shown /\ s.effect = chart.effect
      /\ s.choice = chart.choice /\ s.error = chart.error /\ s.loading = chart.loading /\ s.timer = FALSE
  BY <1>1 DEF ChartType
<1>4. asks' = Asked(asks, s, FALSE)
  BY <1>3 DEF runPoll, Asked
<1> HIDE DEF s
<1>5. ChartsTypeOK' /\ \E b \in AskType :
              /\ asks' = asks \cup {b}
              /\ b.effect = s.effect /\ b.choice = s.choice /\ b.first = FALSE /\ b.answer = Nothing
  BY <1>2, <1>3, <1>4, AskStep
<1> QED BY <1>2, <1>3, <1>5

LEMMA ChooseStep ==
    ASSUME ChartsTypeOK, NEW c \in Selectable, Choose(c)
    PROVE  /\ ChartsTypeOK'
           /\ chart'.kind = chart.kind /\ chart'.choice = c /\ chart'.effect = chart.effect + 1
           /\ chart'.loading = TRUE /\ chart'.timer = FALSE
           /\ \E A \in SUBSET asks : \E b \in AskType :
                /\ asks' = A \cup {b} /\ (chart.kind = "chart" => A = {})
                /\ b.effect = chart.effect + 1 /\ b.choice = c /\ b.first = TRUE /\ b.answer = Nothing
<1> DEFINE errs == chart.error /\ ~Guarded
           s == [chart EXCEPT !.choice = c, !.effect = @ + 1, !.loading = TRUE,
                              !.error = @ /\ ~Guarded, !.timer = FALSE]
           A == {a \in asks : chart.kind # "chart" /\ ~(chart.kind = "history" /\ a.first)}
<1>1. chart \in ChartType /\ chart.effect \in Nat
  BY TypeIs DEF ChartType
<1>2. /\ chart' = s /\ Cardinality(A) < MaxAsks /\ UNCHANGED <<now, polledAt>>
      /\ asks' = Asked(A, s, TRUE)
  BY DEF Choose
<1>3. errs \in BOOLEAN /\ c \in Choosable
  BY <1>1 DEF Choosable
<1>4. s = [chart EXCEPT !.choice = c, !.effect = chart.effect + 1, !.loading = TRUE,
                        !.error = errs, !.timer = FALSE]
  BY <1>1 DEF ChartType
<1> DEFINE turned == [chart EXCEPT !.choice = c, !.effect = chart.effect + 1]
<1>a. /\ turned \in ChartType /\ turned.kind = chart.kind /\ turned.shown = chart.shown
      /\ turned.effect = chart.effect + 1 /\ turned.choice = c
  <2> DEFINE picked == [chart EXCEPT !.choice = c]
             n == chart.effect + 1
  <2>1. picked \in ChartType /\ picked.kind = chart.kind /\ picked.shown = chart.shown /\ picked.choice = c
    BY <1>1, <1>3 DEF ChartType
  <2>2. turned = [picked EXCEPT !.effect = n]
    OBVIOUS
  <2>3. n \in Nat
    BY <1>1
  <2> HIDE DEF turned, picked, n
  <2>4. /\ turned \in ChartType /\ turned.kind = chart.kind /\ turned.shown = chart.shown
        /\ turned.effect = n /\ turned.choice = c
    BY <2>1, <2>2, <2>3 DEF ChartType
  <2> QED BY <2>4 DEF n
<1> HIDE DEF errs, s
<1>b. s = [turned EXCEPT !.loading = TRUE, !.error = errs, !.timer = FALSE]
  BY <1>4
<1> HIDE DEF turned
<1>5. /\ s \in ChartType /\ s.kind = chart.kind /\ s.shown = chart.shown /\ s.effect = chart.effect + 1
      /\ s.choice = c /\ s.loading = TRUE /\ s.timer = FALSE
  BY <1>a, <1>b, <1>3 DEF ChartType
<1>6. A \in SUBSET asks /\ (chart.kind = "chart" => A = {})
  OBVIOUS
<1> HIDE DEF A
<1>7. ChartsTypeOK' /\ \E b \in AskType :
              /\ asks' = A \cup {b}
              /\ b.effect = s.effect /\ b.choice = s.choice /\ b.first = TRUE /\ b.answer = Nothing
  BY <1>2, <1>5, <1>6, AskStep
<1> QED BY <1>2, <1>5, <1>6, <1>7

LEMMA PassesStep ==
    ASSUME ChartsTypeOK, Passes
    PROVE  ChartsTypeOK' /\ UNCHANGED <<chart, asks>>
<1>1. now \in Nat /\ now' = now + 1 /\ polledAt' \in {None, polledAt, now + 1} /\ UNCHANGED <<chart, asks>>
  BY TypeIs DEF Passes
<1>2. now' \in Nat /\ polledAt' \in Nat \cup {None}
  BY <1>1, TypeIs
<1> QED BY <1>1, <1>2, TypeIs, TypeNextIs

LEMMA IgnoredStep ==
    ASSUME ChartsTypeOK, NEW a \in asks, Ignored(a)
    PROVE  ChartsTypeOK' /\ Stale(a) /\ chart' = chart /\ asks' = asks \ {a}
<1>1. Stale(a) /\ asks' = asks \ {a} /\ UNCHANGED <<chart, now, polledAt>>
  BY DEF Ignored
<1> QED BY <1>1, Removed, TypeIs, TypeNextIs
-----------------------------------------------------------------------------
(* The invariant *)

\* A request knows what it was asked for: for the present choice when it is of
\* the present effect, and its answer is of what it asked for.
AsksKept ==
    \A a \in asks :
       /\ a.effect <= chart.effect
       /\ Guarded /\ a.effect = chart.effect => a.choice = chart.choice
       /\ a.answer = Nothing \/ a.answer.of = a.choice

\* What ends the loading is under way.
LoadsEnd == chart.loading => \E a \in asks : ~Stale(a) /\ (Guarded => a.first)

Live == {a \in asks : a.effect = chart.effect}

OneLive == chart.kind = "chart" => IF chart.timer THEN Live = {} ELSE \E a : Live = {a}

ChartsInv == ChartsTypeOK /\ AsksKept /\ LoadsEnd /\ OneLive /\ ShownIsChosen

LEMMA ChartsInitInv == ChartsInit => ChartsInv
<1> SUFFICES ASSUME ChartsInit PROVE ChartsInv
  OBVIOUS
<1> DEFINE b == [n |-> 1, effect |-> 0, choice |-> 0, first |-> TRUE, part |-> 1, tries |-> 1, answer |-> Nothing]
<1>1. ChartsTypeOK
  BY InitType
<1>2. asks = {b} /\ b.effect = 0 /\ b.choice = 0 /\ b.first = TRUE /\ b.answer = Nothing
  BY DEF ChartsInit
<1>3. chart.effect = 0 /\ chart.choice = 0 /\ chart.loading = TRUE /\ chart.timer = FALSE
  BY DEF ChartsInit
<1> HIDE DEF b
<1>4. Live = {b}
  BY <1>2, <1>3 DEF Live
<1>5. AsksKept
  BY <1>2, <1>3 DEF AsksKept
<1>6. LoadsEnd
  BY <1>2, <1>3 DEF LoadsEnd, Stale
<1> QED BY <1>1, <1>3, <1>4, <1>5, <1>6 DEF ChartsInv, OneLive, ShownIsChosen

\* Facts about the fields that the steps below compare.
LEMMA ChartsFields ==
    ASSUME ChartsTypeOK
    PROVE  /\ chart.effect \in Nat /\ chart.loading \in BOOLEAN /\ chart.timer \in BOOLEAN
           /\ chart.error \in BOOLEAN
           /\ \A a \in asks : a.effect \in Nat /\ a.first \in BOOLEAN
  BY TypeIs DEF ChartType, AskType

\* A request is replaced by one of the same effect, or one that is still to be
\* answered comes in its place: nothing else changes.
LEMMA SwapKeeps ==
    ASSUME ChartsInv, ChartsTypeOK', chart' = chart, NEW a \in asks, NEW b \in AskType,
           asks' = (asks \ {a}) \cup {b},
           b.effect = a.effect, b.choice = a.choice, b.first = a.first,
           b.answer = Nothing \/ b.answer.of = b.choice
    PROVE  ChartsInv'
<1>1. AsksKept'
  BY DEF ChartsInv, AsksKept, Guarded
<1>2. LoadsEnd'
  <2> SUFFICES ASSUME chart.loading PROVE \E c \in asks' : ~Stale(c)' /\ (Guarded => c.first)
    BY DEF LoadsEnd, Guarded
  <2>1. PICK c \in asks : ~Stale(c) /\ (Guarded => c.first)
    BY DEF ChartsInv, LoadsEnd
  <2>2. CASE c = a
    BY <2>1, <2>2 DEF Stale, Guarded
  <2>3. CASE c # a
    BY <2>1, <2>3 DEF Stale, Guarded
  <2> QED BY <2>2, <2>3
<1>3. OneLive'
  <2> SUFFICES ASSUME chart.kind = "chart"
               PROVE  IF chart.timer THEN Live' = {} ELSE \E c : Live' = {c}
    BY DEF OneLive
  <2>1. Live' = IF a.effect = chart.effect THEN (Live \ {a}) \cup {b} ELSE Live \ {a}
    BY DEF Live
  <2>2. a \in Live <=> a.effect = chart.effect
    BY DEF Live
  <2>3. CASE chart.timer
    BY <2>1, <2>2, <2>3 DEF ChartsInv, OneLive
  <2>4. CASE ~chart.timer
    <3>1. PICK c : Live = {c}
      BY <2>4 DEF ChartsInv, OneLive
    <3>2. CASE a.effect = chart.effect
      <4>1. Live' = {b}
        BY <2>1, <2>2, <3>1, <3>2
      <4> QED BY <2>4, <4>1
    <3>3. CASE a.effect # chart.effect
      <4>1. Live' = {c}
        BY <2>1, <2>2, <3>1, <3>3
      <4> QED BY <2>4, <4>1
    <3> QED BY <3>2, <3>3
  <2> QED BY <2>3, <2>4
<1>4. ShownIsChosen'
  BY DEF ChartsInv, ShownIsChosen, Guarded
<1> QED BY <1>1, <1>2, <1>3, <1>4 DEF ChartsInv

\* An answer, good or bad, of a pane that is not the timeline.
LEMMA AnswerKeeps ==
    ASSUME ChartsInv, ChartsTypeOK', NEW a \in asks, ~Stale(a), asks' = asks \ {a},
           chart'.kind = chart.kind, chart'.choice = chart.choice, chart'.effect = chart.effect,
           chart'.timer = (chart.timer \/ chart.kind = "chart"),
           chart'.loading => chart.loading /\ Guarded /\ ~a.first,
           ShownIsChosen'
    PROVE  ChartsInv'
<1>1. Guarded' = Guarded
  BY DEF Guarded
<1>2. AsksKept'
  BY <1>1 DEF ChartsInv, AsksKept
<1>3. LoadsEnd'
  <2> SUFFICES ASSUME chart'.loading PROVE \E c \in asks' : ~Stale(c)' /\ (Guarded => c.first)
    BY <1>1 DEF LoadsEnd
  <2>1. PICK c \in asks : ~Stale(c) /\ (Guarded => c.first)
    BY DEF ChartsInv, LoadsEnd
  <2>2. c # a
    BY <2>1
  <2> QED BY <1>1, <2>1, <2>2 DEF Stale
<1>4. OneLive'
  <2> SUFFICES ASSUME chart.kind = "chart" PROVE chart'.timer /\ Live' = {}
    BY DEF OneLive
  <2>1. a \in Live
    BY DEF Stale, Guarded, Live
  <2>2. Live' = Live \ {a}
    BY DEF Live
  <2>3. Live \ {a} = {}
    BY <2>1 DEF ChartsInv, OneLive
  <2> QED BY <2>2, <2>3
<1> QED BY <1>2, <1>3, <1>4 DEF ChartsInv

\* A part of the timeline has come, or not: the next is asked for, or it is done.
LEMMA PartKeeps ==
    ASSUME ChartsInv, ChartsTypeOK', NEW a \in asks, chart.kind = "timeline",
           chart'.kind = chart.kind, chart'.choice = chart.choice, chart'.effect = chart.effect,
           \/ a.part = 3 /\ asks' = asks \ {a} /\ chart'.loading = FALSE
           \/ \E b \in AskType : /\ asks' = (asks \ {a}) \cup {b}
                                 /\ b.effect = a.effect /\ b.choice = a.choice
                                 /\ b.answer = Nothing
    PROVE  ChartsInv'
<1>1. ~Guarded /\ ~Guarded'
  BY DEF Guarded
<1>2. AsksKept'
  BY <1>1 DEF ChartsInv, AsksKept
<1>3. LoadsEnd'
  BY <1>1 DEF LoadsEnd, Stale
<1>4. OneLive' /\ ShownIsChosen'
  BY <1>1 DEF OneLive, ShownIsChosen
<1> QED BY <1>2, <1>3, <1>4 DEF ChartsInv

\* A request more, for what is chosen.
LEMMA AddKeeps ==
    ASSUME ChartsInv, ChartsTypeOK', NEW b,
           asks' = asks \cup {b}, b.effect = chart.effect, b.choice = chart.choice, b.answer = Nothing,
           chart'.kind = chart.kind, chart'.choice = chart.choice, chart'.effect = chart.effect,
           chart'.shown = chart.shown, chart'.error = chart.error,
           Guarded => chart'.loading = chart.loading,
           OneLive'
    PROVE  ChartsInv'
<1>1. Guarded' = Guarded
  BY DEF Guarded
<1>2. AsksKept'
  <2>1. chart.effect \in Nat
    BY ChartsFields DEF ChartsInv
  <2> QED BY <1>1, <2>1 DEF ChartsInv, AsksKept
<1>3. LoadsEnd'
  <2>1. CASE Guarded
    <3> SUFFICES ASSUME chart.loading PROVE \E c \in asks' : ~Stale(c)' /\ c.first
      BY <1>1, <2>1 DEF LoadsEnd
    <3>1. PICK c \in asks : ~Stale(c) /\ c.first
      BY <2>1 DEF ChartsInv, LoadsEnd
    <3> QED BY <1>1, <3>1 DEF Stale
  <2>2. CASE ~Guarded
    BY <1>1, <2>2 DEF LoadsEnd, Stale
  <2> QED BY <2>1, <2>2
<1>4. ShownIsChosen'
  BY <1>1 DEF ChartsInv, ShownIsChosen
<1> QED BY <1>2, <1>3, <1>4 DEF ChartsInv

LEMMA PollKeeps == ChartsInv /\ runPoll => ChartsInv'
<1> SUFFICES ASSUME ChartsInv, runPoll PROVE ChartsInv'
  OBVIOUS
<1>1. ChartsTypeOK
  BY DEF ChartsInv
<1>2. PICK b \in AskType : asks' = asks \cup {b} /\ b.effect = chart.effect /\ b.choice = chart.choice /\ b.answer = Nothing
  BY <1>1, PollStep
<1>3. /\ ChartsTypeOK' /\ chart.timer /\ chart'.timer = FALSE
      /\ chart'.kind = chart.kind /\ chart'.choice = chart.choice /\ chart'.effect = chart.effect
      /\ chart'.shown = chart.shown /\ chart'.error = chart.error /\ chart'.loading = chart.loading
  BY <1>1, PollStep
<1>4. OneLive'
  <2> SUFFICES ASSUME chart.kind = "chart" PROVE \E a : Live' = {a}
    BY <1>3 DEF OneLive
  <2>1. Live = {}
    BY <1>3 DEF ChartsInv, OneLive
  <2>2. Live' = {b}
    BY <1>2, <1>3, <2>1 DEF Live
  <2> QED BY <2>2
<1> QED BY <1>2, <1>3, <1>4, AddKeeps

LEMMA IntervalKeeps == ChartsInv /\ IntervalFires => ChartsInv'
<1> SUFFICES ASSUME ChartsInv, IntervalFires PROVE ChartsInv'
  OBVIOUS
<1>1. ChartsTypeOK
  BY DEF ChartsInv
<1>2. PICK b \in AskType : asks' = asks \cup {b} /\ b.effect = chart.effect /\ b.choice = chart.choice /\ b.answer = Nothing
  BY <1>1, IntervalStep
<1>3. /\ ChartsTypeOK' /\ chart.kind # "chart"
      /\ chart'.kind = chart.kind /\ chart'.choice = chart.choice /\ chart'.effect = chart.effect
      /\ chart'.shown = chart.shown /\ chart'.error = chart.error /\ chart'.loading = (chart.loading \/ ~Guarded)
  BY <1>1, IntervalStep
<1>4. OneLive'
  BY <1>3 DEF OneLive
<1>5. Guarded => chart'.loading = chart.loading
  <2>1. chart.loading \in BOOLEAN
    BY <1>1, ChartsFields
  <2> QED BY <1>3, <2>1
<1> QED BY <1>2, <1>3, <1>4, <1>5, AddKeeps

LEMMA ChooseKeeps ==
    ASSUME ChartsInv, NEW c \in Selectable, Choose(c)
    PROVE  ChartsInv'
<1>1. ChartsTypeOK
  BY DEF ChartsInv
<1>2. /\ ChartsTypeOK'
      /\ chart'.kind = chart.kind /\ chart'.choice = c /\ chart'.effect = chart.effect + 1
      /\ chart'.loading = TRUE /\ chart'.timer = FALSE
  BY <1>1, ChooseStep
<1>3. PICK A \in SUBSET asks, b \in AskType :
        /\ asks' = A \cup {b} /\ (chart.kind = "chart" => A = {})
        /\ b.effect = chart.effect + 1 /\ b.choice = c /\ b.first = TRUE /\ b.answer = Nothing
  BY <1>1, ChooseStep
<1>4. chart.effect \in Nat /\ \A a \in asks : a.effect \in Nat /\ a.effect <= chart.effect
  BY <1>1, ChartsFields DEF ChartsInv, AsksKept
<1>5. AsksKept'
  <2> SUFFICES ASSUME NEW a \in asks'
               PROVE  /\ a.effect <= chart'.effect
                      /\ a.effect = chart'.effect => a.choice = chart'.choice
                      /\ a.answer = Nothing \/ a.answer.of = a.choice
    BY DEF AsksKept
  <2>1. CASE a = b
    BY <1>2, <1>3, <1>4, <2>1
  <2>2. CASE a \in A
    <3>1. a.effect <= chart.effect /\ a.effect \in Nat
      BY <1>4, <2>2
    <3>2. a.answer = Nothing \/ a.answer.of = a.choice
      BY <2>2 DEF ChartsInv, AsksKept
    <3> QED BY <1>2, <1>4, <3>1, <3>2
  <2> QED BY <1>3, <2>1, <2>2
<1>6. LoadsEnd'
  BY <1>2, <1>3 DEF LoadsEnd, Stale
<1>7. OneLive'
  <2>1. CASE chart.kind = "chart"
    <3>1. Live' = {b}
      BY <1>2, <1>3, <2>1 DEF Live
    <3> QED BY <1>2, <3>1 DEF OneLive
  <2>2. CASE chart.kind # "chart"
    BY <1>2, <2>2 DEF OneLive
  <2> QED BY <2>1, <2>2
<1>8. ShownIsChosen'
  BY <1>2 DEF ShownIsChosen
<1> QED BY <1>2, <1>5, <1>6, <1>7, <1>8 DEF ChartsInv

LEMMA IgnoredKeeps ==
    ASSUME ChartsInv, NEW a \in asks, Ignored(a)
    PROVE  ChartsInv'
<1>1. ChartsTypeOK' /\ Stale(a) /\ chart' = chart /\ asks' = asks \ {a}
  BY IgnoredStep DEF ChartsInv
<1>2. AsksKept'
  BY <1>1 DEF ChartsInv, AsksKept, Guarded
<1>3. LoadsEnd'
  BY <1>1 DEF ChartsInv, LoadsEnd, Stale, Guarded
<1>4. OneLive'
  <2>1. Live' = Live
    BY <1>1 DEF Live, Stale
  <2> QED BY <1>1, <2>1 DEF ChartsInv, OneLive
<1>5. ShownIsChosen'
  BY <1>1 DEF ChartsInv, ShownIsChosen, Guarded
<1> QED BY <1>1, <1>2, <1>3, <1>4, <1>5 DEF ChartsInv

LEMMA ArrivesKeeps ==
    ASSUME ChartsInv, NEW a \in asks, Arrives(a)
    PROVE  ChartsInv'
<1>1. ChartsTypeOK
  BY DEF ChartsInv
<1>2. /\ ChartsTypeOK' /\ a.answer # Nothing /\ ~Stale(a)
      /\ chart'.kind = chart.kind /\ chart'.choice = chart.choice /\ chart'.effect = chart.effect
      /\ chart'.timer = (chart.timer \/ chart.kind = "chart")
  BY <1>1, ArrivesStep
<1>3. CASE chart.kind = "timeline"
  <2>1. \/ a.part = 3 /\ asks' = asks \ {a} /\ chart'.loading = FALSE
        \/ \E b \in AskType : /\ asks' = (asks \ {a}) \cup {b}
                              /\ b.effect = a.effect /\ b.choice = a.choice
                              /\ b.answer = Nothing
    BY <1>1, <1>3, ArrivesStep
  <2> QED BY <1>2, <1>3, <2>1, PartKeeps
<1>4. CASE chart.kind # "timeline"
  <2>1. /\ chart'.shown["rows"] = a.answer /\ asks' = asks \ {a}
        /\ chart'.loading = (chart.loading /\ Guarded /\ ~a.first)
    BY <1>1, <1>4, ArrivesStep
  <2>2. ShownIsChosen'
    <3> SUFFICES ASSUME Guarded PROVE chart'.shown["rows"].of = chart.choice
      BY <1>2 DEF ShownIsChosen, Guarded
    <3>1. a.effect = chart.effect
      BY <1>2 DEF Stale
    <3> QED BY <1>2, <2>1, <3>1 DEF ChartsInv, AsksKept
  <2> QED BY <1>2, <2>1, <2>2, AnswerKeeps
<1> QED BY <1>3, <1>4

LEMMA FailsKeeps ==
    ASSUME ChartsInv, NEW a \in asks, Fails(a)
    PROVE  ChartsInv'
<1>1. ChartsTypeOK
  BY DEF ChartsInv
<1>2. /\ ChartsTypeOK' /\ ~Stale(a) /\ asks' = asks \ {a}
      /\ chart'.kind = chart.kind /\ chart'.choice = chart.choice /\ chart'.effect = chart.effect
      /\ chart'.loading = (chart.loading /\ Guarded /\ ~a.first)
      /\ chart'.error = (chart.error \/ (Guarded /\ a.first))
      /\ chart'.timer = (chart.timer \/ chart.kind = "chart")
      /\ Guarded => chart'.shown = chart.shown
  BY <1>1, FailsStep
<1>3. ShownIsChosen'
  <2> SUFFICES ASSUME Guarded, ~chart'.loading, ~chart'.error
               PROVE  chart'.shown["rows"].of = chart'.choice
    BY <1>2 DEF ShownIsChosen, Guarded
  <2>1. ~chart.loading /\ ~chart.error
    BY <1>2
  <2> QED BY <1>2, <2>1 DEF ChartsInv, ShownIsChosen
<1> QED BY <1>2, <1>3, AnswerKeeps

LEMMA StandsKeeps ==
    ASSUME ChartsInv, ChartsTypeOK', chart' = chart, asks' = asks
    PROVE  ChartsInv'
<1>1. AsksKept' /\ OneLive' /\ ShownIsChosen'
  BY DEF ChartsInv, AsksKept, OneLive, Live, ShownIsChosen, Guarded
<1>2. LoadsEnd'
  BY DEF ChartsInv, LoadsEnd, Stale, Guarded
<1> QED BY <1>1, <1>2 DEF ChartsInv

\* The step of each action.
LEMMA ChartsInvStep == ChartsInv /\ [ChartsNext]_chartVars => ChartsInv'
<1> SUFFICES ASSUME ChartsInv, [ChartsNext]_chartVars PROVE ChartsInv'
  OBVIOUS
<1>1. ChartsTypeOK
  BY DEF ChartsInv
<1>2. CASE Served
  BY <1>1, <1>2, ServedStep, SwapKeeps
<1>3. CASE IntervalFires
  BY <1>3, IntervalKeeps
<1>4. CASE runPoll
  BY <1>4, PollKeeps
<1>5. CASE Passes
  <2>1. ChartsTypeOK' /\ chart' = chart /\ asks' = asks
    BY <1>1, <1>5, PassesStep
  <2> QED BY <2>1, StandsKeeps
<1>6. ASSUME NEW a \in asks, Arrives(a) PROVE ChartsInv'
  BY <1>6, ArrivesKeeps
<1>7. ASSUME NEW a \in asks, Refused(a) PROVE ChartsInv'
  BY <1>1, <1>7, RefusedStep, PartKeeps
<1>8. ASSUME NEW a \in asks, Fails(a) PROVE ChartsInv'
  BY <1>8, FailsKeeps
<1>9. ASSUME NEW a \in asks, fetchCompressorStatusSamples(a) PROVE ChartsInv'
  BY <1>1, <1>9, RetryStep, SwapKeeps
<1>10. ASSUME NEW a \in asks, Ignored(a) PROVE ChartsInv'
  BY <1>10, IgnoredKeeps
<1>11. ASSUME NEW c \in Selectable, Choose(c) PROVE ChartsInv'
  BY <1>11, ChooseKeeps
<1>12. CASE UNCHANGED chartVars
  <2>1. chart' = chart /\ asks' = asks /\ now' = now /\ polledAt' = polledAt
    BY <1>12 DEF chartVars
  <2>2. ChartsTypeOK'
    BY <1>1, <2>1, TypeIs, TypeNextIs
  <2> QED BY <2>1, <2>2, StandsKeeps
<1> QED BY <1>2, <1>3, <1>4, <1>5, <1>6, <1>7, <1>8, <1>9, <1>10, <1>11, <1>12 DEF ChartsNext

\* The invariant holds whatever is chosen and however the answers come.
LEMMA ChartsInvariance == ChartsSpec => []ChartsInv
<1> QED BY ChartsInitInv, ChartsInvStep, PTL DEF ChartsSpec

-----------------------------------------------------------------------------
(* The theorems *)

\* The pane, the requests under way and the clocks keep their types: what arrives
\* has a part to be shown in, and a number is free for what is asked for.
THEOREM ChartsTyping == ChartsSpec => []ChartsTypeOK
<1>1. ChartsInv => ChartsTypeOK
  BY DEF ChartsInv
<1> QED BY <1>1, ChartsInvariance, PTL

\* A pane of a compressor shows what is chosen, whichever answers are late: an
\* answer of an effect that is over is never taken.
THEOREM ShownIsChosenHolds == ChartsSpec => []ShownIsChosen
<1>1. ChartsInv => ShownIsChosen
  BY DEF ChartsInv
<1> QED BY <1>1, ChartsInvariance, PTL

\* A loading pane has the request that ends its loading, and a chart has one
\* request or its timer.
THEOREM ReadingGoesOnHolds == ChartsSpec => []ReadingGoesOn
<1>1. ChartsInv => ReadingGoesOn
  <2> SUFFICES ASSUME ChartsInv PROVE ReadingGoesOn
    OBVIOUS
  <2>1. chart.loading => \E a \in asks : ~Stale(a) /\ (Guarded => a.first)
    BY DEF ChartsInv, LoadsEnd
  <2>2. chart.kind = "chart" => IF chart.timer THEN Live = {} ELSE Cardinality(Live) = 1
    BY FS_Singleton DEF ChartsInv, OneLive
  <2> QED BY <2>1, <2>2 DEF ReadingGoesOn, Live
<1> QED BY <1>1, ChartsInvariance, PTL
-----------------------------------------------------------------------------
(* The tablet                                                                *)

\* What a launch opens: the query's machine, or what is stored before what the
\* build has.
LEMMA TargetIs ==
    ASSUME NEW q, NEW s
    PROVE  /\ Target(q, s).at \in {"entry", "shell"}
           /\ Target(q, s).at = "shell" => Target(q, s).kind \in AssetKinds
           /\ q.machine # None =>
                Target(q, s).kind = "machine" /\ Target(q, s).id = q.machine
           /\ q.machine = None /\ q.compressor = None /\ s.machine # None =>
                Target(q, s).kind = "machine" /\ Target(q, s).id = s.machine
           /\ q.machine = None /\ Target(q, s).at = "shell" /\ Target(q, s).kind = "machine" =>
                /\ q.compressor = None
                /\ Target(q, s).id = IF s.machine # None THEN s.machine ELSE env.machine
                /\ s.machine = None => env.machine # None
<1> DEFINE list == Candidates(q, s)
           there == {i \in DOMAIN list : list[i].id # None}
           k == Min(there)
<1>1. /\ DOMAIN list = 1..6
      /\ list[1] = [kind |-> "machine", id |-> q.machine]
      /\ list[2] = [kind |-> "compressor", id |-> q.compressor]
      /\ list[3] = [kind |-> "machine", id |-> s.machine]
      /\ list[4] = [kind |-> "compressor", id |-> s.compressor]
      /\ list[5] = [kind |-> "machine", id |-> env.machine]
      /\ list[6] = [kind |-> "compressor", id |-> env.compressor]
  BY DEF Candidates
<1>2. CASE there = {}
  <2>1. Target(q, s) = Entry("entry") BY <1>2 DEF Target
  <2>2. q.machine = None /\ s.machine = None
    <3>1. 1 \notin there /\ 3 \notin there BY <1>2
    <3>2. list[1].id = None /\ list[3].id = None BY <1>1, <3>1
    <3> QED BY <1>1, <3>2
  <2>3. Target(q, s).at = "entry" BY <2>1 DEF Entry
  <2> HIDE DEF list, there, k
  <2> QED BY <2>2, <2>3
<1>3. CASE there # {}
  <2>1. /\ Target(q, s) = Shell(list[k].kind, list[k].id, DefaultPane(list[k].kind))
    BY <1>3 DEF Target
  <2>2. /\ Target(q, s).at = "shell" /\ Target(q, s).kind = list[k].kind
        /\ Target(q, s).id = list[k].id
    BY <2>1 DEF Shell
  <2>3. /\ \A i \in there : i \in 1..6 /\ list[i].id # None
        /\ \A i \in 1..6 : list[i].id # None => i \in there
    BY <1>1
  <2>4. k \in there /\ \A i \in there : k <= i
    <3> HIDE DEF there, list
    <3>1. there \in SUBSET Nat BY <2>3
    <3>2. \E n \in there : \A i \in there : n <= i BY <1>3, <3>1, LeastNat
    <3> QED BY <3>2 DEF Min
  <2> HIDE DEF list, there, k
  <2>5. k \in {1, 2, 3, 4, 5, 6} /\ list[k].id # None BY <2>3, <2>4
  <2>6. \A i \in 1..6 : i < k => list[i].id = None BY <2>3, <2>4, <2>5
  <2>7. CASE k = 1 BY <1>1, <2>2, <2>5, <2>7 DEF AssetKinds
  <2>8. CASE k = 2 BY <1>1, <2>2, <2>5, <2>6, <2>8 DEF AssetKinds
  <2>9. CASE k = 3 BY <1>1, <2>2, <2>5, <2>6, <2>9 DEF AssetKinds
  <2>10. CASE k = 4 BY <1>1, <2>2, <2>5, <2>6, <2>10 DEF AssetKinds
  <2>11. CASE k = 5 BY <1>1, <2>2, <2>5, <2>6, <2>11 DEF AssetKinds
  <2>12. CASE k = 6 BY <1>1, <2>2, <2>5, <2>6, <2>12 DEF AssetKinds
  <2> QED BY <2>5, <2>7, <2>8, <2>9, <2>10, <2>11, <2>12
<1> QED BY <1>2, <1>3


\* The records of the kiosk.
PageShape(p) ==
    /\ p = [at |-> p.at, kind |-> p.kind, id |-> p.id, pane |-> p.pane]
    /\ p.at = "shell" => p.kind \in AssetKinds
StoredShape(s) == s = [machine |-> s.machine, compressor |-> s.compressor, idle |-> s.idle]
SaverShape(v) ==
    /\ v = [active |-> v.active, idle |-> v.idle, timer |-> v.timer]
    /\ v.active \in BOOLEAN

\* The machine that is to be opened is stored, and so is the one that is shown.
MachineInv ==
    /\ chosen # None => stored.machine = chosen
    /\ page.at = "shell" /\ page.kind = "machine" => stored.machine = page.id

\* Only a shell that is shown has a screensaver, and its delay is the stored one.
SaverInv ==
    IF Loaded(page, fleet, isConnected)
    THEN /\ saver.timer = IF saver.active THEN None ELSE saver.idle
         /\ saver.idle = stored.idle \/ event
    ELSE saver = NoSaver

TabletInv ==
    /\ PageShape(page) /\ StoredShape(stored) /\ SaverShape(saver)
    /\ MachineInv /\ SaverInv

\* A machine's id in what is stored.
LEMMA StoredWith ==
    ASSUME NEW s, StoredShape(s), NEW k \in AssetKinds, NEW i
    PROVE  /\ StoredShape([s EXCEPT ![k] = i]) /\ [s EXCEPT ![k] = i].idle = s.idle
           /\ k = "machine" => [s EXCEPT ![k] = i].machine = i
           /\ k = "compressor" => [s EXCEPT ![k] = i].machine = s.machine
<1>1. PICK m, c, d : s = [machine |-> m, compressor |-> c, idle |-> d]
  BY DEF StoredShape
<1>2. CASE k = "machine"
  <2>1. [s EXCEPT ![k] = i] = [machine |-> i, compressor |-> c, idle |-> d]
    BY <1>1, <1>2
  <2> QED BY <1>1, <1>2, <2>1 DEF StoredShape
<1>3. CASE k = "compressor"
  <2>1. [s EXCEPT ![k] = i] = [machine |-> m, compressor |-> i, idle |-> d]
    BY <1>1, <1>3
  <2> QED BY <1>1, <1>3, <2>1 DEF StoredShape
<1> QED BY <1>2, <1>3 DEF AssetKinds

LEMMA NoSaverShape == SaverShape(NoSaver) /\ NoSaver.active = FALSE /\ NoSaver.timer = None
BY DEF SaverShape, NoSaver

\* Wherever the kiosk goes: what it is to open and what it shows is stored.
LEMMA GoesKeeps ==
    ASSUME TabletInv, NEW p, NEW f, NEW c, NEW s, Goes(p, f, c, s), UNCHANGED event,
           PageShape(p), StoredShape(s), s.idle = stored.idle,
           p.at = "shell" /\ p.kind = "machine" => s.machine = p.id,
           chosen' # None => s.machine = chosen'
    PROVE  TabletInv'
<1>1. page' = p /\ fleet' = f /\ isConnected' = c
  BY DEF Goes
<1>2. StoredShape(stored') /\ stored'.machine = s.machine /\ stored'.idle = stored.idle
  <2>1. CASE Found(p, f)
    <3>1. stored' = [s EXCEPT ![p.kind] = p.id] /\ p.at = "shell"
      BY <2>1 DEF Goes, Found
    <3>2. p.kind \in AssetKinds BY <3>1 DEF PageShape
    <3>3. PICK m, d, e : s = [machine |-> m, compressor |-> d, idle |-> e]
      BY DEF StoredShape
    <3>4. CASE p.kind = "machine"
      <4>1. stored' = [machine |-> p.id, compressor |-> d, idle |-> e]
        BY <3>1, <3>3, <3>4
      <4> QED BY <3>1, <3>3, <3>4, <4>1 DEF StoredShape
    <3>5. CASE p.kind = "compressor"
      <4>1. stored' = [machine |-> m, compressor |-> p.id, idle |-> e]
        BY <3>1, <3>3, <3>5
      <4> QED BY <3>1, <3>3, <3>5, <4>1 DEF StoredShape
    <3> QED BY <3>2, <3>4, <3>5 DEF AssetKinds
  <2>2. CASE ~Found(p, f)
    <3>1. stored' = s BY <2>2 DEF Goes
    <3> QED BY <3>1
  <2> QED BY <2>1, <2>2
<1>3. MachineInv' BY <1>1, <1>2 DEF MachineInv
<1>4. SaverShape(saver') /\ SaverInv'
  <2>1. CASE ~Loaded(p, f, c)
    <3>1. saver' = NoSaver BY <2>1 DEF Goes
    <3> QED BY <1>1, <2>1, <3>1, NoSaverShape DEF SaverInv
  <2>2. CASE Loaded(p, f, c) /\ Loaded(page, fleet, isConnected) /\ p.kind = page.kind
    <3>1. saver' = saver BY <2>2 DEF Goes
    <3> QED BY <1>1, <1>2, <2>2, <3>1 DEF TabletInv, SaverInv
  <2>3. CASE Loaded(p, f, c) /\ ~(Loaded(page, fleet, isConnected) /\ p.kind = page.kind)
    <3>1. saver' = [active |-> FALSE, idle |-> s.idle, timer |-> s.idle]
      BY <2>3 DEF Goes
    <3>2. saver'.active = FALSE /\ saver'.idle = s.idle /\ saver'.timer = s.idle
      BY <3>1
    <3>3. SaverShape(saver') BY <3>1, <3>2 DEF SaverShape
    <3> QED BY <1>1, <1>2, <2>3, <3>2, <3>3 DEF SaverInv
  <2> QED BY <2>1, <2>2, <2>3
<1> QED BY <1>1, <1>2, <1>3, <1>4 DEF TabletInv

LEMMA EntryShape ==
    ASSUME NEW at, at # "shell"
    PROVE  PageShape(Entry(at)) /\ Entry(at).at # "shell"
BY DEF PageShape, Entry

LEMMA ShellShape ==
    ASSUME NEW k \in AssetKinds, NEW i, NEW n
    PROVE  PageShape(Shell(k, i, n)) /\ Shell(k, i, n).kind = k /\ Shell(k, i, n).id = i
BY DEF PageShape, Shell

LEMMA TabletInitInv == TabletInit => TabletInv
<1> SUFFICES ASSUME TabletInit PROVE TabletInv
  OBVIOUS
<1>1. page = Entry("closed") /\ saver = NoSaver /\ chosen = stored.machine
  BY DEF TabletInit
<1>2. StoredShape(stored)
  <2>1. PICK m, c : stored = [machine |-> m, compressor |-> c, idle |-> DefaultIdle]
    BY DEF TabletInit
  <2> QED BY <2>1 DEF StoredShape
<1>3. PageShape(page) /\ page.at # "shell" BY <1>1, EntryShape
<1> QED BY <1>1, <1>2, <1>3, NoSaverShape DEF TabletInv, MachineInv, SaverInv, Loaded, Found

LEMMA EntryKeeps ==
    ASSUME TabletInv, NEW q, TabletEntry(q)
    PROVE  TabletInv'
<1> DEFINE t == Target(q, stored)
           s == Resolved(q, stored)
<1>1. /\ Goes(t, fleet, isConnected, s) /\ UNCHANGED event
      /\ chosen' = IF q.machine # None THEN q.machine ELSE Shown(t, fleet, isConnected)
  BY DEF TabletEntry
<1>2. StoredShape(stored) /\ (chosen # None => stored.machine = chosen)
  BY DEF TabletInv, MachineInv
<1>3. StoredShape(s) /\ s.idle = stored.idle
      /\ s.machine = CASE q.machine # None -> q.machine
                       [] q.machine = None /\ q.compressor = None /\ env.machine # None
                            /\ stored.machine = None -> env.machine
                       [] OTHER -> stored.machine
  <2>1. \A i : /\ StoredShape([stored EXCEPT !.machine = i])
               /\ [stored EXCEPT !.machine = i].idle = stored.idle
               /\ [stored EXCEPT !.machine = i].machine = i
               /\ StoredShape([stored EXCEPT !.compressor = i])
               /\ [stored EXCEPT !.compressor = i].idle = stored.idle
               /\ [stored EXCEPT !.compressor = i].machine = stored.machine
    <3>1. "machine" \in AssetKinds /\ "compressor" \in AssetKinds BY DEF AssetKinds
    <3> QED BY <1>2, <3>1, StoredWith
  <2> QED BY <1>2, <2>1 DEF Resolved
<1>4. PageShape(t)
  <2>1. t.at = "shell" => t.kind \in AssetKinds BY TargetIs
  <2>2. \/ t = Entry("entry")
        \/ \E k, i : t = Shell(k, i, DefaultPane(k))
    BY DEF Target
  <2> HIDE DEF t
  <2> QED BY <2>1, <2>2 DEF PageShape, Entry, Shell
<1>5. /\ q.machine # None => t.kind = "machine" /\ t.id = q.machine
      /\ q.machine = None /\ t.at = "shell" /\ t.kind = "machine" =>
           /\ q.compressor = None
           /\ t.id = IF stored.machine # None THEN stored.machine ELSE env.machine
           /\ stored.machine = None => env.machine # None
  BY TargetIs
<1> HIDE DEF t, s
<1>6. t.at = "shell" /\ t.kind = "machine" => s.machine = t.id
  BY <1>3, <1>5
<1>7. chosen' # None => s.machine = chosen'
  <2>1. CASE q.machine # None BY <1>1, <1>3, <2>1
  <2>2. CASE q.machine = None /\ Loaded(t, fleet, isConnected) /\ t.kind = "machine"
    <3>1. chosen' = t.id /\ t.at = "shell" BY <1>1, <2>2 DEF Shown, Loaded, Found
    <3> QED BY <1>6, <2>2, <3>1
  <2>3. CASE q.machine = None /\ ~(Loaded(t, fleet, isConnected) /\ t.kind = "machine")
    <3>1. chosen' = chosen BY <1>1, <2>3 DEF Shown
    <3> QED BY <1>2, <1>3, <2>3, <3>1
  <2> QED BY <2>1, <2>2, <2>3
<1> QED BY <1>1, <1>3, <1>4, <1>6, <1>7, GoesKeeps

\* The kiosk stays where it is and goes on with the message or the connection.
LEMMA StaysKeeps ==
    ASSUME TabletInv, NEW f, NEW c, Goes(page, f, c, stored), chosen' = Shown(page, f, c),
           UNCHANGED event
    PROVE  TabletInv'
<1>1. /\ PageShape(page) /\ StoredShape(stored)
      /\ chosen # None => stored.machine = chosen
      /\ page.at = "shell" /\ page.kind = "machine" => stored.machine = page.id
  BY DEF TabletInv, MachineInv
<1>2. chosen' # None => stored.machine = chosen'
  BY <1>1 DEF Shown, Loaded, Found
<1> QED BY <1>1, <1>2, GoesKeeps

LEMMA SubmitKeeps ==
    ASSUME TabletInv, NEW k \in AssetKinds, handleSubmit(k)
    PROVE  TabletInv'
<1> DEFINE i == setups[k].value
           p == Shell(k, i, DefaultPane(k))
           s == [stored EXCEPT ![k] = i]
<1>1. /\ Goes(p, fleet, isConnected, s) /\ UNCHANGED event
      /\ chosen' = IF k = "machine" THEN i ELSE chosen
  BY DEF handleSubmit
<1>2. StoredShape(stored) /\ (chosen # None => stored.machine = chosen)
  BY DEF TabletInv, MachineInv
<1>3. /\ StoredShape(s) /\ s.idle = stored.idle
      /\ k = "machine" => s.machine = i
      /\ k = "compressor" => s.machine = stored.machine
  BY <1>2, StoredWith
<1>4. PageShape(p) /\ p.kind = k /\ p.id = i
  BY ShellShape
<1> HIDE DEF i, p, s
<1>5. chosen' # None => s.machine = chosen' BY <1>1, <1>2, <1>3 DEF AssetKinds
<1> QED BY <1>1, <1>3, <1>4, <1>5, GoesKeeps

\* A step that changes none of the kiosk's pages, but what is stored.
LEMMA StoreKeepsTablet ==
    ASSUME TabletInv, UNCHANGED <<page, fleet, isConnected, saver>>,
           StoredShape(stored'), event => event',
           chosen' # None => stored'.machine = chosen',
           page.at = "shell" /\ page.kind = "machine" => stored'.machine = page.id,
           stored'.idle = stored.idle \/ event' \/ page.at # "shell"
    PROVE  TabletInv'
<1>1. MachineInv' BY DEF MachineInv
<1>2. SaverInv' BY DEF TabletInv, SaverInv, Loaded, Found
<1> QED BY <1>1, <1>2 DEF TabletInv, PageShape, SaverShape

LEMMA TabletStep == TabletInv /\ [TabletNext]_tabletVars => TabletInv'
<1> SUFFICES ASSUME TabletInv, [TabletNext]_tabletVars PROVE TabletInv'
  OBVIOUS
<1>0. /\ PageShape(page) /\ StoredShape(stored) /\ SaverShape(saver) /\ MachineInv /\ SaverInv
      /\ chosen # None => stored.machine = chosen
      /\ page.at = "shell" /\ page.kind = "machine" => stored.machine = page.id
  BY DEF TabletInv, MachineInv
<1>1. CASE Launch
  <2>1. PICK q : TabletEntry(q) BY <1>1 DEF Launch
  <2> QED BY <2>1, EntryKeeps
<1>2. CASE Close
  <2>1. PageShape(Entry("closed")) /\ Entry("closed").at # "shell" BY EntryShape
  <2> QED BY <1>0, <1>2, <2>1, GoesKeeps DEF Close
<1>3. CASE ChangeAsset
  <2>1. PageShape(Entry("setup")) /\ Entry("setup").at # "shell" BY EntryShape
  <2> QED BY <1>0, <1>3, <2>1, GoesKeeps DEF ChangeAsset
<1>4. ASSUME NEW n, page' = [page EXCEPT !.pane = n],
             UNCHANGED <<stored, fleet, isConnected, saver, event, chosen>>
      PROVE  TabletInv'
  <2>1. PICK a, k, i, m : page = [at |-> a, kind |-> k, id |-> i, pane |-> m]
    BY <1>0 DEF PageShape
  <2>2. page' = [at |-> a, kind |-> k, id |-> i, pane |-> n] BY <1>4, <2>1
  <2>3. page'.at = page.at /\ page'.kind = page.kind /\ page'.id = page.id
    BY <2>1, <2>2
  <2>4. PageShape(page') BY <1>0, <2>2, <2>3 DEF PageShape
  <2>5. MachineInv' /\ SaverInv'
    BY <1>0, <1>4, <2>3 DEF MachineInv, SaverInv, Loaded, Found
  <2> QED BY <1>0, <1>4, <2>4, <2>5 DEF TabletInv
<1>5. CASE NavLink BY <1>4, <1>5 DEF NavLink
<1>6. CASE Swipe BY <1>4, <1>6 DEF Swipe
<1>7. CASE FleetMessage
  <2>1. PICK f : Goes(page, f, TRUE, stored) /\ chosen' = Shown(page, f, TRUE)
    BY <1>7 DEF FleetMessage
  <2> QED BY <1>7, <2>1, StaysKeeps DEF FleetMessage
<1>8. CASE Connection BY <1>8, StaysKeeps DEF Connection
<1>9. ASSUME NEW k \in AssetKinds, ListArrives(k) \/ Pick(k) PROVE TabletInv'
  <2>1. UNCHANGED <<page, stored, fleet, isConnected, saver, event, chosen>>
    BY <1>9 DEF ListArrives, Pick
  <2> QED BY <1>0, <2>1, StoreKeepsTablet
<1>10. ASSUME NEW k \in AssetKinds, handleSubmit(k) PROVE TabletInv'
  BY <1>10, SubmitKeeps
<1>11. ASSUME NEW k \in AssetKinds, handleClear(k) PROVE TabletInv'
  <2>1. /\ page.at # "shell" /\ stored' = [stored EXCEPT ![k] = None]
        /\ UNCHANGED <<page, fleet, isConnected, saver, event>>
        /\ chosen' = IF k = "machine" THEN None ELSE chosen
    BY <1>11 DEF handleClear
  <2>2. /\ StoredShape([stored EXCEPT ![k] = None])
        /\ [stored EXCEPT ![k] = None].idle = stored.idle
        /\ k = "compressor" => [stored EXCEPT ![k] = None].machine = stored.machine
    BY <1>0, StoredWith
  <2>0. /\ StoredShape(stored') /\ stored'.idle = stored.idle
        /\ k = "compressor" => stored'.machine = stored.machine
    <3> DEFINE new == [stored EXCEPT ![k] = None]
    <3>1. /\ StoredShape(new) /\ new.idle = stored.idle
          /\ k = "compressor" => new.machine = stored.machine
      BY <2>2
    <3>2. stored' = new BY <2>1
    <3> HIDE DEF new
    <3> QED BY <3>1, <3>2 DEF StoredShape
  <2>3. chosen' # None => stored'.machine = chosen' BY <1>0, <2>0, <2>1 DEF AssetKinds
  <2> QED BY <2>0, <2>1, <2>3, StoreKeepsTablet
<1>12. ASSUME NEW n, stored' = [stored EXCEPT !.idle = n]
       PROVE  StoredShape(stored') /\ stored'.machine = stored.machine
  <2>1. PICK m, c, d : stored = [machine |-> m, compressor |-> c, idle |-> d]
    BY <1>0 DEF StoredShape
  <2>2. stored' = [machine |-> m, compressor |-> c, idle |-> n] BY <1>12, <2>1
  <2> QED BY <2>1, <2>2 DEF StoredShape
<1>13. CASE SaveIdle
  <2>1. /\ page.at = "setup"
        /\ UNCHANGED <<page, fleet, isConnected, saver, event, chosen>>
        /\ StoredShape(stored') /\ stored'.machine = stored.machine
    BY <1>12, <1>13 DEF SaveIdle
  <2> QED BY <1>0, <2>1, StoreKeepsTablet
<1>14. CASE SaveIdleElsewhere
  <2>1. /\ event' = TRUE
        /\ UNCHANGED <<page, fleet, isConnected, saver, chosen>>
        /\ StoredShape(stored') /\ stored'.machine = stored.machine
    BY <1>12, <1>14 DEF SaveIdleElsewhere
  <2> QED BY <1>0, <2>1, StoreKeepsTablet
<1>15. ASSUME UNCHANGED <<page, stored, fleet, isConnected, chosen>>,
              SaverShape(saver'), SaverInv'
       PROVE  TabletInv'
  BY <1>0, <1>15 DEF TabletInv, MachineInv, PageShape, StoredShape
<1>16. PICK act, idle, timer : saver = [active |-> act, idle |-> idle, timer |-> timer]
  BY <1>0 DEF SaverShape
<1>17. CASE useTabletScreensaverIdleMs
  <2>1. CASE Loaded(page, fleet, isConnected)
    <3>1. saver' = [saver EXCEPT !.idle = stored.idle,
                                 !.timer = IF saver.active THEN None ELSE stored.idle]
      BY <1>17, <2>1 DEF useTabletScreensaverIdleMs
    <3>2. saver' = [active |-> act, idle |-> stored.idle,
                    timer |-> IF act THEN None ELSE stored.idle]
      BY <1>16, <3>1
    <3>3. act \in BOOLEAN BY <1>0, <1>16 DEF SaverShape
    <3>4. SaverShape(saver') BY <3>2, <3>3 DEF SaverShape
    <3>5. SaverInv'
      BY <1>17, <2>1, <3>2 DEF useTabletScreensaverIdleMs, SaverInv
    <3> QED BY <1>15, <1>17, <3>4, <3>5 DEF useTabletScreensaverIdleMs
  <2>2. CASE ~Loaded(page, fleet, isConnected)
    <3>1. UNCHANGED <<page, stored, fleet, isConnected, chosen, saver>>
      BY <1>17, <2>2 DEF useTabletScreensaverIdleMs
    <3>2. SaverInv' BY <1>0, <2>2, <3>1 DEF SaverInv
    <3> QED BY <1>0, <1>15, <3>1, <3>2
  <2> QED BY <2>1, <2>2
<1>18. CASE useIdleArm
  <2>1. saver' = [active |-> TRUE, idle |-> idle, timer |-> None]
    BY <1>16, <1>18 DEF useIdleArm
  <2>2. SaverShape(saver') BY <2>1 DEF SaverShape
  <2>3. SaverInv' BY <1>0, <1>16, <1>18, <2>1 DEF useIdleArm, SaverInv
  <2> QED BY <1>15, <1>18, <2>2, <2>3 DEF useIdleArm
<1>19. CASE Dismiss
  <2>1. saver' = [active |-> FALSE, idle |-> idle, timer |-> idle]
    BY <1>16, <1>19 DEF Dismiss
  <2>2. SaverShape(saver') BY <2>1 DEF SaverShape
  <2>3. Loaded(page, fleet, isConnected) BY <1>0, <1>19, NoSaverShape DEF Dismiss, SaverInv
  <2>4. SaverInv' BY <1>0, <1>16, <1>19, <2>1, <2>3 DEF Dismiss, SaverInv
  <2> QED BY <1>15, <1>19, <2>2, <2>4 DEF Dismiss
<1>20. ASSUME UNCHANGED <<page, stored, fleet, isConnected, saver, event, chosen>>
       PROVE  TabletInv'
  BY <1>0, <1>20, StoreKeepsTablet
<1>21. CASE LockArrives BY <1>20, <1>21 DEF LockArrives
<1>22. CASE useWakeLock BY <1>20, <1>22 DEF useWakeLock
<1>23. CASE UNCHANGED tabletVars BY <1>20, <1>23 DEF tabletVars
<1> QED BY <1>1, <1>2, <1>3, <1>5, <1>6, <1>7, <1>8, <1>9, <1>10, <1>11, <1>13, <1>14,
           <1>17, <1>18, <1>19, <1>21, <1>22, <1>23 DEF TabletNext

LEMMA TabletInvariance == TabletSpec => []TabletInv
BY TabletInitInv, TabletStep, PTL DEF TabletSpec

\* A launch without a query opens the machine that was last shown, picked or
\* asked for, whatever the build's defaults, and a shell's screensaver counts
\* with the delay that is stored.
THEOREM StoredDecidesHolds == TabletSpec => []StoredDecides
<1>1. TabletInv => StoredDecides
  <2> SUFFICES ASSUME TabletInv PROVE StoredDecides
    OBVIOUS
  <2>1. MachineReopens
    <3>1. NoQuery.machine = None /\ NoQuery.compressor = None BY DEF NoQuery, AssetKinds
    <3> QED BY <3>1, TargetIs DEF TabletInv, MachineInv, MachineReopens
  <2>2. IdleTimerCurrent
    BY NoSaverShape DEF TabletInv, SaverInv, IdleTimerCurrent
  <2> QED BY <2>1, <2>2 DEF StoredDecides
<1> QED BY <1>1, TabletInvariance, PTL

-----------------------------------------------------------------------------
(* Validation *)

\* A finite set of numbers has a largest one.
LEMMA MaxIs ==
    ASSUME NEW S \in SUBSET Int, IsFiniteSet(S), S # {}
    PROVE  Max(S) \in S /\ \A y \in S : Max(S) >= y
<1> DEFINE Above(i) == {j \in S : j >= i}
           Counts == {Cardinality(Above(i)) : i \in S}
<1>1. \A i \in S : IsFiniteSet(Above(i)) /\ Cardinality(Above(i)) \in Nat
  BY FS_Subset, FS_CardinalityType
<1>2. \E n \in Counts : \A k \in Counts : n <= k
  <2>1. Counts \in SUBSET Nat /\ Counts # {} BY <1>1
  <2> HIDE DEF Counts
  <2> QED BY <2>1, LeastNat
<1>3. PICK i \in S : \A k \in S : Cardinality(Above(i)) <= Cardinality(Above(k))
  BY <1>2
<1>4. \A y \in S : i >= y
  <2> SUFFICES ASSUME NEW y \in S, ~(i >= y) PROVE FALSE
    OBVIOUS
  <2>0. i \in Int /\ y \in Int BY <1>3
  <2>1. Above(y) \in SUBSET Above(i) /\ i \in Above(i) /\ i \notin Above(y)
    <3>1. \A j \in Int : j >= y => j >= i BY <2>0
    <3>2. Above(y) \in SUBSET Above(i) BY <3>1
    <3>3. i \in Above(i) BY <1>3, <2>0
    <3>4. i \notin Above(y) OBVIOUS
    <3> QED BY <3>2, <3>3, <3>4
  <2>2. Above(y) # Above(i) BY <2>1
  <2> HIDE DEF Above
  <2>3. /\ Cardinality(Above(y)) <= Cardinality(Above(i))
        /\ Cardinality(Above(y)) = Cardinality(Above(i)) => Above(y) = Above(i)
    BY <1>1, <2>1, FS_Subset
  <2> QED BY <1>1, <1>3, <2>2, <2>3
<1> QED BY <1>4 DEF Max

\* What a check says is what it found.
CheckInv ==
    /\ \E c \in Cases : wanted = c[1] /\ found = c[2] /\ settings = c[3]
    /\ result.known => result = validate_program(wanted, found, settings)

LEMMA CheckInitInv == CheckInit => CheckInv
<1> SUFFICES ASSUME CheckInit PROVE CheckInv
  OBVIOUS
<1>1. PICK c \in Cases : CheckOf(c) BY DEF CheckInit
<1>2. ~result.known BY <1>1 DEF CheckOf
<1> QED BY <1>1, <1>2 DEF CheckOf, CheckInv

LEMMA CheckStep == CheckInv /\ [CheckNext]_checkVars => CheckInv'
<1> SUFFICES ASSUME CheckInv, [CheckNext]_checkVars PROVE CheckInv'
  OBVIOUS
<1>1. UNCHANGED <<wanted, found, settings>>
      /\ (result' = result \/ result' = validate_program(wanted, found, settings))
  BY DEF CheckNext, Validate, toggleToolExpanded, toggleWcs, checkVars
<1>2. (\E c \in Cases : wanted = c[1] /\ found = c[2] /\ settings = c[3])'
  BY <1>1 DEF CheckInv
<1>3. (result.known => result = validate_program(wanted, found, settings))'
  <2>1. CASE result' = result BY <1>1, <2>1 DEF CheckInv
  <2>2. CASE result' = validate_program(wanted, found, settings)
    <3>1. validate_program(wanted, found, settings)'
            = validate_program(wanted', found', settings')
      BY DEF validate_program, validate_tool, validate_wcs_offset, Abs, Null,
             FoundTool, LinesOf, Numbers
    <3> QED BY <1>1, <2>2, <3>1
  <2> QED BY <1>1, <2>1, <2>2
<1> QED BY <1>2, <1>3 DEF CheckInv

LEMMA CheckInvariance == CheckSpec => []CheckInv
BY CheckInitInv, CheckStep, PTL DEF CheckSpec

\* The tolerance of an offset is the largest of those of its axes.
LEMMA ToleranceIs ==
    ASSUME NEW c \in Cases, NEW a \in Axes
    PROVE  LET v == validate_wcs_offset(c[1], c[2], c[3])
           IN /\ v.within => v.compared /\ v.difference[a] <= v.tolerance
              /\ v.within \in BOOLEAN /\ v.compared \in BOOLEAN
<1> DEFINE w == c[1]
           m == c[2]
           s == c[3]
           each == [b \in Axes |-> IF s.own THEN s.axis[b] ELSE w.e]
           S == {each[b] : b \in Axes}
           compared == (s.own \/ w.e # 0) /\ m.offset
           within == compared /\ \A b \in Axes : m.off[b] <= each[b]
           tolerance == IF ~s.own /\ w.e = 0 THEN 0 ELSE Max(S)
           v == validate_wcs_offset(w, m, s)
<1>1. v = [compared |-> compared, difference |-> m.off, tolerance |-> tolerance,
           within |-> within]
  BY DEF validate_wcs_offset
<1>2. /\ v.compared = compared /\ v.difference = m.off
      /\ v.tolerance = tolerance /\ v.within = within
  BY <1>1
<1>3. m.off[a] \in Int /\ \A b \in Axes : each[b] \in Int
  BY CasesAssumption
<1>4. Max(S) \in S /\ \A y \in S : Max(S) >= y
  <2>1. S \in SUBSET Int /\ S # {} BY <1>3
  <2>2. IsFiniteSet(S)
    <3>1. each \in Surjection(Axes, S) BY DEF Surjection
    <3> HIDE DEF each, S
    <3> QED BY <3>1, CasesAssumption, FS_Surjection
  <2> HIDE DEF S
  <2> QED BY <2>1, <2>2, MaxIs
<1>5. within => compared /\ m.off[a] <= tolerance
  <2> SUFFICES ASSUME within PROVE compared /\ m.off[a] <= tolerance
    OBVIOUS
  <2>1. compared /\ m.off[a] <= each[a] OBVIOUS
  <2>2. tolerance = Max(S) BY <2>1
  <2>3. each[a] \in S OBVIOUS
  <2>4. Max(S) \in Int /\ Max(S) >= each[a]
    <3> HIDE DEF each
    <3>1. \A y \in S : y \in Int BY <1>3
    <3> HIDE DEF S
    <3> QED BY <1>4, <2>3, <3>1
  <2> HIDE DEF S, each, tolerance, compared, within
  <2> QED BY <1>3, <2>1, <2>2, <2>4
<1> HIDE DEF v, within, tolerance, compared
<1>6. within \in BOOLEAN /\ compared \in BOOLEAN BY DEF within, compared
<1> QED BY <1>2, <1>5, <1>6 DEF v

\* A list has a last line with a number it has.
LEMMA LastLine ==
    ASSUME NEW c \in Cases, NEW n \in Numbers(c[1])
    PROVE  /\ Max(LinesOf(c[1], n)) \in LinesOf(c[1], n)
           /\ Max(LinesOf(c[1], n)) \in DOMAIN c[1].tools
           /\ c[1].tools[Max(LinesOf(c[1], n))].no = n
<1> DEFINE k == Len(c[1].tools)
           lines == LinesOf(c[1], n)
<1>1. k \in Nat /\ DOMAIN c[1].tools = 1..k
  BY CasesAssumption
<1>2. lines \in SUBSET (1..k) /\ lines # {}
  BY <1>1 DEF LinesOf, Numbers
<1>3. \A i \in lines : i \in DOMAIN c[1].tools /\ c[1].tools[i].no = n
  BY DEF LinesOf
<1> HIDE DEF k, lines
<1>4. IsFiniteSet(lines)
  <2>1. IsFiniteSet(1..k) BY <1>1, FS_Interval
  <2> QED BY <1>2, <2>1, FS_Subset
<1>5. lines \in SUBSET Int
  BY <1>1, <1>2
<1>6. Max(lines) \in lines
  BY <1>2, <1>4, <1>5, MaxIs
<1> QED BY <1>3, <1>6 DEF lines

\* What one line of the program is found to be.
LineOf(c, i) == validate_tool(c[1].tools[i], FoundTool(c[2], c[1].tools[i].no), c[3])
LineFails(c, i) ==
    ~LineOf(c, i).available \/ (c[3].length /\ ~LineOf(c, i).length_sufficient)
LineDoubtful(c, i) ==
    LineOf(c, i).available /\ c[3].diameter /\ ~LineOf(c, i).diameter_match

\* A line fails exactly when its tool is missing or too short, and one whose
\* lengths or diameters are not compared is neither.
LEMMA LineIs ==
    ASSUME NEW c, NEW i
    PROVE  LET t == LineOf(c, i)
           IN /\ LineFails(c, i) <=> ~(t.available /\ t.length_sufficient)
              /\ LineDoubtful(c, i) <=> t.available /\ ~t.diameter_match
              /\ t.length_sufficient => t.available
<1> DEFINE w == c[1].tools[i]
           m == FoundTool(c[2], c[1].tools[i].no)
           s == c[3]
           t == LineOf(c, i)
<1>1. /\ t.available = m.there
      /\ t.diameter_match =
           (m.there /\ ((s.diameter /\ ~w.called) =>
              IF s.own THEN Abs(m.d - w.d) <= s.tol ELSE m.d = w.d))
      /\ t.length_sufficient =
           (m.there /\ ((s.length /\ ~w.called) =>
              IF s.own THEN m.l \in (w.l - s.tol)..(w.l + s.tol) ELSE m.l >= w.l))
  BY DEF validate_tool, LineOf
<1> HIDE DEF w, m, t
<1>2. /\ t.diameter_match => t.available
      /\ t.length_sufficient => t.available
      /\ ~s.length /\ t.available => t.length_sufficient
      /\ ~s.diameter /\ t.available => t.diameter_match
  BY <1>1
<1>3. /\ LineFails(c, i) <=> ~t.available \/ (s.length /\ ~t.length_sufficient)
      /\ LineDoubtful(c, i) <=> t.available /\ s.diameter /\ ~t.diameter_match
  BY DEF LineFails, LineDoubtful, t
<1>4. /\ LineFails(c, i) <=> ~(t.available /\ t.length_sufficient)
      /\ LineDoubtful(c, i) <=> t.available /\ ~t.diameter_match
  BY <1>2, <1>3
<1> QED BY <1>2, <1>4 DEF t

\* The parts of a verdict.
LEMMA VerdictIs ==
    ASSUME NEW c \in Cases
    PROVE  LET v == validate_program(c[1], c[2], c[3])
           IN /\ DOMAIN v.tools = Numbers(c[1])
              /\ \A n \in Numbers(c[1]) : v.tools[n] = LineOf(c, Max(LinesOf(c[1], n)))
              /\ v.errors = {c[1].tools[i].no : i \in {j \in DOMAIN c[1].tools : LineFails(c, j)}}
              /\ v.warnings = {c[1].tools[i].no : i \in {j \in DOMAIN c[1].tools : LineDoubtful(c, j)}}
              /\ v.wcs = validate_wcs_offset(c[1], c[2], c[3])
              /\ v.valid <=> /\ \A i \in DOMAIN c[1].tools : ~LineFails(c, i)
                             /\ v.hasWcs => v.wcs.within
<1> DEFINE w == c[1]
           m == c[2]
           s == c[3]
           line == [i \in DOMAIN w.tools |->
                      validate_tool(w.tools[i], FoundTool(m, w.tools[i].no), s)]
           failing == {i \in DOMAIN w.tools :
                         ~line[i].available \/ (s.length /\ ~line[i].length_sufficient)}
           doubtful == {i \in DOMAIN w.tools :
                          line[i].available /\ s.diameter /\ ~line[i].diameter_match}
           v == validate_program(w, m, s)
           wcs == validate_wcs_offset(w, m, s)
           checked == w.wcs /\ m.posni
<1>1. \A i \in DOMAIN w.tools : line[i] = LineOf(c, i)
  BY DEF LineOf
<1>2. /\ failing = {j \in DOMAIN w.tools : LineFails(c, j)}
      /\ doubtful = {j \in DOMAIN w.tools : LineDoubtful(c, j)}
  <2> HIDE DEF line
  <2> QED BY <1>1 DEF LineFails, LineDoubtful
<1>3. v = [known |-> TRUE, tools |-> [n \in Numbers(w) |-> line[Max(LinesOf(w, n))]],
           errors |-> {w.tools[i].no : i \in failing},
           warnings |-> {w.tools[i].no : i \in doubtful},
           hasWcs |-> checked, wcs |-> wcs,
           valid |-> failing = {} /\ (checked => wcs.within)]
  BY DEF validate_program
<1> HIDE DEF line, failing, doubtful, wcs, checked
<1>4. /\ v.tools = [n \in Numbers(w) |-> line[Max(LinesOf(w, n))]]
      /\ v.errors = {w.tools[i].no : i \in failing}
      /\ v.warnings = {w.tools[i].no : i \in doubtful}
      /\ v.hasWcs = checked /\ v.wcs = wcs
      /\ v.valid = (failing = {} /\ (checked => wcs.within))
  BY <1>3
<1> HIDE DEF v
<1>5. \A n \in Numbers(w) : v.tools[n] = LineOf(c, Max(LinesOf(w, n)))
  <2> TAKE n \in Numbers(w)
  <2>1. Max(LinesOf(w, n)) \in DOMAIN w.tools BY LastLine
  <2> QED BY <1>1, <1>4, <2>1
<1>6. v.valid <=> /\ \A i \in DOMAIN w.tools : ~LineFails(c, i)
                  /\ v.hasWcs => v.wcs.within
  BY <1>2, <1>4
<1> QED BY <1>2, <1>4, <1>5, <1>6 DEF v, wcs

\* An offset that is within has every axis within, in either rendering.
LEMMA PassedIs ==
    ASSUME NEW c \in Cases, NEW a \in Axes,
           validate_wcs_offset(c[1], c[2], c[3]).within
    PROVE  LET o == validate_wcs_offset(c[1], c[2], c[3])
           IN /\ renderWCSSection(o, TRUE).lines[a] = "ok"
              /\ DetailWcs(o, TRUE).lines[a] = "ok"
<1> DEFINE o == validate_wcs_offset(c[1], c[2], c[3])
<1>1. o.within /\ o.compared /\ o.difference[a] <= o.tolerance
  BY ToleranceIs
<1>2. o.difference[a] \in Int
  BY CasesAssumption DEF validate_wcs_offset
<1> HIDE DEF o
<1>3. renderWCSSection(o, TRUE).lines[a]
        = Mark(o.compared /\ o.difference[a] <= o.tolerance)
  BY DEF renderWCSSection, WcsRow
<1>4. DetailWcs(o, TRUE).lines[a]
        = Mark((IF o.compared THEN o.difference[a] ELSE 0)
                 <= (IF o.tolerance = 0 THEN DefaultTol ELSE o.tolerance))
  BY DEF DetailWcs, WcsRow
<1>5. (IF o.compared THEN o.difference[a] ELSE 0)
         <= (IF o.tolerance = 0 THEN DefaultTol ELSE o.tolerance)
  BY <1>1, <1>2, CasesAssumption
<1> QED BY <1>1, <1>3, <1>4, <1>5 DEF Mark, o

\* The check of a program, line by line, and the rows that are drawn from the
\* response, one per tool number, explain each other, for any program, machine
\* and settings.
THEOREM RowsExplainVerdictHolds == CheckSpec => []RowsExplainVerdict
<1>1. CheckInv => RowsExplainVerdict
  <2> SUFFICES ASSUME CheckInv, result.known PROVE RowsExplainVerdict
    BY DEF RowsExplainVerdict
  <2>0. PICK c \in Cases : /\ wanted = c[1]
                           /\ result = validate_program(c[1], c[2], c[3])
    BY DEF CheckInv
  <2> DEFINE last(n) == Max(LinesOf(c[1], n))
  <2>1. /\ DOMAIN result.tools = Numbers(c[1])
        /\ \A n \in Numbers(c[1]) : result.tools[n] = LineOf(c, last(n))
        /\ result.errors = {c[1].tools[i].no : i \in {j \in DOMAIN c[1].tools : LineFails(c, j)}}
        /\ result.warnings = {c[1].tools[i].no : i \in {j \in DOMAIN c[1].tools : LineDoubtful(c, j)}}
        /\ result.wcs = validate_wcs_offset(c[1], c[2], c[3])
        /\ result.valid <=> /\ \A i \in DOMAIN c[1].tools : ~LineFails(c, i)
                            /\ result.hasWcs => result.wcs.within
    BY <2>0, VerdictIs
  <2>2. \A n \in Numbers(c[1]) : /\ last(n) \in DOMAIN c[1].tools
                                 /\ c[1].tools[last(n)].no = n
                                 /\ last(n) \in LinesOf(c[1], n)
    BY LastLine
  <2> HIDE DEF last
  <2>3. \A n \in Numbers(c[1]) : Judged(n) =>
          /\ Row(n).sign = "error" <=> LineFails(c, last(n))
          /\ Row(n).sign = "warning" <=> ~LineFails(c, last(n)) /\ LineDoubtful(c, last(n))
          /\ Row(n).sign = "error" => Row(n).lines = <<>> \/ Row(n).lines[1].sign = "error"
    <3> SUFFICES ASSUME NEW n \in Numbers(c[1]), Judged(n)
                 PROVE  /\ Row(n).sign = "error" <=> LineFails(c, last(n))
                        /\ Row(n).sign = "warning" <=>
                             ~LineFails(c, last(n)) /\ LineDoubtful(c, last(n))
                        /\ Row(n).sign = "error" =>
                             Row(n).lines = <<>> \/ Row(n).lines[1].sign = "error"
      OBVIOUS
    <3> DEFINE t == result.tools[n]
               row == Row(n)
    <3>1. /\ row.sign = StatusIcon(t)
          /\ ~t.available => row.lines = <<>>
          /\ t.available => row.lines[1].sign = Mark(t.length_sufficient)
      BY DEF Judged, Row, renderToolsSection, ToolRow
    <3>2. /\ LineFails(c, last(n)) <=> ~(t.available /\ t.length_sufficient)
          /\ LineDoubtful(c, last(n)) <=> t.available /\ ~t.diameter_match
          /\ t.length_sufficient => t.available
      BY <2>1, LineIs
    <3> HIDE DEF t, row
    <3>3. row.sign = "error" <=> ~(t.available /\ t.length_sufficient)
      BY <3>1 DEF StatusIcon
    <3>4. row.sign = "warning" <=> t.available /\ t.length_sufficient /\ ~t.diameter_match
      BY <3>1 DEF StatusIcon
    <3>5. row.sign = "error" => row.lines = <<>> \/ row.lines[1].sign = "error"
      BY <3>1, <3>3 DEF Mark
    <3> QED BY <3>2, <3>3, <3>4, <3>5 DEF row
  <2>4. \A n \in Numbers(c[1]) :
          /\ LineFails(c, last(n)) => n \in result.errors /\ ~result.valid
          /\ LineDoubtful(c, last(n)) => n \in result.warnings
    BY <2>1, <2>2
  <2>5. \A n \in Numbers(c[1]) : NamedOnce(n) =>
          /\ n \in result.errors => LineFails(c, last(n))
          /\ n \in result.warnings => LineDoubtful(c, last(n))
    <3> SUFFICES ASSUME NEW n \in Numbers(c[1]), NamedOnce(n),
                        NEW i \in DOMAIN c[1].tools, c[1].tools[i].no = n
                 PROVE  i = last(n)
      BY <2>1
    <3>1. i \in LinesOf(wanted, n) /\ last(n) \in LinesOf(wanted, n)
      BY <2>0, <2>2 DEF LinesOf
    <3> QED BY <3>1 DEF NamedOnce
  <2>6. RowsAreJustified
    BY <2>1, <2>3, <2>4 DEF RowsAreJustified
  <2>7. VerdictHasRow
    BY <2>1, <2>3, <2>5 DEF VerdictHasRow
  <2>8. RejectionHasRow
    <3> SUFFICES ASSUME ~result.valid,
                        \A n \in DOMAIN result.tools : Judged(n) /\ NamedOnce(n),
                        \A n \in DOMAIN result.tools : Row(n).sign # "error"
                 PROVE  result.hasWcs /\ renderWCSSection(result.wcs, FALSE).sign = "error"
      BY DEF RejectionHasRow
    <3>1. \A i \in DOMAIN c[1].tools : ~LineFails(c, i)
      <4> SUFFICES ASSUME NEW i \in DOMAIN c[1].tools, LineFails(c, i) PROVE FALSE
        OBVIOUS
      <4> DEFINE n == c[1].tools[i].no
      <4>1. n \in Numbers(c[1]) /\ n \in result.errors BY <2>1 DEF Numbers
      <4> QED BY <2>1, <2>3, <2>5, <4>1
    <3>2. result.hasWcs /\ ~result.wcs.within BY <2>1, <3>1
    <3> QED BY <3>2 DEF renderWCSSection, WcsRow, Mark
  <2>9. PassedAxesPass
    <3> SUFFICES ASSUME result.wcs.within, NEW a \in Axes
                 PROVE  /\ renderWCSSection(result.wcs, TRUE).lines[a] = "ok"
                        /\ DetailWcs(result.wcs, TRUE).lines[a] = "ok"
      BY DEF PassedAxesPass
    <3>1. result.wcs = validate_wcs_offset(c[1], c[2], c[3]) BY <2>1
    <3>2. validate_wcs_offset(c[1], c[2], c[3]).within BY <3>1
    <3>3. LET o == validate_wcs_offset(c[1], c[2], c[3])
          IN /\ renderWCSSection(o, TRUE).lines[a] = "ok"
             /\ DetailWcs(o, TRUE).lines[a] = "ok"
      BY <3>2, PassedIs
    <3> QED BY <3>1, <3>3
  <2> QED BY <2>6, <2>7, <2>8, <2>9 DEF RowsExplainVerdict
<1> QED BY <1>1, CheckInvariance, PTL

-----------------------------------------------------------------------------
(* The sync panel *)

\* The records of the panel and of an operation.
PanelShape(p) ==
    p = [tab |-> p.tab, configs |-> p.configs, runs |-> p.runs, selectedRun |-> p.selectedRun,
         form |-> p.form, editing |-> p.editing]
OpShape(o) == o = [kind |-> o.kind, id |-> o.id, at |-> o.at, sent |-> o.sent, list |-> o.list]

\* While a config is created no other one is edited: the form that is cleared
\* when it is done was filled from none.
EditInv ==
    /\ PanelShape(panel) /\ OpShape(op)
    /\ FormFollowsEdit
    /\ op # NoOp /\ op.kind = "create" => panel.editing = None

LEMMA SyncInitInv == SyncInit => EditInv
<1> SUFFICES ASSUME SyncInit PROVE EditInv
  OBVIOUS
<1>1. op = [kind |-> "refresh", id |-> None, at |-> "refresh", sent |-> None, list |-> None]
  BY DEF SyncInit, NoOp
<1>2. PanelShape(panel) /\ panel.editing = None /\ origin = None
  BY DEF SyncInit, PanelShape
<1> QED BY <1>1, <1>2 DEF EditInv, OpShape, FormFollowsEdit

\* A step that leaves alone what is edited, and lets an operation at most end.
LEMMA EditKept ==
    ASSUME EditInv, PanelShape(panel'), panel'.editing = panel.editing, origin' = origin,
           OpShape(op'), op' = op \/ op' = NoOp
    PROVE  EditInv'
BY DEF EditInv, FormFollowsEdit

LEMMA NoOpShape == OpShape(NoOp) /\ NoOp.at = None /\ NoOp.kind = None
BY DEF OpShape, NoOp

LEMMA StartsKeeps ==
    ASSUME EditInv, NEW kind_, NEW id, NEW at, NEW sn, Starts(kind_, id, at, sn),
           kind_ = "create" => panel.editing = None
    PROVE  EditInv'
<1>1. /\ op' = [kind |-> kind_, id |-> id, at |-> at, sent |-> sn, list |-> None]
      /\ UNCHANGED <<panel, origin>>
  BY DEF Starts
<1>2. OpShape(op') /\ op'.kind = kind_ BY <1>1 DEF OpShape
<1> QED BY <1>1, <1>2 DEF EditInv, FormFollowsEdit, PanelShape

LEMMA SyncStep == EditInv /\ [SyncNext]_syncVars => EditInv'
<1> SUFFICES ASSUME EditInv, [SyncNext]_syncVars PROVE EditInv'
  OBVIOUS
<1>0. /\ PanelShape(panel) /\ OpShape(op) /\ panel.editing = origin
      /\ op # NoOp /\ op.kind = "create" => panel.editing = None
  BY DEF EditInv, FormFollowsEdit
<1>1. PICK tab, configs, runs, selected, form, editing :
        panel = [tab |-> tab, configs |-> configs, runs |-> runs, selectedRun |-> selected,
                 form |-> form, editing |-> editing]
  BY <1>0 DEF PanelShape
<1>2. PICK kd, id, at, sn, list :
        op = [kind |-> kd, id |-> id, at |-> at, sent |-> sn, list |-> list]
  BY <1>0 DEF OpShape
<1>3. panel.editing = editing /\ op.kind = kd /\ op.at = at
  BY <1>1, <1>2
<1>4. CASE UNCHANGED <<panel, op, origin>>
  BY <1>0, <1>4, EditKept
<1>5. ASSUME UNCHANGED <<op, origin>>,
             \/ \E x : panel' = [panel EXCEPT !.tab = x]
             \/ \E x : panel' = [panel EXCEPT !.form = x]
             \/ \E x : panel' = [panel EXCEPT !.runs = x]
      PROVE  EditInv'
  <2>1. PICK a, b, f :
          panel' = [tab |-> a, configs |-> configs, runs |-> b, selectedRun |-> selected,
                    form |-> f, editing |-> editing]
    BY <1>1, <1>5
  <2>2. PanelShape(panel') /\ panel'.editing = panel.editing
    BY <1>3, <2>1 DEF PanelShape
  <2> QED BY <1>0, <1>5, <2>2, EditKept
<1>6. ASSUME op.at \in {"asked", "refresh"}, UNCHANGED <<panel, origin>>,
             \E a, l : op' = [kind |-> kd, id |-> id, at |-> a, sent |-> sn, list |-> l]
      PROVE  EditInv'
  <2>1. PICK a, l : op' = [kind |-> kd, id |-> id, at |-> a, sent |-> sn, list |-> l]
    BY <1>6
  <2>2. OpShape(op') /\ op'.kind = kd BY <2>1 DEF OpShape
  <2>3. kd = "create" => op # NoOp BY <1>3, <1>6, NoOpShape
  <2> QED BY <1>0, <1>3, <1>6, <2>2, <2>3 DEF EditInv, FormFollowsEdit, PanelShape
<1>7. CASE RequestServed
  <2>1. \E a, l : op' = [kind |-> kd, id |-> id, at |-> a, sent |-> sn, list |-> l]
    <3>1. CASE \E a : op' = [op EXCEPT !.at = a, !.list = server.runs]
      BY <1>2, <3>1
    <3>2. CASE op' = [op EXCEPT !.at = "failed"]
      BY <1>2, <3>2
    <3> QED BY <1>7, <3>1, <3>2 DEF RequestServed
  <2> QED BY <1>6, <1>7, <2>1 DEF RequestServed
<1>8. CASE ListServed
  <2>1. \E a, l : op' = [kind |-> kd, id |-> id, at |-> a, sent |-> sn, list |-> l]
    BY <1>2, <1>8 DEF ListServed
  <2> QED BY <1>6, <1>8, <2>1 DEF ListServed
<1>9. CASE refreshMachineData BY <1>9, StartsKeeps DEF refreshMachineData
<1>10. CASE onCreateConfig BY <1>10, StartsKeeps DEF onCreateConfig
<1>11. CASE onSaveConfig BY <1>11, StartsKeeps DEF onSaveConfig
<1>12. ASSUME NEW c \in ConfigIds, onToggleConfig(c) \/ onDeleteConfig(c) \/ onTriggerConfig(c)
       PROVE  EditInv'
  BY <1>12, StartsKeeps DEF onToggleConfig, onDeleteConfig, onTriggerConfig
<1>13. ASSUME NEW r \in RunIds, onOpenRun(r) PROVE EditInv'
  BY <1>13, StartsKeeps DEF onOpenRun
<1>14. ASSUME NEW c \in ConfigIds, startEditConfig(c) PROVE EditInv'
  <2>1. /\ panel' = [tab |-> "create", configs |-> configs, runs |-> runs,
                     selectedRun |-> selected, form |-> panel.configs[c], editing |-> c]
        /\ origin' = c /\ op' = NoOp
    BY <1>1, <1>14 DEF startEditConfig, loading
  <2>2. PanelShape(panel') /\ panel'.editing = c BY <2>1 DEF PanelShape
  <2> QED BY <2>1, <2>2, NoOpShape DEF EditInv, FormFollowsEdit
<1>15. CASE cancelEditConfig
  <2>1. /\ panel' = [tab |-> tab, configs |-> configs, runs |-> runs,
                     selectedRun |-> selected, form |-> Default, editing |-> None]
        /\ origin' = None /\ op' = NoOp
    BY <1>1, <1>15 DEF cancelEditConfig, loading
  <2>2. PanelShape(panel') /\ panel'.editing = None BY <2>1 DEF PanelShape
  <2> QED BY <2>1, <2>2, NoOpShape DEF EditInv, FormFollowsEdit
<1>16. CASE updateForm
  <2>1. \E x : panel' = [panel EXCEPT !.form = x] BY <1>16 DEF updateForm
  <2> QED BY <1>5, <1>16, <2>1 DEF updateForm
<1>17. CASE SelectFolder
  <2>1. \E x : panel' = [panel EXCEPT !.form = x] BY <1>17 DEF SelectFolder
  <2> QED BY <1>5, <1>17, <2>1 DEF SelectFolder
<1>18. ASSUME NEW p \in polls, PollArrives(p) PROVE EditInv'
  BY <1>5, <1>18 DEF PollArrives
<1>19. ASSUME NEW t, SetTab(t) PROVE EditInv'
  BY <1>5, <1>19 DEF SetTab
<1>20. CASE RequestArrives
  <2>1. CASE op.at = "failed"
    <3>1. op' = NoOp /\ UNCHANGED <<panel, origin>> BY <1>20, <2>1 DEF RequestArrives
    <3> QED BY <1>0, <3>1, NoOpShape, EditKept
  <2>2. CASE op.at = "done" /\ op.kind = "open"
    <3>1. PICK s : panel' = [panel EXCEPT !.selectedRun = s, !.tab = "details"]
                   /\ op' = NoOp /\ origin' = origin
      BY <1>20, <2>2 DEF RequestArrives
    <3>2. panel' = [tab |-> "details", configs |-> configs, runs |-> runs,
                    selectedRun |-> s, form |-> form, editing |-> editing]
      BY <1>1, <3>1
    <3>3. PanelShape(panel') /\ panel'.editing = panel.editing
      BY <1>3, <3>2 DEF PanelShape
    <3> QED BY <3>1, <3>3, NoOpShape, EditKept
  <2>3. CASE op.at = "done" /\ op.kind \in {"create", "save"}
    <3>1. /\ panel' = [panel EXCEPT !.form = Default,
                                    !.editing = IF op.kind = "save" THEN None ELSE @]
          /\ origin' = None
          /\ op' = [op EXCEPT !.at = "refresh"]
      BY <1>20, <2>3 DEF RequestArrives
    <3>2. kd = "create" => editing = None
      BY <1>0, <1>3, <2>3, NoOpShape
    <3>3. panel' = [tab |-> tab, configs |-> configs, runs |-> runs,
                    selectedRun |-> selected, form |-> Default, editing |-> None]
      BY <1>1, <1>3, <2>3, <3>1, <3>2
    <3>4. PanelShape(panel') /\ panel'.editing = None BY <3>3 DEF PanelShape
    <3>5. op' = [kind |-> kd, id |-> id, at |-> "refresh", sent |-> sn, list |-> list]
      BY <1>2, <3>1
    <3>6. OpShape(op') BY <3>5 DEF OpShape
    <3> QED BY <3>1, <3>4, <3>6 DEF EditInv, FormFollowsEdit
  <2>4. CASE op.at = "done" /\ op.kind \notin {"open", "create", "save"}
    <3>1. op' = [op EXCEPT !.at = "refresh"] /\ UNCHANGED <<panel, origin>>
      BY <1>20, <2>4 DEF RequestArrives
    <3>2. op' = [kind |-> kd, id |-> id, at |-> "refresh", sent |-> sn, list |-> list]
      BY <1>2, <3>1
    <3>3. OpShape(op') /\ op'.kind # "create" BY <1>3, <2>4, <3>2 DEF OpShape
    <3> QED BY <1>0, <3>1, <3>3 DEF EditInv, FormFollowsEdit
  <2> QED BY <1>20, <2>1, <2>2, <2>3, <2>4 DEF RequestArrives
<1>21. CASE RefreshArrives
  <2>1. op' = NoOp /\ origin' = origin BY <1>21 DEF RefreshArrives
  <2>2. PICK a, b, r :
          panel' = [tab |-> a, configs |-> b, runs |-> r, selectedRun |-> selected,
                    form |-> form, editing |-> editing]
    BY <1>1, <1>21 DEF RefreshArrives
  <2>3. PanelShape(panel') /\ panel'.editing = panel.editing
    BY <1>3, <2>2 DEF PanelShape
  <2> QED BY <2>1, <2>3, NoOpShape, EditKept
<1>22. CASE RunSteps \/ WatcherStarts \/ PollFires \/ PollServed \/ openFolderPicker \/ Browse
            \/ FolderArrives \/ CloseFolderPicker \/ UNCHANGED syncVars
  BY <1>4, <1>22 DEF RunSteps, WatcherStarts, PollFires, PollServed, openFolderPicker, Browse,
     FolderArrives, CloseFolderPicker, syncVars
<1>23. ASSUME NEW p \in polls, PollFails(p) PROVE EditInv'
  BY <1>4, <1>23 DEF PollFails
<1> QED BY <1>7, <1>8, <1>9, <1>10, <1>11, <1>12, <1>13, <1>14, <1>15, <1>16, <1>17, <1>18,
           <1>19, <1>20, <1>21, <1>22, <1>23 DEF SyncNext

\* What a save overwrites is the config the form was filled from, whichever
\* answers, polls and folders arrive while it is edited.
THEOREM FormFollowsEditHolds == SyncSpec => []FormFollowsEdit
<1>1. EditInv => FormFollowsEdit BY DEF EditInv
<1>2. SyncInit /\ [][SyncNext]_syncVars => []EditInv BY SyncInitInv, SyncStep, PTL
<1> QED BY <1>1, <1>2, PTL DEF SyncSpec

-----------------------------------------------------------------------------
(* The loops of the tool table: filtering, merging, discarding, reconciling  *)
(* and the items at the machine.                                             *)

\* The filter.
OnlyRun(f, s, S) ==
    /\ f[0] = <<>>
    /\ \A i \in 1..Len(s) : f[i] = IF s[i] \in S THEN Append(f[i - 1], s[i]) ELSE f[i - 1]
    /\ f[Len(s)] = Only(s, S)

LEMMA OnlyRuns ==
    ASSUME NEW X, NEW s \in Seq(X), NEW S
    PROVE  \E f \in [0..Len(s) -> Seq(X)] :
             OnlyRun(f, s, S)
<1> DEFINE n == Len(s)
           g == [w \in Seq(X) \X (1..n) |-> IF s[w[2]] \in S THEN Append(w[1], s[w[2]]) ELSE w[1]]
           step(d) == [t \in SUBSET DOMAIN s |->
                         IF t = {} THEN <<>>
                         ELSE LET x == Max(t) IN IF s[x] \in S THEN Append(d[t \ {x}], s[x]) ELSE d[t \ {x}]]
           it == CHOOSE d : d = step(d)
<1>1. Only(s, S) = it[DOMAIN s]
  BY DEF Only, FoldLeft, MapThenFoldSet
<1>2. n \in Nat /\ DOMAIN s = 1..n /\ <<>> \in Seq(X) OBVIOUS
<1>3. g \in [Seq(X) \X (1..n) -> Seq(X)]
  <2> SUFFICES ASSUME NEW v \in Seq(X), NEW i \in 1..n PROVE g[<<v, i>>] \in Seq(X) OBVIOUS
  <2>1. s[i] \in X BY ElementOfSeq
  <2>2. Append(v, s[i]) \in Seq(X) BY <2>1, AppendProperties
  <2> QED BY <2>2
<1>4. PICK h : FoldOf(h, n, Seq(X), <<>>, g)
  <2> HIDE DEF g, n
  <2> QED BY <1>2, <1>3, FoldExists
<1>5. h = step(h)
  <2>1. ASSUME NEW t \in SUBSET (1..n) PROVE h[t] = step(h)[t]
    <3>1. CASE t = {} BY <1>2, <1>4, <3>1 DEF FoldOf
    <3>2. CASE t # {}
      <4>1. Max(t) \in 1..n BY <1>2, <3>2, MaxUpTo
      <4>2. h[t \ {Max(t)}] \in Seq(X) BY <1>4 DEF FoldOf
      <4>3. h[t] = g[<<h[t \ {Max(t)}], Max(t)>>] BY <1>4, <3>2 DEF FoldOf
      <4> QED BY <1>2, <3>2, <4>1, <4>2, <4>3
    <3> QED BY <3>1, <3>2
  <2>2. h \in [SUBSET (1..n) -> Seq(X)] BY <1>4 DEF FoldOf
  <2>3. step(h) = [t \in SUBSET (1..n) |-> step(h)[t]] BY <1>2
  <2> HIDE DEF step, g, n
  <2> QED BY <2>1, <2>2, <2>3
<1>6. it = step(it)
  <2> HIDE DEF step
  <2> QED BY <1>5
<1> HIDE DEF it
<1>7. it[{}] = <<>> BY <1>2, <1>6
<1>8. ASSUME NEW t \in SUBSET (1..n), t # {}, it[t \ {Max(t)}] \in Seq(X)
      PROVE  it[t] = g[<<it[t \ {Max(t)}], Max(t)>>]
  <2>1. Max(t) \in 1..n BY <1>2, <1>8, MaxUpTo
  <2>2. it[t] = step(it)[t] BY <1>6
  <2> QED BY <1>2, <1>8, <2>1, <2>2
<1>9. RunOf(PartialFolds(it, n), n, Seq(X), <<>>, g)
  <2> HIDE DEF g, n
  <2>1. Folds(it, n, Seq(X), <<>>, g) BY <1>7, <1>8 DEF Folds
  <2> QED BY <1>2, <1>3, <2>1, FoldRuns
<1> DEFINE f == PartialFolds(it, n)
<1> HIDE DEF f
<1>10. f \in [0..n -> Seq(X)] /\ f[0] = <<>> BY <1>9 DEF RunOf, f
<1>11. ASSUME NEW i \in 1..n PROVE f[i] = IF s[i] \in S THEN Append(f[i - 1], s[i]) ELSE f[i - 1]
  <2>1. i - 1 \in 0..n OBVIOUS
  <2>2. f[i - 1] \in Seq(X) BY <1>10, <2>1
  <2>3. f[i] = g[<<f[i - 1], i>>] BY <1>9 DEF RunOf, f
  <2> QED BY <2>2, <2>3
<1>12. f[n] = Only(s, S) BY <1>1, <1>2 DEF f, PartialFolds
<1> QED BY <1>10, <1>11, <1>12 DEF OnlyRun

Data == Nat \cup FieldValues

Views == [pot : [Tools -> 0..NumPots], color : [Tools -> FieldValues], own : [Tools -> FieldValues],
          empty : SUBSET Pots, cap : SUBSET Pots, spindle : Nat]

\* A row's pot number or deletion says where its tool is shown.
MarkOps == {"pot_number", "delete"}
PocketOps == {"tool_number", "cap"}

Staged ==
    {c \in [op : {"color", "own", "spindle"} \cup MarkOps \cup PocketOps,
            tool : Nat, pot : Nat, old : Data, new : Data, color : FieldValues] :
       /\ c.op \in {"color", "own"} \cup MarkOps => c.tool \in Tools
       /\ c.op \in {"spindle"} \cup PocketOps => c.tool = 0
       /\ c.op \in {"color", "delete"} \cup PocketOps => c.pot \in Pots
       /\ c.op \in {"color", "own"} => c.old \in FieldValues /\ c.new \in FieldValues
       /\ c.op = "pot_number" => c.old \in 0..NumPots /\ c.new \in Pots
       /\ c.op = "delete" => c.new = 0
       /\ c.op = "tool_number" => c.old = 0 /\ c.new \in Tools
       /\ c.op = "spindle" => c.old \in Nat /\ c.new \in Tools}

Machines == [slot : [Pots -> 0..Cap], color : [Pots -> FieldValues], own : [Tools -> FieldValues], spindle : Nat]

\* No two staged changes have one key.
Keyed(cs) == \A i, j \in DOMAIN cs : makePendingKey(cs[i]) = makePendingKey(cs[j]) => i = j

PaneTypeOK ==
    /\ machine \in Machines /\ ws \in Views /\ prior \in Views /\ cache \in Views
    /\ pending \in Seq(Staged) /\ batch \in Seq(Staged)
    /\ draft \in [tool : 0..NumTools, text : FieldValues, typed : BOOLEAN]
    /\ push \in {"idle", "sent", "reading", "settling"}
    /\ touched \in BOOLEAN /\ {edits, pushes, upsets, lates} \subseteq Nat

PaneInv ==
    /\ PaneTypeOK
    /\ Keyed(pending) /\ Keyed(batch)
    /\ push = "sent" /\ ~touched => pending = batch


LEMMA PaneConstants ==
    /\ NumTools \in Nat /\ NumPots \in Nat /\ 0 \in FieldValues /\ Cap \in Nat /\ Cap \notin Tools
    /\ Tools \subseteq 0..NumTools /\ Pots \subseteq 0..NumPots /\ 0 \notin Pots /\ 0 \notin Tools
  BY PaneAssumption DEF Cap, Tools, Pots

\* A view is the record of its parts.
LEMMA ViewRec ==
    ASSUME NEW v \in Views
    PROVE  /\ v.pot \in [Tools -> 0..NumPots] /\ v.color \in [Tools -> FieldValues]
           /\ v.own \in [Tools -> FieldValues]
           /\ v.empty \in SUBSET Pots /\ v.cap \in SUBSET Pots /\ v.spindle \in Nat
           /\ \A t \in Tools, p \in 0..NumPots : [v EXCEPT !.pot[t] = p] \in Views
           /\ \A t \in Tools, x \in FieldValues : [v EXCEPT !.color[t] = x] \in Views
           /\ \A t \in Tools, x \in FieldValues : [v EXCEPT !.own[t] = x] \in Views
           /\ \A S \in SUBSET Pots : [v EXCEPT !.cap = S] \in Views /\ [v EXCEPT !.empty = S] \in Views
           /\ \A k \in Nat : [v EXCEPT !.spindle = k] \in Views
  BY DEF Views

LEMMA StagedIs ==
    ASSUME NEW c \in Staged
    PROVE  /\ c.op \in {"color", "own", "spindle"} \cup MarkOps \cup PocketOps
           /\ c.tool \in Nat /\ c.pot \in Nat /\ c.old \in Data /\ c.new \in Data /\ c.color \in FieldValues
           /\ c.op \in {"color", "own"} \cup MarkOps => c.tool \in Tools
           /\ c.op \in {"spindle"} \cup PocketOps => c.tool = 0
           /\ c.op \in {"color", "delete"} \cup PocketOps => c.pot \in Pots
           /\ c.op \in {"color", "own"} => c.old \in FieldValues /\ c.new \in FieldValues
           /\ c.op = "pot_number" => c.old \in 0..NumPots /\ c.new \in Pots
           /\ c.op = "delete" => c.new = 0
           /\ c.op = "tool_number" => c.old = 0 /\ c.new \in Tools
           /\ c.op = "spindle" => c.old \in Nat /\ c.new \in Tools
  BY DEF Staged

\* A view with one tool in another pot, and the same pockets.
Moves(v, w, t, p) == w \in Views /\ w.pot = [v.pot EXCEPT ![t] = p] /\ w.empty = v.empty

\* A view with every tool in its pot, and the same pockets.
Stays(v, w) == w \in Views /\ w.pot = v.pot /\ w.empty = v.empty

\* Assigning a pot, or none, in a row.
LEMMA EdgeType ==
    ASSUME NEW v \in Views, NEW t \in Tools
    PROVE  /\ Moves(v, clearAtcAssignment(v, t), t, 0)
           /\ \A p \in 0..NumPots : Moves(v, applyAssignmentEdge(v, t, p), t, p)
<1>1. 0 \in FieldValues /\ 0 \in 0..NumPots BY PaneConstants
<1> DEFINE P == [v.pot EXCEPT ![t] = 0]
           C == [v.color EXCEPT ![t] = 0]
<1>2. clearAtcAssignment(v, t) = [v EXCEPT !.pot = P, !.color = C]
  BY DEF clearAtcAssignment, Views
<1>3. Moves(v, clearAtcAssignment(v, t), t, 0)
  <2>1. P \in [Tools -> 0..NumPots] /\ C \in [Tools -> FieldValues] BY <1>1, ViewRec
  <2>2. P = [v.pot EXCEPT ![t] = 0] OBVIOUS
  <2> HIDE DEF P, C
  <2> QED BY <1>2, <2>1, <2>2 DEF Views, Moves
<1>4. ASSUME NEW p \in 0..NumPots PROVE Moves(v, applyAssignmentEdge(v, t, p), t, p)
  <2>1. CASE p = 0 BY <1>3, <2>1 DEF applyAssignmentEdge
  <2>2. CASE p # 0
    <3>1. applyAssignmentEdge(v, t, p) = [v EXCEPT !.pot[t] = p] BY <2>2 DEF applyAssignmentEdge
    <3>2. [v EXCEPT !.pot[t] = p] \in Views BY ViewRec
    <3> QED BY <3>1, <3>2 DEF Views, Moves
  <2> QED BY <2>1, <2>2
<1> QED BY <1>3, <1>4

\* A field of a tool on a view: only a row's pot number or deletion moves a
\* tool, and nothing touches the pockets.
LEMMA FieldType ==
    ASSUME NEW v \in Views, NEW t \in Tools
    PROVE  /\ \A x \in FieldValues : /\ Stays(v, applyFieldToTool(v, "color", t, x))
                                     /\ Stays(v, applyFieldToTool(v, "own", t, x))
           /\ \A p \in 0..NumPots : Moves(v, applyFieldToTool(v, "pot_number", t, p), t, p)
           /\ \A x : Moves(v, applyFieldToTool(v, "delete", t, x), t, 0)
<1>1. ASSUME NEW x \in FieldValues PROVE Stays(v, applyFieldToTool(v, "color", t, x))
  <2>1. applyFieldToTool(v, "color", t, x) = [v EXCEPT !.color[t] = x] BY DEF applyFieldToTool
  <2>2. [v EXCEPT !.color[t] = x] \in Views BY ViewRec
  <2>3. [v EXCEPT !.color[t] = x].pot = v.pot /\ [v EXCEPT !.color[t] = x].empty = v.empty
    BY DEF Views
  <2> QED BY <2>1, <2>2, <2>3 DEF Stays
<1>2. ASSUME NEW x \in FieldValues PROVE Stays(v, applyFieldToTool(v, "own", t, x))
  <2>1. applyFieldToTool(v, "own", t, x) = [v EXCEPT !.own[t] = x] BY DEF applyFieldToTool
  <2>2. [v EXCEPT !.own[t] = x] \in Views BY ViewRec
  <2>3. [v EXCEPT !.own[t] = x].pot = v.pot /\ [v EXCEPT !.own[t] = x].empty = v.empty
    BY DEF Views
  <2> QED BY <2>1, <2>2, <2>3 DEF Stays
<1>3. ASSUME NEW p \in 0..NumPots PROVE Moves(v, applyFieldToTool(v, "pot_number", t, p), t, p)
  BY EdgeType DEF applyFieldToTool
<1>4. ASSUME NEW x PROVE Moves(v, applyFieldToTool(v, "delete", t, x), t, 0)
  BY EdgeType DEF applyFieldToTool
<1> QED BY <1>1, <1>2, <1>3, <1>4

\* A staged change of a tool, with the value it has or the one it had.
LEMMA FieldOf ==
    ASSUME NEW v \in Views, NEW c \in Staged, OfTool(c)
    PROVE  /\ c.tool \in Tools
           /\ c.op \notin MarkOps => /\ Stays(v, applyFieldToTool(v, c.op, c.tool, c.new))
                                     /\ Stays(v, applyFieldToTool(v, c.op, c.tool, c.old))
           /\ c.op \in MarkOps => Moves(v, applyFieldToTool(v, c.op, c.tool, c.new), c.tool, c.new)
           /\ c.op = "pot_number" => Moves(v, applyFieldToTool(v, c.op, c.tool, c.old), c.tool, c.old)
<1>1. c.tool \in Tools /\ c.op \in {"color", "own", "pot_number", "delete"}
  BY StagedIs DEF OfTool, MarkOps
<1>2. CASE c.op \in {"color", "own"} BY <1>1, <1>2, StagedIs, FieldType DEF MarkOps
<1>3. CASE c.op = "pot_number"
  <2>1. c.old \in 0..NumPots /\ c.new \in 0..NumPots BY <1>3, StagedIs, PaneConstants
  <2> QED BY <1>1, <1>3, <2>1, FieldType DEF MarkOps
<1>4. CASE c.op = "delete" BY <1>1, <1>4, StagedIs, FieldType DEF MarkOps
<1> QED BY <1>1, <1>2, <1>3, <1>4

LEMMA MergeOneType ==
    ASSUME NEW v \in Views, NEW c \in Staged
    PROVE  /\ c.op \in MarkOps => Moves(v, mergeServerToolWithPending(v, c), c.tool, c.new)
           /\ c.op \notin MarkOps => Stays(v, mergeServerToolWithPending(v, c))
           /\ mergeServerToolWithPending(v, c) \in Views
<1> DEFINE r == mergeServerToolWithPending(v, c)
<1>1. CASE OfTool(c)
  <2>1. r = applyFieldToTool(v, c.op, c.tool, c.new)
    BY <1>1 DEF mergeServerToolWithPending, OfTool
  <2>2. c.op \in MarkOps => Moves(v, r, c.tool, c.new) BY <1>1, <2>1, FieldOf
  <2>3. c.op \notin MarkOps => Stays(v, r) BY <1>1, <2>1, FieldOf
  <2>4. r \in Views BY <2>2, <2>3 DEF Moves, Stays
  <2> QED BY <2>2, <2>3, <2>4
<1>2. CASE c.op = "cap"
  <2>1. r = [v EXCEPT !.cap = v.cap \cup ({c.pot} \cap v.empty)] BY <1>2 DEF mergeServerToolWithPending, OfTool
  <2>2. v.cap \cup ({c.pot} \cap v.empty) \in SUBSET Pots BY <1>2, StagedIs, ViewRec DEF PocketOps
  <2> QED BY <1>2, <2>1, <2>2 DEF Views, MarkOps, Stays
<1>3. CASE ~OfTool(c) /\ c.op # "cap"
  BY <1>3 DEF mergeServerToolWithPending, OfTool, MarkOps, Stays
<1> QED BY <1>1, <1>2, <1>3

\* The loop of mergePendingOntoUnifiedCache.
MergeRun(f, v0, cs) ==
    /\ f[0] = v0
    /\ \A i \in 1..Len(cs) : f[i] = mergeServerToolWithPending(f[i - 1], cs[i])
    /\ f[Len(cs)] = mergePendingOntoUnifiedCache(v0, cs)

LEMMA MergeRuns ==
    ASSUME NEW v0 \in Views, NEW cs \in Seq(Staged)
    PROVE  \E f \in [0..Len(cs) -> Views] :
             MergeRun(f, v0, cs)
<1> DEFINE n == Len(cs)
           g == [w \in Views \X (1..n) |-> mergeServerToolWithPending(w[1], cs[w[2]])]
           step(d) == [t \in SUBSET DOMAIN cs |->
                         IF t = {} THEN v0
                         ELSE LET x == Max(t) IN mergeServerToolWithPending(d[t \ {x}], cs[x])]
           it == CHOOSE d : d = step(d)
<1>1. mergePendingOntoUnifiedCache(v0, cs) = it[DOMAIN cs]
  BY DEF mergePendingOntoUnifiedCache, FoldLeft, MapThenFoldSet
<1>2. n \in Nat /\ DOMAIN cs = 1..n /\ v0 \in Views OBVIOUS
<1>3. g \in [Views \X (1..n) -> Views]
  <2> SUFFICES ASSUME NEW v \in Views, NEW i \in 1..n PROVE g[<<v, i>>] \in Views OBVIOUS
  <2>1. cs[i] \in Staged BY ElementOfSeq
  <2> QED BY <2>1, MergeOneType
<1>4. PICK h : FoldOf(h, n, Views, v0, g)
  <2> HIDE DEF g, n
  <2> QED BY <1>2, <1>3, FoldExists
<1>5. h = step(h)
  <2>1. ASSUME NEW t \in SUBSET (1..n) PROVE h[t] = step(h)[t]
    <3>1. CASE t = {} BY <1>2, <1>4, <3>1 DEF FoldOf
    <3>2. CASE t # {}
      <4>1. Max(t) \in 1..n BY <1>2, <3>2, MaxUpTo
      <4>2. h[t \ {Max(t)}] \in Views BY <1>4 DEF FoldOf
      <4>3. h[t] = g[<<h[t \ {Max(t)}], Max(t)>>] BY <1>4, <3>2 DEF FoldOf
      <4> QED BY <1>2, <3>2, <4>1, <4>2, <4>3
    <3> QED BY <3>1, <3>2
  <2>2. h \in [SUBSET (1..n) -> Views] BY <1>4 DEF FoldOf
  <2>3. step(h) = [t \in SUBSET (1..n) |-> step(h)[t]] BY <1>2
  <2> HIDE DEF step, g, n
  <2> QED BY <2>1, <2>2, <2>3
<1>6. it = step(it)
  <2> HIDE DEF step
  <2> QED BY <1>5
<1> HIDE DEF it
<1>7. it[{}] = v0 BY <1>2, <1>6
<1>8. ASSUME NEW t \in SUBSET (1..n), t # {}, it[t \ {Max(t)}] \in Views
      PROVE  it[t] = g[<<it[t \ {Max(t)}], Max(t)>>]
  <2>1. Max(t) \in 1..n BY <1>2, <1>8, MaxUpTo
  <2>2. it[t] = step(it)[t] BY <1>6
  <2> QED BY <1>2, <1>8, <2>1, <2>2
<1>9. RunOf(PartialFolds(it, n), n, Views, v0, g)
  <2> HIDE DEF g, n
  <2>1. Folds(it, n, Views, v0, g) BY <1>7, <1>8 DEF Folds
  <2> QED BY <1>2, <1>3, <2>1, FoldRuns
<1> DEFINE f == PartialFolds(it, n)
<1> HIDE DEF f
<1>10. f \in [0..n -> Views] /\ f[0] = v0 BY <1>9 DEF RunOf, f
<1>11. ASSUME NEW i \in 1..n PROVE f[i] = mergeServerToolWithPending(f[i - 1], cs[i])
  <2>1. i - 1 \in 0..n OBVIOUS
  <2>2. f[i - 1] \in Views BY <1>10, <2>1
  <2>3. f[i] = g[<<f[i - 1], i>>] BY <1>9 DEF RunOf, f
  <2> QED BY <2>2, <2>3
<1>12. f[n] = mergePendingOntoUnifiedCache(v0, cs) BY <1>1, <1>2 DEF f, PartialFolds
<1> QED BY <1>10, <1>11, <1>12 DEF MergeRun


\* The filter picks the positions of what it keeps, in order.
PicksTo(e, out, s, S, m) ==
    /\ e \in [1..Len(out) -> 1..m]
    /\ \A k \in 1..Len(out) : out[k] = s[e[k]] /\ s[e[k]] \in S
    /\ \A k, l \in 1..Len(out) : k < l => e[k] < e[l]
    /\ \A i \in 1..m : s[i] \in S => \E k \in 1..Len(out) : e[k] = i

LEMMA OnlyIs ==
    ASSUME NEW X, NEW s \in Seq(X), NEW S
    PROVE  /\ Only(s, S) \in Seq(X)
           /\ \E e : PicksTo(e, Only(s, S), s, S, Len(s))
<1> DEFINE n == Len(s)
<1>0. PICK f \in [0..n -> Seq(X)] : OnlyRun(f, s, S)
  BY OnlyRuns
<1>1. /\ f[0] = <<>>
      /\ \A i \in 1..n : f[i] = IF s[i] \in S THEN Append(f[i - 1], s[i]) ELSE f[i - 1]
      /\ f[n] = Only(s, S)
  BY <1>0 DEF OnlyRun
<1> DEFINE T == {i \in 0..n : \E e : PicksTo(e, f[i], s, S, i)}
<1>2. 0 \in T
  <2> DEFINE e == [k \in 1..0 |-> 0]
  <2>1. PicksTo(e, <<>>, s, S, 0) BY DEF PicksTo
  <2> QED BY <1>1, <2>1
<1>3. ASSUME NEW i \in 1..n, i - 1 \in T PROVE i \in T
  <2> DEFINE old == f[i - 1]
             m == Len(old)
  <2>1. PICK e : PicksTo(e, old, s, S, i - 1) BY <1>3
  <2>2. old \in Seq(X) /\ m \in Nat /\ i - 1 \in 0..n BY <1>1
  <2>3. f[i] = IF s[i] \in S THEN Append(old, s[i]) ELSE old BY <1>1
  <2> HIDE DEF old
  <2>4. CASE s[i] \notin S
    <3>1. e \in [1..m -> 1..i] BY <2>1, <2>2 DEF PicksTo
    <3>2. ASSUME NEW j \in 1..i, s[j] \in S PROVE \E k \in 1..m : e[k] = j
      <4>1. j \in 1..(i - 1) BY <2>4, <3>2
      <4> QED BY <2>1, <3>2, <4>1 DEF PicksTo
    <3>3. PicksTo(e, old, s, S, i) BY <2>1, <3>1, <3>2 DEF PicksTo
    <3> QED BY <2>3, <2>4, <3>3
  <2>5. CASE s[i] \in S
    <3> DEFINE new == Append(old, s[i])
               d == [k \in 1..(m + 1) |-> IF k <= m THEN e[k] ELSE i]
    <3>1. s[i] \in X BY ElementOfSeq
    <3>2. /\ new \in Seq(X) /\ Len(new) = m + 1
          /\ \A k \in 1..m : new[k] = old[k]
          /\ new[m + 1] = s[i]
      BY <2>2, <3>1, AppendProperties
    <3> HIDE DEF new
    <3>3. /\ e \in [1..m -> 1..(i - 1)]
          /\ \A k \in 1..m : old[k] = s[e[k]] /\ s[e[k]] \in S
          /\ \A k, l \in 1..m : k < l => e[k] < e[l]
          /\ \A j \in 1..(i - 1) : s[j] \in S => \E k \in 1..m : e[k] = j
      BY <2>1 DEF PicksTo
    <3>4. \A k \in 1..m : e[k] \in 1..(i - 1) BY <3>3
    <3>5. d \in [1..(m + 1) -> 1..i] BY <2>2, <3>4
    <3>6. ASSUME NEW k \in 1..(m + 1) PROVE new[k] = s[d[k]] /\ s[d[k]] \in S
      <4>1. CASE k <= m BY <2>2, <3>2, <3>3, <4>1
      <4>2. CASE ~(k <= m)
        <5>1. k = m + 1 /\ d[k] = i BY <2>2, <4>2
        <5> QED BY <2>5, <3>2, <5>1
      <4> QED BY <4>1, <4>2
    <3>7. ASSUME NEW k \in 1..(m + 1), NEW l \in 1..(m + 1), k < l PROVE d[k] < d[l]
      <4>1. k <= m /\ d[k] = e[k] /\ k \in 1..m BY <2>2, <3>7
      <4>2. CASE l <= m BY <2>2, <3>3, <3>7, <4>1, <4>2
      <4>3. CASE ~(l <= m) BY <3>4, <4>1, <4>3
      <4> QED BY <4>2, <4>3
    <3>8. ASSUME NEW j \in 1..i, s[j] \in S PROVE \E k \in 1..(m + 1) : d[k] = j
      <4>1. CASE j = i
        <5>1. m + 1 \in 1..(m + 1) /\ d[m + 1] = i BY <2>2
        <5> QED BY <4>1, <5>1
      <4>2. CASE j # i
        <5>1. j \in 1..(i - 1) BY <4>2
        <5>2. PICK k \in 1..m : e[k] = j BY <3>3, <3>8, <5>1
        <5>3. k \in 1..(m + 1) /\ d[k] = e[k] BY <2>2
        <5> QED BY <5>2, <5>3
      <4> QED BY <4>1, <4>2
    <3> HIDE DEF d
    <3>9. PicksTo(d, new, s, S, i) BY <3>2, <3>5, <3>6, <3>7, <3>8 DEF PicksTo
    <3>10. f[i] = new BY <2>3, <2>5 DEF new
    <3> QED BY <3>9, <3>10
  <2> QED BY <2>4, <2>5
<1>4. 0..n \subseteq T
  <2> HIDE DEF T
  <2>1. \A i \in 1..n : i - 1 \in T => i \in T BY <1>3
  <2>2. n \in Nat OBVIOUS
  <2> QED BY <1>2, <2>1, <2>2, CountUp
<1>5. n \in 0..n OBVIOUS
<1>6. PICK e : PicksTo(e, f[n], s, S, n) BY <1>4, <1>5
<1> QED BY <1>1, <1>5, <1>6

LEMMA OnlySet ==
    ASSUME NEW X, NEW s \in Seq(X), NEW S
    PROVE  ToSet(Only(s, S)) = ToSet(s) \cap S
<1> DEFINE out == Only(s, S)
<1>1. PICK e : PicksTo(e, out, s, S, Len(s)) BY OnlyIs
<1>2. out \in Seq(X) BY OnlyIs
<1> HIDE DEF out
<1>3. DOMAIN out = 1..Len(out) /\ DOMAIN s = 1..Len(s) BY <1>2
<1>4. ASSUME NEW k \in DOMAIN out PROVE out[k] \in ToSet(s) \cap S
  BY <1>1, <1>3 DEF PicksTo, ToSet
<1>5. ASSUME NEW i \in DOMAIN s, s[i] \in S PROVE s[i] \in ToSet(out)
  <2>1. PICK k \in 1..Len(out) : e[k] = i BY <1>1, <1>3, <1>5 DEF PicksTo
  <2>2. out[k] = s[i] BY <1>1, <2>1 DEF PicksTo
  <2> QED BY <1>3, <2>2 DEF ToSet
<1>6. ToSet(out) \subseteq ToSet(s) \cap S BY <1>4 DEF ToSet
<1>7. ToSet(s) \cap S \subseteq ToSet(out) BY <1>5 DEF ToSet
<1> QED BY <1>6, <1>7 DEF out


-----------------------------------------------------------------------------
(* What a list of staged changes says is said by its last change of a kind:  *)
(* of a tool's pot its last pot number or deletion, of a pocket its last     *)
(* tool or cap.                                                              *)

LastIn(cs, K, x) ==
    \E i \in DOMAIN cs : cs[i] = x /\ x \in K /\ \A j \in DOMAIN cs : j > i => cs[j] \notin K

Same(cs, cs2, K) == \A x : LastIn(cs, K, x) <=> LastIn(cs2, K, x)

Marks(u) == {c \in Staged : c.op \in MarkOps /\ c.tool = u}
PocketsOf(p) == {c \in Staged : c.op \in PocketOps /\ c.pot = p}

LEMMA StagedSeq ==
    ASSUME NEW cs \in Seq(Staged)
    PROVE  /\ Len(cs) \in Nat /\ DOMAIN cs = 1..Len(cs)
           /\ \A i \in DOMAIN cs : cs[i] \in Staged
           /\ ToSet(cs) = {cs[i] : i \in DOMAIN cs}
           /\ \A c \in ToSet(cs) : c \in Staged /\ \E i \in DOMAIN cs : cs[i] = c
<1>1. Len(cs) \in Nat /\ DOMAIN cs = 1..Len(cs) OBVIOUS
<1>2. \A i \in DOMAIN cs : cs[i] \in Staged BY ElementOfSeq
<1> QED BY <1>1, <1>2 DEF ToSet

LEMMA HasLast ==
    ASSUME NEW cs \in Seq(Staged), NEW K, NEW i \in DOMAIN cs, cs[i] \in K
    PROVE  \E x : LastIn(cs, K, x)
<1> DEFINE S == {j \in 1..Len(cs) : cs[j] \in K}
<1>1. Len(cs) \in Nat /\ DOMAIN cs = 1..Len(cs) OBVIOUS
<1>2. S \in SUBSET (1..Len(cs)) /\ S # {} BY <1>1
<1>3. Max(S) \in S /\ \A j \in S : j <= Max(S)
  <2> HIDE DEF S
  <2> QED BY <1>1, <1>2, MaxUpTo
<1>4. Max(S) \in DOMAIN cs /\ cs[Max(S)] \in K BY <1>1, <1>3
<1>5. ASSUME NEW j \in DOMAIN cs, j > Max(S) PROVE cs[j] \notin K
  <2>1. j \in S => j <= Max(S) BY <1>3
  <2>2. Max(S) \in Nat /\ j \in Nat BY <1>1, <1>4
  <2>3. j \notin S
    <3> HIDE DEF S
    <3> QED BY <1>5, <2>1, <2>2
  <2> QED BY <1>1, <2>3
<1> HIDE DEF S
<1>6. LastIn(cs, K, cs[Max(S)]) BY <1>4, <1>5 DEF LastIn
<1> QED BY <1>6

\* Where the merged view shows a tool.
PotSays(v, M, cs, u) ==
    /\ \A x : LastIn(cs, Marks(u), x) => M.pot[u] = x.new
    /\ (\A i \in DOMAIN cs : cs[i] \notin Marks(u)) => M.pot[u] = v.pot[u]

LEMMA MergedIs ==
    ASSUME NEW v \in Views, NEW cs \in Seq(Staged)
    PROVE  /\ mergePendingOntoUnifiedCache(v, cs) \in Views
           /\ mergePendingOntoUnifiedCache(v, cs).empty = v.empty
           /\ \A u \in Tools : PotSays(v, mergePendingOntoUnifiedCache(v, cs), cs, u)
<1> DEFINE n == Len(cs)
<1>0. PICK f \in [0..n -> Views] : MergeRun(f, v, cs)
  BY MergeRuns
<1>1. /\ f[0] = v
      /\ \A i \in 1..n : f[i] = mergeServerToolWithPending(f[i - 1], cs[i])
      /\ f[n] = mergePendingOntoUnifiedCache(v, cs)
  BY <1>0 DEF MergeRun
<1>2. n \in Nat /\ DOMAIN cs = 1..n /\ \A i \in 1..n : cs[i] \in Staged BY StagedSeq
<1> DEFINE Said(i, u) ==
             /\ \A j \in 1..i : cs[j] \in Marks(u) /\ (\A k \in 1..i : k > j => cs[k] \notin Marks(u))
                  => f[i].pot[u] = cs[j].new
             /\ (\A j \in 1..i : cs[j] \notin Marks(u)) => f[i].pot[u] = v.pot[u]
           T == {i \in 0..n : f[i].empty = v.empty /\ \A u \in Tools : Said(i, u)}
<1>3. 0 \in T BY <1>1
<1>4. ASSUME NEW i \in 1..n, i - 1 \in T PROVE i \in T
  <2> DEFINE w == f[i - 1]
  <2>1. w \in Views /\ i - 1 \in 0..n /\ cs[i] \in Staged /\ f[i] \in Views BY <1>2
  <2>2. f[i] = mergeServerToolWithPending(w, cs[i]) BY <1>1
  <2>3. w.empty = v.empty /\ \A u \in Tools : Said(i - 1, u) BY <1>4
  <2> HIDE DEF w
  <2>4. CASE cs[i].op \in MarkOps
    <3>1. Moves(w, f[i], cs[i].tool, cs[i].new) BY <2>1, <2>2, <2>4, MergeOneType
    <3>2. f[i].empty = v.empty BY <2>3, <3>1 DEF Moves
    <3>3. ASSUME NEW u \in Tools PROVE Said(i, u)
      <4>1. w.pot \in [Tools -> 0..NumPots] BY <2>1, ViewRec
      <4>2. CASE u = cs[i].tool
        <5>1. cs[i] \in Marks(u) BY <2>1, <2>4, <4>2 DEF Marks
        <5>2. f[i].pot[u] = cs[i].new BY <3>1, <4>1, <4>2 DEF Moves
        <5>3. ASSUME NEW j \in 1..i, \A k \in 1..i : k > j => cs[k] \notin Marks(u)
              PROVE  j = i
          BY <5>1, <5>3
        <5> QED BY <5>1, <5>2, <5>3
      <4>3. CASE u # cs[i].tool
        <5>1. cs[i] \notin Marks(u) BY <4>3 DEF Marks
        <5>2. f[i].pot[u] = w.pot[u] BY <3>1, <4>1, <4>3 DEF Moves
        <5>3. Said(i - 1, u) BY <2>3
        <5>4. \A j \in 1..i : j = i \/ j \in 1..(i - 1) OBVIOUS
        <5> QED BY <5>1, <5>2, <5>3, <5>4 DEF w
      <4> QED BY <4>2, <4>3
    <3> QED BY <3>2, <3>3
  <2>5. CASE cs[i].op \notin MarkOps
    <3>1. Stays(w, f[i]) BY <2>1, <2>2, <2>5, MergeOneType
    <3>2. f[i].empty = v.empty BY <2>3, <3>1 DEF Stays
    <3>3. ASSUME NEW u \in Tools PROVE Said(i, u)
      <4>1. cs[i] \notin Marks(u) BY <2>5 DEF Marks
      <4>2. f[i].pot[u] = w.pot[u] BY <3>1 DEF Stays
      <4>3. Said(i - 1, u) BY <2>3
      <4>4. \A j \in 1..i : j = i \/ j \in 1..(i - 1) OBVIOUS
      <4> QED BY <4>1, <4>2, <4>3, <4>4 DEF w
    <3> QED BY <3>2, <3>3
  <2> QED BY <2>4, <2>5
<1>5. n \in T
  <2>1. 0..n \subseteq T
    <3>1. \A i \in 1..n : i - 1 \in T => i \in T BY <1>4
    <3> HIDE DEF T
    <3> QED BY <1>2, <1>3, <3>1, CountUp
  <2>2. n \in 0..n BY <1>2
  <2> HIDE DEF T
  <2> QED BY <2>1, <2>2
<1>6. ASSUME NEW u \in Tools PROVE PotSays(v, f[n], cs, u)
  <2>1. Said(n, u) BY <1>5
  <2> QED BY <1>2, <2>1 DEF PotSays, LastIn
<1>7. f[n] \in Views /\ f[n].empty = v.empty BY <1>2, <1>5
<1> QED BY <1>1, <1>6, <1>7

\* A tool is shown in the same pot when its pot and its last mark are the same.
LEMMA SamePot ==
    ASSUME NEW v \in Views, NEW w \in Views, NEW cs \in Seq(Staged), NEW ds \in Seq(Staged),
           NEW u \in Tools, Same(cs, ds, Marks(u)), v.pot[u] = w.pot[u]
    PROVE  mergePendingOntoUnifiedCache(v, cs).pot[u] = mergePendingOntoUnifiedCache(w, ds).pot[u]
<1>1. /\ PotSays(v, mergePendingOntoUnifiedCache(v, cs), cs, u)
      /\ PotSays(w, mergePendingOntoUnifiedCache(w, ds), ds, u)
  BY MergedIs
<1>2. CASE \E x : LastIn(cs, Marks(u), x)
  <2>1. PICK x : LastIn(cs, Marks(u), x) BY <1>2
  <2>2. LastIn(ds, Marks(u), x) BY <2>1 DEF Same
  <2> QED BY <1>1, <2>1, <2>2 DEF PotSays
<1>3. CASE ~ \E x : LastIn(cs, Marks(u), x)
  <2>1. \A i \in DOMAIN cs : cs[i] \notin Marks(u) BY <1>3, HasLast
  <2>2. ~ \E x : LastIn(ds, Marks(u), x) BY <1>3 DEF Same
  <2>3. \A i \in DOMAIN ds : ds[i] \notin Marks(u) BY <2>2, HasLast
  <2> QED BY <1>1, <2>1, <2>3 DEF PotSays
<1> QED BY <1>2, <1>3

\* What a pocket is shown to hold.
LEMMA HeldIs ==
    ASSUME NEW v \in Views, NEW cs \in Seq(Staged), NEW p \in Pots
    PROVE  /\ \A x : LastIn(cs, PocketsOf(p), x) =>
                       Held(v, cs, p) = IF p \notin v.empty \/ x.op = "cap" THEN 0 ELSE x.new
           /\ (\A i \in DOMAIN cs : cs[i] \notin PocketsOf(p)) => Held(v, cs, p) = 0
<1> DEFINE of == {i \in DOMAIN cs : Pocket(cs[i]) /\ cs[i].pot = p /\ p \in v.empty}
<1>1. Held(v, cs, p) = IF of = {} \/ cs[Max(of)].op = "cap" THEN 0 ELSE cs[Max(of)].new
  BY DEF Held
<1>2. Len(cs) \in Nat /\ DOMAIN cs = 1..Len(cs) /\ \A i \in DOMAIN cs : cs[i] \in Staged BY StagedSeq
<1>3. p \notin v.empty => of = {} OBVIOUS
<1>4. ASSUME p \in v.empty PROVE of = {i \in DOMAIN cs : cs[i] \in PocketsOf(p)}
  BY <1>2, <1>4 DEF PocketsOf, PocketOps, Pocket
<1>5. ASSUME NEW x, LastIn(cs, PocketsOf(p), x), p \in v.empty
      PROVE  Held(v, cs, p) = IF x.op = "cap" THEN 0 ELSE x.new
  <2>1. PICK i \in DOMAIN cs : /\ cs[i] = x /\ x \in PocketsOf(p)
                               /\ \A j \in DOMAIN cs : j > i => cs[j] \notin PocketsOf(p)
    BY <1>5 DEF LastIn
  <2>2. of = {j \in DOMAIN cs : cs[j] \in PocketsOf(p)} BY <1>4, <1>5
  <2> HIDE DEF of
  <2>3. i \in of /\ of \in SUBSET (1..Len(cs)) BY <1>2, <2>1, <2>2
  <2>4. Max(of) \in of /\ \A j \in of : j <= Max(of) BY <1>2, <2>3, MaxUpTo
  <2>5. Max(of) \in DOMAIN cs /\ ~(Max(of) > i) BY <2>1, <2>2, <2>4
  <2>6. Max(of) = i
    <3>1. i \in Int /\ Max(of) \in Int BY <1>2, <2>5
    <3>2. i <= Max(of) BY <2>3, <2>4
    <3> QED BY <2>5, <3>1, <3>2
  <2> QED BY <1>1, <2>1, <2>3, <2>6
<1>6. ASSUME \A i \in DOMAIN cs : cs[i] \notin PocketsOf(p) PROVE of = {}
  BY <1>3, <1>4, <1>6
<1> HIDE DEF of
<1> QED BY <1>1, <1>3, <1>5, <1>6

LEMMA SameHeld ==
    ASSUME NEW v \in Views, NEW w \in Views, NEW cs \in Seq(Staged), NEW ds \in Seq(Staged),
           NEW p \in Pots, Same(cs, ds, PocketsOf(p)), v.empty = w.empty
    PROVE  Held(v, cs, p) = Held(w, ds, p)
<1>1. CASE \E x : LastIn(cs, PocketsOf(p), x)
  <2>1. PICK x : LastIn(cs, PocketsOf(p), x) BY <1>1
  <2>2. LastIn(ds, PocketsOf(p), x) BY <2>1 DEF Same
  <2>3. Held(v, cs, p) = IF p \notin v.empty \/ x.op = "cap" THEN 0 ELSE x.new BY <2>1, HeldIs
  <2>4. Held(w, ds, p) = IF p \notin w.empty \/ x.op = "cap" THEN 0 ELSE x.new BY <2>2, HeldIs
  <2> QED BY <2>3, <2>4
<1>2. CASE ~ \E x : LastIn(cs, PocketsOf(p), x)
  <2>1. \A i \in DOMAIN cs : cs[i] \notin PocketsOf(p) BY <1>2, HasLast
  <2>2. ~ \E x : LastIn(ds, PocketsOf(p), x) BY <1>2 DEF Same
  <2>3. \A i \in DOMAIN ds : ds[i] \notin PocketsOf(p) BY <2>2, HasLast
  <2> QED BY <2>1, <2>3, HeldIs
<1> QED BY <1>1, <1>2


-----------------------------------------------------------------------------
(* How the list of staged changes changes: some leave it, or one is entered  *)
(* under its key. The others keep their order.                               *)

Sound(cs) == cs \in Seq(Staged) /\ Keyed(cs)

LEMMA KeyIs ==
    ASSUME NEW c \in Staged, NEW d \in Staged, makePendingKey(c) = makePendingKey(d)
    PROVE  /\ c.op = d.op
           /\ c.op \in {"pot_number", "own", "color"} => c.tool = d.tool
           /\ c.op \in {"tool_number", "delete", "cap", "color"} => c.pot = d.pot
<1>1. c.op \in {"color", "own", "spindle", "pot_number", "delete", "tool_number", "cap"}
  BY StagedIs DEF MarkOps, PocketOps
<1>2. d.op \in {"color", "own", "spindle", "pot_number", "delete", "tool_number", "cap"}
  BY StagedIs DEF MarkOps, PocketOps
<1>3. makePendingKey(c)[1] = c.op /\ makePendingKey(d)[1] = d.op
  BY <1>1, <1>2 DEF makePendingKey
<1>4. c.op = d.op BY <1>3
<1>5. CASE c.op = "color"
  <2>1. makePendingKey(c) = <<"color", c.tool, c.pot>> BY <1>5 DEF makePendingKey
  <2>2. makePendingKey(d) = <<"color", d.tool, d.pot>> BY <1>4, <1>5 DEF makePendingKey
  <2>3. <<"color", c.tool, c.pot>> = <<"color", d.tool, d.pot>> BY <2>1, <2>2
  <2>4. c.tool = d.tool BY <2>3
  <2>5. c.pot = d.pot BY <2>3
  <2> QED BY <1>4, <1>5, <2>4, <2>5
<1>6. CASE c.op \in {"pot_number", "own"}
  <2>1. makePendingKey(c) = <<c.op, c.tool, 0>> BY <1>6 DEF makePendingKey
  <2>2. makePendingKey(d) = <<d.op, d.tool, 0>> BY <1>4, <1>6 DEF makePendingKey
  <2>3. <<c.op, c.tool, 0>> = <<d.op, d.tool, 0>> BY <2>1, <2>2
  <2>4. c.tool = d.tool BY <2>3
  <2> QED BY <1>4, <1>6, <2>4
<1>7. CASE c.op \in {"tool_number", "delete", "cap"}
  <2>1. makePendingKey(c) = <<c.op, 0, c.pot>> BY <1>7 DEF makePendingKey
  <2>2. makePendingKey(d) = <<d.op, 0, d.pot>> BY <1>4, <1>7 DEF makePendingKey
  <2>3. <<c.op, 0, c.pot>> = <<d.op, 0, d.pot>> BY <2>1, <2>2
  <2>4. c.pot = d.pot BY <2>3
  <2> QED BY <1>4, <1>7, <2>4
<1> QED BY <1>1, <1>4, <1>5, <1>6, <1>7

LEMMA SameKey ==
    ASSUME NEW c \in Staged, NEW d \in Staged, c.op = d.op
    PROVE  /\ c.op \in {"pot_number", "own"} /\ c.tool = d.tool => makePendingKey(c) = makePendingKey(d)
           /\ c.op \in {"tool_number", "delete", "cap"} /\ c.pot = d.pot => makePendingKey(c) = makePendingKey(d)
           /\ c.op = "spindle" => makePendingKey(c) = makePendingKey(d)
<1>1. CASE c.op \in {"pot_number", "own"}
  <2>1. makePendingKey(c) = <<c.op, c.tool, 0>> BY <1>1 DEF makePendingKey
  <2>2. makePendingKey(d) = <<d.op, d.tool, 0>> BY <1>1 DEF makePendingKey
  <2> QED BY <1>1, <2>1, <2>2
<1>2. CASE c.op \in {"tool_number", "delete", "cap"}
  <2>1. makePendingKey(c) = <<c.op, 0, c.pot>> BY <1>2 DEF makePendingKey
  <2>2. makePendingKey(d) = <<d.op, 0, d.pot>> BY <1>2 DEF makePendingKey
  <2> QED BY <1>2, <2>1, <2>2
<1>3. CASE c.op = "spindle" BY <1>3 DEF makePendingKey
<1> QED BY <1>1, <1>2, <1>3

LEMMA OnlySame ==
    ASSUME NEW cs \in Seq(Staged), NEW S, NEW K, \A d \in ToSet(cs) : d \in K => d \in S
    PROVE  Same(cs, Only(cs, S), K)
<1> DEFINE ds == Only(cs, S)
<1>1. ds \in Seq(Staged) BY OnlyIs
<1>2. PICK e : PicksTo(e, ds, cs, S, Len(cs)) BY OnlyIs
<1> HIDE DEF ds
<1>3. /\ DOMAIN ds = 1..Len(ds) /\ DOMAIN cs = 1..Len(cs) /\ Len(ds) \in Nat /\ Len(cs) \in Nat
      /\ \A i \in DOMAIN cs : cs[i] \in ToSet(cs)
  BY <1>1, StagedSeq
<1>4. /\ e \in [1..Len(ds) -> 1..Len(cs)]
      /\ \A k \in 1..Len(ds) : ds[k] = cs[e[k]] /\ cs[e[k]] \in S
      /\ \A k, l \in 1..Len(ds) : k < l => e[k] < e[l]
      /\ \A i \in 1..Len(cs) : cs[i] \in S => \E k \in 1..Len(ds) : e[k] = i
  BY <1>2 DEF PicksTo
<1>5. ASSUME NEW x, LastIn(cs, K, x) PROVE LastIn(ds, K, x)
  <2>1. PICK i \in DOMAIN cs : cs[i] = x /\ x \in K /\ \A j \in DOMAIN cs : j > i => cs[j] \notin K
    BY <1>5 DEF LastIn
  <2>2. cs[i] \in S BY <1>3, <2>1
  <2>3. PICK k \in DOMAIN ds : e[k] = i BY <1>3, <1>4, <2>2
  <2>4. ASSUME NEW l \in DOMAIN ds, l > k PROVE ds[l] \notin K
    <3>1. e[k] < e[l] /\ e[l] \in DOMAIN cs /\ e[k] \in DOMAIN cs BY <1>3, <1>4, <2>4
    <3>2. e[l] > i BY <1>3, <2>3, <3>1
    <3> QED BY <1>3, <1>4, <2>1, <3>1, <3>2
  <2>5. ds[k] = x BY <1>3, <1>4, <2>1, <2>3
  <2> QED BY <2>1, <2>4, <2>5 DEF LastIn
<1>6. ASSUME NEW x, LastIn(ds, K, x) PROVE LastIn(cs, K, x)
  <2>1. PICK k \in DOMAIN ds : ds[k] = x /\ x \in K /\ \A j \in DOMAIN ds : j > k => ds[j] \notin K
    BY <1>6 DEF LastIn
  <2>2. e[k] \in DOMAIN cs /\ cs[e[k]] = x BY <1>3, <1>4, <2>1
  <2>3. ASSUME NEW j \in DOMAIN cs, j > e[k], cs[j] \in K PROVE FALSE
    <3>1. cs[j] \in S BY <1>3, <2>3
    <3>2. PICK l \in DOMAIN ds : e[l] = j BY <1>3, <1>4, <3>1
    <3>3. ds[l] = cs[j] BY <1>3, <1>4, <3>2
    <3>4. ~(l > k) BY <2>1, <2>3, <3>3
    <3>5. l # k BY <1>3, <2>2, <2>3, <3>2
    <3>6. l < k BY <1>3, <3>4, <3>5
    <3>7. e[l] < e[k] /\ e[l] \in DOMAIN cs BY <1>3, <1>4, <3>6
    <3> QED BY <1>3, <2>2, <2>3, <3>2, <3>7
  <2> QED BY <2>1, <2>2, <2>3 DEF LastIn
<1>7. Same(cs, ds, K) BY <1>5, <1>6 DEF Same
<1> QED BY <1>7 DEF ds

LEMMA OnlySound ==
    ASSUME NEW cs, Sound(cs), NEW S
    PROVE  Sound(Only(cs, S))
<1> DEFINE ds == Only(cs, S)
<1>0. cs \in Seq(Staged) /\ Keyed(cs) BY DEF Sound
<1>1. ds \in Seq(Staged) BY <1>0, OnlyIs
<1>2. PICK e : PicksTo(e, ds, cs, S, Len(cs)) BY <1>0, OnlyIs
<1> HIDE DEF ds
<1>3. DOMAIN ds = 1..Len(ds) /\ DOMAIN cs = 1..Len(cs) /\ Len(ds) \in Nat /\ Len(cs) \in Nat
  BY <1>0, <1>1, StagedSeq
<1>4. /\ e \in [1..Len(ds) -> 1..Len(cs)]
      /\ \A k \in 1..Len(ds) : ds[k] = cs[e[k]] /\ cs[e[k]] \in S
      /\ \A k, l \in 1..Len(ds) : k < l => e[k] < e[l]
  BY <1>2 DEF PicksTo
<1>6. \A k \in DOMAIN ds : e[k] \in DOMAIN cs /\ ds[k] = cs[e[k]] BY <1>3, <1>4
<1>7. Keyed(ds)
  <2> SUFFICES ASSUME NEW k \in DOMAIN ds, NEW l \in DOMAIN ds,
                      makePendingKey(ds[k]) = makePendingKey(ds[l])
               PROVE  k = l
    BY DEF Keyed
  <2>1. e[k] = e[l] BY <1>0, <1>6 DEF Keyed
  <2>2. ~(k < l) /\ ~(l < k) BY <1>3, <1>4, <1>6, <2>1
  <2> QED BY <1>3, <2>2
<1> QED BY <1>1, <1>7 DEF Sound, ds

\* Entering a change.
LEMMA SetIs ==
    ASSUME NEW cs \in Seq(Staged), NEW c \in Staged
    PROVE  LET ds == SetPending(cs, c) IN
           /\ ds \in Seq(Staged)
           /\ \A i \in DOMAIN cs : i \in DOMAIN ds /\ ds[i] = IF makePendingKey(cs[i]) = makePendingKey(c) THEN c ELSE cs[i]
           /\ makePendingKey(c) \in Keys(cs) => DOMAIN ds = DOMAIN cs
           /\ makePendingKey(c) \notin Keys(cs) => DOMAIN ds = 1..(Len(cs) + 1) /\ ds[Len(cs) + 1] = c
<1> DEFINE ds == SetPending(cs, c)
<1>1. /\ Len(cs) \in Nat /\ DOMAIN cs = 1..Len(cs) /\ \A i \in DOMAIN cs : cs[i] \in Staged
      /\ ToSet(cs) = {cs[i] : i \in DOMAIN cs}
  BY StagedSeq
<1>2. CASE makePendingKey(c) \in Keys(cs)
  <2>1. ds = [i \in DOMAIN cs |-> IF makePendingKey(cs[i]) = makePendingKey(c) THEN c ELSE cs[i]]
    BY <1>2 DEF SetPending
  <2>2. ds \in [1..Len(cs) -> Staged] BY <1>1, <2>1
  <2>3. ds \in Seq(Staged) BY <1>1, <2>2
  <2> QED BY <1>2, <2>1, <2>3
<1>3. CASE makePendingKey(c) \notin Keys(cs)
  <2>1. ds = Append(cs, c) BY <1>3 DEF SetPending
  <2>2. \A i \in DOMAIN cs : makePendingKey(cs[i]) # makePendingKey(c)
    BY <1>1, <1>3 DEF Keys
  <2>3. /\ ds \in Seq(Staged) /\ Len(ds) = Len(cs) + 1
        /\ \A i \in 1..Len(cs) : ds[i] = cs[i]
        /\ ds[Len(cs) + 1] = c
    BY <2>1, AppendProperties
  <2>4. DOMAIN ds = 1..(Len(cs) + 1) BY <2>3
  <2>5. \A i \in DOMAIN cs : i \in DOMAIN ds BY <1>1, <2>4
  <2> HIDE DEF ds
  <2>6. /\ ds \in Seq(Staged)
        /\ \A i \in DOMAIN cs : i \in DOMAIN ds /\ ds[i] = IF makePendingKey(cs[i]) = makePendingKey(c) THEN c ELSE cs[i]
        /\ DOMAIN ds = 1..(Len(cs) + 1) /\ ds[Len(cs) + 1] = c
    BY <1>1, <2>2, <2>3, <2>4, <2>5
  <2> QED BY <1>3, <2>6 DEF ds
<1> QED BY <1>2, <1>3


\* The list with c entered.
Entered(cs, ds, c) ==
    /\ ds \in Seq(Staged)
    /\ \A i \in DOMAIN cs : i \in DOMAIN ds /\ ds[i] = IF makePendingKey(cs[i]) = makePendingKey(c) THEN c ELSE cs[i]
    /\ makePendingKey(c) \in Keys(cs) => DOMAIN ds = DOMAIN cs
    /\ makePendingKey(c) \notin Keys(cs) => DOMAIN ds = 1..(Len(cs) + 1) /\ ds[Len(cs) + 1] = c

LEMMA SetEnters ==
    ASSUME NEW cs \in Seq(Staged), NEW c \in Staged
    PROVE  Entered(cs, SetPending(cs, c), c)
  BY SetIs DEF Entered

LEMMA InKeys ==
    ASSUME NEW cs \in Seq(Staged), NEW k
    PROVE  k \in Keys(cs) <=> \E i \in DOMAIN cs : makePendingKey(cs[i]) = k
  BY StagedSeq DEF Keys

\* Each position holds c or what it held.
LEMMA EnteredAt ==
    ASSUME NEW cs \in Seq(Staged), NEW ds, NEW c \in Staged, Entered(cs, ds, c), NEW i \in DOMAIN ds
    PROVE  /\ i \in Nat
           /\ \/ ds[i] = c
              \/ i \in DOMAIN cs /\ ds[i] = cs[i] /\ makePendingKey(cs[i]) # makePendingKey(c)
<1>1. Len(cs) \in Nat /\ DOMAIN cs = 1..Len(cs) OBVIOUS
<1>2. CASE i \in DOMAIN cs BY <1>1, <1>2 DEF Entered
<1>3. CASE i \notin DOMAIN cs
  <2>1. makePendingKey(c) \notin Keys(cs) BY <1>3 DEF Entered
  <2>2. i \in 1..(Len(cs) + 1) /\ ds[Len(cs) + 1] = c BY <2>1 DEF Entered
  <2>3. i = Len(cs) + 1 BY <1>1, <1>3, <2>2
  <2> QED BY <2>2, <2>3
<1> QED BY <1>2, <1>3

\* It is there.
LEMMA EnteredIn ==
    ASSUME NEW cs \in Seq(Staged), NEW ds, NEW c \in Staged, Entered(cs, ds, c)
    PROVE  \E i \in DOMAIN ds : ds[i] = c
<1>1. Len(cs) \in Nat /\ DOMAIN cs = 1..Len(cs) OBVIOUS
<1>2. CASE makePendingKey(c) \in Keys(cs)
  <2>1. PICK i \in DOMAIN cs : makePendingKey(cs[i]) = makePendingKey(c) BY <1>2, InKeys
  <2> QED BY <2>1 DEF Entered
<1>3. CASE makePendingKey(c) \notin Keys(cs)
  <2>1. Len(cs) + 1 \in 1..(Len(cs) + 1) BY <1>1
  <2> QED BY <1>3, <2>1 DEF Entered
<1> QED BY <1>2, <1>3

LEMMA EnteredSame ==
    ASSUME NEW cs \in Seq(Staged), NEW ds, NEW c \in Staged, Entered(cs, ds, c), NEW K,
           \A d \in Staged : makePendingKey(d) = makePendingKey(c) => d \notin K
    PROVE  Same(cs, ds, K)
<1>1. Len(cs) \in Nat /\ DOMAIN cs = 1..Len(cs) /\ \A i \in DOMAIN cs : cs[i] \in Staged BY StagedSeq
<1>2. c \notin K OBVIOUS
<1>3. \A i \in DOMAIN ds : i \in Nat /\ (ds[i] \in K => i \in DOMAIN cs /\ ds[i] = cs[i])
  BY <1>2, EnteredAt
<1>4. \A i \in DOMAIN cs : cs[i] \in K => i \in DOMAIN ds /\ ds[i] = cs[i]
  BY <1>1 DEF Entered
<1>5. ASSUME NEW x, LastIn(cs, K, x) PROVE LastIn(ds, K, x)
  BY <1>3, <1>4, <1>5 DEF LastIn
<1>6. ASSUME NEW x, LastIn(ds, K, x) PROVE LastIn(cs, K, x)
  BY <1>3, <1>4, <1>6 DEF LastIn
<1> QED BY <1>5, <1>6 DEF Same

LEMMA EnteredSound ==
    ASSUME NEW cs, Sound(cs), NEW ds, NEW c \in Staged, Entered(cs, ds, c)
    PROVE  Sound(ds)
<1>0. cs \in Seq(Staged) /\ Keyed(cs) BY DEF Sound
<1>1. Len(cs) \in Nat /\ DOMAIN cs = 1..Len(cs) /\ \A i \in DOMAIN cs : cs[i] \in Staged BY <1>0, StagedSeq
<1>2. ds \in Seq(Staged) BY DEF Entered
<1>3. \A i \in DOMAIN cs : makePendingKey(ds[i]) = makePendingKey(cs[i]) /\ i \in DOMAIN ds
  BY DEF Entered
<1>6. CASE makePendingKey(c) \in Keys(cs)
  <2>1. DOMAIN ds = DOMAIN cs BY <1>6 DEF Entered
  <2>2. Keyed(ds) BY <1>0, <1>3, <2>1 DEF Keyed
  <2> QED BY <1>2, <2>2 DEF Sound
<1>7. CASE makePendingKey(c) \notin Keys(cs)
  <2> DEFINE m == Len(cs) + 1
  <2>1. DOMAIN ds = 1..m /\ ds[m] = c BY <1>7 DEF Entered
  <2>2. \A i \in DOMAIN ds : i = m \/ i \in DOMAIN cs BY <1>1, <2>1
  <2>3. \A i \in DOMAIN cs : i < m /\ makePendingKey(ds[i]) # makePendingKey(c)
    BY <1>0, <1>1, <1>3, <1>7, InKeys
  <2> HIDE DEF m
  <2>4. Keyed(ds)
    <3> SUFFICES ASSUME NEW i \in DOMAIN ds, NEW j \in DOMAIN ds, makePendingKey(ds[i]) = makePendingKey(ds[j])
                 PROVE  i = j
      BY DEF Keyed
    <3>1. CASE i = m /\ j = m BY <3>1
    <3>2. CASE i # m /\ j # m BY <1>0, <1>3, <2>2, <3>2 DEF Keyed
    <3>3. CASE i = m /\ j # m BY <2>1, <2>2, <2>3, <3>3
    <3>4. CASE i # m /\ j = m BY <2>1, <2>2, <2>3, <3>4
    <3> QED BY <3>1, <3>2, <3>3, <3>4
  <2> QED BY <1>2, <2>4 DEF Sound
<1> QED BY <1>6, <1>7

\* Taking the change of a key out.
LEMMA WithoutIs ==
    ASSUME NEW cs, Sound(cs), NEW keys
    PROVE  /\ Sound(Without(cs, keys))
           /\ \A d : d \in ToSet(Without(cs, keys)) <=> d \in ToSet(cs) /\ makePendingKey(d) \notin keys
           /\ \A K : (\A d \in Staged : makePendingKey(d) \in keys => d \notin K) => Same(cs, Without(cs, keys), K)
<1>0. cs \in Seq(Staged) BY DEF Sound
<1> DEFINE S == {d \in ToSet(cs) : makePendingKey(d) \notin keys}
<1>1. Without(cs, keys) = Only(cs, S) BY DEF Without
<1>2. ToSet(Only(cs, S)) = ToSet(cs) \cap S BY <1>0, OnlySet
<1>3. \A d \in ToSet(cs) : d \in Staged BY <1>0, StagedSeq
<1>4. ASSUME NEW K, \A d \in Staged : makePendingKey(d) \in keys => d \notin K
      PROVE  Same(cs, Without(cs, keys), K)
  <2>1. \A d \in ToSet(cs) : d \in K => d \in S BY <1>3, <1>4
  <2> HIDE DEF S
  <2> QED BY <1>0, <1>1, <2>1, OnlySame
<1>5. Sound(Without(cs, keys))
  <2> HIDE DEF S
  <2> QED BY <1>1, OnlySound
<1> QED BY <1>1, <1>2, <1>4, <1>5


-----------------------------------------------------------------------------
(* Staging.                                                                  *)

LEMMA ApplyIs ==
    ASSUME NEW v \in Views, NEW c \in Staged
    PROVE  /\ applyToTool(v, c) \in Views
           /\ c.op \in MarkOps => Moves(v, applyToTool(v, c), c.tool, c.new)
           /\ c.op \notin MarkOps => Stays(v, applyToTool(v, c))
<1> DEFINE r == applyToTool(v, c)
<1>1. CASE OfTool(c)
  <2>1. r = applyFieldToTool(v, c.op, c.tool, c.new) BY <1>1 DEF applyToTool, OfTool
  <2>2. c.op \in MarkOps => Moves(v, r, c.tool, c.new) BY <1>1, <2>1, FieldOf
  <2>3. c.op \notin MarkOps => Stays(v, r) BY <1>1, <2>1, FieldOf
  <2>4. r \in Views BY <2>2, <2>3 DEF Moves, Stays
  <2> QED BY <2>2, <2>3, <2>4
<1>2. CASE c.op \in {"cap", "tool_number"}
  <2> DEFINE S == IF c.op = "cap" THEN v.cap \cup {c.pot} ELSE v.cap \ {c.pot}
  <2>1. r = [v EXCEPT !.cap = S] BY <1>2 DEF applyToTool, OfTool
  <2>2. S \in SUBSET Pots BY <1>2, StagedIs, ViewRec DEF PocketOps
  <2> HIDE DEF S
  <2>3. [v EXCEPT !.cap = S] \in Views BY <2>2 DEF Views
  <2>4. r.pot = v.pot /\ r.empty = v.empty BY <2>1 DEF Views
  <2> QED BY <1>2, <2>1, <2>3, <2>4 DEF MarkOps, Stays
<1>3. CASE c.op = "spindle"
  <2>1. r = [v EXCEPT !.spindle = c.new] BY <1>3 DEF applyToTool, OfTool
  <2>2. c.new \in Nat BY <1>3, StagedIs, PaneConstants DEF Tools
  <2>3. [v EXCEPT !.spindle = c.new] \in Views BY <2>2 DEF Views
  <2>4. r.pot = v.pot /\ r.empty = v.empty BY <2>1 DEF Views
  <2> QED BY <1>3, <2>1, <2>3, <2>4 DEF MarkOps, Stays
<1> QED BY <1>1, <1>2, <1>3, StagedIs DEF OfTool, MarkOps, PocketOps

LEMMA RevertIs ==
    ASSUME NEW v \in Views, NEW c \in Staged
    PROVE  /\ revertTool(v, c) \in Views /\ revertTool(v, c).empty = v.empty
           /\ c.op = "pot_number" => Moves(v, revertTool(v, c), c.tool, c.old)
           /\ c.op = "delete" => Moves(v, revertTool(v, c), c.tool, c.pot)
           /\ c.op \notin MarkOps => Stays(v, revertTool(v, c))
<1> DEFINE r == revertTool(v, c)
<1>1. CASE c.op = "delete"
  <2> DEFINE P == [v.pot EXCEPT ![c.tool] = c.pot]
             C == [v.color EXCEPT ![c.tool] = c.color]
  <2>1. r = [v EXCEPT !.pot = P, !.color = C] BY <1>1 DEF revertTool, Views
  <2>2. c.tool \in Tools /\ c.pot \in 0..NumPots /\ c.color \in FieldValues
    BY <1>1, StagedIs, PaneConstants DEF MarkOps
  <2>3. r \in Views
    <3>1. P \in [Tools -> 0..NumPots] /\ C \in [Tools -> FieldValues] BY <2>2, ViewRec
    <3> HIDE DEF P, C, r
    <3> QED BY <2>1, <3>1 DEF Views
  <2>4. r.pot = [v.pot EXCEPT ![c.tool] = c.pot] /\ r.empty = v.empty BY <2>1 DEF Views
  <2> QED BY <1>1, <2>3, <2>4 DEF MarkOps, Moves
<1>2. CASE OfTool(c) /\ c.op # "delete"
  <2>1. r = applyFieldToTool(v, c.op, c.tool, c.old) BY <1>2 DEF revertTool
  <2>2. c.op = "pot_number" => Moves(v, r, c.tool, c.old) BY <1>2, <2>1, FieldOf
  <2>3. c.op \notin MarkOps => Stays(v, r) BY <1>2, <2>1, FieldOf
  <2>4. r \in Views /\ r.empty = v.empty BY <1>2, <2>2, <2>3 DEF Moves, Stays, MarkOps
  <2> QED BY <1>2, <2>2, <2>3, <2>4
<1>3. CASE ~OfTool(c)
  <2>1. r = v BY <1>3 DEF revertTool, OfTool
  <2> QED BY <1>3, <2>1 DEF OfTool, MarkOps, Stays
<1> QED BY <1>1, <1>2, <1>3

\* What staging a change does to the list and to the view: the change is
\* entered, with the value before the first edit, or taken back.
Stages(cs, ds, v, w, b) ==
    \/ ds = Without(cs, {makePendingKey(b)}) /\ w = revertTool(v, b) /\ b.new = b.old
    \/ ds = SetPending(cs, b) /\ w = applyToTool(v, b)

\* The change with the value it had before.
Based(b, c) == b \in Staged /\ b.op = c.op /\ b.tool = c.tool /\ b.pot = c.pot /\ b.new = c.new

LEMMA StageIs ==
    ASSUME NEW c \in Staged, pending \in Seq(Staged), stagePendingChange(c)
    PROVE  \E b : /\ Based(b, c) /\ makePendingKey(b) = makePendingKey(c)
                  /\ Stages(pending, pending', cache, cache', b)
<1> DEFINE same == {d \in ToSet(pending) : makePendingKey(d) = makePendingKey(c)}
           base == IF same = {} THEN c.old ELSE (CHOOSE d \in same : TRUE).old
           b == [c EXCEPT !.old = base]
<1>1. /\ IF b.new = base
         THEN pending' = Without(pending, {makePendingKey(c)}) /\ cache' = revertTool(cache, b)
         ELSE pending' = SetPending(pending, b) /\ cache' = applyToTool(cache, b)
  BY DEF stagePendingChange
<1>2. base = c.old \/ \E d \in Staged : base = d.old /\ makePendingKey(d) = makePendingKey(c)
  <2>1. CASE same = {} BY <2>1
  <2>2. CASE same # {}
    <3>1. (CHOOSE d \in same : TRUE) \in same BY <2>2
    <3>2. \A d \in same : d \in Staged /\ makePendingKey(d) = makePendingKey(c) BY StagedSeq
    <3> HIDE DEF same
    <3> QED BY <2>2, <3>1, <3>2
  <2> QED BY <2>1, <2>2
<1> HIDE DEF base
<1>4. \E d \in Staged : base = d.old /\ d.op = c.op
  <2>1. CASE base = c.old BY <2>1
  <2>2. CASE base # c.old
    <3>1. PICK d \in Staged : base = d.old /\ makePendingKey(d) = makePendingKey(c) BY <1>2, <2>2
    <3> QED BY <3>1, KeyIs
  <2> QED BY <2>1, <2>2
<1>5. PICK d \in Staged : base = d.old /\ d.op = c.op BY <1>4
<1>6. base \in Data /\ (c.op \in {"color", "own"} => base \in FieldValues)
      /\ (c.op = "pot_number" => base \in 0..NumPots) /\ (c.op = "tool_number" => base = 0)
      /\ (c.op = "spindle" => base \in Nat)
  BY <1>5, StagedIs
<1>7. b \in Staged BY <1>6 DEF Staged
<1>8. b.op = c.op /\ b.tool = c.tool /\ b.pot = c.pot /\ b.new = c.new /\ b.old = base BY DEF Staged
<1> HIDE DEF b
<1>9. makePendingKey(b) = makePendingKey(c) BY <1>8 DEF makePendingKey
<1>10. Based(b, c) BY <1>7, <1>8 DEF Based
<1>11. Stages(pending, pending', cache, cache', b) BY <1>1, <1>8, <1>9 DEF Stages
<1> QED BY <1>9, <1>10, <1>11

\* After staging the list is sound and the view a view; the pots and pockets
\* that the change is not about are as before.
LEMMA StagesKeeps ==
    ASSUME NEW cs, Sound(cs), NEW v \in Views, NEW b \in Staged, NEW ds, NEW w,
           Stages(cs, ds, v, w, b)
    PROVE  /\ Sound(ds) /\ w \in Views /\ w.empty = v.empty
           /\ \A u \in Tools : b.op \notin MarkOps \/ u # b.tool => w.pot[u] = v.pot[u]
           /\ \A K : (\A d \in Staged : makePendingKey(d) = makePendingKey(b) => d \notin K) => Same(cs, ds, K)
<1>0. cs \in Seq(Staged) BY DEF Sound
<1>v. v.pot \in [Tools -> 0..NumPots] BY ViewRec
<1>1. CASE ds = Without(cs, {makePendingKey(b)}) /\ w = revertTool(v, b)
  <2>1. w \in Views /\ w.empty = v.empty BY <1>1, RevertIs
  <2>2. ASSUME NEW u \in Tools, b.op \notin MarkOps \/ u # b.tool PROVE w.pot[u] = v.pot[u]
    <3>1. CASE b.op \notin MarkOps BY <1>1, <3>1, RevertIs DEF Stays
    <3>2. CASE b.op = "pot_number"
      <4>1. u # b.tool BY <2>2, <3>2 DEF MarkOps
      <4>2. w.pot = [v.pot EXCEPT ![b.tool] = b.old] BY <1>1, <3>2, RevertIs DEF Moves
      <4> QED BY <1>v, <4>1, <4>2
    <3>3. CASE b.op = "delete"
      <4>1. u # b.tool BY <2>2, <3>3 DEF MarkOps
      <4>2. w.pot = [v.pot EXCEPT ![b.tool] = b.pot] BY <1>1, <3>3, RevertIs DEF Moves
      <4> QED BY <1>v, <4>1, <4>2
    <3> QED BY <3>1, <3>2, <3>3 DEF MarkOps
  <2>3. ASSUME NEW K, \A d \in Staged : makePendingKey(d) = makePendingKey(b) => d \notin K
        PROVE  Same(cs, ds, K)
    BY <1>1, <2>3, WithoutIs
  <2>4. Sound(ds) BY <1>1, WithoutIs
  <2> QED BY <2>1, <2>2, <2>3, <2>4
<1>2. CASE ds = SetPending(cs, b) /\ w = applyToTool(v, b)
  <2>0. Entered(cs, ds, b) BY <1>0, <1>2, SetEnters
  <2>1. w \in Views /\ w.empty = v.empty BY <1>2, ApplyIs DEF Moves, Stays
  <2>2. ASSUME NEW u \in Tools, b.op \notin MarkOps \/ u # b.tool PROVE w.pot[u] = v.pot[u]
    <3>1. CASE b.op \notin MarkOps BY <1>2, <3>1, ApplyIs DEF Stays
    <3>2. CASE b.op \in MarkOps
      <4>1. w.pot = [v.pot EXCEPT ![b.tool] = b.new] BY <1>2, <3>2, ApplyIs DEF Moves
      <4> QED BY <1>v, <2>2, <3>2, <4>1
    <3> QED BY <3>1, <3>2
  <2>3. ASSUME NEW K, \A d \in Staged : makePendingKey(d) = makePendingKey(b) => d \notin K
        PROVE  Same(cs, ds, K)
    BY <1>0, <2>0, <2>3, EnteredSame
  <2>4. Sound(ds) BY <2>0, EnteredSound
  <2> QED BY <2>1, <2>2, <2>3, <2>4
<1> QED BY <1>1, <1>2 DEF Stages


-----------------------------------------------------------------------------
(* Pots shown once.                                                          *)

Once(v, cs) == \A p \in Pots : \A t, u \in Occupants(v, cs, p) : t = u

LEMMA OccupantsAre ==
    ASSUME NEW v, NEW cs, NEW p, NEW u
    PROVE  u \in Occupants(v, cs, p) <=>
             \/ u \in Tools /\ mergePendingOntoUnifiedCache(v, cs).pot[u] = p
             \/ u = Held(v, cs, p) /\ u # 0
  BY DEF Occupants

\* A row's pot number: its tool is shown in that pot or in none, and nothing
\* else moves.
LEMMA RowShows ==
    ASSUME NEW cs, Sound(cs), NEW v \in Views, NEW b \in Staged, NEW ds, NEW w,
           Stages(cs, ds, v, w, b), b.op = "pot_number"
    PROVE  /\ \A u \in Tools : u # b.tool => mergePendingOntoUnifiedCache(w, ds).pot[u]
                                               = mergePendingOntoUnifiedCache(v, cs).pot[u]
           /\ mergePendingOntoUnifiedCache(w, ds).pot[b.tool] \in {b.new, 0}
           /\ \A p \in Pots : Held(w, ds, p) = Held(v, cs, p)
<1>0. cs \in Seq(Staged) /\ Keyed(cs) BY DEF Sound
<1>1. /\ Sound(ds) /\ w \in Views /\ w.empty = v.empty
      /\ \A u \in Tools : u # b.tool => w.pot[u] = v.pot[u]
      /\ \A K : (\A d \in Staged : makePendingKey(d) = makePendingKey(b) => d \notin K) => Same(cs, ds, K)
  BY StagesKeeps
<1>2. ds \in Seq(Staged) BY <1>1 DEF Sound
<1>3. \A d \in Staged : makePendingKey(d) = makePendingKey(b) => d.op = "pot_number" /\ d.tool = b.tool
  BY KeyIs
<1>4. ASSUME NEW u \in Tools, u # b.tool
      PROVE  mergePendingOntoUnifiedCache(w, ds).pot[u] = mergePendingOntoUnifiedCache(v, cs).pot[u]
  <2>1. \A d \in Staged : makePendingKey(d) = makePendingKey(b) => d \notin Marks(u)
    BY <1>3, <1>4 DEF Marks
  <2>2. Same(cs, ds, Marks(u)) BY <1>1, <2>1
  <2>3. w.pot[u] = v.pot[u] BY <1>1, <1>4
  <2> QED BY <1>0, <1>1, <1>2, <2>2, <2>3, SamePot
<1>5. ASSUME NEW p \in Pots PROVE Held(w, ds, p) = Held(v, cs, p)
  <2>1. \A d \in Staged : makePendingKey(d) = makePendingKey(b) => d \notin PocketsOf(p)
    BY <1>3 DEF PocketsOf, PocketOps
  <2>2. Same(cs, ds, PocketsOf(p)) BY <1>1, <2>1
  <2> QED BY <1>0, <1>1, <1>2, <2>2, SameHeld
<1> DEFINE t == b.tool
           shown == mergePendingOntoUnifiedCache(w, ds)
<1>6. t \in Tools /\ makePendingKey(b) = makePendingKey(b) BY StagedIs DEF MarkOps
<1>7. PotSays(w, shown, ds, t) BY <1>1, <1>2, <1>6, MergedIs
<1>8. v.pot \in [Tools -> 0..NumPots] BY ViewRec
\* A pot number of t that is in the list is b.
<1>9. ASSUME NEW x \in ToSet(ds), x \in Marks(t) PROVE x.new \in {b.new, 0} /\ (x.op = "pot_number" => x = b /\ ds = SetPending(cs, b))
  <2>1. x \in Staged /\ x.op \in MarkOps /\ x.tool = t BY <1>9 DEF Marks
  <2>2. CASE x.op = "delete" BY <2>1, <2>2, StagedIs
  <2>3. CASE x.op = "pot_number"
    <3>1. makePendingKey(x) = makePendingKey(b) BY <2>1, <2>3, SameKey
    <3>2. CASE ds = Without(cs, {makePendingKey(b)})
      <4>1. makePendingKey(x) \notin {makePendingKey(b)} BY <1>9, <3>2, WithoutIs
      <4> QED BY <3>1, <4>1
    <3>3. CASE ds = SetPending(cs, b)
      <4>1. Entered(cs, ds, b) BY <1>0, <3>3, SetEnters
      <4>2. PICK i \in DOMAIN ds : ds[i] = x BY <1>2, <1>9, StagedSeq
      <4>3. x = b BY <1>0, <3>1, <4>1, <4>2, EnteredAt
      <4> QED BY <3>3, <4>3
    <3> QED BY <3>2, <3>3 DEF Stages
  <2> QED BY <2>1, <2>2, <2>3 DEF MarkOps
<1>10. shown.pot[t] \in {b.new, 0}
  <2>1. CASE \E x : LastIn(ds, Marks(t), x)
    <3>1. PICK x : LastIn(ds, Marks(t), x) BY <2>1
    <3>2. x \in Marks(t) /\ x \in ToSet(ds) BY <1>2, <3>1, StagedSeq DEF LastIn
    <3>3. shown.pot[t] = x.new BY <1>7, <3>1 DEF PotSays
    <3> QED BY <1>9, <3>2, <3>3
  <2>2. CASE ~ \E x : LastIn(ds, Marks(t), x)
    <3>1. \A i \in DOMAIN ds : ds[i] \notin Marks(t) BY <1>2, <2>2, HasLast
    <3>2. shown.pot[t] = w.pot[t] BY <1>7, <3>1 DEF PotSays
    <3>3. CASE ds = Without(cs, {makePendingKey(b)}) /\ w = revertTool(v, b) /\ b.new = b.old
      <4>1. w.pot = [v.pot EXCEPT ![t] = b.old] BY <3>3, RevertIs DEF Moves
      <4> QED BY <1>6, <1>8, <3>2, <3>3, <4>1
    <3>4. CASE ds = SetPending(cs, b)
      <4>1. Entered(cs, ds, b) BY <1>0, <3>4, SetEnters
      <4>2. PICK i \in DOMAIN ds : ds[i] = b BY <1>0, <4>1, EnteredIn
      <4>3. b \in Marks(t) BY DEF Marks, MarkOps
      <4> QED BY <3>1, <4>2, <4>3
    <3> QED BY <3>3, <3>4 DEF Stages
  <2> QED BY <2>1, <2>2
<1> QED BY <1>4, <1>5, <1>10

LEMMA RowOnce ==
    ASSUME NEW cs, Sound(cs), NEW v \in Views, NEW b \in Staged, NEW ds, NEW w,
           Stages(cs, ds, v, w, b), b.op = "pot_number",
           Occupants(v, cs, b.new) \ {b.tool} = {}, Once(v, cs)
    PROVE  Once(w, ds)
<1> DEFINE M == mergePendingOntoUnifiedCache(v, cs)
           N == mergePendingOntoUnifiedCache(w, ds)
<1>1. /\ \A u \in Tools : u # b.tool => N.pot[u] = M.pot[u]
      /\ N.pot[b.tool] \in {b.new, 0}
      /\ \A p \in Pots : Held(w, ds, p) = Held(v, cs, p)
  BY RowShows
<1>2. b.new \in Pots /\ 0 \notin Pots BY StagedIs, PaneConstants
<1>3. ASSUME NEW p \in Pots, NEW u \in Occupants(w, ds, p), p # b.new \/ u # b.tool
      PROVE  u \in Occupants(v, cs, p)
  <2>1. CASE u \in Tools /\ N.pot[u] = p
    <3>1. u # b.tool BY <1>1, <1>2, <1>3, <2>1
    <3>2. M.pot[u] = p BY <1>1, <2>1, <3>1
    <3> QED BY <2>1, <3>2, OccupantsAre
  <2>2. CASE u = Held(w, ds, p) /\ u # 0
    <3>1. u = Held(v, cs, p) BY <1>1, <2>2
    <3> QED BY <2>2, <3>1, OccupantsAre
  <2>3. u \in Occupants(w, ds, p) BY <1>3
  <2> QED BY <2>1, <2>2, <2>3, OccupantsAre
<1>4. ASSUME NEW p \in Pots, NEW t \in Occupants(w, ds, p), NEW u \in Occupants(w, ds, p) PROVE t = u
  <2>1. CASE p = b.new
    <3>1. \A x \in Occupants(w, ds, p) : x = b.tool BY <1>3, <2>1
    <3> QED BY <3>1
  <2>2. CASE p # b.new
    <3>1. t \in Occupants(v, cs, p) /\ u \in Occupants(v, cs, p) BY <1>3, <2>2
    <3> QED BY <3>1 DEF Once
  <2> QED BY <2>1, <2>2
<1> QED BY <1>4 DEF Once

\* An empty pocket: it shows the staged tool or none, and nothing else moves.
LEMMA PocketOnce ==
    ASSUME NEW cs, Sound(cs), NEW v \in Views, NEW b \in Staged, NEW ds, NEW w,
           Stages(cs, ds, v, w, b), b.op \in PocketOps, Occupants(v, cs, b.pot) = {}, Once(v, cs)
    PROVE  Once(w, ds)
<1> DEFINE M == mergePendingOntoUnifiedCache(v, cs)
           N == mergePendingOntoUnifiedCache(w, ds)
           q == b.pot
<1>0. cs \in Seq(Staged) /\ Keyed(cs) BY DEF Sound
<1>4. /\ Sound(ds) /\ w \in Views /\ w.empty = v.empty
      /\ \A u \in Tools : b.op \notin MarkOps \/ u # b.tool => w.pot[u] = v.pot[u]
      /\ \A K : (\A d \in Staged : makePendingKey(d) = makePendingKey(b) => d \notin K) => Same(cs, ds, K)
  BY StagesKeeps
<1>5. ds \in Seq(Staged) BY <1>4 DEF Sound
<1>6. \A d \in Staged : makePendingKey(d) = makePendingKey(b) => d.op \in PocketOps /\ d.pot = q
  BY KeyIs DEF PocketOps
<1>7. ASSUME NEW u \in Tools PROVE N.pot[u] = M.pot[u]
  <2>1. \A d \in Staged : makePendingKey(d) = makePendingKey(b) => d \notin Marks(u)
    BY <1>6 DEF Marks, MarkOps, PocketOps
  <2>2. Same(cs, ds, Marks(u)) BY <1>4, <2>1
  <2>3. w.pot[u] = v.pot[u] BY <1>4 DEF MarkOps, PocketOps
  <2> QED BY <1>0, <1>4, <1>5, <2>2, <2>3, SamePot
<1>8. ASSUME NEW p \in Pots, p # q PROVE Held(w, ds, p) = Held(v, cs, p)
  <2>1. \A d \in Staged : makePendingKey(d) = makePendingKey(b) => d \notin PocketsOf(p)
    BY <1>6, <1>8 DEF PocketsOf
  <2>2. Same(cs, ds, PocketsOf(p)) BY <1>4, <2>1
  <2> QED BY <1>0, <1>4, <1>5, <2>2, SameHeld
<1>9. ASSUME NEW p \in Pots, p # q, NEW u PROVE u \in Occupants(w, ds, p) <=> u \in Occupants(v, cs, p)
  <2>1. Held(w, ds, p) = Held(v, cs, p) BY <1>8, <1>9
  <2>2. u \in Tools => N.pot[u] = M.pot[u] BY <1>7
  <2> QED BY <2>1, <2>2, OccupantsAre
<1>10. ASSUME NEW u \in Occupants(w, ds, q) PROVE u = Held(w, ds, q)
  <2>1. ~(u \in Tools /\ M.pot[u] = q) BY OccupantsAre
  <2>2. ~(u \in Tools /\ N.pot[u] = q) BY <1>7, <2>1
  <2> QED BY <2>2, OccupantsAre
<1>11. ASSUME NEW p \in Pots, NEW t \in Occupants(w, ds, p), NEW u \in Occupants(w, ds, p) PROVE t = u
  <2>1. CASE p = q BY <1>10, <2>1
  <2>2. CASE p # q
    <3>1. t \in Occupants(v, cs, p) /\ u \in Occupants(v, cs, p) BY <1>9, <2>2
    <3> QED BY <3>1 DEF Once
  <2> QED BY <2>1, <2>2
<1> QED BY <1>11 DEF Once


-----------------------------------------------------------------------------
(* Views of a machine, and what discarding and a push leave of the view.     *)

LEMMA ViewOfType ==
    ASSUME NEW m \in Machines
    PROVE  ViewOf(m) \in Views
<1> DEFINE at(t) == {p \in Pots : m.slot[p] = t}
           top(t) == CHOOSE p \in at(t) : \A q \in at(t) : q <= p
<1>1. NumPots \in Nat /\ Pots = 1..NumPots /\ 0 \in FieldValues BY PaneAssumption DEF Pots
<1>2. ASSUME NEW t \in Tools, at(t) # {} PROVE top(t) \in Pots
  <2>1. at(t) \in SUBSET (1..NumPots) BY <1>1
  <2>2. Max(at(t)) \in at(t) /\ \A q \in at(t) : q <= Max(at(t))
    <3> HIDE DEF at
    <3> QED BY <1>1, <1>2, <2>1, MaxUpTo
  <2>3. top(t) \in at(t)
    <3> HIDE DEF at
    <3> QED BY <2>2
  <2> QED BY <2>3
<1>3. m.slot \in [Pots -> 0..Cap] /\ m.color \in [Pots -> FieldValues] /\ m.own \in [Tools -> FieldValues] /\ m.spindle \in Nat
  BY DEF Machines
<1> DEFINE P == [t \in Tools |-> IF at(t) = {} THEN 0 ELSE top(t)]
           C == [t \in Tools |-> IF at(t) = {} THEN 0 ELSE m.color[top(t)]]
<1>4. P \in [Tools -> 0..NumPots]
  <2> HIDE DEF at, top
  <2> QED BY <1>1, <1>2
<1>5. C \in [Tools -> FieldValues]
  <2> HIDE DEF at, top
  <2> QED BY <1>1, <1>2, <1>3
<1>6. ViewOf(m) = [pot |-> P, color |-> C, own |-> m.own, empty |-> {p \in Pots : m.slot[p] \notin Tools},
                   cap |-> {p \in Pots : m.slot[p] = Cap}, spindle |-> m.spindle]
  BY DEF ViewOf
<1> HIDE DEF P, C
<1> QED BY <1>3, <1>4, <1>5, <1>6 DEF Views

discardOne(v, c) ==
    IF c.op = "spindle" THEN [v EXCEPT !.spindle = c.old]
    ELSE revertTool(IF Pocket(c) THEN [v EXCEPT !.cap = @ \ {c.pot}] ELSE v, c)

LEMMA DiscardOneType ==
    ASSUME NEW v \in Views, NEW c \in Staged
    PROVE  discardOne(v, c) \in Views
<1>1. CASE c.op = "spindle"
  <2>1. c.old \in Nat BY <1>1, StagedIs
  <2> QED BY <1>1, <2>1, ViewRec DEF discardOne
<1>2. CASE c.op # "spindle"
  <2> DEFINE S == v.cap \ {c.pot}
             w == IF Pocket(c) THEN [v EXCEPT !.cap = S] ELSE v
  <2>1. S \in SUBSET Pots BY ViewRec
  <2>2. w \in Views
    <3> HIDE DEF S
    <3> QED BY <2>1, ViewRec
  <2>3. discardOne(v, c) = revertTool(w, c) BY <1>2 DEF discardOne
  <2> HIDE DEF w
  <2> QED BY <2>2, <2>3, RevertIs
<1> QED BY <1>1, <1>2

\* The loop of handleDiscardChanges.
DiscardRun(f, v0, cs) ==
    /\ f[0] = v0
    /\ \A i \in 1..Len(cs) : f[i] = discardOne(f[i - 1], cs[i])
    /\ f[Len(cs)] = FoldLeft(discardOne, v0, cs)

LEMMA DiscardRuns ==
    ASSUME NEW v0 \in Views, NEW cs \in Seq(Staged)
    PROVE  \E f \in [0..Len(cs) -> Views] :
             DiscardRun(f, v0, cs)
<1> DEFINE n == Len(cs)
           g == [w \in Views \X (1..n) |-> discardOne(w[1], cs[w[2]])]
           step(d) == [t \in SUBSET DOMAIN cs |->
                         IF t = {} THEN v0
                         ELSE LET x == Max(t) IN discardOne(d[t \ {x}], cs[x])]
           it == CHOOSE d : d = step(d)
<1>1. FoldLeft(discardOne, v0, cs) = it[DOMAIN cs]
  BY DEF FoldLeft, MapThenFoldSet
<1>2. n \in Nat /\ DOMAIN cs = 1..n /\ v0 \in Views OBVIOUS
<1>3. g \in [Views \X (1..n) -> Views]
  <2> SUFFICES ASSUME NEW v \in Views, NEW i \in 1..n PROVE g[<<v, i>>] \in Views OBVIOUS
  <2>1. cs[i] \in Staged BY ElementOfSeq
  <2> QED BY <2>1, DiscardOneType
<1>4. PICK h : FoldOf(h, n, Views, v0, g)
  <2> HIDE DEF g, n
  <2> QED BY <1>2, <1>3, FoldExists
<1>5. h = step(h)
  <2>1. ASSUME NEW t \in SUBSET (1..n) PROVE h[t] = step(h)[t]
    <3>1. CASE t = {} BY <1>2, <1>4, <3>1 DEF FoldOf
    <3>2. CASE t # {}
      <4>1. Max(t) \in 1..n BY <1>2, <3>2, MaxUpTo
      <4>2. h[t \ {Max(t)}] \in Views BY <1>4 DEF FoldOf
      <4>3. h[t] = g[<<h[t \ {Max(t)}], Max(t)>>] BY <1>4, <3>2 DEF FoldOf
      <4> QED BY <1>2, <3>2, <4>1, <4>2, <4>3
    <3> QED BY <3>1, <3>2
  <2>2. h \in [SUBSET (1..n) -> Views] BY <1>4 DEF FoldOf
  <2>3. step(h) = [t \in SUBSET (1..n) |-> step(h)[t]] BY <1>2
  <2> HIDE DEF step, g, n
  <2> QED BY <2>1, <2>2, <2>3
<1>6. it = step(it)
  <2> HIDE DEF step
  <2> QED BY <1>5
<1> HIDE DEF it
<1>7. it[{}] = v0 BY <1>2, <1>6
<1>8. ASSUME NEW t \in SUBSET (1..n), t # {}, it[t \ {Max(t)}] \in Views
      PROVE  it[t] = g[<<it[t \ {Max(t)}], Max(t)>>]
  <2>1. Max(t) \in 1..n BY <1>2, <1>8, MaxUpTo
  <2>2. it[t] = step(it)[t] BY <1>6
  <2> QED BY <1>2, <1>8, <2>1, <2>2
<1>9. RunOf(PartialFolds(it, n), n, Views, v0, g)
  <2> HIDE DEF g, n
  <2>1. Folds(it, n, Views, v0, g) BY <1>7, <1>8 DEF Folds
  <2> QED BY <1>2, <1>3, <2>1, FoldRuns
<1> DEFINE f == PartialFolds(it, n)
<1> HIDE DEF f
<1>10. f \in [0..n -> Views] /\ f[0] = v0 BY <1>9 DEF RunOf, f
<1>11. ASSUME NEW i \in 1..n PROVE f[i] = discardOne(f[i - 1], cs[i])
  <2>1. i - 1 \in 0..n OBVIOUS
  <2>2. f[i - 1] \in Views BY <1>10, <2>1
  <2>3. f[i] = g[<<f[i - 1], i>>] BY <1>9 DEF RunOf, f
  <2> QED BY <2>2, <2>3
<1>12. f[n] = FoldLeft(discardOne, v0, cs) BY <1>1, <1>2 DEF f, PartialFolds
<1> QED BY <1>10, <1>11, <1>12 DEF DiscardRun


\* An assigned tool is in the view where it is put, and no other is there.
Takes(v, t, p) == [u \in Tools |-> IF u = t THEN p ELSE IF v.pot[u] = p THEN 0 ELSE v.pot[u]]

LEMMA ReconcileOneType ==
    ASSUME NEW v \in Views, NEW c \in Staged
    PROVE  reconcileOne(v, c) \in Views
<1> DEFINE i == pendingToBatchItem(c)
<1>1. CASE c.op = "delete"
  <2> DEFINE w == clearAtcAssignment(v, c.tool)
             S == w.empty \cup {c.pot}
  <2>1. c.tool \in Tools /\ c.pot \in Pots BY <1>1, StagedIs DEF MarkOps
  <2>2. w \in Views BY <2>1, EdgeType DEF Moves
  <2>5. i.op # "assignment" BY <1>1 DEF pendingToBatchItem
  <2>3. reconcileOne(v, c) = [w EXCEPT !.empty = S] BY <1>1, <2>5 DEF reconcileOne
  <2> HIDE DEF w
  <2>4. S \in SUBSET Pots BY <2>1, <2>2, ViewRec
  <2> HIDE DEF S
  <2>6. [w EXCEPT !.empty = S] \in Views BY <2>2, <2>4 DEF Views
  <2> QED BY <2>3, <2>6
<1>2. CASE c.op \in {"pot_number", "tool_number"}
  <2> DEFINE P == Takes(v, i.tool, i.pot)
             C == [t \in Tools |-> IF t # i.tool /\ v.pot[t] = i.pot THEN 0 ELSE v.color[t]]
             S == v.empty \ {i.pot}
  <2>1. i.op = "assignment" /\ i.pot \in Pots BY <1>2, StagedIs DEF pendingToBatchItem, PocketOps
  <2>2. reconcileOne(v, c) = [v EXCEPT !.pot = P, !.color = C, !.empty = S]
    BY <1>2, <2>1 DEF reconcileOne, Takes
  <2>3. P \in [Tools -> 0..NumPots]
    <3>2. \A u \in Tools : v.pot[u] \in 0..NumPots BY ViewRec
    <3> HIDE DEF i
    <3>3. Pots \subseteq 0..NumPots /\ 0 \in 0..NumPots BY PaneConstants
    <3>1. i.pot \in 0..NumPots /\ 0 \in 0..NumPots BY <2>1, <3>3
    <3> QED BY <3>1, <3>2 DEF Takes
  <2>4. S \in SUBSET Pots BY ViewRec
  <2>5. C \in [Tools -> FieldValues]
    <3>1. \A u \in Tools : v.color[u] \in FieldValues BY ViewRec
    <3> HIDE DEF i
    <3> QED BY <3>1, PaneConstants
  <2> HIDE DEF P, C, S
  <2> QED BY <2>2, <2>3, <2>4, <2>5 DEF Views
<1>3. CASE c.op = "cap"
  <2> DEFINE S == v.cap \cup {c.pot}
  <2>1. S \in SUBSET Pots BY <1>3, StagedIs, ViewRec DEF PocketOps
  <2>2. i.op # "assignment" BY <1>3 DEF pendingToBatchItem
  <2>3. reconcileOne(v, c) = [v EXCEPT !.cap = S] BY <1>3, <2>2 DEF reconcileOne
  <2> HIDE DEF S
  <2>4. [v EXCEPT !.cap = S] \in Views BY <2>1 DEF Views
  <2> QED BY <2>3, <2>4
<1>4. CASE c.op = "spindle"
  <2>1. c.new \in Nat BY <1>4, StagedIs, PaneConstants DEF Tools
  <2>2. i.op # "assignment" BY <1>4 DEF pendingToBatchItem
  <2>3. reconcileOne(v, c) = [v EXCEPT !.spindle = c.new] BY <1>4, <2>2 DEF reconcileOne
  <2> QED BY <2>1, <2>3, ViewRec
<1>5. CASE c.op \in {"color", "own"}
  <2>1. i.op # "assignment" BY <1>5 DEF pendingToBatchItem
  <2>2. reconcileOne(v, c) = applyFieldToTool(v, c.op, c.tool, c.new) BY <1>5, <2>1 DEF reconcileOne
  <2>3. OfTool(c) /\ c.op \notin MarkOps BY <1>5 DEF OfTool, MarkOps
  <2> QED BY <2>2, <2>3, FieldOf DEF Stays
<1> QED BY <1>1, <1>2, <1>3, <1>4, <1>5, StagedIs DEF MarkOps, PocketOps

\* The loop of reconcileUnifiedCacheAfterBatch.
ReconcileRun(f, v0, cs) ==
    /\ f[0] = v0
    /\ \A i \in 1..Len(cs) : f[i] = reconcileOne(f[i - 1], cs[i])
    /\ f[Len(cs)] = reconcileUnifiedCacheAfterBatch(v0, cs)

LEMMA ReconcileRuns ==
    ASSUME NEW v0 \in Views, NEW cs \in Seq(Staged)
    PROVE  \E f \in [0..Len(cs) -> Views] :
             ReconcileRun(f, v0, cs)
<1> DEFINE n == Len(cs)
           g == [w \in Views \X (1..n) |-> reconcileOne(w[1], cs[w[2]])]
           step(d) == [t \in SUBSET DOMAIN cs |->
                         IF t = {} THEN v0
                         ELSE LET x == Max(t) IN reconcileOne(d[t \ {x}], cs[x])]
           it == CHOOSE d : d = step(d)
<1>1. reconcileUnifiedCacheAfterBatch(v0, cs) = it[DOMAIN cs]
  BY DEF reconcileUnifiedCacheAfterBatch, FoldLeft, MapThenFoldSet
<1>2. n \in Nat /\ DOMAIN cs = 1..n /\ v0 \in Views OBVIOUS
<1>3. g \in [Views \X (1..n) -> Views]
  <2> SUFFICES ASSUME NEW v \in Views, NEW i \in 1..n PROVE g[<<v, i>>] \in Views OBVIOUS
  <2>1. cs[i] \in Staged BY ElementOfSeq
  <2> QED BY <2>1, ReconcileOneType
<1>4. PICK h : FoldOf(h, n, Views, v0, g)
  <2> HIDE DEF g, n
  <2> QED BY <1>2, <1>3, FoldExists
<1>5. h = step(h)
  <2>1. ASSUME NEW t \in SUBSET (1..n) PROVE h[t] = step(h)[t]
    <3>1. CASE t = {} BY <1>2, <1>4, <3>1 DEF FoldOf
    <3>2. CASE t # {}
      <4>1. Max(t) \in 1..n BY <1>2, <3>2, MaxUpTo
      <4>2. h[t \ {Max(t)}] \in Views BY <1>4 DEF FoldOf
      <4>3. h[t] = g[<<h[t \ {Max(t)}], Max(t)>>] BY <1>4, <3>2 DEF FoldOf
      <4> QED BY <1>2, <3>2, <4>1, <4>2, <4>3
    <3> QED BY <3>1, <3>2
  <2>2. h \in [SUBSET (1..n) -> Views] BY <1>4 DEF FoldOf
  <2>3. step(h) = [t \in SUBSET (1..n) |-> step(h)[t]] BY <1>2
  <2> HIDE DEF step, g, n
  <2> QED BY <2>1, <2>2, <2>3
<1>6. it = step(it)
  <2> HIDE DEF step
  <2> QED BY <1>5
<1> HIDE DEF it
<1>7. it[{}] = v0 BY <1>2, <1>6
<1>8. ASSUME NEW t \in SUBSET (1..n), t # {}, it[t \ {Max(t)}] \in Views
      PROVE  it[t] = g[<<it[t \ {Max(t)}], Max(t)>>]
  <2>1. Max(t) \in 1..n BY <1>2, <1>8, MaxUpTo
  <2>2. it[t] = step(it)[t] BY <1>6
  <2> QED BY <1>2, <1>8, <2>1, <2>2
<1>9. RunOf(PartialFolds(it, n), n, Views, v0, g)
  <2> HIDE DEF g, n
  <2>1. Folds(it, n, Views, v0, g) BY <1>7, <1>8 DEF Folds
  <2> QED BY <1>2, <1>3, <2>1, FoldRuns
<1> DEFINE f == PartialFolds(it, n)
<1> HIDE DEF f
<1>10. f \in [0..n -> Views] /\ f[0] = v0 BY <1>9 DEF RunOf, f
<1>11. ASSUME NEW i \in 1..n PROVE f[i] = reconcileOne(f[i - 1], cs[i])
  <2>1. i - 1 \in 0..n OBVIOUS
  <2>2. f[i - 1] \in Views BY <1>10, <2>1
  <2>3. f[i] = g[<<f[i - 1], i>>] BY <1>9 DEF RunOf, f
  <2> QED BY <2>2, <2>3
<1>12. f[n] = reconcileUnifiedCacheAfterBatch(v0, cs) BY <1>1, <1>2 DEF f, PartialFolds
<1> QED BY <1>10, <1>11, <1>12 DEF ReconcileRun


LEMMA LoopTypes ==
    ASSUME NEW v \in Views, NEW cs \in Seq(Staged)
    PROVE  /\ FoldLeft(discardOne, v, cs) \in Views
           /\ reconcileUnifiedCacheAfterBatch(v, cs) \in Views
<1>1. Len(cs) \in 0..Len(cs) OBVIOUS
<1>2. PICK f \in [0..Len(cs) -> Views] : DiscardRun(f, v, cs) BY DiscardRuns
<1>3. PICK g \in [0..Len(cs) -> Views] : ReconcileRun(g, v, cs) BY ReconcileRuns
<1> QED BY <1>1, <1>2, <1>3 DEF DiscardRun, ReconcileRun

LEMMA DiscardIs ==
    ASSUME handleDiscardChanges
    PROVE  cache' = FoldLeft(discardOne, cache, pending)
  BY DEF handleDiscardChanges, discardOne


-----------------------------------------------------------------------------
(* The items of a batch at the machine.                                      *)

Items ==
    {i \in [op : {"delete", "assignment", "cap", "color", "own", "spindle"},
            pot : Nat, tool : Nat, value : Data] :
       /\ i.op \in {"delete", "assignment", "cap", "color"} => i.pot \in Pots
       /\ i.op \in {"delete", "assignment", "own"} => i.tool \in Tools
       /\ i.op \in {"color", "own"} => i.value \in FieldValues
       /\ i.op = "spindle" => i.value \in Nat}

LEMMA ItemIs ==
    ASSUME NEW i \in Items
    PROVE  /\ i.op \in {"delete", "assignment", "cap", "color", "own", "spindle"}
           /\ i.op \in {"delete", "assignment", "cap", "color"} => i.pot \in Pots
           /\ i.op \in {"delete", "assignment", "own"} => i.tool \in Tools
           /\ i.op \in {"color", "own"} => i.value \in FieldValues
           /\ i.op = "spindle" => i.value \in Nat
  BY DEF Items

LEMMA ItemOf ==
    ASSUME NEW c \in Staged
    PROVE  pendingToBatchItem(c) \in Items
<1> DEFINE i == pendingToBatchItem(c)
<1>1. NumTools \in Nat /\ NumPots \in Nat /\ Tools = 1..NumTools /\ Pots = 1..NumPots /\ 0 \in Data
  BY PaneAssumption DEF Tools, Pots, Data
<1>2. /\ c.op \in {"color", "own", "spindle", "pot_number", "delete", "tool_number", "cap"}
      /\ c.tool \in Nat /\ c.pot \in Nat /\ c.new \in Data
  BY StagedIs DEF MarkOps, PocketOps
<1>3. CASE c.op = "pot_number"
  <2>1. c.tool \in Tools /\ c.new \in Pots BY <1>3, StagedIs DEF MarkOps
  <2>2. c.new \in Nat BY <1>1, <2>1
  <2>3. i = [op |-> "assignment", pot |-> c.new, tool |-> c.tool, value |-> 0]
    BY <1>3 DEF pendingToBatchItem
  <2> QED BY <1>1, <1>2, <2>1, <2>2, <2>3 DEF Items
<1>4. CASE c.op = "tool_number"
  <2>1. c.new \in Tools /\ c.pot \in Pots BY <1>4, StagedIs DEF PocketOps
  <2>2. c.new \in Nat BY <1>1, <2>1
  <2>3. i = [op |-> "assignment", pot |-> c.pot, tool |-> c.new, value |-> 0]
    BY <1>4 DEF pendingToBatchItem
  <2> QED BY <1>1, <1>2, <2>1, <2>2, <2>3 DEF Items
<1>5. CASE c.op \notin {"pot_number", "tool_number"}
  <2>1. i = [op |-> c.op, pot |-> c.pot, tool |-> c.tool, value |-> c.new]
    BY <1>5 DEF pendingToBatchItem
  <2>2. c.op \in {"delete", "cap", "color", "own", "spindle"} BY <1>2, <1>5
  <2>3. /\ c.op \in {"delete", "cap", "color"} => c.pot \in Pots
        /\ c.op \in {"delete", "own"} => c.tool \in Tools
        /\ c.op \in {"color", "own"} => c.new \in FieldValues
    BY StagedIs DEF MarkOps, PocketOps
  <2>4. c.op = "spindle" => c.new \in Nat
    <3>1. c.op = "spindle" => c.new \in Tools BY StagedIs
    <3> QED BY <1>1, <3>1
  <2> QED BY <1>2, <2>1, <2>2, <2>3, <2>4 DEF Items
<1> QED BY <1>3, <1>4, <1>5

\* The item is on the machine.
InPlace(m, i) ==
    CASE i.op = "assignment" -> m.slot[i.pot] = i.tool
      [] i.op = "delete" -> m.slot[i.pot] # i.tool
      [] i.op = "cap" -> m.slot[i.pot] = Cap
      [] i.op = "color" -> m.color[i.pot] = i.value
      [] i.op = "own" -> m.own[i.tool] = i.value
      [] i.op = "spindle" -> m.spindle = i.value

\* Neither undoes the other.
Fits(x, y) ==
    /\ x.op \in {"assignment", "cap"} /\ y.op \in {"assignment", "cap"} =>
         x.pot # y.pot /\ (x.tool # y.tool \/ x.tool = 0)
    /\ x.op = "color" /\ y.op = "color" => x.pot # y.pot
    /\ x.op = "own" /\ y.op = "own" => x.tool # y.tool
    /\ ~(x.op = "spindle" /\ y.op = "spindle")
    /\ x.op = "delete" /\ y.op = "assignment" => x.pot # y.pot \/ x.tool # y.tool

\* The slots once the item has been applied.
SlotsAfter(m, i) ==
    CASE i.op = "delete" -> IF m.slot[i.pot] = i.tool THEN [m.slot EXCEPT ![i.pot] = 0] ELSE m.slot
      [] i.op = "assignment" -> [p \in Pots |-> IF p = i.pot THEN i.tool
                                                ELSE IF m.slot[p] = i.tool THEN 0 ELSE m.slot[p]]
      [] i.op = "cap" -> [m.slot EXCEPT ![i.pot] = Cap]
      [] OTHER -> m.slot

OnlySlots(m, s, r) ==
    /\ r \in Machines /\ r.slot = s
    /\ r.color = m.color /\ r.own = m.own /\ r.spindle = m.spindle

LEMMA MachineIs ==
    ASSUME NEW m \in Machines
    PROVE  /\ m.slot \in [Pots -> 0..Cap] /\ m.color \in [Pots -> FieldValues]
           /\ m.own \in [Tools -> FieldValues] /\ m.spindle \in Nat
           /\ \A s \in [Pots -> 0..Cap] : OnlySlots(m, s, [m EXCEPT !.slot = s])
  BY DEF Machines, OnlySlots

\* What an item leaves of the machine, part by part.
After(m, i, r) ==
    /\ r \in Machines
    /\ r.slot = SlotsAfter(m, i)
    /\ r.color = IF i.op = "color" THEN [m.color EXCEPT ![i.pot] = i.value] ELSE m.color
    /\ r.own = IF i.op = "own" THEN [m.own EXCEPT ![i.tool] = i.value] ELSE m.own
    /\ r.spindle = IF i.op = "spindle" THEN i.value ELSE m.spindle

LEMMA SlotsType ==
    ASSUME NEW m \in Machines, NEW i \in Items
    PROVE  SlotsAfter(m, i) \in [Pots -> 0..Cap]
<1>1. m.slot \in [Pots -> 0..Cap] BY MachineIs
<1>2. 0 \in 0..Cap /\ Cap \in 0..Cap /\ Tools \subseteq 0..Cap
  BY PaneAssumption DEF Cap, Tools
<1>3. CASE i.op = "delete" BY <1>1, <1>2, <1>3 DEF SlotsAfter
<1>4. CASE i.op = "assignment"
  <2>1. i.tool \in 0..Cap BY <1>2, <1>4, ItemIs
  <2> QED BY <1>1, <1>2, <1>4, <2>1 DEF SlotsAfter
<1>5. CASE i.op = "cap" BY <1>1, <1>2, <1>5 DEF SlotsAfter
<1>6. CASE i.op \notin {"delete", "assignment", "cap"} BY <1>1, <1>6 DEF SlotsAfter
<1> QED BY <1>3, <1>4, <1>5, <1>6

LEMMA ApplyItemIs ==
    ASSUME NEW m \in Machines, NEW i \in Items
    PROVE  After(m, i, ApplyItem(m, i))
<1> DEFINE r == ApplyItem(m, i)
           s == SlotsAfter(m, i)
<1>1. s \in [Pots -> 0..Cap] BY SlotsType
<1>2. CASE i.op = "delete"
  <2>1. CASE m.slot[i.pot] = i.tool
    <3>1. r = [m EXCEPT !.slot[i.pot] = 0] BY <1>2, <2>1 DEF ApplyItem
    <3>2. s = [m.slot EXCEPT ![i.pot] = 0] BY <1>2, <2>1 DEF SlotsAfter
    <3>3. r = [m EXCEPT !.slot = s] BY <3>1, <3>2
    <3> HIDE DEF r, s
    <3>4. OnlySlots(m, s, r) BY <1>1, <3>3, MachineIs
    <3> QED BY <1>2, <3>4 DEF After, OnlySlots, r, s
  <2>2. CASE m.slot[i.pot] # i.tool BY <1>2, <2>2 DEF ApplyItem, SlotsAfter, After
  <2> QED BY <2>1, <2>2
<1>3. CASE i.op = "assignment"
  <2>1. r = [m EXCEPT !.slot = s] BY <1>3 DEF ApplyItem, SlotsAfter
  <2> HIDE DEF r, s
  <2>4. OnlySlots(m, s, r) BY <1>1, <2>1, MachineIs
  <2> QED BY <1>3, <2>4 DEF After, OnlySlots, r, s
<1>4. CASE i.op = "cap"
  <2>1. r = [m EXCEPT !.slot[i.pot] = Cap] BY <1>4 DEF ApplyItem
  <2>2. s = [m.slot EXCEPT ![i.pot] = Cap] BY <1>4 DEF SlotsAfter
  <2>3. r = [m EXCEPT !.slot = s] BY <2>1, <2>2
  <2> HIDE DEF r, s
  <2>4. OnlySlots(m, s, r) BY <1>1, <2>3, MachineIs
  <2> QED BY <1>4, <2>4 DEF After, OnlySlots, r, s
<1>5. CASE i.op = "color"
  <2>1. r = [m EXCEPT !.color[i.pot] = i.value] BY <1>5 DEF ApplyItem
  <2>2. i.value \in FieldValues BY <1>5, ItemIs
  <2>3. s = m.slot BY <1>5 DEF SlotsAfter
  <2> QED BY <1>5, <2>1, <2>2, <2>3 DEF After, Machines
<1>6. CASE i.op = "own"
  <2>1. r = [m EXCEPT !.own[i.tool] = i.value] BY <1>6 DEF ApplyItem
  <2>2. i.value \in FieldValues BY <1>6, ItemIs
  <2>3. s = m.slot BY <1>6 DEF SlotsAfter
  <2> QED BY <1>6, <2>1, <2>2, <2>3 DEF After, Machines
<1>7. CASE i.op = "spindle"
  <2>1. r = [m EXCEPT !.spindle = i.value] BY <1>7 DEF ApplyItem
  <2>2. i.value \in Nat BY <1>7, ItemIs
  <2>3. s = m.slot BY <1>7 DEF SlotsAfter
  <2> QED BY <1>7, <2>1, <2>2, <2>3 DEF After, Machines
<1> QED BY <1>2, <1>3, <1>4, <1>5, <1>6, <1>7, ItemIs

LEMMA PutsInPlace ==
    ASSUME NEW m \in Machines, NEW i \in Items
    PROVE  InPlace(ApplyItem(m, i), i)
<1> DEFINE r == ApplyItem(m, i)
<1>1. After(m, i, r) BY ApplyItemIs
<1>2. /\ m.slot \in [Pots -> 0..Cap] /\ m.color \in [Pots -> FieldValues] /\ m.own \in [Tools -> FieldValues]
  BY MachineIs
<1>3. 0 \notin Tools BY PaneConstants
<1> HIDE DEF r
<1>4. CASE i.op = "delete"
  <2>1. i.pot \in Pots /\ i.tool \in Tools BY <1>4, ItemIs
  <2> QED BY <1>1, <1>2, <1>3, <1>4, <2>1 DEF After, SlotsAfter, InPlace, r
<1>5. CASE i.op = "assignment"
  <2>1. i.pot \in Pots BY <1>5, ItemIs
  <2> QED BY <1>1, <1>2, <1>5, <2>1 DEF After, SlotsAfter, InPlace, r
<1>6. CASE i.op = "cap"
  <2>1. i.pot \in Pots BY <1>6, ItemIs
  <2> QED BY <1>1, <1>2, <1>6, <2>1 DEF After, SlotsAfter, InPlace, r
<1>7. CASE i.op = "color"
  <2>1. i.pot \in Pots BY <1>7, ItemIs
  <2> QED BY <1>1, <1>2, <1>7, <2>1 DEF After, InPlace, r
<1>8. CASE i.op = "own"
  <2>1. i.tool \in Tools BY <1>8, ItemIs
  <2> QED BY <1>1, <1>2, <1>8, <2>1 DEF After, InPlace, r
<1>9. CASE i.op = "spindle" BY <1>1, <1>9 DEF After, InPlace, r
<1> QED BY <1>4, <1>5, <1>6, <1>7, <1>8, <1>9, ItemIs

LEMMA StaysInPlace ==
    ASSUME NEW m \in Machines, NEW x \in Items, NEW y \in Items, InPlace(m, x), Fits(x, y),
           y.op = "delete" => x.op = "delete"
    PROVE  InPlace(ApplyItem(m, y), x)
<1> DEFINE r == ApplyItem(m, y)
<1>1. After(m, y, r) BY ApplyItemIs
<1>2. /\ m.slot \in [Pots -> 0..Cap] /\ m.color \in [Pots -> FieldValues] /\ m.own \in [Tools -> FieldValues]
  BY MachineIs
<1>3. 0 \notin Tools /\ Cap \notin Tools BY PaneConstants
<1>4. y.op \in {"delete", "assignment", "cap", "color", "own", "spindle"} BY ItemIs
<1> HIDE DEF r
<1>5. CASE x.op = "delete"
  <2>1. x.pot \in Pots /\ x.tool \in Tools BY <1>5, ItemIs
  <2>2. m.slot[x.pot] # x.tool BY <1>5 DEF InPlace
  <2>3. r.slot[x.pot] # x.tool
    <3>1. CASE y.op = "delete" BY <1>1, <1>2, <1>3, <2>1, <2>2, <3>1 DEF After, SlotsAfter
    <3>2. CASE y.op = "assignment"
      <4>1. y.pot # x.pot \/ y.tool # x.tool BY <1>5, <3>2 DEF Fits
      <4> QED BY <1>1, <1>3, <2>1, <2>2, <3>2, <4>1 DEF After, SlotsAfter
    <3>3. CASE y.op = "cap" BY <1>1, <1>2, <1>3, <2>1, <2>2, <3>3 DEF After, SlotsAfter
    <3>4. CASE y.op \notin {"delete", "assignment", "cap"} BY <1>1, <2>2, <3>4 DEF After, SlotsAfter
    <3> QED BY <3>1, <3>2, <3>3, <3>4
  <2> QED BY <1>5, <2>3 DEF InPlace, r
<1>6. CASE x.op \in {"assignment", "cap"}
  <2> DEFINE held == IF x.op = "cap" THEN Cap ELSE x.tool
  <2>1. x.pot \in Pots BY <1>6, ItemIs
  <2>2. m.slot[x.pot] = held BY <1>6 DEF InPlace
  <2>3. r.slot[x.pot] = held
    <3>1. CASE y.op = "assignment"
      <4>1. y.pot # x.pot /\ (x.tool # y.tool \/ x.tool = 0) BY <1>6, <3>1 DEF Fits
      <4>2. y.tool \in Tools BY <3>1, ItemIs
      <4>3. held # y.tool BY <1>3, <4>1, <4>2
      <4> HIDE DEF held
      <4> QED BY <1>1, <2>1, <2>2, <3>1, <4>1, <4>3 DEF After, SlotsAfter
    <3>2. CASE y.op = "cap"
      <4>1. y.pot # x.pot BY <1>6, <3>2 DEF Fits
      <4> HIDE DEF held
      <4> QED BY <1>1, <1>2, <2>1, <2>2, <3>2, <4>1 DEF After, SlotsAfter
    <3>3. CASE y.op \notin {"delete", "assignment", "cap"} BY <1>1, <2>2, <3>3 DEF After, SlotsAfter
    <3> QED BY <1>4, <1>6, <3>1, <3>2, <3>3
  <2> QED BY <1>6, <2>3 DEF InPlace, r
<1>7. CASE x.op = "color"
  <2>1. x.pot \in Pots /\ m.color[x.pot] = x.value BY <1>7, ItemIs DEF InPlace
  <2>2. y.op = "color" => y.pot # x.pot BY <1>7 DEF Fits
  <2>3. r.color[x.pot] = x.value BY <1>1, <1>2, <2>1, <2>2 DEF After
  <2> QED BY <1>7, <2>3 DEF InPlace, r
<1>8. CASE x.op = "own"
  <2>1. x.tool \in Tools /\ m.own[x.tool] = x.value BY <1>8, ItemIs DEF InPlace
  <2>2. y.op = "own" => y.tool # x.tool BY <1>8 DEF Fits
  <2>3. r.own[x.tool] = x.value BY <1>1, <1>2, <2>1, <2>2 DEF After
  <2> QED BY <1>8, <2>3 DEF InPlace, r
<1>9. CASE x.op = "spindle"
  <2>1. m.spindle = x.value /\ y.op # "spindle" BY <1>9 DEF InPlace, Fits
  <2>2. r.spindle = x.value BY <1>1, <2>1 DEF After
  <2> QED BY <1>9, <2>2 DEF InPlace, r
<1> QED BY <1>5, <1>6, <1>7, <1>8, <1>9, ItemIs

\* The loop over the items.
ItemRun(f, m0, its) ==
    /\ f[0] = m0
    /\ \A i \in 1..Len(its) : f[i] = ApplyItem(f[i - 1], its[i])
    /\ f[Len(its)] = FoldLeft(ApplyItem, m0, its)

LEMMA ItemRuns ==
    ASSUME NEW m0 \in Machines, NEW its \in Seq(Items)
    PROVE  \E f \in [0..Len(its) -> Machines] :
             ItemRun(f, m0, its)
<1> DEFINE n == Len(its)
           g == [w \in Machines \X (1..n) |-> ApplyItem(w[1], its[w[2]])]
           step(d) == [t \in SUBSET DOMAIN its |->
                         IF t = {} THEN m0
                         ELSE LET x == Max(t) IN ApplyItem(d[t \ {x}], its[x])]
           it == CHOOSE d : d = step(d)
<1>1. FoldLeft(ApplyItem, m0, its) = it[DOMAIN its]
  BY DEF FoldLeft, MapThenFoldSet
<1>2. n \in Nat /\ DOMAIN its = 1..n /\ m0 \in Machines OBVIOUS
<1>3. g \in [Machines \X (1..n) -> Machines]
  <2> SUFFICES ASSUME NEW v \in Machines, NEW i \in 1..n PROVE g[<<v, i>>] \in Machines OBVIOUS
  <2>1. its[i] \in Items BY ElementOfSeq
  <2> QED BY <2>1, ApplyItemIs DEF After
<1>4. PICK h : FoldOf(h, n, Machines, m0, g)
  <2> HIDE DEF g, n
  <2> QED BY <1>2, <1>3, FoldExists
<1>5. h = step(h)
  <2>1. ASSUME NEW t \in SUBSET (1..n) PROVE h[t] = step(h)[t]
    <3>1. CASE t = {} BY <1>2, <1>4, <3>1 DEF FoldOf
    <3>2. CASE t # {}
      <4>1. Max(t) \in 1..n BY <1>2, <3>2, MaxUpTo
      <4>2. h[t \ {Max(t)}] \in Machines BY <1>4 DEF FoldOf
      <4>3. h[t] = g[<<h[t \ {Max(t)}], Max(t)>>] BY <1>4, <3>2 DEF FoldOf
      <4> QED BY <1>2, <3>2, <4>1, <4>2, <4>3
    <3> QED BY <3>1, <3>2
  <2>2. h \in [SUBSET (1..n) -> Machines] BY <1>4 DEF FoldOf
  <2>3. step(h) = [t \in SUBSET (1..n) |-> step(h)[t]] BY <1>2
  <2> HIDE DEF step, g, n
  <2> QED BY <2>1, <2>2, <2>3
<1>6. it = step(it)
  <2> HIDE DEF step
  <2> QED BY <1>5
<1> HIDE DEF it
<1>7. it[{}] = m0 BY <1>2, <1>6
<1>8. ASSUME NEW t \in SUBSET (1..n), t # {}, it[t \ {Max(t)}] \in Machines
      PROVE  it[t] = g[<<it[t \ {Max(t)}], Max(t)>>]
  <2>1. Max(t) \in 1..n BY <1>2, <1>8, MaxUpTo
  <2>2. it[t] = step(it)[t] BY <1>6
  <2> QED BY <1>2, <1>8, <2>1, <2>2
<1>9. RunOf(PartialFolds(it, n), n, Machines, m0, g)
  <2> HIDE DEF g, n
  <2>1. Folds(it, n, Machines, m0, g) BY <1>7, <1>8 DEF Folds
  <2> QED BY <1>2, <1>3, <2>1, FoldRuns
<1> DEFINE f == PartialFolds(it, n)
<1> HIDE DEF f
<1>10. f \in [0..n -> Machines] /\ f[0] = m0 BY <1>9 DEF RunOf, f
<1>11. ASSUME NEW i \in 1..n PROVE f[i] = ApplyItem(f[i - 1], its[i])
  <2>1. i - 1 \in 0..n OBVIOUS
  <2>2. f[i - 1] \in Machines BY <1>10, <2>1
  <2>3. f[i] = g[<<f[i - 1], i>>] BY <1>9 DEF RunOf, f
  <2> QED BY <2>2, <2>3
<1>12. f[n] = FoldLeft(ApplyItem, m0, its) BY <1>1, <1>2 DEF f, PartialFolds
<1> QED BY <1>10, <1>11, <1>12 DEF ItemRun


\* Items that fit an item leave it in place, and an item that is among them
\* is put in place.
LEMMA Landed ==
    ASSUME NEW m \in Machines, NEW its \in Seq(Items), NEW x \in Items,
           \A k \in DOMAIN its : its[k] = x \/ (Fits(x, its[k]) /\ (its[k].op = "delete" => x.op = "delete")),
           InPlace(m, x) \/ x \in ToSet(its)
    PROVE  InPlace(FoldLeft(ApplyItem, m, its), x)
<1> DEFINE n == Len(its)
<1>1. PICK f \in [0..n -> Machines] : ItemRun(f, m, its) BY ItemRuns
<1>2. /\ f[0] = m
      /\ \A i \in 1..n : f[i] = ApplyItem(f[i - 1], its[i])
      /\ f[n] = FoldLeft(ApplyItem, m, its)
  BY <1>1 DEF ItemRun
<1>3. n \in Nat /\ DOMAIN its = 1..n /\ \A i \in 1..n : its[i] \in Items BY ElementOfSeq
<1> DEFINE T == {i \in 0..n : InPlace(m, x) \/ (\E k \in 1..i : its[k] = x) => InPlace(f[i], x)}
<1>4. 0 \in T BY <1>2
<1>5. ASSUME NEW i \in 1..n, i - 1 \in T PROVE i \in T
  <2>1. f[i - 1] \in Machines /\ f[i] = ApplyItem(f[i - 1], its[i]) BY <1>2, <1>3
  <2>2. CASE its[i] = x
    <3>1. InPlace(f[i], x) BY <2>1, <2>2, PutsInPlace
    <3> QED BY <3>1
  <2>3. CASE its[i] # x
    <3>1. Fits(x, its[i]) /\ (its[i].op = "delete" => x.op = "delete") BY <1>3, <2>3
    <3>2. ASSUME InPlace(m, x) \/ \E k \in 1..i : its[k] = x PROVE InPlace(f[i], x)
      <4>1. InPlace(m, x) \/ \E k \in 1..(i - 1) : its[k] = x
        <5>1. \A k \in 1..i : k = i \/ k \in 1..(i - 1) OBVIOUS
        <5> QED BY <2>3, <3>2, <5>1
      <4>2. InPlace(f[i - 1], x) BY <1>5, <4>1
      <4> QED BY <1>3, <2>1, <3>1, <4>2, StaysInPlace
    <3> QED BY <3>2
  <2> QED BY <2>2, <2>3
<1>6. n \in T
  <2>1. 0..n \subseteq T
    <3>1. \A i \in 1..n : i - 1 \in T => i \in T BY <1>5
    <3> HIDE DEF T
    <3> QED BY <1>3, <1>4, <3>1, CountUp
  <2>2. n \in 0..n BY <1>3
  <2> HIDE DEF T
  <2> QED BY <2>1, <2>2
<1>7. InPlace(m, x) \/ \E k \in 1..n : its[k] = x BY <1>3 DEF ToSet
<1>8. InPlace(f[n], x) BY <1>6, <1>7
<1> QED BY <1>2, <1>8

LEMMA ClearedType ==
    ASSUME NEW m \in Machines, NEW S
    PROVE  Cleared(m, S) \in Machines
<1> DEFINE s == [p \in Pots |-> IF p \in S THEN 0 ELSE m.slot[p]]
<1>1. 0 \in 0..Cap BY PaneConstants
<1>2. s \in [Pots -> 0..Cap] BY <1>1, MachineIs
<1>3. Cleared(m, S) = [m EXCEPT !.slot = s] BY DEF Cleared
<1> HIDE DEF s
<1> QED BY <1>2, <1>3, MachineIs DEF OnlySlots

LEMMA AppliedType ==
    ASSUME NEW m \in Machines, NEW its \in Seq(Items)
    PROVE  FoldLeft(ApplyItem, m, its) \in Machines
<1>1. PICK f \in [0..Len(its) -> Machines] : ItemRun(f, m, its) BY ItemRuns
<1>2. Len(its) \in 0..Len(its) OBVIOUS
<1> QED BY <1>1, <1>2 DEF ItemRun

\* The changes of a batch fit one another.
AllFit(cs) == \A i, j \in DOMAIN cs :
                 \/ pendingToBatchItem(cs[i]) = pendingToBatchItem(cs[j])
                 \/ Fits(pendingToBatchItem(cs[i]), pendingToBatchItem(cs[j]))

\* Whatever part of it succeeds is on the machine afterwards, in spite of the
\* order in which the items are taken.
LEMMA AppliedIs ==
    ASSUME NEW m \in Machines, NEW cs \in Seq(Staged)
    PROVE  /\ Applied(m, cs) \in Machines
           /\ AllFit(cs) => \A k \in DOMAIN cs : InPlace(Applied(m, cs), pendingToBatchItem(cs[k]))
<1> DEFINE items == [k \in DOMAIN cs |-> pendingToBatchItem(cs[k])]
           D == {i \in ToSet(items) : i.op = "delete"}
           O == {i \in ToSet(items) : i.op # "delete"}
           deletes == Only(items, D)
           others == Only(items, O)
           mid == FoldLeft(ApplyItem, m, deletes)
<1>1. Applied(m, cs) = FoldLeft(ApplyItem, mid, others) BY DEF Applied
<1>2. items \in Seq(Items) /\ DOMAIN items = DOMAIN cs
  <2>1. Len(cs) \in Nat /\ DOMAIN cs = 1..Len(cs) /\ \A k \in DOMAIN cs : cs[k] \in Staged BY StagedSeq
  <2>2. items \in [1..Len(cs) -> Items] BY <2>1, ItemOf
  <2> QED BY <2>1, <2>2
<1>3. ToSet(items) = {items[k] : k \in DOMAIN items} BY DEF ToSet
<1>4. deletes \in Seq(Items) /\ others \in Seq(Items)
      /\ ToSet(deletes) = D /\ ToSet(others) = O
  <2>1. ToSet(items) \cap D = D /\ ToSet(items) \cap O = O OBVIOUS
  <2> HIDE DEF items, D, O
  <2> QED BY <1>2, <2>1, OnlyIs, OnlySet
<1>5. \A x \in ToSet(items) : x \in Items /\ \E k \in DOMAIN cs : x = pendingToBatchItem(cs[k])
  <2>1. \A k \in DOMAIN cs : items[k] \in Items BY <1>2, ElementOfSeq
  <2> QED BY <1>2, <1>3, <2>1
<1>6. \A k \in DOMAIN cs : pendingToBatchItem(cs[k]) \in ToSet(items) BY <1>2, <1>3
<1> HIDE DEF items
<1>7. D \subseteq ToSet(items) /\ O \subseteq ToSet(items)
      /\ (\A x \in D : x.op = "delete") /\ (\A x \in O : x.op # "delete")
      /\ \A x \in ToSet(items) : x.op = "delete" => x \in D
  OBVIOUS
<1>8. \A x \in ToSet(items) : x.op # "delete" => x \in O OBVIOUS
<1> HIDE DEF D, O, deletes, others, mid
<1>9. mid \in Machines BY <1>4, AppliedType DEF mid
<1>10. Applied(m, cs) \in Machines BY <1>1, <1>4, <1>9, AppliedType
<1>11. (\A k \in DOMAIN deletes : deletes[k] \in D) /\ (\A k \in DOMAIN others : others[k] \in O)
  BY <1>4 DEF ToSet
<1>12. ASSUME AllFit(cs), NEW x \in ToSet(items) PROVE InPlace(Applied(m, cs), x)
  <2>1. \A y \in ToSet(items) : y = x \/ Fits(x, y) BY <1>5, <1>12 DEF AllFit
  <2>2. x \in Items BY <1>5
  <2>3. \A k \in DOMAIN others : others[k] = x \/ (Fits(x, others[k]) /\ (others[k].op = "delete" => x.op = "delete"))
    BY <1>7, <1>11, <2>1
  <2>4. InPlace(mid, x) \/ x \in ToSet(others)
    <3>1. CASE x.op # "delete" BY <1>4, <1>8, <3>1
    <3>2. CASE x.op = "delete"
      <4>1. \A k \in DOMAIN deletes : deletes[k] = x \/ (Fits(x, deletes[k]) /\ (deletes[k].op = "delete" => x.op = "delete"))
        BY <1>7, <1>11, <2>1, <3>2
      <4>2. x \in ToSet(deletes) BY <1>4, <1>7, <3>2
      <4>3. InPlace(mid, x) BY <1>4, <2>2, <4>1, <4>2, Landed DEF mid
      <4> QED BY <4>3
    <3> QED BY <3>1, <3>2
  <2> QED BY <1>1, <1>4, <1>9, <2>2, <2>3, <2>4, Landed
<1> QED BY <1>6, <1>10, <1>12


-----------------------------------------------------------------------------
(* The invariant.                                                            *)

LEMMA InvIs ==
    PaneInv <=> /\ PaneTypeOK /\ Sound(pending) /\ Sound(batch)
                /\ push = "sent" /\ ~touched => pending = batch
  BY DEF PaneInv, PaneTypeOK, Sound

LEMMA ShownIs ==
    ASSUME PaneInv
    PROVE  /\ ShownView \in Views
           /\ \A t \in Tools : /\ ShownView.pot[t] \in 0..NumPots /\ ShownView.color[t] \in FieldValues
                               /\ ShownView.own[t] \in FieldValues
                               /\ ShownView.pot[t] # 0 => ShownView.pot[t] \in Pots
<1>1. ShownView \in Views BY MergedIs DEF PaneInv, PaneTypeOK, ShownView
<1>2. Pots = 1..NumPots /\ NumPots \in Nat BY PaneAssumption DEF Pots
<1>3. ASSUME NEW t \in Tools PROVE ShownView.pot[t] \in 0..NumPots BY <1>1, ViewRec
<1>4. \A p \in 0..NumPots : p # 0 => p \in Pots BY <1>2
<1> QED BY <1>1, <1>3, <1>4, ViewRec

LEMMA ChangeIs ==
    ASSUME NEW t \in Tools
    PROVE  /\ \A p \in Pots, x \in FieldValues, y \in FieldValues : Change("color", t, p, x, y) \in Staged
           /\ \A p \in 0..NumPots, x \in FieldValues, y \in FieldValues : Change("own", t, p, x, y) \in Staged
           /\ \A p \in 0..NumPots, x \in 0..NumPots, y \in Pots : Change("pot_number", t, p, x, y) \in Staged
           /\ ShownView.color[t] \in FieldValues => \A p \in Pots : Change("delete", t, p, t, 0) \in Staged
           /\ \A p \in Pots, x \in {0, 1} : Change("cap", 0, p, x, 1) \in Staged
           /\ \A p \in Pots : Change("tool_number", 0, p, 0, t) \in Staged
           /\ \A x \in Nat : Change("spindle", 0, 0, x, t) \in Staged
<1>1. /\ Pots \subseteq 0..NumPots /\ 0..NumPots \subseteq Nat /\ Tools \subseteq Nat /\ 0 \in Nat /\ 1 \in Nat
      /\ Nat \subseteq Data /\ FieldValues \subseteq Data /\ 0 \in FieldValues
  BY PaneAssumption DEF Pots, Tools, Data
<1>2. t \in Nat /\ t \in Data BY <1>1
<1>3. ASSUME NEW p \in Pots, NEW x \in FieldValues, NEW y \in FieldValues
      PROVE  Change("color", t, p, x, y) \in Staged
  BY <1>1, <1>2 DEF Change, Staged, MarkOps, PocketOps
<1>4. ASSUME NEW p \in 0..NumPots, NEW x \in FieldValues, NEW y \in FieldValues
      PROVE  Change("own", t, p, x, y) \in Staged
  BY <1>1, <1>2 DEF Change, Staged, MarkOps, PocketOps
<1>5. ASSUME NEW p \in 0..NumPots, NEW x \in 0..NumPots, NEW y \in Pots
      PROVE  Change("pot_number", t, p, x, y) \in Staged
  BY <1>1, <1>2 DEF Change, Staged, MarkOps, PocketOps
<1>6. ASSUME NEW p \in Pots PROVE Change("tool_number", 0, p, 0, t) \in Staged
  BY <1>1, <1>2 DEF Change, Staged, MarkOps, PocketOps
<1>7. ASSUME NEW p \in Pots, NEW x \in {0, 1}
      PROVE  Change("cap", 0, p, x, 1) \in Staged
  BY <1>1, <1>2 DEF Change, Staged, MarkOps, PocketOps
<1>8. ASSUME NEW x \in Nat PROVE Change("spindle", 0, 0, x, t) \in Staged
  BY <1>1, <1>2 DEF Change, Staged, MarkOps, PocketOps
<1>9. ASSUME NEW p \in Pots, ShownView.color[t] \in FieldValues PROVE Change("delete", t, p, t, 0) \in Staged
  BY <1>1, <1>2, <1>9 DEF Change, Staged, MarkOps, PocketOps
<1> QED BY <1>3, <1>4, <1>5, <1>6, <1>7, <1>8, <1>9

LEMMA StageInv ==
    ASSUME PaneInv, NEW c \in Staged, stagePendingChange(c),
           draft' \in [tool : 0..NumTools, text : FieldValues, typed : BOOLEAN]
    PROVE  PaneInv'
<1>0. PaneTypeOK /\ Sound(pending) /\ Sound(batch) BY InvIs
<1>1. PICK b : Based(b, c) /\ Stages(pending, pending', cache, cache', b)
  BY <1>0, StageIs DEF Sound
<1>2. Sound(pending') /\ cache' \in Views
  BY <1>0, <1>1, StagesKeeps DEF Based, PaneTypeOK
<1>3. /\ touched' = (push # "idle") /\ edits' = edits + 1
      /\ UNCHANGED <<machine, messages, push, batch, pushes, upsets>>
  BY DEF stagePendingChange
<1>4. PaneTypeOK'
  BY <1>0, <1>2, <1>3 DEF PaneTypeOK, Sound, messages
<1>5. push' = "sent" => touched' BY <1>3
<1>6. Sound(batch)' /\ Sound(pending)' BY <1>0, <1>2, <1>3 DEF Sound, Keyed
<1> QED BY <1>4, <1>5, <1>6 DEF PaneInv, Sound

LEMMA AfterBatchType ==
    ASSUME machine \in Machines, NEW cs \in Seq(Staged), NEW done \in Seq(Staged)
    PROVE  AfterBatch(cs, done) \in Machines
<1> DEFINE pots == pots_needing_preclear_before_assignments(machine, cs)
<1>1. Cleared(machine, pots) \in Machines
  <2> HIDE DEF pots
  <2> QED BY ClearedType
<1> HIDE DEF pots
<1> QED BY <1>1, AppliedIs DEF AfterBatch, pots

LEMMA RejectedType ==
    ASSUME PaneTypeOK, Sound(batch), BatchRejected
    PROVE  machine' \in Machines
<1>0. machine \in Machines /\ batch \in Seq(Staged) BY DEF PaneTypeOK
<1>1. ASSUME NEW S, machine' = Cleared(machine, S) PROVE machine' \in Machines
  BY <1>0, <1>1, ClearedType
<1>2. ASSUME NEW ok, machine' = AfterBatch(batch, Only(batch, ok)) PROVE machine' \in Machines
  <2>1. Only(batch, ok) \in Seq(Staged) BY OnlySound DEF Sound
  <2> QED BY <1>0, <1>2, <2>1, AfterBatchType
<1> QED BY <1>0, <1>1, <1>2 DEF BatchRejected

\* What the results confirm of what is staged is well formed.
LEMMA ConfirmedIs ==
    ASSUME NEW cs, Sound(cs), NEW done \in Seq(Staged)
    PROVE  Confirmed(cs, done) \in Seq(Staged)
<1> DEFINE S == {c \in ToSet(cs) : makePendingKey(c) \in Keys(done)}
           hits == Only(cs, S)
<1>0. cs \in Seq(Staged) BY DEF Sound
<1>1. hits \in Seq(Staged) /\ ToSet(hits) = ToSet(cs) \cap S
  <2> HIDE DEF S
  <2> QED BY <1>0, OnlyIs, OnlySet
<1>2. ASSUME NEW c \in Staged, makePendingKey(c) \in Keys(done)
      PROVE  getConfirmedValueFromResult(c, done) \in Staged
  <2> DEFINE same == {d \in ToSet(done) : makePendingKey(d) = makePendingKey(c)}
             got == CHOOSE d \in ToSet(done) : makePendingKey(d) = makePendingKey(c)
  <2>1. \E d \in ToSet(done) : makePendingKey(d) = makePendingKey(c) BY <1>2 DEF Keys
  <2>2. got \in ToSet(done) /\ makePendingKey(got) = makePendingKey(c) BY <2>1
  <2>3. got \in Staged BY <2>2, StagedSeq
  <2>6. getConfirmedValueFromResult(c, done) = IF c.op \in {"color", "own", "spindle"} THEN [c EXCEPT !.new = got.new] ELSE c
    BY DEF getConfirmedValueFromResult
  <2> HIDE DEF got
  <2>4. got.op = c.op BY <2>2, <2>3, KeyIs
  <2>5. ASSUME c.op \in {"color", "own", "spindle"} PROVE [c EXCEPT !.new = got.new] \in Staged
    <3>1. got.new \in Data /\ (c.op \in {"color", "own"} => got.new \in FieldValues)
          /\ (c.op = "spindle" => got.new \in Tools)
      BY <2>3, <2>4, StagedIs
    <3> QED BY <2>5, <3>1 DEF Staged, MarkOps, PocketOps
  <2> QED BY <2>5, <2>6
<1>3. \A k \in DOMAIN hits : hits[k] \in Staged /\ makePendingKey(hits[k]) \in Keys(done)
  <2>1. \A k \in DOMAIN hits : hits[k] \in ToSet(hits) /\ hits[k] \in Staged BY <1>1, StagedSeq
  <2>2. \A c \in S : makePendingKey(c) \in Keys(done) OBVIOUS
  <2> HIDE DEF S, hits
  <2> QED BY <1>1, <2>1, <2>2
<1>4. Confirmed(cs, done) = [k \in DOMAIN hits |-> getConfirmedValueFromResult(hits[k], done)]
  BY DEF Confirmed
<1>5. Len(hits) \in Nat /\ DOMAIN hits = 1..Len(hits) BY <1>1, StagedSeq
<1> HIDE DEF S, hits
<1>6. \A k \in 1..Len(hits) : getConfirmedValueFromResult(hits[k], done) \in Staged BY <1>2, <1>3, <1>5
<1> QED BY <1>4, <1>5, <1>6

LEMMA TakeViewKeeps ==
    ASSUME Sound(pending), NEW v \in Views, NEW pushing \in BOOLEAN, TakeView(v, pushing, pending)
    PROVE  Sound(pending') /\ cache' \in Views /\ (pushing => pending' = pending)
<1> DEFINE S == {c \in ToSet(pending) : ~serverConfirmsPendingChange(c, v)}
<1>1. pending' = IF pushing THEN pending ELSE Only(pending, S) BY DEF TakeView
<1>2. Sound(Only(pending, S))
  <2> HIDE DEF S
  <2> QED BY OnlySound
<1>3. cache' \in Views BY MergedIs DEF TakeView, Sound
<1> HIDE DEF S
<1> QED BY <1>1, <1>2, <1>3

\* A message, in time or late.
LEMMA MessageKeeps ==
    ASSUME PaneInv, ws' \in Views, prior' \in Views, lates' \in Nat, TakeView(ws', push # "idle", pending),
           UNCHANGED <<machine, draft, push, batch, touched, edits, pushes, upsets>>
    PROVE  PaneInv'
<1>0. PaneTypeOK /\ Sound(pending) /\ Sound(batch) /\ (push = "sent" /\ ~touched => pending = batch) BY InvIs
<1>1. Sound(pending') /\ cache' \in Views /\ (push # "idle" => pending' = pending) BY <1>0, TakeViewKeeps
<1> QED BY <1>0, <1>1 DEF PaneInv, PaneTypeOK, Sound, Keyed

LEMMA PaneInit == ToolsInit => PaneInv
<1> SUFFICES ASSUME ToolsInit PROVE PaneInv OBVIOUS
<1>1. machine \in Machines
  <2>1. Magazines \subseteq [Pots -> 0..Cap] /\ 0 \in FieldValues BY PaneAssumption DEF Pots, Cap
  <2>2. PICK s \in Magazines : machine = [slot |-> s, color |-> [p \in Pots |-> 0], own |-> [t \in Tools |-> 0], spindle |-> 1]
    BY DEF ToolsInit
  <2> QED BY <2>1, <2>2 DEF Machines
<1>2. ws \in Views /\ prior \in Views /\ cache \in Views BY <1>1, ViewOfType DEF ToolsInit
<1>3. draft \in [tool : 0..NumTools, text : FieldValues, typed : BOOLEAN]
  BY PaneConstants, PaneAssumption DEF ToolsInit, NoDraft
<1>4. /\ pending = <<>> /\ batch = <<>> /\ push = "idle" /\ touched = FALSE
      /\ edits = 0 /\ pushes = 0 /\ upsets = 0 /\ lates = 0
  BY DEF ToolsInit
<1>5. pending \in Seq(Staged) /\ batch \in Seq(Staged) /\ Keyed(pending) /\ Keyed(batch)
  BY <1>4 DEF Keyed
<1>6. push \in {"idle", "sent", "reading", "settling"} /\ push # "sent" BY <1>4
<1>7. touched \in BOOLEAN BY <1>4
<1>8. edits \in Nat /\ pushes \in Nat /\ upsets \in Nat /\ lates \in Nat BY <1>4
<1>9. PaneTypeOK BY <1>1, <1>2, <1>3, <1>5, <1>6, <1>7, <1>8 DEF PaneTypeOK
<1> QED BY <1>5, <1>6, <1>9 DEF PaneInv

LEMMA PaneNext == PaneInv /\ [ToolsNext]_toolsVars => PaneInv'
<1> SUFFICES ASSUME PaneInv, [ToolsNext]_toolsVars PROVE PaneInv' OBVIOUS
<1>0. PaneTypeOK /\ Sound(pending) /\ Sound(batch) /\ (push = "sent" /\ ~touched => pending = batch) BY InvIs
<1>d. draft \in [tool : 0..NumTools, text : FieldValues, typed : BOOLEAN] BY <1>0 DEF PaneTypeOK
<1>s. \A t \in Tools : /\ ShownView.pot[t] \in 0..NumPots /\ ShownView.color[t] \in FieldValues
                       /\ ShownView.own[t] \in FieldValues
                       /\ ShownView.pot[t] # 0 => ShownView.pot[t] \in Pots
  BY ShownIs
<1>1. ASSUME NEW t \in Tools, NEW value \in FieldValues, handleColorChange(t, value) PROVE PaneInv'
  <2> DEFINE c == Change("color", t, ShownView.pot[t], ShownView.color[t], value)
  <2>1. c \in Staged BY <1>1, <1>s, ChangeIs DEF handleColorChange
  <2>2. stagePendingChange(c) /\ draft' = draft BY <1>1 DEF handleColorChange
  <2> HIDE DEF c
  <2> QED BY <1>d, <2>1, <2>2, StageInv
<1>2. ASSUME NEW t \in Tools, NEW p \in Pots, handlePotNumberChange(t, p) PROVE PaneInv'
  <2> DEFINE c == Change("pot_number", t, ShownView.pot[t], ShownView.pot[t], p)
  <2>1. c \in Staged BY <1>s, ChangeIs
  <2>2. stagePendingChange(c) /\ draft' = draft BY <1>2 DEF handlePotNumberChange
  <2> HIDE DEF c
  <2> QED BY <1>d, <2>1, <2>2, StageInv
<1>3. ASSUME NEW t \in Tools, handleDeleteFromPot(t) PROVE PaneInv'
  <2> DEFINE c == Change("delete", t, ShownView.pot[t], t, 0)
  <2>1. c \in Staged BY <1>3, <1>s, ChangeIs DEF handleDeleteFromPot
  <2>2. stagePendingChange(c) /\ draft' = draft BY <1>3 DEF handleDeleteFromPot
  <2> HIDE DEF c
  <2> QED BY <1>d, <2>1, <2>2, StageInv
<1>4. ASSUME NEW t \in Tools, handleSpindleChange(t) PROVE PaneInv'
  <2> DEFINE c == Change("spindle", 0, 0, cache.spindle, t)
  <2>1. cache.spindle \in Nat BY <1>0, ViewRec DEF PaneTypeOK
  <2>2. c \in Staged BY <2>1, ChangeIs
  <2>3. stagePendingChange(c) /\ draft' = draft BY <1>4 DEF handleSpindleChange
  <2> HIDE DEF c
  <2> QED BY <1>d, <2>2, <2>3, StageInv
<1>5. ASSUME NEW t \in Tools, Focus(t) PROVE PaneInv'
  <2>1. ShownView.own[t] \in FieldValues /\ t \in 0..NumTools BY <1>s, PaneConstants
  <2>2. draft' \in [tool : 0..NumTools, text : FieldValues, typed : BOOLEAN] BY <1>5, <2>1 DEF Focus
  <2>3. UNCHANGED <<machine, messages, cache, pending, push, batch, touched, edits, pushes, upsets>> BY <1>5 DEF Focus
  <2> QED BY <1>0, <2>2, <2>3 DEF PaneInv, PaneTypeOK, Sound, Keyed, messages
<1>6. ASSUME NEW p \in Pots, NEW t \in 0..NumTools, handlePocketChange(p, t) PROVE PaneInv'
  <2>1. CASE t = 0
    <3> DEFINE x == IF p \in ShownView.cap THEN 1 ELSE 0
               c == Change("cap", 0, p, x, 1)
    <3>1. Tools # {} => c \in Staged BY ChangeIs
    <3>2. c \in Staged
      <4>1. /\ p \in Nat /\ x \in Data /\ 1 \in Data /\ 0 \in FieldValues BY PaneAssumption DEF Pots, Data
      <4> HIDE DEF x
      <4> QED BY <4>1 DEF Change, Staged, MarkOps, PocketOps
    <3>3. stagePendingChange(c) /\ draft' = draft BY <1>6, <2>1 DEF handlePocketChange
    <3> HIDE DEF c
    <3> QED BY <1>d, <3>2, <3>3, StageInv
  <2>2. CASE t # 0
    <3> DEFINE c == Change("tool_number", 0, p, 0, t)
    <3>1. t \in Tools BY <2>2, PaneAssumption DEF Tools
    <3>2. c \in Staged BY <3>1, ChangeIs
    <3>3. stagePendingChange(c) /\ draft' = draft BY <1>6, <2>2 DEF handlePocketChange
    <3> HIDE DEF c
    <3> QED BY <1>d, <3>2, <3>3, StageInv
  <2> QED BY <2>1, <2>2
<1>7. ASSUME NEW value \in FieldValues, Type(value) PROVE PaneInv'
  <2>1. draft' = [draft EXCEPT !.text = value, !.typed = TRUE]
        /\ UNCHANGED <<machine, messages, cache, pending, push, batch, touched, edits, pushes, upsets>>
    BY <1>7 DEF Type
  <2>2. draft' \in [tool : 0..NumTools, text : FieldValues, typed : BOOLEAN] BY <1>d, <2>1
  <2> QED BY <1>0, <2>1, <2>2 DEF PaneInv, PaneTypeOK, Sound, Keyed, messages
<1>8. ASSUME Blur PROVE PaneInv'
  <2>1. draft' \in [tool : 0..NumTools, text : FieldValues, typed : BOOLEAN]
    BY <1>8, PaneConstants, PaneAssumption DEF Blur, NoDraft
  <2>2. CASE draft.text = ShownView.own[draft.tool]
    <3>1. UNCHANGED <<machine, messages, cache, pending, push, batch, touched, edits, pushes, upsets>>
      BY <1>8, <2>2 DEF Blur
    <3> QED BY <1>0, <2>1, <3>1 DEF PaneInv, PaneTypeOK, Sound, Keyed, messages
  <2>3. CASE draft.text # ShownView.own[draft.tool]
    <3> DEFINE t == draft.tool
               c == Change("own", t, ShownView.pot[t], ShownView.own[t], draft.text)
    <3>1. t # 0 /\ stagePendingChange(c) BY <1>8, <2>3 DEF Blur
    <3>2. t \in Tools /\ draft.text \in FieldValues BY <1>d, <3>1, PaneAssumption DEF Tools
    <3>3. c \in Staged
      <4> HIDE DEF t
      <4> QED BY <1>s, <3>2, ChangeIs
    <3> HIDE DEF c
    <3> QED BY <2>1, <3>1, <3>3, StageInv
  <2> QED BY <2>2, <2>3
<1>9. ASSUME handleDiscardChanges PROVE PaneInv'
  <2>1. cache' \in Views BY <1>0, <1>9, DiscardIs, LoopTypes DEF PaneTypeOK
  <2>2. /\ pending' = <<>> /\ push = "idle"
        /\ UNCHANGED <<machine, messages, draft, push, batch, touched, edits, pushes, upsets>>
    BY <1>9 DEF handleDiscardChanges
  <2>3. pending' \in Seq(Staged) /\ Keyed(pending)' BY <2>2 DEF Keyed
  <2> QED BY <1>0, <2>1, <2>2, <2>3 DEF PaneInv, PaneTypeOK, Sound, Keyed, messages

<1>10. ASSUME WsUpdate PROVE PaneInv'
  <2>1. ws' \in Views /\ prior' \in Views BY <1>0, <1>10, ViewOfType DEF WsUpdate, PaneTypeOK
  <2>2. TakeView(ws', push # "idle", pending)
        /\ UNCHANGED <<lates, machine, draft, push, batch, touched, edits, pushes, upsets>>
    BY <1>10 DEF WsUpdate
  <2> QED BY <1>0, <2>1, <2>2, MessageKeeps DEF PaneTypeOK
<1>18. ASSUME WsLate PROVE PaneInv'
  <2>1. ws' \in Views /\ prior' \in Views /\ lates' \in Nat BY <1>0, <1>18 DEF WsLate, PaneTypeOK
  <2>2. TakeView(ws', push # "idle", pending)
        /\ UNCHANGED <<machine, draft, push, batch, touched, edits, pushes, upsets>>
    BY <1>18 DEF WsLate
  <2> QED BY <2>1, <2>2, MessageKeeps
<1>11. ASSUME Upset PROVE PaneInv'
  <2>1. machine \in Machines BY <1>0 DEF PaneTypeOK
  <2>2. machine' \in Machines
    <3>1. ASSUME NEW t \in Tools, NEW value \in FieldValues, machine' = [machine EXCEPT !.own[t] = value]
          PROVE  machine' \in Machines
      BY <2>1, <3>1 DEF Machines
    <3>2. ASSUME NEW p \in Pots, machine' = [machine EXCEPT !.slot[p] = 0] PROVE machine' \in Machines
      <4>1. 0 \in 0..Cap BY PaneConstants
      <4> QED BY <2>1, <3>2, <4>1 DEF Machines
    <3> QED BY <1>11, <3>1, <3>2 DEF Upset
  <2>3. upsets' = upsets + 1 /\ UNCHANGED <<messages, cache, pending, draft, push, batch, touched, edits, pushes>>
    BY <1>11 DEF Upset
  <2> QED BY <1>0, <2>2, <2>3 DEF PaneInv, PaneTypeOK, Sound, Keyed, messages
<1>12. ASSUME PushStart PROVE PaneInv'
  <2>1. /\ push' = "sent" /\ batch' = pending /\ touched' = FALSE /\ pushes' = pushes + 1
        /\ TakeView(ws, TRUE, pending)
        /\ UNCHANGED <<machine, messages, draft, edits, upsets>>
    BY <1>12 DEF PushStart
  <2>2. pending' = pending /\ cache' \in Views BY <1>0, <2>1, TakeViewKeeps DEF PaneTypeOK
  <2>3. batch' = pending' /\ Sound(pending)' /\ Sound(batch)' BY <1>0, <2>1, <2>2 DEF Sound, Keyed
  <2>4. push' \in {"idle", "sent", "reading", "settling"} /\ touched' \in BOOLEAN BY <2>1
  <2>5. pushes' \in Nat BY <1>0, <2>1 DEF PaneTypeOK
  <2>6. UNCHANGED <<machine, messages, draft, edits, upsets>> BY <2>1
  <2>7. pending' \in Seq(Staged) /\ batch' \in Seq(Staged) BY <2>3 DEF Sound
  <2>8. PaneTypeOK' BY <1>0, <2>2, <2>4, <2>5, <2>6, <2>7 DEF PaneTypeOK, messages
  <2> QED BY <2>3, <2>8 DEF PaneInv, Sound
<1>13. ASSUME BatchRejected PROVE PaneInv'
  <2>1. push' = "settling" /\ UNCHANGED <<messages, cache, pending, draft, batch, touched, edits, pushes, upsets>>
    BY <1>13 DEF BatchRejected
  <2>2. machine' \in Machines BY <1>0, <1>13, RejectedType
  <2> QED BY <1>0, <2>1, <2>2 DEF PaneInv, PaneTypeOK, Sound, Keyed, messages
<1>14. ASSUME BatchAnswered PROVE PaneInv'
  <2>1. PICK ok \in SUBSET ToSet(batch) :
          LET done == Only(batch, ok)
              failed == Only(batch, ToSet(batch) \ ok)
          IN /\ machine' = AfterBatch(batch, done)
             /\ IF done = <<>>
                THEN push' = "settling" /\ UNCHANGED <<cache, pending>>
                ELSE /\ push' = "reading"
                     /\ cache' = reconcileUnifiedCacheAfterBatch(cache, Confirmed(pending, done))
                     /\ pending' = Drop(pending, done, failed)
    BY <1>14 DEF BatchAnswered
  <2> DEFINE done == Only(batch, ok)
             R == Confirmed(pending, done)
  <2>2. UNCHANGED <<messages, draft, batch, touched, edits, pushes, upsets>> BY <1>14 DEF BatchAnswered
  <2>3. done \in Seq(Staged) BY <1>0, OnlySound DEF Sound
  <2>4. machine' \in Machines
    <3>1. machine' = AfterBatch(batch, done) BY <2>1
    <3> HIDE DEF done
    <3> QED BY <1>0, <2>3, <3>1, AfterBatchType DEF PaneTypeOK
  <2>5. R \in Seq(Staged)
    <3> HIDE DEF done
    <3> QED BY <1>0, <2>3, ConfirmedIs
  <2>6. CASE done = <<>>
    <3>1. push' = "settling" /\ UNCHANGED <<cache, pending>> BY <2>1, <2>6
    <3> QED BY <1>0, <2>2, <2>4, <3>1 DEF PaneInv, PaneTypeOK, Sound, Keyed, messages
  <2>7. CASE done # <<>>
    <3>1. /\ push' = "reading" /\ cache' = reconcileUnifiedCacheAfterBatch(cache, R)
          /\ pending' = Without(pending, Keys(done))
      BY <2>1, <2>7 DEF Drop
    <3> HIDE DEF R, done
    <3>2. cache' \in Views BY <1>0, <2>5, <3>1, LoopTypes DEF PaneTypeOK
    <3>3. Sound(pending') BY <1>0, <3>1, WithoutIs
    <3> QED BY <1>0, <2>2, <2>4, <3>1, <3>2, <3>3 DEF PaneInv, PaneTypeOK, Sound, Keyed, messages
  <2> QED BY <2>6, <2>7
<1>15. ASSUME FreshArrives PROVE PaneInv'
  <2>1. /\ push = "reading" /\ push' = "settling"
        /\ cache' = mergePendingOntoUnifiedCache(ViewOf(machine), pending) \/ UNCHANGED cache
        /\ UNCHANGED <<machine, messages, pending, draft, batch, touched, edits, pushes, upsets>>
    BY <1>15 DEF FreshArrives
  <2>2. ViewOf(machine) \in Views BY <1>0, ViewOfType DEF PaneTypeOK
  <2>3. cache' \in Views BY <1>0, <2>1, <2>2, MergedIs DEF PaneTypeOK
  <2> QED BY <1>0, <2>1, <2>3 DEF PaneInv, PaneTypeOK, Sound, Keyed, messages
<1>16. ASSUME PushEnd PROVE PaneInv'
  <2>1. /\ push' = "idle" /\ batch' = <<>> /\ touched' = FALSE /\ TakeView(ws, FALSE, pending)
        /\ UNCHANGED <<machine, messages, draft, edits, pushes, upsets>>
    BY <1>16 DEF PushEnd
  <2>2. Sound(pending') /\ cache' \in Views BY <1>0, <2>1, TakeViewKeeps DEF PaneTypeOK
  <2>3. batch' \in Seq(Staged) /\ Keyed(batch)' BY <2>1 DEF Keyed
  <2> QED BY <1>0, <2>1, <2>2, <2>3 DEF PaneInv, PaneTypeOK, Sound, Keyed, messages
<1>17. ASSUME UNCHANGED toolsVars PROVE PaneInv'
  BY <1>0, <1>17 DEF toolsVars, messages, PaneInv, PaneTypeOK, Sound, Keyed
<1> QED BY <1>1, <1>2, <1>3, <1>4, <1>5, <1>6, <1>7, <1>8, <1>9, <1>10, <1>11, <1>12, <1>13,
           <1>14, <1>15, <1>16, <1>17, <1>18 DEF ToolsNext, Assignment, Edit

\* What is staged and what is shown are well formed, no two staged changes have
\* one key, and a push that nothing disturbs is about what is staged
\* (pendingChanges, unifiedCache and handlePushChanges of ToolsPane.tsx).
THEOREM PaneInvariant == ToolsSpec => []PaneInv
<1> QED BY PaneInit, PaneNext, PTL DEF ToolsSpec


-----------------------------------------------------------------------------
(* Pots shown once, and pushes accounted for.                                *)

LEMMA OnceIs == OnePerPot <=> Once(cache, pending)
  BY DEF OnePerPot, Once

LEMMA RowStep ==
    ASSUME PaneInv, NEW t \in Tools, NEW p \in Pots, handlePotNumberChange(t, p), OnePerPot
    PROVE  OnePerPot'
<1> DEFINE c == Change("pot_number", t, ShownView.pot[t], ShownView.pot[t], p)
<1>0. Sound(pending) /\ pending \in Seq(Staged) /\ cache \in Views BY InvIs DEF PaneTypeOK, Sound
<1>1. ShownView.pot[t] \in 0..NumPots BY ShownIs
<1>2. c \in Staged BY <1>1, ChangeIs
<1>3. c.op = "pot_number" /\ c.tool = t /\ c.new = p BY DEF Change
<1>4. stagePendingChange(c) /\ Occupants(cache, pending, p) \ {t} = {}
  BY DEF handlePotNumberChange, PotFree
<1> HIDE DEF c
<1>5. PICK b : Based(b, c) /\ Stages(pending, pending', cache, cache', b) BY <1>0, <1>2, <1>4, StageIs
<1>6. b \in Staged /\ b.op = "pot_number" /\ b.tool = t /\ b.new = p BY <1>3, <1>5 DEF Based
<1>7. Once(cache, pending) BY OnceIs
<1>8. Once(cache', pending') BY <1>0, <1>4, <1>5, <1>6, <1>7, RowOnce
<1> QED BY <1>8 DEF OnePerPot, Once

LEMMA PocketStep ==
    ASSUME PaneInv, NEW p \in Pots, NEW t \in 0..NumTools, handlePocketChange(p, t), OnePerPot
    PROVE  OnePerPot'
<1> DEFINE c == IF t = 0 THEN Change("cap", 0, p, IF p \in ShownView.cap THEN 1 ELSE 0, 1)
                ELSE Change("tool_number", 0, p, 0, t)
<1>0. Sound(pending) /\ pending \in Seq(Staged) /\ cache \in Views BY InvIs DEF PaneTypeOK, Sound
<1>2. c \in Staged
  <2>1. /\ p \in Nat /\ 0 \in Data /\ 1 \in Data /\ (t # 0 => t \in Tools) /\ t \in Data /\ 0 \in FieldValues
    BY PaneAssumption DEF Pots, Tools, Data
  <2> QED BY <2>1 DEF Change, Staged, MarkOps, PocketOps
<1>3. c.op \in PocketOps /\ c.pot = p BY DEF Change, PocketOps
<1>4. stagePendingChange(c) /\ Occupants(cache, pending, p) = {}
  BY DEF handlePocketChange, PocketFree
<1> HIDE DEF c
<1>5. PICK b : Based(b, c) /\ Stages(pending, pending', cache, cache', b) BY <1>0, <1>2, <1>4, StageIs
<1>6. b \in Staged /\ b.op \in PocketOps /\ b.pot = p BY <1>3, <1>5 DEF Based
<1>7. Once(cache, pending) BY OnceIs
<1>8. Once(cache', pending') BY <1>0, <1>4, <1>5, <1>6, <1>7, PocketOnce
<1> QED BY <1>8 DEF OnePerPot, Once

\* Giving a tool a pot, in its row or in an empty pocket, staged, restaged or
\* taken back, never shows two tools in one pot (handlePotNumberChange and
\* handlePocketChange of ToolsPane.tsx).
THEOREM PotsShownOnceHolds == ToolsSpec => PotsShownOnce
<1>1. ASSUME PaneInv, Assignment, OnePerPot PROVE OnePerPot'
  <2>1. CASE \E t \in Tools, p \in Pots : handlePotNumberChange(t, p) BY <1>1, <2>1, RowStep
  <2>2. CASE \E p \in Pots, t \in 0..NumTools : handlePocketChange(p, t) BY <1>1, <2>2, PocketStep
  <2> QED BY <1>1, <2>1, <2>2 DEF Assignment
<1>2. PaneInv /\ [ToolsNext]_toolsVars => [Assignment /\ OnePerPot => OnePerPot']_toolsVars BY <1>1
<1> QED BY <1>2, PaneInvariant, PTL DEF ToolsSpec, PotsShownOnce

\* Changes that do not contradict each other, of different keys, fit.
LEMMA SimpleFits ==
    ASSUME NEW cs, Sound(cs), Simple(cs)
    PROVE  AllFit(cs)
<1>0. cs \in Seq(Staged) /\ Keyed(cs) BY DEF Sound
<1> SUFFICES ASSUME NEW i \in DOMAIN cs, NEW j \in DOMAIN cs, i # j
             PROVE  Fits(pendingToBatchItem(cs[i]), pendingToBatchItem(cs[j]))
  BY DEF AllFit
<1> DEFINE a == pendingToBatchItem(cs[i])
           b == pendingToBatchItem(cs[j])
<1>1. cs[i] \in Staged /\ cs[j] \in Staged BY <1>0, StagedSeq
<1>2. /\ {a.op, b.op} \subseteq {"assignment", "cap"} => a.pot # b.pot /\ (a.tool # b.tool \/ a.tool = 0)
      /\ a.op = "color" /\ b.op = "color" => a.pot # b.pot
      /\ b.op = "assignment" /\ a.op = "delete" => b.pot # a.pot \/ b.tool # a.tool
  BY DEF Simple
<1>3. makePendingKey(cs[i]) # makePendingKey(cs[j]) BY <1>0 DEF Keyed
<1>4. ASSUME a.op = "own", b.op = "own" PROVE a.tool # b.tool
  <2>1. cs[i].op = "own" /\ cs[j].op = "own" BY <1>4 DEF pendingToBatchItem
  <2>2. a.tool = cs[i].tool /\ b.tool = cs[j].tool BY <2>1 DEF pendingToBatchItem
  <2>3. cs[i].tool # cs[j].tool BY <1>1, <1>3, <2>1, SameKey
  <2> QED BY <2>2, <2>3
<1>5. ~(a.op = "spindle" /\ b.op = "spindle")
  <2> SUFFICES ASSUME a.op = "spindle", b.op = "spindle" PROVE FALSE OBVIOUS
  <2>1. cs[i].op = "spindle" /\ cs[j].op = "spindle" BY DEF pendingToBatchItem
  <2> QED BY <1>1, <1>3, <2>1, SameKey
<1> HIDE DEF a, b
<1>6. Fits(a, b) BY <1>2, <1>4, <1>5 DEF Fits
<1> QED BY <1>6 DEF a, b

\* Some of the changes fit when all of them do.
LEMMA SomeFit ==
    ASSUME NEW cs \in Seq(Staged), NEW ds \in Seq(Staged), ToSet(ds) \subseteq ToSet(cs), AllFit(cs)
    PROVE  AllFit(ds)
<1>1. \A i \in DOMAIN ds : \E k \in DOMAIN cs : ds[i] = cs[k]
  <2> SUFFICES ASSUME NEW i \in DOMAIN ds PROVE \E k \in DOMAIN cs : ds[i] = cs[k] OBVIOUS
  <2>1. ds[i] \in ToSet(ds) BY StagedSeq
  <2>2. ds[i] \in ToSet(cs) BY <2>1
  <2> QED BY <2>2, StagedSeq
<1> QED BY <1>1 DEF AllFit

Accounted == \A k \in DOMAIN batch : OnMachine(batch[k]) \/ makePendingKey(batch[k]) \in Keys(pending)

Quiet == Simple(batch) /\ ~touched /\ upsets = 0

LEMMA AccountedIs == PushAccounted <=> (push \in {"reading", "settling"} /\ Quiet => Accounted)
  BY DEF PushAccounted, Quiet, Accounted

LEMMA AnsweredAccounts ==
    ASSUME PaneInv, BatchAnswered, Quiet
    PROVE  Accounted'
<1>0. PaneTypeOK /\ Sound(pending) /\ Sound(batch) /\ (push = "sent" /\ ~touched => pending = batch) BY InvIs
<1>1. PICK ok \in SUBSET ToSet(batch) :
        LET done == Only(batch, ok)
            failed == Only(batch, ToSet(batch) \ ok)
        IN /\ machine' = AfterBatch(batch, done)
           /\ IF done = <<>>
              THEN push' = "settling" /\ UNCHANGED <<cache, pending>>
              ELSE /\ push' = "reading"
                   /\ cache' = reconcileUnifiedCacheAfterBatch(cache, Confirmed(pending, done))
                   /\ pending' = Drop(pending, done, failed)
  BY DEF BatchAnswered
<1> DEFINE done == Only(batch, ok)
           base == Cleared(machine, pots_needing_preclear_before_assignments(machine, batch))
<1>2. machine' = Applied(base, done) /\ ((pending' = pending /\ done = <<>>) \/ pending' = Without(pending, Keys(done)))
  BY <1>1 DEF Drop, AfterBatch
<1>8. base \in Machines
  <2> DEFINE S == pots_needing_preclear_before_assignments(machine, batch)
  <2>1. machine \in Machines BY <1>0 DEF PaneTypeOK
  <2> HIDE DEF S
  <2>2. Cleared(machine, S) \in Machines BY <2>1, ClearedType
  <2> QED BY <2>2 DEF S
<1> HIDE DEF base
<1>3. push = "sent" /\ batch' = batch /\ pending = batch
  BY <1>0 DEF BatchAnswered, Quiet
<1>4. done \in Seq(Staged) /\ batch \in Seq(Staged) /\ Keyed(batch) BY <1>0, OnlySound DEF Sound
<1>5. ToSet(done) = ok
  <2>1. ToSet(done) = ToSet(batch) \cap ok BY <1>4, OnlySet
  <2> QED BY <2>1
<1>6. AllFit(done)
  <2>1. AllFit(batch) BY <1>0, SimpleFits DEF Quiet
  <2>2. ToSet(done) \subseteq ToSet(batch) BY <1>5
  <2> HIDE DEF done
  <2> QED BY <1>4, <2>1, <2>2, SomeFit
<1> HIDE DEF done
<1>7. ASSUME NEW k \in DOMAIN batch
      PROVE  InPlace(machine', pendingToBatchItem(batch[k])) \/ makePendingKey(batch[k]) \in Keys(pending')
  <2>0. batch[k] \in ToSet(batch) /\ batch[k] \in Staged BY <1>4, StagedSeq
  <2>1. CASE batch[k] \in ok
    <3>1. PICK l \in DOMAIN done : done[l] = batch[k] BY <1>4, <1>5, <2>1, StagedSeq
    <3>2. InPlace(Applied(base, done), pendingToBatchItem(done[l]))
      BY <1>4, <1>6, <1>8, AppliedIs
    <3> QED BY <1>2, <3>1, <3>2
  <2>2. CASE batch[k] \notin ok
    <3>1. makePendingKey(batch[k]) \in Keys(pending) BY <1>3, <2>0 DEF Keys
    <3>2. CASE pending' = pending BY <3>1, <3>2
    <3>3. CASE pending' = Without(pending, Keys(done))
      <4>1. makePendingKey(batch[k]) \notin Keys(done)
        <5> SUFFICES ASSUME makePendingKey(batch[k]) \in Keys(done) PROVE FALSE OBVIOUS
        <5>1. PICK d \in ToSet(done) : makePendingKey(d) = makePendingKey(batch[k]) BY DEF Keys
        <5>2. d \in ToSet(batch) /\ d \in ok BY <1>5, <5>1
        <5>3. PICK j \in DOMAIN batch : batch[j] = d BY <1>4, <5>2, StagedSeq
        <5>4. j = k BY <1>4, <5>1, <5>3 DEF Keyed
        <5> QED BY <2>2, <5>2, <5>3, <5>4
      <4>2. batch[k] \in ToSet(Without(pending, Keys(done)))
        BY <1>0, <1>3, <2>0, <4>1, WithoutIs
      <4> QED BY <3>3, <4>2 DEF Keys
    <3> QED BY <1>2, <3>2, <3>3
  <2> QED BY <2>1, <2>2
<1> QED BY <1>3, <1>7 DEF Accounted, OnMachine, InPlace


\* Nothing the accounts are about changes.
LEMMA AccountsStay ==
    ASSUME PushAccounted, UNCHANGED <<machine, pending, batch, touched, upsets>>,
           push' \in {"reading", "settling"} => push \in {"reading", "settling"}
    PROVE  PushAccounted'
<1> SUFFICES ASSUME push' \in {"reading", "settling"}, Quiet' PROVE Accounted'
  BY AccountedIs DEF PushAccounted, Quiet, Accounted
<1>1. Simple(batch) BY DEF Quiet, Simple
<1>2. Quiet BY <1>1 DEF Quiet
<1>3. Accounted BY <1>2, AccountedIs
<1> QED BY <1>3 DEF Accounted, OnMachine

LEMMA AccountsNext == PaneInv /\ PushAccounted /\ [ToolsNext]_toolsVars => PushAccounted'
<1> SUFFICES ASSUME PaneInv, PushAccounted, [ToolsNext]_toolsVars PROVE PushAccounted'
  OBVIOUS
<1>0. PaneTypeOK /\ Sound(pending) /\ Sound(batch) /\ (push = "sent" /\ ~touched => pending = batch) BY InvIs
<1>1. ASSUME UNCHANGED <<machine, pending, push, batch, touched, upsets>> PROVE PushAccounted'
  BY <1>1, AccountsStay
<1>2. ASSUME edits' = edits + 1, touched' = (push # "idle"), UNCHANGED push PROVE PushAccounted'
  BY <1>2 DEF PushAccounted
<1>3. ASSUME NEW c, stagePendingChange(c) PROVE PushAccounted'
  BY <1>2, <1>3 DEF stagePendingChange
<1>4. ASSUME \E t \in Tools, value \in FieldValues : handleColorChange(t, value) PROVE PushAccounted'
  BY <1>3, <1>4 DEF handleColorChange
<1>5. ASSUME \E t \in Tools, p \in Pots : handlePotNumberChange(t, p) PROVE PushAccounted'
  BY <1>3, <1>5 DEF handlePotNumberChange
<1>6. ASSUME \E t \in Tools : handleDeleteFromPot(t) \/ handleSpindleChange(t) \/ Focus(t) PROVE PushAccounted'
  <2>1. ASSUME NEW t \in Tools, handleDeleteFromPot(t) PROVE PushAccounted'
    BY <1>3, <2>1 DEF handleDeleteFromPot
  <2>2. ASSUME NEW t \in Tools, handleSpindleChange(t) PROVE PushAccounted'
    BY <1>3, <2>2 DEF handleSpindleChange
  <2>3. ASSUME NEW t \in Tools, Focus(t) PROVE PushAccounted'
    BY <1>1, <2>3 DEF Focus
  <2> QED BY <1>6, <2>1, <2>2, <2>3
<1>7. ASSUME NEW p \in Pots, NEW t \in 0..NumTools, handlePocketChange(p, t) PROVE PushAccounted'
  <2>1. CASE t = 0 BY <1>3, <1>7, <2>1 DEF handlePocketChange
  <2>2. CASE t # 0 BY <1>3, <1>7, <2>2 DEF handlePocketChange
  <2> QED BY <2>1, <2>2
<1>8. ASSUME \E value \in FieldValues : Type(value) PROVE PushAccounted'
  BY <1>1, <1>8 DEF Type
<1>9. ASSUME Blur PROVE PushAccounted'
  <2>1. CASE draft.text = ShownView.own[draft.tool] BY <1>1, <1>9, <2>1 DEF Blur
  <2>2. CASE draft.text # ShownView.own[draft.tool] BY <1>3, <1>9, <2>2 DEF Blur
  <2> QED BY <2>1, <2>2
<1>10. ASSUME handleDiscardChanges PROVE PushAccounted'
  BY <1>10 DEF handleDiscardChanges, PushAccounted
<1>11. ASSUME WsUpdate PROVE PushAccounted'
  <2>1. CASE push = "idle" BY <1>11, <2>1 DEF WsUpdate, PushAccounted
  <2>2. CASE push # "idle"
    <3>1. pending' = pending BY <1>11, <2>2 DEF WsUpdate, TakeView
    <3> QED BY <1>1, <1>11, <3>1 DEF WsUpdate
  <2> QED BY <2>1, <2>2
<1>18. ASSUME WsLate PROVE PushAccounted'
  <2>1. CASE push = "idle" BY <1>18, <2>1 DEF WsLate, PushAccounted
  <2>2. CASE push # "idle"
    <3>1. pending' = pending BY <1>18, <2>2 DEF WsLate, TakeView
    <3> QED BY <1>1, <1>18, <3>1 DEF WsLate
  <2> QED BY <2>1, <2>2
<1>12. ASSUME Upset PROVE PushAccounted'
  <2>1. upsets' = upsets + 1 /\ upsets \in Nat BY <1>0, <1>12 DEF Upset, PaneTypeOK
  <2>2. upsets' # 0 BY <2>1
  <2> QED BY <2>2 DEF PushAccounted
<1>13. ASSUME PushStart \/ PushEnd PROVE PushAccounted'
  BY <1>13 DEF PushStart, PushEnd, PushAccounted
<1>14. ASSUME BatchRejected PROVE PushAccounted'
  <2> SUFFICES ASSUME Quiet' PROVE Accounted' BY AccountedIs DEF PushAccounted, Quiet, Accounted
  <2>1. push = "sent" /\ UNCHANGED <<pending, batch, touched>> BY <1>14 DEF BatchRejected
  <2>2. pending' = batch' BY <1>0, <2>1 DEF Quiet
  <2>3. ASSUME NEW k \in DOMAIN batch PROVE makePendingKey(batch[k]) \in Keys(batch)
    <3>1. batch[k] \in ToSet(batch) BY <1>0, <2>3, StagedSeq DEF Sound
    <3> QED BY <3>1 DEF Keys
  <2> QED BY <2>1, <2>2, <2>3 DEF Accounted, OnMachine
<1>15. ASSUME BatchAnswered PROVE PushAccounted'
  <2> SUFFICES ASSUME Quiet' PROVE Accounted' BY AccountedIs DEF PushAccounted, Quiet, Accounted
  <2>1. UNCHANGED <<batch, touched, upsets>> BY <1>15 DEF BatchAnswered
  <2>2. Quiet BY <2>1 DEF Quiet, Simple
  <2> QED BY <1>15, <2>2, AnsweredAccounts
<1>16. ASSUME FreshArrives PROVE PushAccounted'
  <2>1. push = "reading" /\ UNCHANGED <<machine, pending, batch, touched, upsets>> BY <1>16 DEF FreshArrives
  <2> QED BY <2>1, AccountsStay
<1>17. ASSUME UNCHANGED toolsVars PROVE PushAccounted'
  BY <1>1, <1>17 DEF toolsVars
<1> QED BY <1>4, <1>5, <1>6, <1>7, <1>8, <1>9, <1>10, <1>11, <1>12, <1>13, <1>14, <1>15, <1>16, <1>17, <1>18 DEF ToolsNext, Assignment, Edit

\* Each change of a batch is on the machine or still staged once the push has
\* been answered, whatever was answered and whatever arrived meanwhile
\* (handlePushChanges of ToolsPane.tsx).
THEOREM PushAccountedHolds == ToolsSpec => []PushAccounted
<1>1. ToolsInit => PushAccounted BY DEF ToolsInit, PushAccounted
<1>2. PaneInv /\ PushAccounted /\ [ToolsNext]_toolsVars => PushAccounted' BY AccountsNext
<1> QED BY <1>1, <1>2, PaneInvariant, PTL DEF ToolsSpec

-----------------------------------------------------------------------------
(* The pie and the traces: totals, rows in the order of their time, and the  *)
(* loops over them.                                                          *)

LEMMA TotalIs ==
    ASSUME NEW S, IsFiniteSet(S), NEW ms, \A x \in S : ms[x] \in Int
    PROVE  \E h : SumOf(h, S, ms) /\ TotalOf(ms, S) = h[S]
<1> DEFINE step(d) == [s \in SUBSET S |->
                         IF s = {} THEN 0
                         ELSE LET x == CHOOSE x \in s : TRUE IN ms[x] + d[s \ {x}]]
           it == CHOOSE d : d = step(d)
<1>1. TotalOf(ms, S) = it[S] BY DEF TotalOf, MapThenSumSet, MapThenFoldSet
<1>2. PICK h : SumOf(h, S, ms) BY SumExists
<1>3. h = step(h)
  <2>1. h \in [SUBSET S -> Int] BY <1>2 DEF SumOf
  <2>2. ASSUME NEW s \in SUBSET S PROVE h[s] = step(h)[s]
    <3>1. CASE s = {} BY <1>2, <3>1 DEF SumOf, SumRec
    <3>2. CASE s # {} BY <1>2, <3>2 DEF SumOf, SumRec, Chosen
    <3> QED BY <3>1, <3>2
  <2>3. step(h) = [s \in SUBSET S |-> step(h)[s]] OBVIOUS
  <2> HIDE DEF step
  <2> QED BY <2>1, <2>2, <2>3
<1>4. it = step(it)
  <2> HIDE DEF step
  <2> QED BY <1>3
<1> HIDE DEF it
<1>5. SumRec(it, S, ms) BY <1>4 DEF SumRec, Chosen
<1>6. SumRec(h, S, ms) BY <1>2 DEF SumOf
<1>7. it[S] = h[S] BY <1>5, <1>6, SumAgrees
<1> QED BY <1>1, <1>2, <1>7

\* What a total is, by one element less.
LEMMA TotalSplits ==
    ASSUME NEW S, IsFiniteSet(S), NEW ms, \A x \in S : ms[x] \in Int, NEW y \in S
    PROVE  /\ TotalOf(ms, S) \in Int /\ TotalOf(ms, S \ {y}) \in Int
           /\ TotalOf(ms, S) = ms[y] + TotalOf(ms, S \ {y})
<1>1. PICK h : SumOf(h, S, ms) /\ TotalOf(ms, S) = h[S] BY TotalIs
<1> DEFINE R == S \ {y}
<1>2. IsFiniteSet(R) BY FS_Subset
<1>3. PICK k : SumOf(k, R, ms) /\ TotalOf(ms, R) = k[R] BY <1>2, TotalIs
<1>4. SumRec(h, R, ms) /\ SumRec(k, R, ms)
  <2>1. SUBSET R \subseteq SUBSET S OBVIOUS
  <2> QED BY <1>1, <1>3, <2>1 DEF SumOf, SumRec
<1>5. h[R] = k[R] BY <1>2, <1>4, SumAgrees
<1>6. h[S] = ms[y] + h[R]
  <2>0. SumOf(h, S, ms) BY <1>1
  <2>1. Splits(h, S, ms) BY <2>0, SumSplits
  <2>2. S \in SUBSET S OBVIOUS
  <2> QED BY <2>1, <2>2 DEF Splits
<1>7. h[S] \in Int /\ h[R] \in Int BY <1>1 DEF SumOf
<1> QED BY <1>1, <1>3, <1>5, <1>6, <1>7

LEMMA TotalEmpty ==
    ASSUME NEW ms PROVE TotalOf(ms, {}) = 0
<1>1. IsFiniteSet({}) BY FS_EmptySet
<1>2. PICK h : SumOf(h, {}, ms) /\ TotalOf(ms, {}) = h[{}] BY <1>1, TotalIs
<1> QED BY <1>2 DEF SumOf, SumRec

LEMMA TotalType ==
    ASSUME NEW S, IsFiniteSet(S), NEW ms, \A x \in S : ms[x] \in Int
    PROVE  TotalOf(ms, S) \in Int
<1>1. PICK h : SumOf(h, S, ms) /\ TotalOf(ms, S) = h[S] BY TotalIs
<1>2. h \in [SUBSET S -> Int] BY <1>1 DEF SumOf
<1> QED BY <1>1, <1>2

LEMMA TotalSame ==
    ASSUME NEW S, IsFiniteSet(S), NEW ms, NEW d, \A x \in S : ms[x] \in Int, \A x \in S : d[x] = ms[x]
    PROVE  TotalOf(d, S) = TotalOf(ms, S)
<1>1. PICK h : SumOf(h, S, ms) /\ TotalOf(ms, S) = h[S] BY TotalIs
<1>2. \A x \in S : d[x] \in Int OBVIOUS
<1>3. PICK k : SumOf(k, S, d) /\ TotalOf(d, S) = k[S] BY <1>2, TotalIs
<1>4. k[S] = h[S] BY <1>1, <1>3, SumAgrees DEF SumOf
<1> QED BY <1>1, <1>3, <1>4

\* The total follows its parts.
LEMMA TotalUpdate ==
    ASSUME NEW S, IsFiniteSet(S), NEW ms, NEW d, \A x \in S : ms[x] \in Int, NEW y \in S, NEW k \in Int,
           d[y] = ms[y] + k, \A x \in S : x # y => d[x] = ms[x]
    PROVE  TotalOf(d, S) = TotalOf(ms, S) + k
<1> DEFINE R == S \ {y}
<1>1. d[y] = ms[y] + k /\ \A x \in R : d[x] = ms[x] OBVIOUS
<1>2. \A x \in S : ms[x] \in Int OBVIOUS
<1>3. \A x \in S : d[x] \in Int BY <1>1, <1>2
<1>4. IsFiniteSet(R) BY FS_Subset
<1>5. TotalOf(ms, S) = ms[y] + TotalOf(ms, R) /\ TotalOf(ms, R) \in Int BY <1>2, TotalSplits
<1>6. TotalOf(d, S) = d[y] + TotalOf(d, R) BY <1>3, TotalSplits
<1>7. TotalOf(d, R) = TotalOf(ms, R) BY <1>1, <1>2, <1>4, TotalSame
<1>8. ms[y] \in Int BY <1>2
<1>9. TotalOf(d, S) = TotalOf(ms, S) + k
  <2> DEFINE a == TotalOf(ms, R)
             b == ms[y]
  <2>1. TotalOf(d, S) = (b + k) + a /\ TotalOf(ms, S) = b + a /\ a \in Int /\ b \in Int
    BY <1>1, <1>5, <1>6, <1>7, <1>8
  <2> HIDE DEF a, b
  <2> QED BY <2>1
<1> QED BY <1>9

\* Zeros do not count.
LEMMA TotalDrops ==
    ASSUME NEW S, IsFiniteSet(S), NEW ms, \A x \in S : ms[x] \in Nat
    PROVE  TotalOf(ms, {x \in S : ms[x] > 0}) = TotalOf(ms, S)
<1> DEFINE P(n) == \A U \in SUBSET S : Cardinality({x \in U : ~(ms[x] > 0)}) = n =>
                      TotalOf(ms, {x \in U : ms[x] > 0}) = TotalOf(ms, U)
           T == {n \in Nat : P(n)}
<1>0. ASSUME NEW U \in SUBSET S
      PROVE  IsFiniteSet(U) /\ IsFiniteSet({x \in U : ~(ms[x] > 0)})
  <2>1. {x \in U : ~(ms[x] > 0)} \in SUBSET S OBVIOUS
  <2> QED BY <2>1, FS_Subset
<1>1. 0 \in T
  <2> SUFFICES ASSUME NEW U \in SUBSET S, Cardinality({x \in U : ~(ms[x] > 0)}) = 0
               PROVE  {x \in U : ms[x] > 0} = U
    OBVIOUS
  <2>1. {x \in U : ~(ms[x] > 0)} = {} BY <1>0, FS_EmptySet
  <2> QED BY <2>1
<1>2. ASSUME NEW n \in Nat, n \in T PROVE n + 1 \in T
  <2> SUFFICES ASSUME NEW U \in SUBSET S, Cardinality({x \in U : ~(ms[x] > 0)}) = n + 1
               PROVE  TotalOf(ms, {x \in U : ms[x] > 0}) = TotalOf(ms, U)
    OBVIOUS
  <2>1. {x \in U : ~(ms[x] > 0)} # {} BY FS_EmptySet
  <2>2. PICK y \in U : ~(ms[y] > 0) BY <2>1
  <2> DEFINE R == U \ {y}
  <2>3. {x \in R : ~(ms[x] > 0)} = {x \in U : ~(ms[x] > 0)} \ {y} BY <2>2
  <2>4. Cardinality({x \in R : ~(ms[x] > 0)}) = n
    <3> DEFINE Z == {x \in U : ~(ms[x] > 0)}
    <3>1. IsFiniteSet(Z) /\ y \in Z BY <1>0, <2>2
    <3>2. Cardinality(Z) = n + 1 OBVIOUS
    <3> HIDE DEF Z
    <3>3. Cardinality(Z \ {y}) = Cardinality(Z) - 1 BY <3>1, FS_RemoveElement
    <3>4. Cardinality(Z \ {y}) = n BY <3>2, <3>3
    <3> QED BY <2>3, <3>4 DEF Z
  <2>5. {x \in R : ms[x] > 0} = {x \in U : ms[x] > 0} BY <2>2
  <2>6. TotalOf(ms, {x \in R : ms[x] > 0}) = TotalOf(ms, R)
    <3>1. R \in SUBSET S OBVIOUS
    <3> QED BY <1>2, <2>4, <3>1
  <2>7. TotalOf(ms, U) = ms[y] + TotalOf(ms, R) /\ TotalOf(ms, R) \in Int
    <3>1. \A x \in U : ms[x] \in Int OBVIOUS
    <3> QED BY <1>0, <2>2, <3>1, TotalSplits
  <2>8. ms[y] = 0 BY <2>2
  <2>9. TotalOf(ms, U) = TotalOf(ms, R)
    <3> HIDE DEF R
    <3> QED BY <2>7, <2>8
  <2> QED BY <2>5, <2>6, <2>9
<1>3. Nat \subseteq T
  <2> HIDE DEF T
  <2> QED BY <1>1, <1>2, SetInduction
<1>4. Cardinality({x \in S : ~(ms[x] > 0)}) \in Nat BY <1>0, FS_CardinalityType
<1>5. P(Cardinality({x \in S : ~(ms[x] > 0)})) BY <1>3, <1>4
<1> QED BY <1>5

-----------------------------------------------------------------------------
(* TraceRows by their time *)

Timed(S) == IsFiniteSet(S) /\ (\A r \in S : r.t \in Int) /\ \A r, x \in S : r.t = x.t => r = x

Ascends(rows) == \A i, j \in 1..Len(rows) : i < j => rows[i].t < rows[j].t

InTime(rows, S) ==
    /\ rows \in Seq(S) /\ Len(rows) = Cardinality(S) /\ Cardinality(S) \in Nat
    /\ ToSet(rows) = S
    /\ Ascends(rows)

LEMMA ByTimeIs ==
    ASSUME NEW S, Timed(S)
    PROVE  InTime(ByTime(S), S)
<1> DEFINE n == Cardinality(S)
           Before(r) == {x \in S : x.t < r.t}
           rank(r) == Cardinality(Before(r))
           B == ByTime(S)
<1>0. /\ IsFiniteSet(S) /\ n \in Nat
      /\ \A r \in S : r.t \in Int
      /\ \A r, x \in S : r.t = x.t => r = x
  BY FS_CardinalityType DEF Timed
<1>1. ASSUME NEW r \in S PROVE IsFiniteSet(Before(r)) /\ rank(r) \in 0..(n - 1)
  <2>1. Before(r) \in SUBSET S /\ r \notin Before(r)
    <3>1. ~(r.t < r.t) BY <1>0
    <3> QED BY <3>1
  <2>2. IsFiniteSet(Before(r)) /\ rank(r) <= n /\ (rank(r) = n => Before(r) = S)
    <3> HIDE DEF Before
    <3> QED BY <1>0, <2>1, FS_Subset
  <2>3. rank(r) \in Nat
    <3> HIDE DEF Before
    <3> QED BY <2>2, FS_CardinalityType
  <2>4. rank(r) # n BY <2>1, <2>2
  <2> HIDE DEF rank, n
  <2>5. rank(r) \in 0..(n - 1) BY <1>0, <2>2, <2>3, <2>4
  <2> QED BY <2>2, <2>5 DEF rank
<1>2. ASSUME NEW r \in S, NEW x \in S, r.t < x.t PROVE rank(r) < rank(x)
  <2>0. r.t \in Int /\ x.t \in Int /\ \A y \in S : y.t \in Int BY <1>0
  <2>1. Before(r) \in SUBSET Before(x) /\ r \in Before(x) /\ r \notin Before(r)
    <3>1. ~(r.t < r.t) BY <2>0
    <3>2. ASSUME NEW y \in S, y.t < r.t PROVE y.t < x.t
      <4>1. y.t \in Int BY <2>0
      <4> QED BY <1>2, <2>0, <3>2, <4>1
    <3> QED BY <1>2, <3>1, <3>2
  <2>2. IsFiniteSet(Before(x)) /\ rank(r) \in Nat /\ rank(x) \in Nat
    <3>1. rank(r) \in 0..(n - 1) /\ rank(x) \in 0..(n - 1) /\ IsFiniteSet(Before(x)) BY <1>1
    <3> HIDE DEF rank, n
    <3> QED BY <1>0, <3>1
  <2>3. Before(r) # Before(x) BY <2>1
  <2>4. rank(r) <= rank(x) /\ (rank(r) = rank(x) => Before(r) = Before(x))
    <3> HIDE DEF Before
    <3> QED BY <2>1, <2>2, FS_Subset
  <2> HIDE DEF rank
  <2> QED BY <2>2, <2>3, <2>4
<1> HIDE DEF Before
<1>3. ASSUME NEW r \in S, NEW x \in S, rank(r) = rank(x) PROVE r = x
  <2>1. r.t \in Int /\ x.t \in Int BY <1>0
  <2>2. rank(r) \in Int /\ rank(x) \in Int BY <1>1
  <2>3. ~(r.t < x.t) /\ ~(x.t < r.t)
    <3> HIDE DEF rank
    <3> QED BY <1>2, <1>3, <2>2
  <2> QED BY <1>0, <2>1, <2>3
<1> DEFINE F == [r \in S |-> rank(r) + 1]
<1>4. F \in [S -> 1..n]
  <2>1. \A r \in S : rank(r) + 1 \in 1..n
    <3> SUFFICES ASSUME NEW r \in S PROVE rank(r) + 1 \in 1..n OBVIOUS
    <3>1. rank(r) \in 0..(n - 1) BY <1>1
    <3> HIDE DEF rank, n
    <3> QED BY <1>0, <3>1
  <2> QED BY <2>1
<1>5. IsInjective(F)
  <2> SUFFICES ASSUME NEW r \in S, NEW x \in S, F[r] = F[x] PROVE r = x BY DEF IsInjective
  <2>1. rank(r) \in Int /\ rank(x) \in Int BY <1>1
  <2>2. rank(r) + 1 = rank(x) + 1 OBVIOUS
  <2>3. rank(r) = rank(x)
    <3> HIDE DEF rank
    <3> QED BY <2>1, <2>2
  <2> QED BY <1>3, <2>3
<1>6. F \in Injection(S, 1..n) BY <1>4, <1>5 DEF Injection
<1>7. IsFiniteSet(1..n) /\ Cardinality(1..n) = n BY <1>0, FS_Interval
<1>8. F \in Surjection(S, 1..n)
  <2> HIDE DEF F, n
  <2>1. Cardinality(S) = Cardinality(1..n) BY <1>7 DEF n
  <2> QED BY <1>6, <1>7, <2>1, FS_Injection
<1>9. ASSUME NEW i \in 1..n PROVE B[i] \in S /\ rank(B[i]) = i - 1
  <2>1. PICK r \in S : F[r] = i BY <1>8 DEF Surjection
  <2>2. rank(r) \in Int BY <1>1
  <2>3. rank(r) = i - 1
    <3>1. rank(r) + 1 = i BY <2>1
    <3> HIDE DEF rank
    <3> QED BY <2>2, <3>1
  <2>4. B[i] = CHOOSE x \in S : rank(x) = i - 1 BY DEF ByTime, Before
  <2> HIDE DEF rank, B
  <2> QED BY <2>3, <2>4
<1>10. DOMAIN B = 1..n BY DEF ByTime
<1>11. B \in Seq(S) /\ Len(B) = n
  <2> DEFINE at(i) == CHOOSE r \in S : Cardinality({x \in S : x.t < r.t}) = i - 1
  <2>0. B = [i \in 1..n |-> at(i)] BY DEF ByTime
  <2>1. B = [i \in 1..n |-> B[i]]
    <3> HIDE DEF B, n, at
    <3> QED BY <2>0
  <2>2. \A i \in 1..n : B[i] \in S BY <1>9
  <2> HIDE DEF B, n
  <2>3. B \in [1..n -> S] BY <2>1, <2>2
  <2>4. B \in Seq(S) BY <1>0, <2>3
  <2> QED BY <1>0, <1>10, <2>4
<1>12. ASSUME NEW r \in S PROVE r \in ToSet(B)
  <2> DEFINE i == F[r]
  <2>1. i \in 1..n BY <1>4
  <2>2. B[i] \in S /\ rank(B[i]) = i - 1 BY <1>9, <2>1
  <2>3. rank(r) = i - 1
    <3>1. rank(r) \in Int BY <1>1
    <3>2. i = rank(r) + 1 OBVIOUS
    <3> HIDE DEF rank, i
    <3> QED BY <3>1, <3>2
  <2>4. B[i] = r BY <1>3, <2>2, <2>3
  <2> HIDE DEF B, i
  <2> QED BY <1>10, <2>1, <2>4 DEF ToSet
<1>13. ToSet(B) = S
  <2>1. ToSet(B) \subseteq S
    <3>1. \A i \in DOMAIN B : B[i] \in S BY <1>9, <1>10
    <3> HIDE DEF B
    <3> QED BY <3>1 DEF ToSet
  <2>2. S \subseteq ToSet(B) BY <1>12
  <2> QED BY <2>1, <2>2
<1>14. ASSUME NEW i \in 1..n, NEW j \in 1..n, i < j PROVE B[i].t < B[j].t
  <2>1. B[i] \in S /\ rank(B[i]) = i - 1 /\ B[j] \in S /\ rank(B[j]) = j - 1 BY <1>9
  <2>2. rank(B[i]) < rank(B[j])
    <3> HIDE DEF rank, B
    <3> QED BY <1>14, <2>1
  <2> HIDE DEF B
  <2>3. B[i].t \in Int /\ B[j].t \in Int BY <1>0, <2>1
  <2>4. ~(B[j].t < B[i].t)
    <3>1. ASSUME B[j].t < B[i].t PROVE FALSE
      <4>1. rank(B[j]) < rank(B[i]) BY <1>2, <2>1, <3>1
      <4>2. rank(B[i]) \in Int /\ rank(B[j]) \in Int BY <1>1, <2>1
      <4> HIDE DEF rank
      <4> QED BY <2>2, <4>1, <4>2
    <3> QED BY <3>1
  <2>5. B[i].t # B[j].t
    <3>1. ASSUME B[i].t = B[j].t PROVE FALSE
      <4>1. B[i] = B[j] BY <1>0, <2>1, <3>1
      <4>2. rank(B[i]) \in Int BY <1>1, <2>1
      <4>3. rank(B[i]) = rank(B[j]) BY <4>1
      <4> HIDE DEF rank
      <4> QED BY <2>2, <4>2, <4>3
    <3> QED BY <3>1
  <2> QED BY <2>3, <2>4, <2>5
<1> HIDE DEF B, n
<1>15. Ascends(B) BY <1>11, <1>14 DEF Ascends
<1>16. InTime(B, S) BY <1>0, <1>11, <1>13, <1>15 DEF InTime, n
<1> QED BY <1>16 DEF B

LEMMA ElementsFinite ==
    ASSUME NEW X, NEW rows \in Seq(X)
    PROVE  /\ IsFiniteSet(ToSet(rows)) /\ ToSet(rows) \subseteq X
           /\ DOMAIN rows = 1..Len(rows) /\ Len(rows) \in Nat
           /\ \A i \in 1..Len(rows) : rows[i] \in X /\ rows[i] \in ToSet(rows)
<1>1. DOMAIN rows = 1..Len(rows) /\ Len(rows) \in Nat OBVIOUS
<1>2. \A i \in 1..Len(rows) : rows[i] \in X /\ rows[i] \in ToSet(rows) BY <1>1, ElementOfSeq DEF ToSet
<1>3. rows = [i \in 1..Len(rows) |-> rows[i]] BY <1>1
<1>4. rows \in [1..Len(rows) -> ToSet(rows)] BY <1>2, <1>3
<1>5. rows \in Surjection(1..Len(rows), ToSet(rows)) BY <1>1, <1>4 DEF Surjection, ToSet
<1>6. IsFiniteSet(1..Len(rows)) BY <1>1, FS_Interval
<1>7. IsFiniteSet(ToSet(rows)) BY <1>5, <1>6, FS_Surjection
<1>8. ToSet(rows) \subseteq X BY <1>1, <1>2 DEF ToSet
<1> QED BY <1>1, <1>2, <1>7, <1>8

\* What is picked keeps its order.
LEMMA OnlyAscends ==
    ASSUME NEW X, NEW rows \in Seq(X), Ascends(rows), NEW S
    PROVE  Only(rows, S) \in Seq(X) /\ ToSet(Only(rows, S)) = ToSet(rows) \cap S /\ Ascends(Only(rows, S))
<1> DEFINE out == Only(rows, S)
<1>1. PICK e : PicksTo(e, out, rows, S, Len(rows)) BY OnlyIs
<1>2. out \in Seq(X) BY OnlyIs
<1>3. ToSet(out) = ToSet(rows) \cap S BY OnlySet
<1> HIDE DEF out
<1>4. ASSUME NEW i \in 1..Len(out), NEW j \in 1..Len(out), i < j PROVE out[i].t < out[j].t
  <2>1. /\ e[i] \in 1..Len(rows) /\ e[j] \in 1..Len(rows) /\ e[i] < e[j]
        /\ out[i] = rows[e[i]] /\ out[j] = rows[e[j]]
    BY <1>1, <1>4 DEF PicksTo
  <2> QED BY <2>1 DEF Ascends
<1>5. Ascends(out) BY <1>4 DEF Ascends
<1> QED BY <1>2, <1>3, <1>5 DEF out

-----------------------------------------------------------------------------
(* What is known of the rows and of the last poll *)

AnyStatus == Statuses \cup {"standby", None}
TraceRows == [t : Nat, s : AnyStatus, v : Values \cup {None}]
Polls == [s : AnyStatus, v : Values \cup {None}, at : Nat \cup {None}, online : BOOLEAN \cup {None}]

\* Rows of the kind of the chart, of no later time than the given one.
RowsUpTo(latest) == {r \in TraceRows : r.t <= latest /\ (kindOf # "telemetry" => r.s \in Statuses)}

Descends(rows) == \A i, j \in 1..Len(rows) : i < j => rows[j].t < rows[i].t

TracesTypeOK ==
    /\ time \in Nat
    /\ range \in [length : Windows, chosen : Nat]
    /\ history \in Seq(RowsUpTo(time)) /\ fetched \in Seq(RowsUpTo(time))
    /\ live \in Polls /\ (kindOf # "telemetry" => live.s \in Statuses \cup {None})

TracesInv ==
    /\ TracesTypeOK
    /\ Ascends(history)
    /\ IF kindOf = "machine" THEN Descends(fetched) ELSE Ascends(fetched)
    /\ kindOf = "machine" /\ live.s = None /\ live.online # None => live.online = FALSE

LEMMA TracesInitInv == TracesInit => TracesInv
<1> SUFFICES ASSUME TracesInit PROVE TracesInv OBVIOUS
<1>1. range \in [length : Windows, chosen : Nat]
  <2>1. (CHOOSE w \in Windows : TRUE) \in Windows BY TracesAssumption
  <2> QED BY <2>1 DEF TracesInit
<1>2. <<>> \in Seq(RowsUpTo(time)) /\ Len(<<>>) = 0 OBVIOUS
<1>3. live \in Polls BY DEF TracesInit, Polls, AnyStatus
<1>4. TracesTypeOK BY <1>1, <1>2, <1>3 DEF TracesInit, TracesTypeOK
<1>5. Ascends(<<>>) /\ Descends(<<>>) BY <1>2 DEF Ascends, Descends
<1> QED BY <1>4, <1>5 DEF TracesInit, TracesInv

LEMMA ReverseIs ==
    ASSUME NEW X, NEW rows \in Seq(X), Ascends(rows)
    PROVE  Reverse(rows) \in Seq(X) /\ Descends(Reverse(rows))
<1> DEFINE n == Len(rows)
           R == Reverse(rows)
<1>1. n \in Nat /\ \A i \in 1..n : rows[i] \in X BY ElementOfSeq
<1>2. \A i \in 1..n : n - i + 1 \in 1..n BY <1>1
<1>3. R = [i \in 1..n |-> rows[n - i + 1]] BY DEF Reverse
<1>4. R \in [1..n -> X] BY <1>1, <1>2, <1>3
<1>5. R \in Seq(X) /\ Len(R) = n BY <1>1, <1>4, <1>3
<1> HIDE DEF R, n
<1>6. ASSUME NEW i \in 1..n, NEW j \in 1..n, i < j PROVE R[j].t < R[i].t
  <2>1. n - i + 1 \in 1..n /\ n - j + 1 \in 1..n /\ n - j + 1 < n - i + 1 BY <1>1, <1>6
  <2>2. rows[n - j + 1].t < rows[n - i + 1].t BY <2>1 DEF Ascends, n
  <2> QED BY <1>3, <2>2
<1>7. Descends(R) BY <1>5, <1>6 DEF Descends
<1> QED BY <1>5, <1>7 DEF R

LEMMA RecordKeeps ==
    ASSUME TracesInv, Record PROVE TracesInv'
<1> DEFINE X == RowsUpTo(time)
<1>1. /\ history \in Seq(X) /\ Ascends(history) /\ time \in Nat
      /\ LastTime(history) < time
      /\ UNCHANGED <<fetched, live, time, range, kindOf>>
  BY DEF TracesInv, TracesTypeOK, Record
<1>2. PICK s \in IF kindOf = "telemetry" THEN {"standby"} ELSE Statuses,
           v \in IF kindOf = "telemetry" THEN Values ELSE {None} :
             history' = Append(history, [t |-> time, s |-> s, v |-> v])
  BY DEF Record
<1> DEFINE r == [t |-> time, s |-> s, v |-> v]
           n == Len(history)
<1>3. r \in X
  <2>1. s \in AnyStatus /\ v \in Values \cup {None} BY DEF AnyStatus
  <2>2. r \in TraceRows BY <1>1, <2>1 DEF TraceRows
  <2>3. kindOf # "telemetry" => s \in Statuses OBVIOUS
  <2> QED BY <1>1, <2>2, <2>3 DEF RowsUpTo
<1>4. X' = X BY <1>1 DEF RowsUpTo
<1>5. /\ history' \in Seq(X) /\ Len(history') = n + 1 /\ n \in Nat
      /\ \A i \in 1..n : history'[i] = history[i]
      /\ history'[n + 1] = r
  <2> HIDE DEF X, r
  <2> QED BY <1>1, <1>2, <1>3, AppendProperties DEF r
<1>6. \A i \in 1..n : history[i] \in X BY <1>1, ElementOfSeq
<1>7. ASSUME NEW i \in 1..n PROVE history[i].t < time
  <2>1. history # <<>> /\ LastTime(history) = history[n].t /\ n \in 1..n BY <1>1, <1>5 DEF LastTime
  <2>2. history[i].t \in Nat /\ history[n].t \in Nat BY <1>6, <2>1 DEF RowsUpTo, TraceRows
  <2>3. i = n \/ history[i].t < history[n].t BY <1>1, <1>5, <2>1 DEF Ascends
  <2> QED BY <1>1, <2>1, <2>2, <2>3
<1>8. Ascends(history')
  <2> SUFFICES ASSUME NEW i \in 1..(n + 1), NEW j \in 1..(n + 1), i < j
               PROVE  history'[i].t < history'[j].t
    BY <1>5 DEF Ascends
  <2>1. i \in 1..n /\ history'[i] = history[i] BY <1>5
  <2>2. CASE j = n + 1
    <3>1. history'[j].t = time BY <1>5, <2>2
    <3> QED BY <1>7, <2>1, <3>1
  <2>3. CASE j # n + 1
    <3>1. j \in 1..n /\ history'[j] = history[j] BY <1>5, <2>3
    <3> QED BY <1>1, <2>1, <3>1 DEF Ascends
  <2> QED BY <2>2, <2>3
<1> HIDE DEF X
<1>9. TracesTypeOK'
  <2>1. X' = RowsUpTo(time)' BY DEF X
  <2> QED BY <1>1, <1>4, <1>5, <2>1 DEF TracesInv, TracesTypeOK, X
<1>10. (IF kindOf = "machine" THEN Descends(fetched) ELSE Ascends(fetched))'
  BY <1>1 DEF TracesInv, Ascends, Descends
<1> QED BY <1>1, <1>8, <1>9, <1>10 DEF TracesInv

LEMMA FetchedKeeps ==
    ASSUME TracesInv, Fetched PROVE TracesInv'
<1> DEFINE X == RowsUpTo(time)
           S == {r \in ToSet(history) : r.t >= start}
           rows == Only(history, S)
<1>1. /\ history \in Seq(X) /\ Ascends(history)
      /\ UNCHANGED <<history, live, time, range, kindOf>>
  BY DEF TracesInv, TracesTypeOK, Fetched
<1>2. fetched' = IF kindOf = "machine" THEN Reverse(rows) ELSE rows BY DEF Fetched
<1>3. X' = X BY <1>1 DEF RowsUpTo
<1> HIDE DEF X, S
<1>4. rows \in Seq(X) /\ Ascends(rows) BY <1>1, OnlyAscends
<1> HIDE DEF rows
<1>5. Reverse(rows) \in Seq(X) /\ Descends(Reverse(rows)) BY <1>4, ReverseIs
<1>6. /\ fetched' \in Seq(X)
      /\ IF kindOf = "machine" THEN Descends(fetched') ELSE Ascends(fetched')
  BY <1>2, <1>4, <1>5
<1>7. TracesTypeOK' BY <1>1, <1>3, <1>6 DEF TracesInv, TracesTypeOK, X
<1>8. Ascends(history)' BY <1>1 DEF Ascends
<1>9. (IF kindOf = "machine" THEN Descends(fetched) ELSE Ascends(fetched))'
  BY <1>1, <1>6 DEF Descends, Ascends
<1> QED BY <1>1, <1>7, <1>8, <1>9 DEF TracesInv

\* The rows stay and no time is lost.
LEMMA RowsStay ==
    ASSUME TracesInv, UNCHANGED <<history, fetched, kindOf>>, time' \in Nat, time <= time'
    PROVE  /\ history' \in Seq(RowsUpTo(time')) /\ fetched' \in Seq(RowsUpTo(time'))
           /\ RowsUpTo(time') = RowsUpTo(time)'
           /\ Ascends(history)'
           /\ (IF kindOf = "machine" THEN Descends(fetched) ELSE Ascends(fetched))'
<1>1. RowsUpTo(time) \subseteq RowsUpTo(time')
  <2> SUFFICES ASSUME NEW r \in TraceRows, r.t <= time PROVE r.t <= time' BY DEF RowsUpTo
  <2> QED BY DEF TraceRows, TracesInv, TracesTypeOK
<1>2. history \in Seq(RowsUpTo(time)) /\ fetched \in Seq(RowsUpTo(time)) BY DEF TracesInv, TracesTypeOK
<1>3. Seq(RowsUpTo(time)) \subseteq Seq(RowsUpTo(time'))
  <2> DEFINE X == RowsUpTo(time)
             Y == RowsUpTo(time')
  <2>1. X \subseteq Y BY <1>1
  <2> HIDE DEF X, Y
  <2>2. Seq(X) \subseteq Seq(Y) BY <2>1
  <2> QED BY <2>2 DEF X, Y
<1>4. RowsUpTo(time') = RowsUpTo(time)' BY DEF RowsUpTo
<1>5. Ascends(history)' BY DEF TracesInv, Ascends
<1>6. (IF kindOf = "machine" THEN Descends(fetched) ELSE Ascends(fetched))'
  BY DEF TracesInv, Ascends, Descends
<1>7. history' = history /\ fetched' = fetched OBVIOUS
<1> QED BY <1>2, <1>3, <1>4, <1>5, <1>6, <1>7

LEMMA TracesStep == TracesInv /\ [TracesNext]_traceVars => TracesInv'
<1> SUFFICES ASSUME TracesInv, [TracesNext]_traceVars PROVE TracesInv' OBVIOUS
<1>0. /\ time \in Nat /\ range \in [length : Windows, chosen : Nat]
      /\ live \in Polls /\ (kindOf # "telemetry" => live.s \in Statuses \cup {None})
  BY DEF TracesInv, TracesTypeOK
<1>1. CASE Record BY <1>1, RecordKeeps
<1>2. CASE Fetched BY <1>2, FetchedKeeps
<1>3. CASE Polled
  <2>1. UNCHANGED <<history, fetched, time, range, kindOf>> BY <1>3 DEF Polled
  <2>2. PICK s \in IF kindOf = "telemetry" THEN {"standby"} ELSE Statuses,
             v \in IF kindOf = "telemetry" THEN Values ELSE {None} :
               live' = [s |-> s, v |-> v, at |-> time, online |-> TRUE]
    BY <1>3 DEF Polled
  <2>3. s \in AnyStatus /\ v \in Values \cup {None} /\ (kindOf # "telemetry" => s \in Statuses)
    BY DEF AnyStatus
  <2>4. live' \in Polls BY <1>0, <2>2, <2>3 DEF Polls
  <2>5. live'.s = s /\ live'.online = TRUE BY <2>2
  <2>6. TracesTypeOK' BY <1>0, <2>1, <2>3, <2>4, <2>5, RowsStay DEF TracesTypeOK
  <2>7. kindOf = "machine" => live'.s # None BY <2>2, <2>5, TracesAssumption
  <2> QED BY <1>0, <2>1, <2>6, <2>7, RowsStay DEF TracesInv
<1>4. CASE PollFailed
  <2>1. live' = [live EXCEPT !.online = FALSE] /\ UNCHANGED <<history, fetched, time, range, kindOf>>
    BY <1>4 DEF PollFailed
  <2>2. live' \in Polls /\ live'.s = live.s /\ live'.online = FALSE BY <1>0, <2>1 DEF Polls
  <2>3. TracesTypeOK' BY <1>0, <2>1, <2>2, RowsStay DEF TracesTypeOK
  <2> QED BY <1>0, <2>1, <2>2, <2>3, RowsStay DEF TracesInv
<1>5. CASE setTimeRange
  <2>1. UNCHANGED <<history, fetched, live, time, kindOf>> BY <1>5 DEF setTimeRange
  <2>2. range' \in [length : Windows, chosen : Nat] BY <1>0, <1>5 DEF setTimeRange
  <2>3. TracesTypeOK' BY <1>0, <2>1, <2>2, RowsStay DEF TracesTypeOK
  <2> QED BY <1>0, <2>1, <2>3, RowsStay DEF TracesInv
<1>6. CASE Later
  <2>1. time' = time + 1 /\ UNCHANGED <<history, fetched, live, range, kindOf>> BY <1>6 DEF Later
  <2>2. time' \in Nat /\ time <= time' BY <1>0, <2>1
  <2>3. TracesTypeOK' BY <1>0, <2>1, <2>2, RowsStay DEF TracesTypeOK
  <2> QED BY <2>1, <2>2, <2>3, RowsStay DEF TracesInv
<1>7. CASE UNCHANGED traceVars
  <2>1. UNCHANGED <<history, fetched, live, time, range, kindOf>> BY <1>7 DEF traceVars
  <2>2. TracesTypeOK' BY <1>0, <2>1, RowsStay DEF TracesTypeOK
  <2> QED BY <1>0, <2>1, <2>2, RowsStay DEF TracesInv
<1> QED BY <1>1, <1>2, <1>3, <1>4, <1>5, <1>6, <1>7 DEF TracesNext

-----------------------------------------------------------------------------
(* The pie *)

EventRows == {r \in TraceRows : r.s \in Statuses}
Pies == [ms : [Statuses -> Int], s : AnyStatus, from : Int]
PieOf(a0, rows) == FoldLeft(LAMBDA acc, r : Counted(acc, r.s, r.t), a0, rows)

LEMMA CountedType ==
    ASSUME NEW acc \in Pies, NEW r \in EventRows
    PROVE  Counted(acc, r.s, r.t) \in Pies
<1>1. r.t \in Int /\ r.s \in AnyStatus BY DEF EventRows, TraceRows
<1>2. acc.ms \in [Statuses -> Int] /\ acc.from \in Int BY DEF Pies
<1>3. [acc.ms EXCEPT ![acc.s] = @ + r.t - acc.from] \in [Statuses -> Int]
  <2>1. acc.s \in Statuses => acc.ms[acc.s] + r.t - acc.from \in Int BY <1>1, <1>2
  <2> DEFINE k == acc.ms[acc.s] + r.t - acc.from
  <2>2. acc.s \in Statuses => k \in Int BY <2>1
  <2>3. [acc.ms EXCEPT ![acc.s] = @ + r.t - acc.from] = [acc.ms EXCEPT ![acc.s] = k]
    BY <1>2
  <2> HIDE DEF k
  <2>4. [acc.ms EXCEPT ![acc.s] = k] \in [Statuses -> Int] BY <1>2, <2>2
  <2> QED BY <2>3, <2>4
<1> QED BY <1>1, <1>2, <1>3 DEF Counted, Pies

\* The loop over the events.
PieRun(f, a0, rows) ==
    /\ f[0] = a0
    /\ \A i \in 1..Len(rows) : f[i] = Counted(f[i - 1], rows[i].s, rows[i].t)
    /\ f[Len(rows)] = PieOf(a0, rows)

LEMMA PieRuns ==
    ASSUME NEW a0 \in Pies, NEW rows \in Seq(EventRows)
    PROVE  \E f \in [0..Len(rows) -> Pies] :
             PieRun(f, a0, rows)
<1> DEFINE n == Len(rows)
           g == [w \in Pies \X (1..n) |-> Counted(w[1], rows[w[2]].s, rows[w[2]].t)]
           step(d) == [t \in SUBSET DOMAIN rows |->
                         IF t = {} THEN a0
                         ELSE LET x == Max(t) IN Counted(d[t \ {x}], rows[x].s, rows[x].t)]
           it == CHOOSE d : d = step(d)
<1>1. PieOf(a0, rows) = it[DOMAIN rows]
  BY DEF PieOf, FoldLeft, MapThenFoldSet
<1>2. n \in Nat /\ DOMAIN rows = 1..n /\ a0 \in Pies OBVIOUS
<1>3. g \in [Pies \X (1..n) -> Pies]
  <2> SUFFICES ASSUME NEW v \in Pies, NEW i \in 1..n PROVE g[<<v, i>>] \in Pies OBVIOUS
  <2>1. i \in 1..Len(rows) OBVIOUS
  <2>2. rows[i] \in EventRows BY <2>1, ElementOfSeq
  <2>3. Counted(v, rows[i].s, rows[i].t) \in Pies BY <2>2, CountedType
  <2> QED BY <2>3
<1>4. PICK h : FoldOf(h, n, Pies, a0, g)
  <2> HIDE DEF g, n
  <2> QED BY <1>2, <1>3, FoldExists
<1>5. h = step(h)
  <2>1. ASSUME NEW t \in SUBSET (1..n) PROVE h[t] = step(h)[t]
    <3>1. CASE t = {} BY <1>2, <1>4, <3>1 DEF FoldOf
    <3>2. CASE t # {}
      <4>1. Max(t) \in 1..n BY <1>2, <3>2, MaxUpTo
      <4>2. h[t \ {Max(t)}] \in Pies BY <1>4 DEF FoldOf
      <4>3. h[t] = g[<<h[t \ {Max(t)}], Max(t)>>] BY <1>4, <3>2 DEF FoldOf
      <4> QED BY <1>2, <3>2, <4>1, <4>2, <4>3
    <3> QED BY <3>1, <3>2
  <2>2. h \in [SUBSET (1..n) -> Pies] BY <1>4 DEF FoldOf
  <2>3. step(h) = [t \in SUBSET (1..n) |-> step(h)[t]] BY <1>2
  <2> HIDE DEF step, g, n
  <2> QED BY <2>1, <2>2, <2>3
<1>6. it = step(it)
  <2> HIDE DEF step
  <2> QED BY <1>5
<1> HIDE DEF it
<1>7. it[{}] = a0 BY <1>2, <1>6
<1>8. ASSUME NEW t \in SUBSET (1..n), t # {}, it[t \ {Max(t)}] \in Pies
      PROVE  it[t] = g[<<it[t \ {Max(t)}], Max(t)>>]
  <2>1. Max(t) \in 1..n BY <1>2, <1>8, MaxUpTo
  <2>2. it[t] = step(it)[t] BY <1>6
  <2> QED BY <1>2, <1>8, <2>1, <2>2
<1>9. RunOf(PartialFolds(it, n), n, Pies, a0, g)
  <2> HIDE DEF g, n
  <2>1. Folds(it, n, Pies, a0, g) BY <1>7, <1>8 DEF Folds
  <2> QED BY <1>2, <1>3, <2>1, FoldRuns
<1> DEFINE f == PartialFolds(it, n)
<1> HIDE DEF f
<1>10. f \in [0..n -> Pies] /\ f[0] = a0 BY <1>9 DEF RunOf, f
<1>11. ASSUME NEW i \in 1..n PROVE f[i] = Counted(f[i - 1], rows[i].s, rows[i].t)
  <2>1. i - 1 \in 0..n OBVIOUS
  <2>2. f[i - 1] \in Pies BY <1>10, <2>1
  <2>3. f[i] = g[<<f[i - 1], i>>] BY <1>9 DEF RunOf, f
  <2> QED BY <2>2, <2>3
<1>12. f[n] = PieOf(a0, rows) BY <1>1, <1>2 DEF f, PartialFolds
<1> QED BY <1>10, <1>11, <1>12 DEF PieRun

\* One round: the time goes to the status that was active.
Counts(acc, s, t, c) ==
    /\ c.ms \in [Statuses -> Nat] /\ c.s = s /\ c.from = t
    /\ c.ms[acc.s] = acc.ms[acc.s] + (t - acc.from)
    /\ TotalOf(c.ms, Statuses) = TotalOf(acc.ms, Statuses) + (t - acc.from)
    /\ \A x \in Statuses : c.ms[x] >= acc.ms[x]

LEMMA CountedIs ==
    ASSUME NEW acc, acc.ms \in [Statuses -> Nat], acc.s \in Statuses, acc.from \in Int,
           NEW s, NEW t \in Int, acc.from <= t
    PROVE  Counts(acc, s, t, Counted(acc, s, t))
<1> DEFINE k == t - acc.from
           c == Counted(acc, s, t)
           ms == acc.ms
           y == acc.s
<1>1. c.s = s /\ c.from = t BY DEF Counted
<1>2. k \in Nat OBVIOUS
<1>3. c.ms = IF t > acc.from THEN [ms EXCEPT ![y] = @ + t - acc.from] ELSE ms BY DEF Counted
<1>4. \A i \in Int : i + t - acc.from = i + k OBVIOUS
<1>5. ms[y] \in Int OBVIOUS
<1>6. CASE t > acc.from
  <2>1. [ms EXCEPT ![y] = @ + t - acc.from] = [ms EXCEPT ![y] = @ + k] BY <1>5
  <2>2. c.ms = [ms EXCEPT ![y] = @ + k] BY <1>3, <1>6, <2>1
  <2>3. ms \in [Statuses -> Int] /\ k \in Int /\ y \in Statuses BY <1>2
  <2>4. TotalOf(c.ms, Statuses) = TotalOf(ms, Statuses) + k
    <3>1. c.ms[y] = ms[y] + k /\ \A x \in Statuses : x # y => c.ms[x] = ms[x] BY <2>2
    <3>2. \A x \in Statuses : ms[x] \in Int BY <2>3
    <3>3. IsFiniteSet(Statuses) BY TracesAssumption
    <3> DEFINE d == c.ms
    <3>4. d[y] = ms[y] + k /\ \A x \in Statuses : x # y => d[x] = ms[x] BY <3>1
    <3> HIDE DEF ms, y, k, d
    <3>5. TotalOf(d, Statuses) = TotalOf(ms, Statuses) + k BY <2>3, <3>2, <3>3, <3>4, TotalUpdate
    <3> QED BY <3>5 DEF d
  <2>5. c.ms[y] = ms[y] + k BY <2>2
  <2>6. \A x \in Statuses : c.ms[x] \in Nat /\ c.ms[x] >= ms[x] BY <1>2, <2>2
  <2>7. c.ms \in [Statuses -> Nat] BY <2>2, <2>6
  <2> QED BY <1>1, <2>4, <2>5, <2>6, <2>7 DEF Counts
<1>7. CASE ~(t > acc.from)
  <2>1. c.ms = ms /\ k = 0 BY <1>3, <1>7
  <2>2. TotalOf(ms, Statuses) \in Int
    <3>1. \A x \in Statuses : ms[x] \in Int OBVIOUS
    <3> HIDE DEF ms
    <3> QED BY <3>1, TotalType, TracesAssumption
  <2>3. TotalOf(c.ms, Statuses) = TotalOf(ms, Statuses) + k BY <2>1, <2>2
  <2> QED BY <1>1, <2>1, <2>3 DEF Counts
<1> QED BY <1>6, <1>7

\* Between one event and the next.
Gaps(rows) == [i \in 1..(Len(rows) - 1) |-> rows[i + 1].t - rows[i].t]
GapsOf(rows, s, n) == {i \in 1..n : rows[i].s = s}

\* The rows of the window, from the earliest.
Windowed(rows) ==
    /\ rows \in Seq(EventRows) /\ Ascends(rows)
    /\ \A i \in 1..Len(rows) : rows[i].t \in start..time

\* What has been counted after n events.
Counting(acc, rows, n) ==
    /\ acc.ms \in [Statuses -> Nat]
    /\ acc.from = IF n = 0 THEN start ELSE rows[n].t
    /\ n > 0 => acc.s = rows[n].s
    /\ TotalOf(acc.ms, Statuses) = acc.from - start
    /\ \A s \in Statuses : acc.ms[s] >= TotalOf(Gaps(rows), GapsOf(rows, s, n - 1))

LEMMA GapsType ==
    ASSUME NEW rows, Windowed(rows), start \in Int, time \in Int
    PROVE  /\ \A i \in 1..(Len(rows) - 1) : Gaps(rows)[i] \in Nat
           /\ Len(rows) \in Nat
           /\ \A i \in 1..Len(rows) : rows[i] \in EventRows /\ rows[i].t \in Int /\ rows[i].s \in Statuses
<1>1. /\ Len(rows) \in Nat
      /\ \A i \in 1..Len(rows) : rows[i] \in EventRows /\ rows[i].t \in Int /\ rows[i].s \in Statuses
  BY ElementOfSeq DEF Windowed, EventRows, TraceRows
<1>2. ASSUME NEW i \in 1..(Len(rows) - 1) PROVE Gaps(rows)[i] \in Nat
  <2>1. i \in 1..Len(rows) /\ i + 1 \in 1..Len(rows) /\ i < i + 1 BY <1>1
  <2>2. rows[i].t < rows[i + 1].t BY <2>1 DEF Windowed, Ascends
  <2>3. rows[i].t \in Int /\ rows[i + 1].t \in Int BY <1>1, <2>1
  <2> QED BY <2>2, <2>3 DEF Gaps
<1> QED BY <1>1, <1>2

LEMMA CountingGoes ==
    ASSUME NEW rows, Windowed(rows), start \in Int, time \in Int,
           NEW i \in 1..Len(rows), NEW acc, Counting(acc, rows, i - 1), acc.s \in Statuses
    PROVE  Counting(Counted(acc, rows[i].s, rows[i].t), rows, i)
<1> DEFINE c == Counted(acc, rows[i].s, rows[i].t)
           G == Gaps(rows)
<1>1. /\ Len(rows) \in Nat /\ i \in Nat /\ i - 1 \in Nat
      /\ \A j \in 1..Len(rows) : rows[j].t \in Int /\ rows[j].s \in Statuses
      /\ \A j \in 1..(Len(rows) - 1) : G[j] \in Nat
  BY GapsType
<1>2. acc.ms \in [Statuses -> Nat] BY DEF Counting
<1>3. acc.from \in Int /\ acc.from <= rows[i].t
  <2>1. CASE i - 1 = 0 BY <1>1, <2>1 DEF Counting, Windowed
  <2>2. CASE i - 1 # 0
    <3>1. i - 1 \in 1..Len(rows) /\ i - 1 < i BY <1>1, <2>2
    <3>2. acc.from = rows[i - 1].t BY <2>2 DEF Counting
    <3>3. rows[i - 1].t < rows[i].t BY <3>1 DEF Windowed, Ascends
    <3>4. rows[i - 1].t \in Int /\ rows[i].t \in Int BY <1>1, <3>1
    <3> QED BY <3>2, <3>3, <3>4
  <2> QED BY <2>1, <2>2
<1>4. rows[i].t \in Int BY <1>1
<1>5. Counts(acc, rows[i].s, rows[i].t, c) BY <1>2, <1>3, <1>4, CountedIs
<1> HIDE DEF c
<1>6. TotalOf(c.ms, Statuses) = c.from - start
  <2>1. TotalOf(acc.ms, Statuses) = acc.from - start BY DEF Counting
  <2>2. TotalOf(c.ms, Statuses) = TotalOf(acc.ms, Statuses) + (rows[i].t - acc.from) /\ c.from = rows[i].t
    BY <1>5 DEF Counts
  <2> QED BY <1>3, <1>4, <2>1, <2>2
<1>7. ASSUME NEW s \in Statuses PROVE c.ms[s] >= TotalOf(G, GapsOf(rows, s, i - 1))
  <2> DEFINE U == GapsOf(rows, s, i - 1)
             P == GapsOf(rows, s, i - 2)
  <2>1. U \in SUBSET (1..(i - 1)) /\ P \in SUBSET (1..(i - 2)) BY DEF GapsOf
  <2>2. IsFiniteSet(U) /\ IsFiniteSet(P)
    <3>1. IsFiniteSet(1..(i - 1)) /\ IsFiniteSet(1..(i - 2)) BY <1>1, FS_Interval
    <3> HIDE DEF U, P
    <3> QED BY <2>1, <3>1, FS_Subset
  <2>3. \A j \in U : G[j] \in Nat /\ G[j] \in Int BY <1>1, <2>1
  <2>4. acc.ms[s] >= TotalOf(G, P)
    <3>1. (i - 1) - 1 = i - 2 BY <1>1
    <3> QED BY <3>1 DEF Counting
  <2>5. /\ acc.ms[s] \in Nat /\ c.ms[s] \in Nat /\ c.ms[s] >= acc.ms[s]
    BY <1>2, <1>5 DEF Counts
  <2>6. CASE i - 1 \in U
    <3>1. i - 1 \in 1..(i - 1) /\ rows[i - 1].s = s BY <2>6 DEF GapsOf
    <3>2. U \ {i - 1} = P BY <1>1 DEF GapsOf
    <3>3. TotalOf(G, U) = G[i - 1] + TotalOf(G, P) /\ TotalOf(G, P) \in Int
      <4> HIDE DEF G, U, P
      <4> QED BY <2>2, <2>3, <2>6, <3>2, TotalSplits
    <3>4. acc.s = s /\ acc.from = rows[i - 1].t BY <1>1, <3>1 DEF Counting
    <3>5. G[i - 1] = rows[i].t - acc.from
      <4>1. i - 1 \in 1..(Len(rows) - 1) /\ (i - 1) + 1 = i BY <1>1, <3>1
      <4> QED BY <3>4, <4>1 DEF Gaps
    <3>6. c.ms[s] = acc.ms[s] + (rows[i].t - acc.from) BY <1>5, <3>4 DEF Counts
    <3> DEFINE a == acc.ms[s]
               b == c.ms[s]
               k == rows[i].t - acc.from
               p == TotalOf(G, P)
    <3>7. a \in Int /\ k \in Int /\ p \in Int /\ a >= p BY <1>3, <1>4, <2>4, <2>5, <3>3
    <3>8. b = a + k /\ TotalOf(G, U) = k + p BY <3>3, <3>5, <3>6
    <3> HIDE DEF a, b, k, p, U
    <3>9. b >= TotalOf(G, U) BY <3>7, <3>8
    <3> QED BY <3>9 DEF b, U
  <2>7. CASE i - 1 \notin U
    <3>1. U = P
      <4>1. U \subseteq P
        <5> SUFFICES ASSUME NEW j \in U PROVE j \in P OBVIOUS
        <5>1. j \in 1..(i - 1) /\ j # i - 1 /\ rows[j].s = s BY <2>7 DEF GapsOf
        <5>2. j \in 1..(i - 2) BY <1>1, <5>1
        <5> QED BY <5>1, <5>2 DEF GapsOf
      <4>2. P \subseteq U BY <1>1 DEF GapsOf
      <4> QED BY <4>1, <4>2
    <3>2. TotalOf(G, P) \in Int
      <4>1. \A j \in P : G[j] \in Int BY <2>3, <3>1
      <4> HIDE DEF G, P
      <4> QED BY <2>2, <4>1, TotalType
    <3>3. TotalOf(G, U) = TotalOf(G, P) BY <3>1
    <3> DEFINE a == acc.ms[s]
               b == c.ms[s]
               p == TotalOf(G, P)
               u == TotalOf(G, U)
    <3>4. a \in Int /\ b \in Int /\ p \in Int /\ a >= p /\ b >= a /\ u = p BY <2>4, <2>5, <3>2, <3>3
    <3> HIDE DEF a, b, p, u
    <3>5. b >= u BY <3>4
    <3> QED BY <3>5 DEF b, u
  <2> QED BY <2>6, <2>7
<1>8. /\ c.ms \in [Statuses -> Nat] /\ c.s = rows[i].s /\ c.from = rows[i].t BY <1>5 DEF Counts
<1>9. i # 0 BY <1>1
<1>10. Counting(c, rows, i) BY <1>6, <1>7, <1>8, <1>9 DEF Counting
<1> QED BY <1>10 DEF c

\* What the loop leaves.
LEMMA PieLoop ==
    ASSUME NEW rows, Windowed(rows), start \in Int, time \in Int,
           NEW a0 \in Pies, a0.ms = [s \in Statuses |-> 0], a0.from = start,
           Len(rows) > 0 => a0.s \in Statuses
    PROVE  Counting(PieOf(a0, rows), rows, Len(rows)) /\ PieOf(a0, rows).s = IF rows = <<>> THEN a0.s ELSE rows[Len(rows)].s
<1> DEFINE n == Len(rows)
<1>1. PICK f \in [0..n -> Pies] : PieRun(f, a0, rows) BY PieRuns DEF Windowed
<1>2. /\ f[0] = a0
      /\ \A i \in 1..n : f[i] = Counted(f[i - 1], rows[i].s, rows[i].t)
      /\ f[n] = PieOf(a0, rows)
  BY <1>1 DEF PieRun
<1>3. /\ n \in Nat
      /\ \A i \in 1..n : rows[i] \in EventRows /\ rows[i].t \in Int /\ rows[i].s \in Statuses
  BY GapsType
<1> DEFINE T == {i \in 0..n : Counting(f[i], rows, i)}
<1>4. 0 \in T
  <2>1. a0.ms \in [Statuses -> Nat] OBVIOUS
  <2>2. TotalOf(a0.ms, Statuses) = 0
    <3> DEFINE ms == a0.ms
    <3>1. \A s \in Statuses : ms[s] \in Nat /\ ~(ms[s] > 0) OBVIOUS
    <3>2. {s \in Statuses : ms[s] > 0} = {} BY <3>1
    <3> HIDE DEF ms
    <3>3. TotalOf(ms, {s \in Statuses : ms[s] > 0}) = TotalOf(ms, Statuses)
      BY <3>1, TotalDrops, TracesAssumption
    <3>4. TotalOf(ms, {}) = 0 BY TotalEmpty
    <3> QED BY <3>2, <3>3, <3>4 DEF ms
  <2>3. \A s \in Statuses : a0.ms[s] >= TotalOf(Gaps(rows), GapsOf(rows, s, 0 - 1))
    <3> SUFFICES ASSUME NEW s \in Statuses PROVE 0 >= TotalOf(Gaps(rows), GapsOf(rows, s, 0 - 1)) OBVIOUS
    <3>1. GapsOf(rows, s, 0 - 1) = {} BY DEF GapsOf
    <3>2. TotalOf(Gaps(rows), {}) = 0 BY TotalEmpty
    <3>3. TotalOf(Gaps(rows), GapsOf(rows, s, 0 - 1)) = 0 BY <3>1, <3>2
    <3> QED BY <3>3
  <2>4. Counting(a0, rows, 0) BY <2>1, <2>2, <2>3 DEF Counting
  <2> QED BY <1>2, <1>3, <2>4
<1>5. ASSUME NEW i \in 1..n, i - 1 \in T PROVE i \in T
  <2>1. Counting(f[i - 1], rows, i - 1) BY <1>5
  <2>2. f[i - 1].s \in Statuses
    <3>1. CASE i - 1 = 0 BY <1>2, <1>3, <3>1
    <3>2. CASE i - 1 # 0
      <4>1. i - 1 \in 1..n /\ i - 1 > 0 BY <1>3, <3>2
      <4>2. f[i - 1].s = rows[i - 1].s BY <2>1, <4>1 DEF Counting
      <4> QED BY <1>3, <4>1, <4>2
    <3> QED BY <3>1, <3>2
  <2>3. Counting(Counted(f[i - 1], rows[i].s, rows[i].t), rows, i) BY <2>1, <2>2, CountingGoes
  <2>4. Counting(f[i], rows, i) BY <1>2, <2>3
  <2>5. i \in 0..n OBVIOUS
  <2> QED BY <2>4, <2>5
<1>6. 0..n \subseteq T
  <2> HIDE DEF T
  <2>1. \A i \in 1..n : i - 1 \in T => i \in T BY <1>5
  <2> QED BY <1>3, <1>4, <2>1, CountUp
<1>7. n \in 0..n BY <1>3
<1>8. Counting(f[n], rows, n) BY <1>6, <1>7
<1>9. f[n].s = IF rows = <<>> THEN a0.s ELSE rows[n].s
  <2>1. CASE rows = <<>> BY <1>2, <2>1
  <2>2. CASE rows # <<>>
    <3>1. n > 0
      <4>1. rows \in Seq(EventRows) BY DEF Windowed
      <4> QED BY <2>2, <4>1
    <3> QED BY <1>8, <2>2, <3>1 DEF Counting
  <2> QED BY <2>1, <2>2
<1> QED BY <1>2, <1>8, <1>9

\* The window of a machine's chart.
LEMMA StartIs ==
    ASSUME TracesInv
    PROVE  /\ start \in Int /\ time \in Nat /\ start <= time /\ time - start = range.length
           /\ range.length \in Nat
<1>1. time \in Nat /\ range.length \in Nat BY TracesAssumption DEF TracesInv, TracesTypeOK
<1> QED BY <1>1 DEF start

LEMMA SortedIs ==
    ASSUME TracesInv, kindOf = "machine"
    PROVE  Windowed(Sorted(fetched))
<1> DEFINE X == RowsUpTo(time)
           S == {r \in ToSet(fetched) : r.t \in start..time}
<1>1. fetched \in Seq(X) /\ Descends(fetched) BY DEF TracesInv, TracesTypeOK
<1>2. X \subseteq EventRows /\ \A r \in X : r.t \in Int BY DEF RowsUpTo, EventRows, TraceRows
<1> HIDE DEF X
<1>3. /\ IsFiniteSet(ToSet(fetched)) /\ ToSet(fetched) \subseteq X
      /\ DOMAIN fetched = 1..Len(fetched) /\ Len(fetched) \in Nat
      /\ \A i \in 1..Len(fetched) : fetched[i] \in X
  BY <1>1, ElementsFinite
<1>4. Timed(S)
  <2>1. IsFiniteSet(S) BY <1>3, FS_Subset
  <2>2. \A r \in S : r.t \in Int BY <1>2, <1>3
  <2>3. ASSUME NEW r \in S, NEW x \in S, r.t = x.t PROVE r = x
    <3>1. PICK i \in 1..Len(fetched) : r = fetched[i] BY <1>3 DEF ToSet
    <3>2. PICK j \in 1..Len(fetched) : x = fetched[j] BY <1>3 DEF ToSet
    <3>3. ~(i < j) /\ ~(j < i)
      <4>1. r.t \in Int BY <2>2
      <4>2. i < j => x.t < r.t BY <1>1, <3>1, <3>2 DEF Descends
      <4>3. j < i => r.t < x.t BY <1>1, <3>1, <3>2 DEF Descends
      <4> QED BY <2>3, <4>1, <4>2, <4>3
    <3>4. i = j BY <3>3
    <3> QED BY <3>1, <3>2, <3>4
  <2> HIDE DEF S
  <2> QED BY <2>1, <2>2, <2>3 DEF Timed
<1>5. Sorted(fetched) = ByTime(S) BY DEF Sorted
<1>6. S \subseteq EventRows /\ \A r \in S : r.t \in start..time BY <1>2, <1>3
<1> HIDE DEF S
<1> DEFINE rows == ByTime(S)
<1>7. InTime(rows, S) BY <1>4, ByTimeIs
<1> HIDE DEF rows
<1>8. rows \in Seq(S) /\ Ascends(rows) BY <1>7 DEF InTime
<1>9. rows \in Seq(EventRows) BY <1>6, <1>8
<1>10. \A i \in 1..Len(rows) : rows[i].t \in start..time BY <1>6, <1>8, ElementOfSeq
<1>11. Windowed(rows) BY <1>8, <1>9, <1>10 DEF Windowed
<1> QED BY <1>5, <1>11 DEF rows

\* What the slices say.
Whole(ms, rows) ==
    /\ ms \in [Statuses -> Nat]
    /\ TotalOf(ms, Statuses) =
         IF live.s # None \/ (rows = <<>> /\ live.online # None) THEN time - start
         ELSE IF rows = <<>> THEN 0 ELSE LastTime(rows) - start
    /\ \A s \in Statuses : ms[s] >= TotalOf(Gaps(rows), GapsOf(rows, s, Len(rows) - 1))

LEMMA SlicesWhole ==
    ASSUME TracesInv, kindOf = "machine", NEW rows, Windowed(rows)
    PROVE  Whole(Slices(rows), rows)
<1> DEFINE n == Len(rows)
           current == normalizeStatus(live.s, live.online)
           begun == [ms |-> [s \in Statuses |-> 0],
                     s |-> IF live.s = None /\ n > 0 THEN rows[1].s ELSE current, from |-> start]
           counted == PieOf(begun, rows)
           known == live.s # None \/ (n = 0 /\ live.online # None)
<1>0. start \in Int /\ time \in Nat /\ start <= time BY StartIs
<1>1. /\ n \in Nat /\ (n = 0 <=> rows = <<>>)
      /\ \A i \in 1..n : rows[i] \in EventRows /\ rows[i].t \in Int /\ rows[i].s \in Statuses /\ rows[i].t \in start..time
  <2>1. rows \in Seq(EventRows) BY DEF Windowed
  <2> QED BY <1>0, <2>1, GapsType DEF Windowed
<1>2. Slices(rows) = IF known THEN Counted(counted, current, time).ms ELSE counted.ms
  BY DEF Slices, PieOf
<1>3. live.s \in Statuses \cup {None} /\ (live.s = None /\ live.online # None => live.online = FALSE)
  BY DEF TracesInv, TracesTypeOK
<1>4. live.s # None \/ live.online = FALSE => current \in Statuses
  BY <1>3, TracesAssumption DEF normalizeStatus
<1>5. current \in AnyStatus BY <1>3, TracesAssumption DEF normalizeStatus, AnyStatus
<1>6. known => current \in Statuses BY <1>3, <1>4
<1>7. n > 0 => 1 \in 1..n BY <1>1
<1>8. n > 0 => begun.s \in Statuses BY <1>1, <1>4, <1>7
<1>9. begun \in Pies
  <2>1. begun.s \in AnyStatus BY <1>5, <1>8 DEF AnyStatus
  <2>2. [s \in Statuses |-> 0] \in [Statuses -> Int] OBVIOUS
  <2> HIDE DEF current
  <2> QED BY <1>0, <2>1, <2>2 DEF Pies
<1>10. begun.ms = [s \in Statuses |-> 0] /\ begun.from = start OBVIOUS
<1> HIDE DEF begun
<1>11. Counting(counted, rows, n) /\ counted.s = IF rows = <<>> THEN begun.s ELSE rows[n].s
  BY <1>0, <1>8, <1>9, <1>10, PieLoop
<1>12. rows = <<>> /\ known => begun.s \in Statuses
  BY <1>1, <1>6 DEF begun
<1>13. known => counted.s \in Statuses
  <2>1. rows # <<>> => n \in 1..n BY <1>1
  <2> QED BY <1>1, <1>11, <1>12, <2>1
<1>14. counted.from = (IF rows = <<>> THEN start ELSE LastTime(rows)) /\ counted.from \in Int /\ counted.from <= time
  <2>1. CASE rows = <<>> BY <1>0, <1>1, <1>11, <2>1 DEF Counting
  <2>2. CASE rows # <<>>
    <3>1. n \in 1..n /\ n # 0 BY <1>1, <2>2
    <3>2. counted.from = rows[n].t BY <1>11, <3>1 DEF Counting
    <3>3. rows[n].t \in start..time BY <1>1, <3>1
    <3>4. LastTime(rows) = rows[n].t BY <2>2 DEF LastTime
    <3> QED BY <1>0, <2>2, <3>2, <3>3, <3>4
  <2> QED BY <2>1, <2>2
<1>15. /\ counted.ms \in [Statuses -> Nat]
       /\ TotalOf(counted.ms, Statuses) = counted.from - start
       /\ \A s \in Statuses : counted.ms[s] >= TotalOf(Gaps(rows), GapsOf(rows, s, n - 1))
  BY <1>11 DEF Counting
<1> HIDE DEF counted, current
<1>16. CASE ~known
  <2>1. ~(live.s # None \/ (rows = <<>> /\ live.online # None)) BY <1>1, <1>16
  <2>2. counted.from - start = IF rows = <<>> THEN 0 ELSE LastTime(rows) - start
    BY <1>0, <1>14
  <2> QED BY <1>2, <1>15, <1>16, <2>1, <2>2 DEF Whole
<1>17. CASE known
  <2> DEFINE c == Counted(counted, current, time)
  <2>1. Counts(counted, current, time, c) BY <1>0, <1>13, <1>14, <1>15, <1>17, CountedIs
  <2> HIDE DEF c
  <2>2. /\ c.ms \in [Statuses -> Nat]
        /\ TotalOf(c.ms, Statuses) = TotalOf(counted.ms, Statuses) + (time - counted.from)
        /\ \A x \in Statuses : c.ms[x] >= counted.ms[x]
    BY <2>1 DEF Counts
  <2>3. TotalOf(c.ms, Statuses) = time - start BY <1>0, <1>14, <1>15, <2>2
  <2>4. ASSUME NEW s \in Statuses PROVE c.ms[s] >= TotalOf(Gaps(rows), GapsOf(rows, s, n - 1))
    <3> DEFINE p == TotalOf(Gaps(rows), GapsOf(rows, s, n - 1))
    <3>1. p \in Int
      <4>1. \A i \in 1..(n - 1) : Gaps(rows)[i] \in Int BY <1>0, GapsType
      <4>2. GapsOf(rows, s, n - 1) \in SUBSET (1..(n - 1)) BY DEF GapsOf
      <4>3. IsFiniteSet(1..(n - 1)) BY <1>1, FS_Interval
      <4>4. IsFiniteSet(GapsOf(rows, s, n - 1)) BY <4>2, <4>3, FS_Subset
      <4> QED BY <4>1, <4>2, <4>4, TotalType
    <3>2. counted.ms[s] >= p /\ counted.ms[s] \in Int /\ c.ms[s] \in Int /\ c.ms[s] >= counted.ms[s]
      BY <1>15, <2>2
    <3> HIDE DEF p
    <3>3. c.ms[s] >= p BY <3>1, <3>2
    <3> QED BY <3>3 DEF p
  <2>5. live.s # None \/ (rows = <<>> /\ live.online # None) BY <1>1, <1>17
  <2>6. Slices(rows) = c.ms BY <1>2, <1>17 DEF c
  <2> HIDE DEF known, n
  <2> QED BY <2>2, <2>3, <2>4, <2>5, <2>6 DEF Whole, n
<1> QED BY <1>16, <1>17

LEMMA PieIsWhole == TracesInv => PieWhole
<1> SUFFICES ASSUME TracesInv, kindOf = "machine" PROVE PieWhole BY DEF PieWhole
<1> DEFINE rows == Sorted(fetched)
           ms == computeStatusDurations
<1>1. Windowed(rows) BY SortedIs
<1>2. ms = Slices(rows) BY DEF computeStatusDurations
<1> HIDE DEF rows, ms
<1>3. Whole(ms, rows) BY <1>1, <1>2, SlicesWhole
<1>4. \A s \in Statuses : ms[s] \in Nat BY <1>3 DEF Whole
<1>5. TotalOf(ms, {s \in Statuses : ms[s] > 0}) = TotalOf(ms, Statuses)
  BY <1>4, TotalDrops, TracesAssumption
<1>6. StatusPieChart.total = TotalOf(ms, Statuses) BY <1>5 DEF StatusPieChart, ms
<1>7. time - start = range.length BY StartIs
<1>8. StatusPieChart.total =
        IF live.s # None \/ (rows = <<>> /\ live.online # None) THEN range.length
        ELSE IF rows = <<>> THEN 0 ELSE LastTime(rows) - start
  BY <1>3, <1>6, <1>7 DEF Whole
<1>9. ASSUME NEW s \in Statuses
      PROVE  ms[s] >= TotalOf([i \in 1..(Len(rows) - 1) |-> rows[i + 1].t - rows[i].t],
                              {i \in 1..(Len(rows) - 1) : rows[i].s = s})
  BY <1>3 DEF Whole, Gaps, GapsOf
<1> QED BY <1>8, <1>9 DEF PieWhole, rows, ms

-----------------------------------------------------------------------------
(* The thinned trace *)

NextChange(seen, r) == IF seen # <<>> /\ seen[Len(seen)] = r.s THEN seen ELSE Append(seen, r.s)

ThinOne(acc, r) ==
    IF r.s # acc.out[Len(acc.out)].s \/ acc.since + 1 >= Stride
    THEN [out |-> Append(acc.out, r), since |-> 0]
    ELSE [acc EXCEPT !.since = @ + 1]

Thins == [out : Seq(TraceRows), since : Nat]
ThinOf(a0, rows) == FoldLeft(ThinOne, a0, rows)

LEMMA ThinType ==
    ASSUME NEW acc \in Thins, NEW r \in TraceRows
    PROVE  ThinOne(acc, r) \in Thins
<1>1. acc.out \in Seq(TraceRows) /\ acc.since \in Nat BY DEF Thins
<1>2. Append(acc.out, r) \in Seq(TraceRows) BY <1>1, AppendProperties
<1>3. [out |-> Append(acc.out, r), since |-> 0] \in Thins BY <1>2 DEF Thins
<1>4. [acc EXCEPT !.since = @ + 1] \in Thins BY <1>1 DEF Thins
<1> QED BY <1>3, <1>4 DEF ThinOne

\* The loop that thins.
ThinRun(f, a0, rows) ==
    /\ f[0] = a0
    /\ \A i \in 1..Len(rows) : f[i] = ThinOne(f[i - 1], rows[i])
    /\ f[Len(rows)] = ThinOf(a0, rows)

LEMMA ThinRuns ==
    ASSUME NEW a0 \in Thins, NEW rows \in Seq(TraceRows)
    PROVE  \E f \in [0..Len(rows) -> Thins] :
             ThinRun(f, a0, rows)
<1> DEFINE n == Len(rows)
           g == [w \in Thins \X (1..n) |-> ThinOne(w[1], rows[w[2]])]
           step(d) == [t \in SUBSET DOMAIN rows |->
                         IF t = {} THEN a0
                         ELSE LET x == Max(t) IN ThinOne(d[t \ {x}], rows[x])]
           it == CHOOSE d : d = step(d)
<1>1. ThinOf(a0, rows) = it[DOMAIN rows]
  BY DEF ThinOf, FoldLeft, MapThenFoldSet
<1>2. n \in Nat /\ DOMAIN rows = 1..n /\ a0 \in Thins OBVIOUS
<1>3. g \in [Thins \X (1..n) -> Thins]
  <2> SUFFICES ASSUME NEW v \in Thins, NEW i \in 1..n PROVE g[<<v, i>>] \in Thins OBVIOUS
  <2>1. i \in 1..Len(rows) OBVIOUS
  <2>2. rows[i] \in TraceRows BY <2>1, ElementOfSeq
  <2>3. ThinOne(v, rows[i]) \in Thins BY <2>2, ThinType
  <2> QED BY <2>3
<1>4. PICK h : FoldOf(h, n, Thins, a0, g)
  <2> HIDE DEF g, n
  <2> QED BY <1>2, <1>3, FoldExists
<1>5. h = step(h)
  <2>1. ASSUME NEW t \in SUBSET (1..n) PROVE h[t] = step(h)[t]
    <3>1. CASE t = {} BY <1>2, <1>4, <3>1 DEF FoldOf
    <3>2. CASE t # {}
      <4>1. Max(t) \in 1..n BY <1>2, <3>2, MaxUpTo
      <4>2. h[t \ {Max(t)}] \in Thins BY <1>4 DEF FoldOf
      <4>3. h[t] = g[<<h[t \ {Max(t)}], Max(t)>>] BY <1>4, <3>2 DEF FoldOf
      <4> QED BY <1>2, <3>2, <4>1, <4>2, <4>3
    <3> QED BY <3>1, <3>2
  <2>2. h \in [SUBSET (1..n) -> Thins] BY <1>4 DEF FoldOf
  <2>3. step(h) = [t \in SUBSET (1..n) |-> step(h)[t]] BY <1>2
  <2> HIDE DEF step, g, n
  <2> QED BY <2>1, <2>2, <2>3
<1>6. it = step(it)
  <2> HIDE DEF step
  <2> QED BY <1>5
<1> HIDE DEF it
<1>7. it[{}] = a0 BY <1>2, <1>6
<1>8. ASSUME NEW t \in SUBSET (1..n), t # {}, it[t \ {Max(t)}] \in Thins
      PROVE  it[t] = g[<<it[t \ {Max(t)}], Max(t)>>]
  <2>1. Max(t) \in 1..n BY <1>2, <1>8, MaxUpTo
  <2>2. it[t] = step(it)[t] BY <1>6
  <2> QED BY <1>2, <1>8, <2>1, <2>2
<1>9. RunOf(PartialFolds(it, n), n, Thins, a0, g)
  <2> HIDE DEF g, n
  <2>1. Folds(it, n, Thins, a0, g) BY <1>7, <1>8 DEF Folds
  <2> QED BY <1>2, <1>3, <2>1, FoldRuns
<1> DEFINE f == PartialFolds(it, n)
<1> HIDE DEF f
<1>10. f \in [0..n -> Thins] /\ f[0] = a0 BY <1>9 DEF RunOf, f
<1>11. ASSUME NEW i \in 1..n PROVE f[i] = ThinOne(f[i - 1], rows[i])
  <2>1. i - 1 \in 0..n OBVIOUS
  <2>2. f[i - 1] \in Thins BY <1>10, <2>1
  <2>3. f[i] = g[<<f[i - 1], i>>] BY <1>9 DEF RunOf, f
  <2> QED BY <2>2, <2>3
<1>12. f[n] = ThinOf(a0, rows) BY <1>1, <1>2 DEF f, PartialFolds
<1> QED BY <1>10, <1>11, <1>12 DEF ThinRun

\* The changes of a trace.
ChangeRun(f, rows) ==
    /\ f[0] = <<>>
    /\ \A i \in 1..Len(rows) : f[i] = NextChange(f[i - 1], rows[i])
    /\ f[Len(rows)] = Changes(rows)

LEMMA ChangeRuns ==
    ASSUME NEW rows \in Seq(TraceRows)
    PROVE  \E f \in [0..Len(rows) -> Seq(AnyStatus)] :
             ChangeRun(f, rows)
<1> DEFINE n == Len(rows)
           g == [w \in Seq(AnyStatus) \X (1..n) |-> NextChange(w[1], rows[w[2]])]
           step(d) == [t \in SUBSET DOMAIN rows |->
                         IF t = {} THEN <<>>
                         ELSE LET x == Max(t) IN NextChange(d[t \ {x}], rows[x])]
           it == CHOOSE d : d = step(d)
<1>1. Changes(rows) = it[DOMAIN rows]
  BY DEF Changes, NextChange, FoldLeft, MapThenFoldSet
<1>2. n \in Nat /\ DOMAIN rows = 1..n /\ <<>> \in Seq(AnyStatus) OBVIOUS
<1>3. g \in [Seq(AnyStatus) \X (1..n) -> Seq(AnyStatus)]
  <2> SUFFICES ASSUME NEW v \in Seq(AnyStatus), NEW i \in 1..n PROVE g[<<v, i>>] \in Seq(AnyStatus) OBVIOUS
  <2>1. i \in 1..Len(rows) OBVIOUS
  <2>0. rows[i] \in TraceRows BY <2>1, ElementOfSeq
  <2>2. rows[i].s \in AnyStatus BY <2>0 DEF TraceRows
  <2>3. Append(v, rows[i].s) \in Seq(AnyStatus) BY <2>2, AppendProperties
  <2>4. NextChange(v, rows[i]) \in Seq(AnyStatus) BY <2>3 DEF NextChange
  <2> QED BY <2>4
<1>4. PICK h : FoldOf(h, n, Seq(AnyStatus), <<>>, g)
  <2> HIDE DEF g, n
  <2> QED BY <1>2, <1>3, FoldExists
<1>5. h = step(h)
  <2>1. ASSUME NEW t \in SUBSET (1..n) PROVE h[t] = step(h)[t]
    <3>1. CASE t = {} BY <1>2, <1>4, <3>1 DEF FoldOf
    <3>2. CASE t # {}
      <4>1. Max(t) \in 1..n BY <1>2, <3>2, MaxUpTo
      <4>2. h[t \ {Max(t)}] \in Seq(AnyStatus) BY <1>4 DEF FoldOf
      <4>3. h[t] = g[<<h[t \ {Max(t)}], Max(t)>>] BY <1>4, <3>2 DEF FoldOf
      <4> QED BY <1>2, <3>2, <4>1, <4>2, <4>3
    <3> QED BY <3>1, <3>2
  <2>2. h \in [SUBSET (1..n) -> Seq(AnyStatus)] BY <1>4 DEF FoldOf
  <2>3. step(h) = [t \in SUBSET (1..n) |-> step(h)[t]] BY <1>2
  <2> HIDE DEF step, g, n
  <2> QED BY <2>1, <2>2, <2>3
<1>6. it = step(it)
  <2> HIDE DEF step
  <2> QED BY <1>5
<1> HIDE DEF it
<1>7. it[{}] = <<>> BY <1>2, <1>6
<1>8. ASSUME NEW t \in SUBSET (1..n), t # {}, it[t \ {Max(t)}] \in Seq(AnyStatus)
      PROVE  it[t] = g[<<it[t \ {Max(t)}], Max(t)>>]
  <2>1. Max(t) \in 1..n BY <1>2, <1>8, MaxUpTo
  <2>2. it[t] = step(it)[t] BY <1>6
  <2> QED BY <1>2, <1>8, <2>1, <2>2
<1>9. RunOf(PartialFolds(it, n), n, Seq(AnyStatus), <<>>, g)
  <2> HIDE DEF g, n
  <2>1. Folds(it, n, Seq(AnyStatus), <<>>, g) BY <1>7, <1>8 DEF Folds
  <2> QED BY <1>2, <1>3, <2>1, FoldRuns
<1> DEFINE f == PartialFolds(it, n)
<1> HIDE DEF f
<1>10. f \in [0..n -> Seq(AnyStatus)] /\ f[0] = <<>> BY <1>9 DEF RunOf, f
<1>11. ASSUME NEW i \in 1..n PROVE f[i] = NextChange(f[i - 1], rows[i])
  <2>1. i - 1 \in 0..n OBVIOUS
  <2>2. f[i - 1] \in Seq(AnyStatus) BY <1>10, <2>1
  <2>3. f[i] = g[<<f[i - 1], i>>] BY <1>9 DEF RunOf, f
  <2> QED BY <2>2, <2>3
<1>12. f[n] = Changes(rows) BY <1>1, <1>2 DEF f, PartialFolds
<1> QED BY <1>10, <1>11, <1>12 DEF ChangeRun

\* One more row adds at most one change, and the last change is that of the
\* last row.
LEMMA ChangesGrow ==
    ASSUME NEW rows \in Seq(TraceRows), NEW r \in TraceRows
    PROVE  Changes(Append(rows, r)) = NextChange(Changes(rows), r)
<1> DEFINE n == Len(rows)
           more == Append(rows, r)
<1>1. /\ n \in Nat /\ more \in Seq(TraceRows) /\ Len(more) = n + 1
      /\ \A i \in 1..n : more[i] = rows[i]
      /\ more[n + 1] = r
  BY AppendProperties
<1> HIDE DEF more
<1>2. PICK f \in [0..n -> Seq(AnyStatus)] : ChangeRun(f, rows) BY ChangeRuns
<1>3. PICK g \in [0..Len(more) -> Seq(AnyStatus)] : ChangeRun(g, more) BY <1>1, ChangeRuns
<1>4. /\ f[0] = <<>> /\ f[n] = Changes(rows)
      /\ \A i \in 1..n : f[i] = NextChange(f[i - 1], rows[i])
  BY <1>2 DEF ChangeRun
<1>5. /\ g[0] = <<>> /\ g[n + 1] = Changes(more)
      /\ \A i \in 1..(n + 1) : g[i] = NextChange(g[i - 1], more[i])
  BY <1>1, <1>3 DEF ChangeRun
<1> DEFINE T == {i \in 0..n : f[i] = g[i]}
<1>6. 0 \in T BY <1>1, <1>4, <1>5
<1>7. ASSUME NEW i \in 1..n, i - 1 \in T PROVE i \in T
  <2>1. f[i - 1] = g[i - 1] /\ more[i] = rows[i] /\ i \in 1..(n + 1) BY <1>1, <1>7
  <2>2. f[i] = g[i] BY <1>4, <1>5, <2>1
  <2> QED BY <2>2
<1>8. 0..n \subseteq T
  <2> HIDE DEF T
  <2>1. \A i \in 1..n : i - 1 \in T => i \in T BY <1>7
  <2> QED BY <1>1, <1>6, <2>1, CountUp
<1>9. n \in 0..n /\ n + 1 \in 1..(n + 1) /\ (n + 1) - 1 = n BY <1>1
<1>10. f[n] = g[n] BY <1>8, <1>9
<1>11. g[n + 1] = NextChange(g[n], r) BY <1>1, <1>5, <1>9
<1> QED BY <1>4, <1>5, <1>10, <1>11 DEF more

LEMMA LastChange ==
    ASSUME NEW rows \in Seq(TraceRows), rows # <<>>
    PROVE  Changes(rows) # <<>> /\ Changes(rows)[Len(Changes(rows))] = rows[Len(rows)].s
<1> DEFINE n == Len(rows)
<1>1. n \in Nat /\ n \in 1..n /\ n \in 0..n /\ n - 1 \in 0..n OBVIOUS
<1>2. PICK f \in [0..n -> Seq(AnyStatus)] : ChangeRun(f, rows) BY ChangeRuns
<1>3. f[n] = Changes(rows) /\ f[n] = NextChange(f[n - 1], rows[n]) BY <1>1, <1>2 DEF ChangeRun
<1>4. f[n - 1] \in Seq(AnyStatus) BY <1>1
<1> DEFINE seen == f[n - 1]
<1>5. rows[n] \in TraceRows BY <1>1, ElementOfSeq
<1>6. rows[n].s \in AnyStatus BY <1>5 DEF TraceRows
<1>7. seen \in Seq(AnyStatus) /\ Changes(rows) = NextChange(seen, rows[n]) BY <1>3, <1>4
<1> HIDE DEF seen, n
<1>8. CASE seen # <<>> /\ seen[Len(seen)] = rows[n].s BY <1>7, <1>8 DEF NextChange, n
<1>9. CASE ~(seen # <<>> /\ seen[Len(seen)] = rows[n].s)
  <2>1. Changes(rows) = Append(seen, rows[n].s) BY <1>7, <1>9 DEF NextChange
  <2> DEFINE x == rows[n].s
             a == Append(seen, x)
  <2>2. a # <<>> /\ Len(a) = Len(seen) + 1 /\ a[Len(seen) + 1] = x
    <3>1. x \in AnyStatus BY <1>6
    <3> HIDE DEF x
    <3> QED BY <1>7, <3>1, AppendProperties
  <2> HIDE DEF a
  <2>3. a[Len(a)] = x BY <2>2
  <2> QED BY <2>1, <2>2, <2>3 DEF a, n
<1> QED BY <1>8, <1>9

\* A row with the status of the last one changes nothing.
LEMMA NothingChanges ==
    ASSUME NEW rows \in Seq(TraceRows), rows # <<>>, NEW r, r.s = rows[Len(rows)].s
    PROVE  NextChange(Changes(rows), r) = Changes(rows)
BY LastChange DEF NextChange

\* The loop has seen the first n rows: it has their changes.
Thinning(acc, rows, n) ==
    /\ acc \in Thins /\ acc.out # <<>>
    /\ acc.out[Len(acc.out)].s = rows[n].s
    /\ acc.out[Len(acc.out)].t <= rows[n].t
    /\ Changes(acc.out) = Changes(SubSeq(rows, 1, n))

LEMMA UpToOneMore ==
    ASSUME NEW X, NEW rows \in Seq(X), NEW n \in Nat, n + 1 <= Len(rows)
    PROVE  /\ SubSeq(rows, 1, n) \in Seq(X)
           /\ SubSeq(rows, 1, n + 1) = Append(SubSeq(rows, 1, n), rows[n + 1])
<1> DEFINE a == SubSeq(rows, 1, n)
           b == SubSeq(rows, 1, n + 1)
<1>0. Len(rows) \in Nat /\ \A i \in 1..Len(rows) : rows[i] \in X BY ElementOfSeq
<1>1. \A i \in 1..(n + 1) : rows[i] \in X BY <1>0
<1>2. \A i \in 1..n : rows[i] \in X BY <1>1
<1>3. a \in Seq(X) BY <1>2, SubSeqProperties
<1>4. rows[n + 1] \in X BY <1>1
<1>5. b = a \o <<rows[n + 1]>>
  <2>1. 1 \in 1..Len(rows) /\ n + 1 \in 1..Len(rows) /\ (n + 1) - 1 = n BY <1>0
  <2> QED BY <2>1, SubSeqRecursiveSecond
<1> HIDE DEF a
<1>6. Append(a, rows[n + 1]) = a \o <<rows[n + 1]>> BY <1>3, <1>4, AppendIsConcat
<1> QED BY <1>3, <1>5, <1>6 DEF a

LEMMA ThinningGoes ==
    ASSUME NEW rows \in Seq(TraceRows), Ascends(rows), NEW n \in 1..Len(rows), n + 1 <= Len(rows),
           NEW acc, Thinning(acc, rows, n)
    PROVE  Thinning(ThinOne(acc, rows[n + 1]), rows, n + 1)
<1> DEFINE r == rows[n + 1]
           q == acc.out
           a == SubSeq(rows, 1, n)
<1>0. n + 1 \in 1..Len(rows) /\ n < n + 1 OBVIOUS
<1>1. r \in TraceRows BY <1>0, ElementOfSeq
<1>2. rows[n] \in TraceRows BY ElementOfSeq
<1>3. rows[n].t < r.t /\ rows[n].t \in Nat /\ r.t \in Nat BY <1>0, <1>1, <1>2 DEF Ascends, TraceRows
<1>4. /\ acc \in Thins /\ q \in Seq(TraceRows) /\ q # <<>> /\ Len(q) \in 1..Len(q)
      /\ q[Len(q)].s = rows[n].s /\ q[Len(q)].t <= rows[n].t
      /\ Changes(q) = Changes(a)
  BY DEF Thinning, Thins
<1>5. q[Len(q)] \in TraceRows BY <1>4, ElementOfSeq
<1>6. a \in Seq(TraceRows) /\ SubSeq(rows, 1, n + 1) = Append(a, r) BY UpToOneMore
<1> HIDE DEF a
<1>7. Changes(SubSeq(rows, 1, n + 1)) = NextChange(Changes(q), r)
  BY <1>1, <1>4, <1>6, ChangesGrow
<1>8. ThinOne(acc, r) \in Thins BY <1>1, <1>4, ThinType
<1>9. CASE r.s # q[Len(q)].s \/ acc.since + 1 >= Stride
  <2>1. ThinOne(acc, r).out = Append(q, r) BY <1>9 DEF ThinOne
  <2> DEFINE b == Append(q, r)
  <2> HIDE DEF r, q
  <2>2. b # <<>> /\ Len(b) = Len(q) + 1 /\ b[Len(q) + 1] = r BY <1>1, <1>4, AppendProperties
  <2>3. Changes(b) = NextChange(Changes(q), r) BY <1>1, <1>4, ChangesGrow
  <2> HIDE DEF b
  <2>4. b[Len(b)] = r BY <2>2
  <2>5. r.t <= r.t BY <1>3
  <2> QED BY <1>7, <1>8, <2>1, <2>2, <2>3, <2>4, <2>5 DEF Thinning, b, r
<1>10. CASE ~(r.s # q[Len(q)].s \/ acc.since + 1 >= Stride)
  <2>1. ThinOne(acc, r).out = q BY <1>4, <1>10 DEF ThinOne, Thins
  <2>2. q[Len(q)].s = r.s BY <1>10
  <2>3. NextChange(Changes(q), r) = Changes(q)
    <3> HIDE DEF r, q
    <3> QED BY <1>4, <2>2, NothingChanges
  <2>4. q[Len(q)].t <= r.t
    <3>1. q[Len(q)].t \in Nat BY <1>5 DEF TraceRows
    <3> HIDE DEF q, r
    <3> QED BY <1>3, <1>4, <3>1
  <2> HIDE DEF q
  <2> QED BY <1>4, <1>7, <1>8, <2>1, <2>2, <2>3, <2>4 DEF Thinning
<1> QED BY <1>9, <1>10

\* However it is thinned, a trace keeps its changes.
LEMMA ThinKeepsChanges ==
    ASSUME NEW rows \in Seq(TraceRows), Ascends(rows)
    PROVE  Changes(decimateSamplesForOscilloscope(rows)) = Changes(rows)
<1> DEFINE n == Len(rows)
           cs == SubSeq(rows, 2, n - 1)
           a0 == [out |-> <<rows[1]>>, since |-> 0]
           thin == ThinOf(a0, cs).out
           last == rows[n]
<1>0. n \in Nat /\ \A i \in 1..n : rows[i] \in TraceRows BY ElementOfSeq
<1>1. decimateSamplesForOscilloscope(rows) =
        IF n <= 2 THEN rows
        ELSE IF thin[Len(thin)].t # last.t THEN Append(thin, last) ELSE thin
  BY DEF decimateSamplesForOscilloscope, Thinned, ThinOf, ThinOne
<1>2. CASE n <= 2 BY <1>1, <1>2
<1>3. CASE ~(n <= 2)
  <2>1. cs \in Seq(TraceRows) /\ Len(cs) = n - 2 /\ \A i \in 1..(n - 2) : cs[i] = rows[i + 1]
    <3>1. \A i \in 2..(n - 1) : rows[i] \in TraceRows BY <1>0
    <3>2. /\ SubSeq(rows, 2, n - 1) \in Seq(TraceRows)
          /\ Len(SubSeq(rows, 2, n - 1)) = IF 2 <= n - 1 THEN (n - 1) - 2 + 1 ELSE 0
          /\ \A i \in 1..((n - 1) - 2 + 1) : SubSeq(rows, 2, n - 1)[i] = rows[2 + i - 1]
      <4>1. 2 \in Int /\ n - 1 \in Int BY <1>0
      <4> QED BY <3>1, <4>1, SubSeqProperties
    <3>3. \A i \in 1..(n - 2) : i \in 1..((n - 1) - 2 + 1) /\ 2 + i - 1 = i + 1 BY <1>0
    <3>4. Len(cs) = n - 2 BY <1>0, <1>3, <3>2
    <3>5. \A i \in 1..(n - 2) : cs[i] = rows[i + 1] BY <3>2, <3>3
    <3> QED BY <3>2, <3>4, <3>5
  <2>2. 1 \in 1..n /\ rows[1] \in TraceRows BY <1>0, <1>3
  <2>3. a0 \in Thins
    <3>1. <<rows[1]>> \in Seq(TraceRows) BY <2>2
    <3> QED BY <3>1 DEF Thins
  <2> HIDE DEF cs
  <2>4. PICK f \in [0..Len(cs) -> Thins] : ThinRun(f, a0, cs)
    <3> HIDE DEF a0
    <3> QED BY <2>1, <2>3, ThinRuns
  <2>5. /\ f[0] = a0 /\ f[n - 2] = ThinOf(a0, cs)
        /\ \A i \in 1..(n - 2) : f[i] = ThinOne(f[i - 1], rows[i + 1])
    BY <2>1, <2>4 DEF ThinRun
  <2> DEFINE T == {i \in 0..(n - 2) : Thinning(f[i], rows, i + 1)}
  <2>6. 0 \in T
    <3>1. a0.out # <<>> /\ Len(a0.out) = 1 /\ a0.out[Len(a0.out)] = rows[1] OBVIOUS
    <3>2. SubSeq(rows, 1, 0) = <<>> BY SubSeqEmpty
    <3>3. SubSeq(rows, 1, 0 + 1) = Append(SubSeq(rows, 1, 0), rows[0 + 1]) BY <1>0, <1>3, UpToOneMore
    <3>4. SubSeq(rows, 1, 1) = <<rows[1]>>
      <4>1. 0 + 1 = 1 OBVIOUS
      <4>2. SubSeq(rows, 1, 1) = Append(<<>>, rows[1]) BY <3>2, <3>3, <4>1
      <4>3. \A x : Append(<<>>, x) = <<x>> OBVIOUS
      <4> QED BY <4>2, <4>3
    <3>5. rows[1].t <= rows[1].t BY <2>2 DEF TraceRows
    <3>6. Thinning(a0, rows, 1) BY <2>3, <3>1, <3>4, <3>5 DEF Thinning
    <3> HIDE DEF a0
    <3>7. Thinning(f[0], rows, 0 + 1) BY <2>5, <3>6
    <3>8. 0 \in 0..(n - 2) BY <1>0, <1>3
    <3> QED BY <3>7, <3>8
  <2> HIDE DEF a0
  <2>7. ASSUME NEW i \in 1..(n - 2), i - 1 \in T PROVE i \in T
    <3>1. i \in 1..n /\ i + 1 <= n /\ i \in 0..(n - 2) /\ (i - 1) + 1 = i BY <1>0
    <3>2. Thinning(f[i - 1], rows, i) BY <2>7, <3>1
    <3>3. Thinning(ThinOne(f[i - 1], rows[i + 1]), rows, i + 1) BY <3>1, <3>2, ThinningGoes
    <3>4. f[i] = ThinOne(f[i - 1], rows[i + 1]) BY <2>5
    <3> QED BY <3>1, <3>3, <3>4
  <2>8. 0..(n - 2) \subseteq T
    <3> HIDE DEF T
    <3>1. \A i \in 1..(n - 2) : i - 1 \in T => i \in T BY <2>7
    <3>2. n - 2 \in Nat BY <1>0, <1>3
    <3> QED BY <2>6, <3>1, <3>2, CountUp
  <2>9. Thinning(ThinOf(a0, cs), rows, n - 1)
    <3>1. n - 2 \in 0..(n - 2) /\ (n - 2) + 1 = n - 1 BY <1>0, <1>3
    <3> QED BY <2>5, <2>8, <3>1
  <2>10. /\ thin \in Seq(TraceRows) /\ thin # <<>>
         /\ thin[Len(thin)].t <= rows[n - 1].t
         /\ Changes(thin) = Changes(SubSeq(rows, 1, n - 1))
    BY <2>9 DEF Thinning, Thins
  <2> HIDE DEF thin
  <2>11. n - 1 \in 1..n /\ n \in 1..n /\ n - 1 < n BY <1>0, <1>3
  <2>12. rows[n - 1].t < last.t BY <2>11 DEF Ascends
  <2>13. rows[n - 1].t \in Nat /\ last.t \in Nat /\ last \in TraceRows BY <1>0, <2>11 DEF TraceRows
  <2>14. thin[Len(thin)] \in TraceRows
    <3>1. Len(thin) \in 1..Len(thin) BY <2>10
    <3> QED BY <2>10, <3>1, ElementOfSeq
  <2>15. thin[Len(thin)].t # last.t
    <3>1. thin[Len(thin)].t \in Nat BY <2>14 DEF TraceRows
    <3> QED BY <2>10, <2>12, <2>13, <3>1
  <2>16. decimateSamplesForOscilloscope(rows) = Append(thin, last) BY <1>1, <1>3, <2>15
  <2>17. Changes(Append(thin, last)) = NextChange(Changes(thin), last)
    <3> HIDE DEF last
    <3> QED BY <2>10, <2>13, ChangesGrow
  <2>18. SubSeq(rows, 1, n - 1) \in Seq(TraceRows) /\ SubSeq(rows, 1, n) = Append(SubSeq(rows, 1, n - 1), last)
    <3>1. n - 1 \in Nat /\ (n - 1) + 1 <= n /\ (n - 1) + 1 = n BY <1>0, <1>3
    <3>2. /\ SubSeq(rows, 1, n - 1) \in Seq(TraceRows)
          /\ SubSeq(rows, 1, (n - 1) + 1) = Append(SubSeq(rows, 1, n - 1), rows[(n - 1) + 1])
      BY <3>1, UpToOneMore
    <3> QED BY <3>1, <3>2
  <2>19. SubSeq(rows, 1, n) = rows BY SubSeqFull
  <2> DEFINE front == SubSeq(rows, 1, n - 1)
  <2>20. Changes(Append(front, last)) = NextChange(Changes(front), last)
    <3>1. front \in Seq(TraceRows) BY <2>18
    <3> HIDE DEF front, last
    <3> QED BY <2>13, <3>1, ChangesGrow
  <2>21. Append(front, last) = rows BY <2>18, <2>19
  <2> HIDE DEF front
  <2> QED BY <2>10, <2>16, <2>17, <2>20, <2>21 DEF front
<1> QED BY <1>2, <1>3

\* The rows with the last poll behind them.
LEMMA TailKeeps ==
    ASSUME TracesInv, NEW rows \in Seq(TraceRows), Ascends(rows), NEW known \in BOOLEAN
    PROVE  WithLiveTail(rows, known) \in Seq(TraceRows) /\ Ascends(WithLiveTail(rows, known))
<1> DEFINE out == WithLiveTail(rows, known)
           r == [t |-> live.at, s |-> live.s, v |-> live.v]
           n == Len(rows)
<1>1. live \in Polls BY DEF TracesInv, TracesTypeOK
<1>2. CASE out = rows BY <1>2
<1>3. CASE out # rows
  <2>1. live.at # None /\ ~(live.at <= LastTime(rows)) /\ out = Append(rows, r)
    BY <1>3 DEF WithLiveTail
  <2>2. live.at \in Nat BY <1>1, <2>1 DEF Polls
  <2>3. r \in TraceRows BY <1>1, <2>2 DEF Polls, TraceRows
  <2>4. /\ out \in Seq(TraceRows) /\ Len(out) = n + 1 /\ n \in Nat
        /\ \A i \in 1..n : out[i] = rows[i]
        /\ out[n + 1] = r
    <3> HIDE DEF out, r
    <3> QED BY <2>1, <2>3, AppendProperties
  <2> HIDE DEF out
  <2>5. \A i \in 1..n : rows[i].t \in Nat
    <3>1. \A i \in 1..n : rows[i] \in TraceRows BY ElementOfSeq
    <3> QED BY <3>1 DEF TraceRows
  <2>6. ASSUME NEW i \in 1..n PROVE rows[i].t < live.at
    <3>1. rows # <<>> /\ LastTime(rows) = rows[n].t /\ n \in 1..n BY <2>4 DEF LastTime
    <3>2. rows[n].t < live.at BY <2>1, <2>2, <2>5, <3>1
    <3>3. i = n \/ rows[i].t < rows[n].t BY <2>4, <3>1 DEF Ascends
    <3> QED BY <2>2, <2>5, <3>1, <3>2, <3>3
  <2>7. ASSUME NEW i \in 1..(n + 1), NEW j \in 1..(n + 1), i < j PROVE out[i].t < out[j].t
    <3>1. i \in 1..n /\ out[i] = rows[i] BY <2>4, <2>7
    <3>2. CASE j = n + 1
      <4>1. out[j].t = live.at BY <2>4, <3>2
      <4> QED BY <2>6, <3>1, <4>1
    <3>3. CASE j # n + 1
      <4>1. j \in 1..n /\ out[j] = rows[j] BY <2>4, <3>3
      <4> QED BY <2>7, <3>1, <4>1 DEF Ascends
    <3> QED BY <3>2, <3>3
  <2>8. Ascends(out) BY <2>4, <2>7 DEF Ascends
  <2> QED BY <2>4, <2>8 DEF out
<1> QED BY <1>2, <1>3

LEMMA FetchedRows ==
    ASSUME TracesInv, kindOf # "machine"
    PROVE  fetched \in Seq(TraceRows) /\ Ascends(fetched)
<1> DEFINE X == RowsUpTo(time)
<1>1. fetched \in Seq(X) /\ Ascends(fetched) BY DEF TracesInv, TracesTypeOK
<1>2. X \subseteq TraceRows BY DEF RowsUpTo
<1> HIDE DEF X
<1> QED BY <1>1, <1>2

LEMMA ChangesAreKept == TracesInv => ChangesKept
<1> SUFFICES ASSUME TracesInv, kindOf = "status" PROVE ChangesKept BY DEF ChangesKept
<1>1. fetched \in Seq(TraceRows) /\ Ascends(fetched) BY FetchedRows
<1>2. (live.s # None) \in BOOLEAN OBVIOUS
<1> DEFINE rows == samplesWithLiveTail
<1>3. rows \in Seq(TraceRows) /\ Ascends(rows) BY <1>1, TailKeeps DEF samplesWithLiveTail
<1> HIDE DEF rows
<1>4. Changes(decimateSamplesForOscilloscope(rows)) = Changes(rows) BY <1>3, ThinKeepsChanges
<1> QED BY <1>4 DEF ChangesKept, rows

-----------------------------------------------------------------------------
(* The thinned curve *)

\* A finite set of numbers has a smallest one.
LEMMA MinIs ==
    ASSUME NEW S \in SUBSET Int, IsFiniteSet(S), S # {}
    PROVE  Min(S) \in S /\ \A y \in S : Min(S) <= y
<1> DEFINE m == [x \in S |-> 0 - x]
           T == {0 - x : x \in S}
<1>1. m \in Surjection(S, T) BY DEF Surjection
<1>2. IsFiniteSet(T)
  <2> HIDE DEF m, T
  <2> QED BY <1>1, FS_Surjection
<1>3. T \in SUBSET Int /\ T # {}
  <2>1. \A x \in S : 0 - x \in Int OBVIOUS
  <2>2. PICK x \in S : TRUE OBVIOUS
  <2>3. 0 - x \in T BY <2>2
  <2> QED BY <2>1, <2>3
<1>4. Max(T) \in T /\ \A y \in T : Max(T) >= y
  <2> HIDE DEF T
  <2> QED BY <1>2, <1>3, MaxIs
<1>5. PICK x \in S : Max(T) = 0 - x BY <1>4
<1>6. ASSUME NEW y \in S PROVE x <= y
  <2>1. 0 - y \in T OBVIOUS
  <2>2. 0 - x >= 0 - y BY <1>4, <1>5, <2>1
  <2>3. x \in Int /\ y \in Int OBVIOUS
  <2> HIDE DEF T
  <2> QED BY <2>2, <2>3
<1>7. \E z \in S : \A y \in S : z <= y BY <1>6
<1> QED BY <1>7 DEF Min

\* What was measured.
Points == {r \in TraceRows : r.v \in Int}

PointsDrawn(points) == points \in Seq(Points) /\ Ascends(points)

LEMMA PointsAre ==
    ASSUME TracesInv, kindOf # "machine"
    PROVE  PointsDrawn(pointsWithLiveTail)
<1> DEFINE S == {r \in ToSet(fetched) : r.v # None}
           rows == Only(fetched, S)
           out == pointsWithLiveTail
<1>0. Values \ {None} \subseteq Int BY TracesAssumption
<1>1. fetched \in Seq(TraceRows) /\ Ascends(fetched) BY FetchedRows
<1>2. out = WithLiveTail(rows, live.v # None) BY DEF pointsWithLiveTail, rowsToPoints
<1>3. S \subseteq Points
  <2>1. ToSet(fetched) \subseteq TraceRows BY <1>1, ElementsFinite
  <2> QED BY <1>0, <2>1 DEF Points, TraceRows
<1> HIDE DEF S
<1>4. rows \in Seq(TraceRows) /\ ToSet(rows) = ToSet(fetched) \cap S /\ Ascends(rows) BY <1>1, OnlyAscends
<1> HIDE DEF rows
<1> DEFINE known == live.v # None
<1>5. known \in BOOLEAN OBVIOUS
<1>6. WithLiveTail(rows, known) \in Seq(TraceRows) /\ Ascends(WithLiveTail(rows, known))
  <2> HIDE DEF known
  <2> QED BY <1>4, <1>5, TailKeeps
<1>7. out \in Seq(TraceRows) /\ Ascends(out) BY <1>2, <1>6
<1>8. DOMAIN rows = 1..Len(rows) /\ \A i \in 1..Len(rows) : rows[i] \in Points
  <2>1. DOMAIN rows = 1..Len(rows) /\ \A i \in 1..Len(rows) : rows[i] \in ToSet(rows)
    BY <1>4, ElementsFinite
  <2> QED BY <1>3, <1>4, <2>1
<1>9. rows \in Seq(Points) BY <1>4, <1>8
<1>10. out \in Seq(Points)
  <2> DEFINE r == [t |-> live.at, s |-> live.s, v |-> live.v]
  <2>1. out = rows \/ (known /\ live.at # None /\ out = Append(rows, r)) BY <1>2 DEF WithLiveTail
  <2>2. ASSUME known, live.at # None PROVE r \in Points
    <3>1. live \in Polls BY DEF TracesInv, TracesTypeOK
    <3>2. live.v \in Int /\ live.v \in Values BY <1>0, <2>2, <3>1 DEF Polls
    <3>3. live.at \in Nat /\ live.s \in AnyStatus BY <2>2, <3>1 DEF Polls
    <3> QED BY <3>2, <3>3 DEF Points, TraceRows
  <2>3. ASSUME known, live.at # None PROVE Append(rows, r) \in Seq(Points)
    <3>1. r \in Points BY <2>2, <2>3
    <3> HIDE DEF r
    <3> QED BY <1>9, <3>1, AppendProperties
  <2> HIDE DEF out, known, r
  <2> QED BY <1>9, <2>1, <2>3
<1> QED BY <1>7, <1>10 DEF PointsDrawn

LEMMA StepsFit ==
    ASSUME NEW n \in Nat, NEW step \in Nat \ {0}, NEW k \in 1..((n + step - 1) \div step)
    PROVE  (k - 1) * step + 1 \in 1..n
<1> DEFINE a == n + step - 1
           q == a \div step
<1>1. a \in Nat OBVIOUS
<1>2. q \in Nat /\ q * step <= a BY <1>1, SMT
<1>3. k \in Nat /\ k >= 1 /\ k <= q BY <1>2
<1> HIDE DEF q
<1>4. k * step <= q * step BY <1>2, <1>3, SMT
<1>5. (k - 1) * step = k * step - step BY <1>3, SMT
<1>6. (k - 1) * step >= 0 BY <1>3, SMT
<1>7. k * step \in Nat /\ q * step \in Nat BY <1>2, <1>3, SMT
<1> DEFINE x == k * step
           y == q * step
           z == (k - 1) * step
<1>8. x \in Int /\ y \in Int /\ x <= y /\ y <= n + step - 1 /\ z = x - step /\ z >= 0
  BY <1>2, <1>4, <1>5, <1>6, <1>7
<1> HIDE DEF x, y, z
<1>9. z + 1 \in 1..n BY <1>8
<1> QED BY <1>9 DEF z

LEMMA DrawnFromPoints ==
    ASSUME NEW X, NEW points \in Seq(X)
    PROVE  ToSet(decimatePoints(points, MaxDraw)) \subseteq ToSet(points)
<1> DEFINE n == Len(points)
           step == (n + MaxDraw - 1) \div MaxDraw
           m == (n + step - 1) \div step
           out == [i \in 1..m |-> points[(i - 1) * step + 1]]
           thin == decimatePoints(points, MaxDraw)
<1>0. n \in Nat /\ MaxDraw \in Nat \ {0} /\ DOMAIN points = 1..n /\ \A i \in 1..n : points[i] \in X
  BY TracesAssumption, ElementOfSeq
<1>1. CASE n <= MaxDraw
  <2>1. thin = points BY <1>1 DEF decimatePoints
  <2> QED BY <2>1
<1>2. CASE ~(n <= MaxDraw)
  <2>1. thin = IF out[Len(out)].t # points[n].t THEN Append(out, points[n]) ELSE out
    BY <1>2 DEF decimatePoints
  <2>2. step \in Nat \ {0}
    <3>1. n + MaxDraw - 1 \in Nat /\ n + MaxDraw - 1 >= MaxDraw BY <1>0, <1>2
    <3> DEFINE a == n + MaxDraw - 1
    <3> HIDE DEF a
    <3>2. a \in Nat /\ a >= MaxDraw BY <3>1 DEF a
    <3>3. a \div MaxDraw \in Nat /\ a \div MaxDraw >= 1 BY <1>0, <3>2, SMT
    <3> QED BY <3>3 DEF a
  <2>3. m \in Nat
    <3> HIDE DEF step
    <3>1. n + step - 1 \in Nat BY <1>0, <2>2
    <3> QED BY <2>2, <3>1, SMT
  <2>4. \A i \in 1..m : (i - 1) * step + 1 \in 1..n
    <3> HIDE DEF step
    <3> QED BY <1>0, <2>2, StepsFit
  <2> DEFINE Y == ToSet(points)
  <2>5. \A i \in 1..n : points[i] \in Y BY <1>0 DEF ToSet
  <2> HIDE DEF step, m, Y
  <2>6. out \in [1..m -> Y] BY <2>4, <2>5
  <2>7. out \in Seq(Y) BY <2>3, <2>6
  <2>8. points[n] \in Y BY <1>0, <1>2, <2>5
  <2> HIDE DEF out
  <2>9. Append(out, points[n]) \in Seq(Y) BY <2>7, <2>8, AppendProperties
  <2>10. thin \in Seq(Y) BY <2>1, <2>7, <2>9
  <2> HIDE DEF thin
  <2>11. ToSet(thin) \subseteq Y BY <2>10, ElementsFinite
  <2> QED BY <2>11 DEF Y, thin
<1> QED BY <1>1, <1>2

\* The first point with a value that some point has.
LEMMA FirstIs ==
    ASSUME NEW X, NEW points \in Seq(X), NEW v, \E i \in DOMAIN points : points[i].v = v
    PROVE  FirstWith(points, v) \in ToSet(points) /\ FirstWith(points, v).v = v
<1> DEFINE S == {i \in DOMAIN points : points[i].v = v}
<1>1. S \in SUBSET Nat /\ S # {} OBVIOUS
<1>2. PICK n \in S : \A m \in S : n <= m
  <2> HIDE DEF S
  <2> QED BY <1>1, LeastNat
<1>3. Min(S) \in S BY <1>2 DEF Min
<1>4. FirstWith(points, v) = points[Min(S)] BY DEF FirstWith
<1> QED BY <1>3, <1>4 DEF ToSet

LEMMA ExtremesAreDrawn ==
    ASSUME NEW points, PointsDrawn(points), points # <<>>, NEW thin, ToSet(thin) \subseteq ToSet(points)
    PROVE  /\ {peakInRange(points), Lowest(points)} \subseteq
                {mergeExtremaSamples(thin, points)[i].v : i \in DOMAIN mergeExtremaSamples(thin, points)}
           /\ ToSet(mergeExtremaSamples(thin, points)) \subseteq ToSet(points)
           /\ \A i \in 2..Len(mergeExtremaSamples(thin, points)) :
                mergeExtremaSamples(thin, points)[i - 1].t < mergeExtremaSamples(thin, points)[i].t
<1> DEFINE all == ToSet(points)
           V == {points[i].v : i \in DOMAIN points}
           hi == peakInRange(points)
           lo == Lowest(points)
           U == ToSet(thin) \cup {FirstWith(points, hi), FirstWith(points, lo)}
           drawn == mergeExtremaSamples(thin, points)
<1>1. /\ points \in Seq(Points) /\ Ascends(points)
      /\ IsFiniteSet(all) /\ all \subseteq Points
      /\ DOMAIN points = 1..Len(points) /\ Len(points) \in Nat
      /\ \A i \in 1..Len(points) : points[i] \in Points
  BY ElementsFinite DEF PointsDrawn
<1>2. V \in SUBSET Int /\ IsFiniteSet(V) /\ V # {}
  <2>1. V \in SUBSET Int BY <1>1 DEF Points
  <2>2. V # {}
    <3>1. 1 \in DOMAIN points BY <1>1
    <3> QED BY <3>1
  <2> DEFINE f == [i \in DOMAIN points |-> points[i].v]
  <2>3. f \in Surjection(DOMAIN points, V) BY DEF Surjection
  <2>4. IsFiniteSet(DOMAIN points) BY <1>1, FS_Interval
  <2>5. IsFiniteSet(V)
    <3> HIDE DEF f, V
    <3> QED BY <2>3, <2>4, FS_Surjection
  <2> QED BY <2>1, <2>2, <2>5
<1>3. hi \in V /\ lo \in V
  <2>1. hi = Max(V) /\ lo = Min(V) BY DEF peakInRange, Lowest
  <2> HIDE DEF V, hi, lo
  <2> QED BY <1>2, <2>1, MaxIs, MinIs
<1>4. /\ FirstWith(points, hi) \in all /\ FirstWith(points, hi).v = hi
      /\ FirstWith(points, lo) \in all /\ FirstWith(points, lo).v = lo
  <2>1. (\E i \in DOMAIN points : points[i].v = hi) /\ \E i \in DOMAIN points : points[i].v = lo BY <1>3
  <2> HIDE DEF hi, lo
  <2> QED BY <1>1, <2>1, FirstIs
<1>5. drawn = ByTime(U) BY DEF mergeExtremaSamples
<1> HIDE DEF hi, lo, V
<1>6. U \in SUBSET all BY <1>4
<1> HIDE DEF drawn
<1>7. FirstWith(points, hi) \in U /\ FirstWith(points, lo) \in U OBVIOUS
<1> HIDE DEF U, all
<1>8. Timed(U)
  <2>1. IsFiniteSet(U) BY <1>1, <1>6, FS_Subset
  <2>2. \A r \in U : r.t \in Int BY <1>1, <1>6 DEF Points, TraceRows
  <2>3. ASSUME NEW r \in U, NEW x \in U, r.t = x.t PROVE r = x
    <3>1. PICK i \in 1..Len(points) : r = points[i] BY <1>1, <1>6 DEF ToSet, all
    <3>2. PICK j \in 1..Len(points) : x = points[j] BY <1>1, <1>6 DEF ToSet, all
    <3>3. ~(i < j) /\ ~(j < i)
      <4>1. r.t \in Int BY <2>2
      <4>2. i < j => r.t < x.t BY <1>1, <3>1, <3>2 DEF Ascends
      <4>3. j < i => x.t < r.t BY <1>1, <3>1, <3>2 DEF Ascends
      <4> QED BY <2>3, <4>1, <4>2, <4>3
    <3>4. i = j BY <3>3
    <3> QED BY <3>1, <3>2, <3>4
  <2> QED BY <2>1, <2>2, <2>3 DEF Timed
<1>9. InTime(drawn, U) BY <1>5, <1>8, ByTimeIs
<1>10. drawn \in Seq(U) /\ ToSet(drawn) = U /\ Ascends(drawn) BY <1>9 DEF InTime
<1>11. ToSet(drawn) \subseteq all BY <1>6, <1>10
<1>12. {hi, lo} \subseteq {drawn[i].v : i \in DOMAIN drawn}
  <2>1. ASSUME NEW r \in U PROVE r.v \in {drawn[i].v : i \in DOMAIN drawn}
    <3>1. PICK i \in DOMAIN drawn : drawn[i] = r BY <1>10 DEF ToSet
    <3> QED BY <3>1
  <2> QED BY <1>4, <1>7, <2>1
<1>13. ASSUME NEW i \in 2..Len(drawn) PROVE drawn[i - 1].t < drawn[i].t
  <2>1. i - 1 \in 1..Len(drawn) /\ i \in 1..Len(drawn) /\ i - 1 < i BY <1>10
  <2> QED BY <1>10, <2>1 DEF Ascends
<1> QED BY <1>11, <1>12, <1>13 DEF drawn, all, hi, lo

LEMMA ExtremesHold == TracesInv => ExtremesDrawn
<1> SUFFICES ASSUME TracesInv, kindOf = "telemetry", pointsWithLiveTail # <<>> PROVE ExtremesDrawn
  BY DEF ExtremesDrawn
<1> DEFINE points == pointsWithLiveTail
           thin == decimatePoints(points, MaxDraw)
<1>1. PointsDrawn(points) BY PointsAre
<1>2. drawPoints = mergeExtremaSamples(thin, points) BY DEF drawPoints
<1>3. points # <<>> OBVIOUS
<1> HIDE DEF points
<1>4. ToSet(thin) \subseteq ToSet(points) BY <1>1, DrawnFromPoints DEF PointsDrawn
<1> HIDE DEF thin
<1>5. /\ {peakInRange(points), Lowest(points)} \subseteq
           {mergeExtremaSamples(thin, points)[i].v : i \in DOMAIN mergeExtremaSamples(thin, points)}
      /\ ToSet(mergeExtremaSamples(thin, points)) \subseteq ToSet(points)
      /\ \A i \in 2..Len(mergeExtremaSamples(thin, points)) :
           mergeExtremaSamples(thin, points)[i - 1].t < mergeExtremaSamples(thin, points)[i].t
  BY <1>1, <1>3, <1>4, ExtremesAreDrawn
<1> QED BY <1>2, <1>5 DEF ExtremesDrawn, points

-----------------------------------------------------------------------------
LEMMA TracesInvariance == TracesSpec => []TracesInv
BY TracesInitInv, TracesStep, PTL DEF TracesSpec

\* The pie of a machine counts every moment of the window once.
THEOREM PieWholeHolds == TracesSpec => []PieWhole
BY TracesInvariance, PieIsWhole, PTL

\* However long the window and however few points are drawn, no change of a
\* compressor's status and no extreme of its telemetry is lost.
THEOREM ThinningKeepsHolds == TracesSpec => []ThinningKeeps
<1>1. TracesInv => ThinningKeeps BY ChangesAreKept, ExtremesHold DEF ThinningKeeps
<1> QED BY <1>1, TracesInvariance, PTL

-----------------------------------------------------------------------------
(* The screens together *)

\* Whichever screen is looked at, each behaves as it does alone.
LEMMA ScreensAre ==
    ScreensSpec => LayoutSpec /\ TabletSpec /\ CheckSpec /\ ChartsSpec /\ TracesSpec
<1>1. ScreensInit => LayoutInit /\ TabletInit /\ CheckInit /\ ChartsInit /\ TracesInit
  <2> SUFFICES ASSUME ScreensInit
               PROVE  LayoutInit /\ TabletInit /\ CheckInit /\ ChartsInit /\ TracesInit
    OBVIOUS
  <2>1. /\ LayoutRests => LayoutInit
        /\ TabletRests => TabletInit
        /\ ChartsRest => ChartsInit
        /\ TracesRest => TracesInit
    BY DEF LayoutRests, TabletRests, ChartsRest, TracesRest
  <2>2. LayoutInit /\ TabletInit /\ ChartsInit /\ TracesInit /\ (CheckInit \/ CheckRests)
    BY <2>1 DEF ScreensInit
  <2>3. CheckRests => CheckInit
    BY CasesAssumption DEF CheckRests, ACase, CheckInit
  <2> QED BY <2>2, <2>3
<1>2. [ScreensNext]_screensVars =>
        /\ [LayoutNext]_layoutVars /\ [TabletNext]_tabletVars /\ [CheckNext]_checkVars
        /\ [ChartsNext]_chartVars /\ [TracesNext]_traceVars
  BY DEF ScreensNext, screensVars
<1> QED BY <1>1, <1>2, PTL DEF ScreensSpec, LayoutSpec, TabletSpec, CheckSpec, ChartsSpec, TracesSpec

\* On whichever screen, what is proved of each of them holds.
THEOREM ScreensHold ==
    ScreensSpec => [](/\ LastEditSent /\ SomePaneShown /\ StoredDecides
                      /\ RowsExplainVerdict /\ ShownIsChosen /\ ReadingGoesOn
                      /\ PieWhole /\ ThinningKeeps)
BY ScreensAre, LastEditSentHolds, SomePaneShownHolds, StoredDecidesHolds, RowsExplainVerdictHolds,
   ShownIsChosenHolds, ReadingGoesOnHolds, PieWholeHolds, ThinningKeepsHolds, PTL
=============================================================================
