------------------------------- MODULE Tablet -------------------------------
(* The tablet kiosk: which asset a launch opens, the setup page, the shell   *)
(* of a machine or compressor and its screensaver (pages/tablet).            *)
(*                                                                           *)
(* An asset is a kind and an id. One tab shows the kiosk; another tab of the *)
(* browser may change the idle minutes. The fleet comes by WebSocket; what   *)
(* the panes of a shell show is modelled elsewhere. The browser grants wake  *)
(* locks late or not at all, and takes them back when the page is hidden.    *)
EXTENDS Naturals, Sequences, FiniteSetsExt, Screen

CONSTANTS Ids,       \* the ids of each kind: "machine", "compressor"
          Listed,    \* those the setup page offers: enabled ones
          Envs,      \* the default ids a build may have, of each kind or None
          Slugs,     \* the panes of each kind, in the order of the bottom nav
          MinIdle, MaxIdle, DefaultIdle,
          Typed,     \* what may be typed for the idle minutes
          MaxLocks   \* bound on the wake locks asked for

VARIABLES
    page,     \* where the kiosk is: "closed", "entry", "setup" or "shell", and of what
    stored,   \* localStorage: the machine, the compressor and the idle minutes
    env,
    fleet, isConnected,
    setups,   \* the two setup panels
    saver,    \* the screensaver: active, the delay it knows, its timer
    event,    \* a storage event is under way
    wake,     \* wake locks: asked, asked in vain, held, and the one known
    chosen    \* the machine last shown, picked or asked for

tabletVars == <<page, stored, env, fleet, isConnected, setups, saver, event, wake, chosen>>

AssetKinds == {"machine", "compressor"}

-----------------------------------------------------------------------------
(* Where the kiosk is                                                        *)

Entry(at) == [at |-> at, kind |-> None, id |-> None, pane |-> None]
Shell(k, i, p) == [at |-> "shell", kind |-> k, id |-> i, pane |-> p]
DefaultPane(k) == Slugs[k][1]

\* The asset of a shell is part of the fleet.
Found(p, f) == p.at = "shell" /\ p.id \in f[p.kind]

\* The shell with its screensaver, or else a loading screen or a message.
Loaded(p, f, c) == c /\ Found(p, f)

NoSetup == [value |-> None, rows |-> {}, load |-> "none", hint |-> FALSE]
NoSaver == [active |-> FALSE, idle |-> None, timer |-> None]
NoWake == [asked |-> {}, late |-> {}, held |-> {}, known |-> None]

\* The lock that is known is released; those under way are when they arrive.
Release(w) == [w EXCEPT !.asked = {}, !.late = @ \cup w.asked, !.held = @ \ {w.known}, !.known = None]

\* A request for a wake lock, as long as the bound allows.
Ask(w) ==
    LET free == 1..MaxLocks \ (w.asked \cup w.late \cup w.held)
    IN IF free = {} THEN w ELSE [w EXCEPT !.asked = @ \cup {CHOOSE n \in free : TRUE}]

\* The kiosk goes to p, and fleet and connection are f and c. A shell whose
\* asset is found stores it; a setup panel starts from what is stored.
Goes(p, f, c, s) ==
    /\ page' = p /\ fleet' = f /\ isConnected' = c
    /\ stored' = IF Found(p, f) THEN [s EXCEPT ![p.kind] = p.id] ELSE s
    /\ setups' = IF p.at = page.at THEN setups
                 ELSE [k \in AssetKinds |-> IF p.at \in {"entry", "setup"}
                                       THEN [NoSetup EXCEPT !.value = s[k], !.load = "loading"] ELSE NoSetup]
    /\ IF Loaded(p, f, c)
       THEN /\ saver' = IF Loaded(page, fleet, isConnected) /\ p.kind = page.kind THEN saver
                        ELSE [active |-> FALSE, idle |-> s.idle, timer |-> s.idle]
            /\ UNCHANGED wake
       ELSE saver' = NoSaver /\ wake' = Release(wake)

-----------------------------------------------------------------------------
(* TabletEntry                                                               *)

\* What a launch opens: the first that is there.
Candidates(q, s) ==
    <<[kind |-> "machine", id |-> q.machine], [kind |-> "compressor", id |-> q.compressor],
      [kind |-> "machine", id |-> s.machine], [kind |-> "compressor", id |-> s.compressor],
      [kind |-> "machine", id |-> env.machine], [kind |-> "compressor", id |-> env.compressor]>>

Target(q, s) ==
    LET list == Candidates(q, s)
        there == {i \in DOMAIN list : list[i].id # None}
        first == list[Min(there)]
    IN IF there = {} THEN Entry("entry") ELSE Shell(first.kind, first.id, DefaultPane(first.kind))

\* defect: the build's default is stored over what the tablet has stored
Resolved_env(q, s) ==
    CASE q.machine # None    -> [s EXCEPT !.machine = q.machine]
      [] q.machine = None /\ q.compressor # None -> [s EXCEPT !.compressor = q.compressor]
      [] q.machine = None /\ q.compressor = None /\ env.machine # None -> [s EXCEPT !.machine = env.machine]
      [] OTHER -> s

\* What a launch stores.
Resolved(q, s) ==
    CASE q.machine # None    -> [s EXCEPT !.machine = q.machine]
      [] q.machine = None /\ q.compressor # None -> [s EXCEPT !.compressor = q.compressor]
      [] q.machine = None /\ q.compressor = None /\ env.machine # None /\ s.machine = None ->
           [s EXCEPT !.machine = env.machine]
      [] q.machine = None /\ q.compressor = None /\ (env.machine = None \/ s.machine # None)
           /\ env.compressor # None /\ s.compressor = None -> [s EXCEPT !.compressor = env.compressor]
      [] OTHER -> s

NoQuery == [k \in AssetKinds |-> None]

Shown(p, f, c) == IF Loaded(p, f, c) /\ p.kind = "machine" THEN p.id ELSE chosen

TabletEntry(q) ==
    /\ page.at = "closed"
    /\ LET t == Target(q, stored)
       IN /\ Goes(t, fleet, isConnected, Resolved(q, stored))
          /\ chosen' = IF q.machine # None THEN q.machine ELSE Shown(t, fleet, isConnected)
    /\ UNCHANGED <<env, event>>

Launch == \E q \in {NoQuery} \cup {[NoQuery EXCEPT ![k] = i] : k \in AssetKinds, i \in Ids["machine"]} :
             (\A k \in AssetKinds : q[k] \in Ids[k] \cup {None}) /\ TabletEntry(q)

Close ==
    /\ page.at # "closed"
    /\ Goes(Entry("closed"), fleet, isConnected, stored)
    /\ UNCHANGED <<env, event, chosen>>

-----------------------------------------------------------------------------
(* The shells                                                                *)

\* [ CHANGE ASSET ]
ChangeAsset ==
    /\ Loaded(page, fleet, isConnected)
    /\ Goes(Entry("setup"), fleet, isConnected, stored)
    /\ UNCHANGED <<env, event, chosen>>

NavLink ==
    /\ Loaded(page, fleet, isConnected)
    /\ \E i \in DOMAIN Slugs[page.kind] :
         Slugs[page.kind][i] # page.pane /\ page' = [page EXCEPT !.pane = Slugs[page.kind][i]]
    /\ UNCHANGED <<stored, env, fleet, isConnected, setups, saver, event, wake, chosen>>

\* A sideways swipe goes to the next pane or the one before, around the ends.
Swipe ==
    /\ Loaded(page, fleet, isConnected) /\ ~saver.active
    /\ LET order == Slugs[page.kind]
           here == CHOOSE i \in DOMAIN order : order[i] = page.pane
       IN \E to \in {(here % Len(order)) + 1, ((here + Len(order) - 2) % Len(order)) + 1} :
            page' = [page EXCEPT !.pane = order[to]]
    /\ UNCHANGED <<stored, env, fleet, isConnected, setups, saver, event, wake, chosen>>

FleetMessage ==
    /\ \E k \in AssetKinds, i \in Ids["machine"] \cup Ids["compressor"] :
         /\ i \in Ids[k]
         /\ LET f == [fleet EXCEPT ![k] = IF i \in @ THEN @ \ {i} ELSE @ \cup {i}]
            IN /\ Goes(page, f, TRUE, stored)
               /\ chosen' = Shown(page, f, TRUE)
    /\ UNCHANGED <<env, event>>

Connection ==
    /\ Goes(page, fleet, ~isConnected, stored)
    /\ chosen' = Shown(page, fleet, ~isConnected)
    /\ UNCHANGED <<env, event>>

-----------------------------------------------------------------------------
(* The setup panels                                                          *)

\* The list arrives with the enabled assets, empty, or not at all. A stored
\* asset that is not in it is taken out of the field, with a hint.
ListArrives(k) ==
    /\ setups[k].load = "loading"
    /\ \/ \E rows \in {Listed[k], {}} :
            setups' = [setups EXCEPT ![k] =
              [value |-> IF stored[k] # None /\ rows # {} THEN (IF stored[k] \in rows THEN stored[k] ELSE None) ELSE @.value,
               rows |-> rows, load |-> "ready",
               hint |-> stored[k] # None /\ rows # {} /\ stored[k] \notin rows]]
       \/ setups' = [setups EXCEPT ![k].load = "failed"]
    /\ UNCHANGED <<page, stored, env, fleet, isConnected, saver, event, wake, chosen>>

\* Picked from the list, or typed where there is none.
Pick(k) ==
    /\ setups[k].load \in {"ready", "failed"}
    /\ \E i \in (IF setups[k].rows # {} THEN setups[k].rows ELSE Ids[k]) \cup {None} :
         setups' = [setups EXCEPT ![k].value = i]
    /\ UNCHANGED <<page, stored, env, fleet, isConnected, saver, event, wake, chosen>>

handleSubmit(k) ==
    /\ setups[k].load \in {"ready", "failed"} /\ setups[k].value # None
    /\ LET i == setups[k].value
           p == Shell(k, i, DefaultPane(k))
       IN /\ Goes(p, fleet, isConnected, [stored EXCEPT ![k] = i])
          /\ chosen' = IF k = "machine" THEN i ELSE chosen
    /\ UNCHANGED <<env, event>>

handleClear(k) ==
    /\ page.at \in {"entry", "setup"}
    /\ stored' = [stored EXCEPT ![k] = None]
    /\ setups' = [setups EXCEPT ![k].value = None, ![k].hint = FALSE]
    /\ chosen' = IF k = "machine" THEN None ELSE chosen
    /\ UNCHANGED <<page, env, fleet, isConnected, saver, event, wake>>

clampMinutes(n) == IF n < MinIdle THEN MinIdle ELSE IF n > MaxIdle THEN MaxIdle ELSE n

\* Saved in this tab, on the setup page.
SaveIdle ==
    /\ page.at = "setup"
    /\ \E n \in Typed : stored' = [stored EXCEPT !.idle = clampMinutes(n)]
    /\ UNCHANGED <<page, env, fleet, isConnected, setups, saver, event, wake, chosen>>

\* Saved in another tab, this one hears of it by an event.
SaveIdleElsewhere ==
    /\ \E n \in Typed : clampMinutes(n) # stored.idle /\ stored' = [stored EXCEPT !.idle = clampMinutes(n)]
    /\ event' = TRUE
    /\ UNCHANGED <<page, env, fleet, isConnected, setups, saver, wake, chosen>>

-----------------------------------------------------------------------------
(* The screensaver                                                           *)

\* A new delay starts the timer again, unless the saver is shown.
useTabletScreensaverIdleMs ==
    /\ event /\ event' = FALSE
    /\ saver' = IF Loaded(page, fleet, isConnected)
                THEN [saver EXCEPT !.idle = stored.idle, !.timer = IF saver.active THEN None ELSE stored.idle]
                ELSE saver
    /\ UNCHANGED <<page, stored, env, fleet, isConnected, setups, wake, chosen>>

\* The timer fires, or the title is tapped. Any other activity starts the timer
\* again with the delay it has.
useIdleArm ==
    /\ Loaded(page, fleet, isConnected) /\ ~saver.active
    /\ saver' = [saver EXCEPT !.active = TRUE, !.timer = None]
    /\ wake' = Ask(wake)
    /\ UNCHANGED <<page, stored, env, fleet, isConnected, setups, event, chosen>>

Dismiss ==
    /\ saver.active
    /\ saver' = [saver EXCEPT !.active = FALSE, !.timer = saver.idle]
    /\ wake' = Release(wake)
    /\ UNCHANGED <<page, stored, env, fleet, isConnected, setups, event, chosen>>

\* A lock that was asked for arrives, or is denied. When the saver is gone it
\* is given back at once.
LockArrives ==
    /\ \/ \E n \in wake.asked : wake' \in {[wake EXCEPT !.asked = @ \ {n}, !.held = @ \cup {n}, !.known = n],
                                           [wake EXCEPT !.asked = @ \ {n}]}
       \/ \E n \in wake.late : wake' = [wake EXCEPT !.late = @ \ {n}]
    /\ UNCHANGED <<page, stored, env, fleet, isConnected, setups, saver, event, chosen>>

\* The page is hidden, which takes the locks, and visible again.
useWakeLock ==
    /\ saver.active
    /\ wake' = Ask([wake EXCEPT !.held = {}, !.known = None])
    /\ UNCHANGED <<page, stored, env, fleet, isConnected, setups, saver, event, chosen>>

-----------------------------------------------------------------------------
TabletInit ==
    /\ page = Entry("closed")
    /\ stored \in {[machine |-> m, compressor |-> c, idle |-> DefaultIdle] :
                     m \in Ids["machine"] \cup {None}, c \in Ids["compressor"] \cup {None}}
    /\ env \in Envs
    /\ fleet = [k \in AssetKinds |-> {}] /\ isConnected = FALSE
    /\ setups = [k \in AssetKinds |-> NoSetup]
    /\ saver = NoSaver /\ event = FALSE /\ wake = NoWake
    /\ chosen = stored.machine

TabletNext ==
    \/ Launch \/ Close \/ ChangeAsset \/ NavLink \/ Swipe \/ FleetMessage \/ Connection
    \/ \E k \in AssetKinds : ListArrives(k) \/ Pick(k) \/ handleSubmit(k) \/ handleClear(k)
    \/ SaveIdle \/ SaveIdleElsewhere \/ useTabletScreensaverIdleMs
    \/ useIdleArm \/ Dismiss \/ LockArrives \/ useWakeLock

TabletSpec == TabletInit /\ [][TabletNext]_tabletVars

-----------------------------------------------------------------------------
(* Properties                                                                *)

\* The machine that was last shown, picked or asked for is what the next launch
\* opens, until it is cleared, whatever defaults the build has.
MachineReopens ==
    chosen # None => LET t == Target(NoQuery, stored) IN t.kind = "machine" /\ t.id = chosen

\* A shell that is shown without its screensaver counts down to it with the
\* delay that is stored, but for a change this tab has not heard of yet.
IdleTimerCurrent ==
    IF Loaded(page, fleet, isConnected)
    THEN /\ saver.timer = IF saver.active THEN None ELSE saver.idle
         /\ saver.idle = stored.idle \/ event
    ELSE saver.timer = None

\* What is stored decides: which asset opens, and when the screen is saved.
StoredDecides == MachineReopens /\ IdleTimerCurrent

\* What is stored beats the defaults of the build. It does not: a launch that
\* opens the stored compressor stores the default machine, which the next opens.
StorageBeatsEnv ==
    [][page.at = "closed" /\ stored.machine = None /\ stored.compressor # None /\ page'.at = "shell"
         /\ page'.kind = "compressor" => stored'.machine = None]_tabletVars

\* No wake lock is left when the screensaver is gone. One is left when two
\* requests are granted: only the last is known.
NoLockLeft == ~saver.active => wake.held = {}
=============================================================================
