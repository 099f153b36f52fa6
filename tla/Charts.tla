------------------------------- MODULE Charts -------------------------------
(* The panes that read a history for a range of time or a page, and read it  *)
(* again while they are shown: a machine's status timeline, production runs  *)
(* and status history, a compressor's status history, and its status and     *)
(* telemetry charts (the components of machine-detail that are named below). *)
(*                                                                           *)
(* A request is served with what is recorded then, and answered whenever, or *)
(* fails. The two charts read alike and are one kind; so are their retries   *)
(* and the waits between them.                                               *)
EXTENDS Naturals, Sequences, FiniteSets, Screen

CONSTANTS ChartKinds,  \* "timeline", "runs", "prd3" of machines, "history" and "chart" of compressors
          Selectable,  \* the ranges, or the pages from 0
          FullPages,   \* how many pages are full; the next has some rows, or none
          LastRows,
          FreshMax,    \* the age up to which a light is green
          MaxAsks, MaxChanges, MaxNow

ASSUME ChartsAssumption ==
    /\ ChartKinds \subseteq {"timeline", "runs", "prd3", "history", "chart"}
    /\ MaxAsks \in Nat \ {0}
    /\ None \notin Selectable \cup {0}

VARIABLES
    chart,     \* the state of the pane
    asks,      \* the requests under way
    now,
    polledAt   \* when the machine was last polled with success, or None

chartVars == <<chart, asks, now, polledAt>>

Paged(k) == k \in {"prd3", "history"}
Guarded == chart.kind \in {"history", "chart"}
Parts == IF chart.kind = "timeline" THEN <<"events", "alarms", "cycles">> ELSE <<"rows">>
INITIAL_FETCH_RETRIES == 3

-----------------------------------------------------------------------------
(* Requests                                                                  *)

Nothing == [of |-> None, asOf |-> 0, rows |-> "none"]

\* What the database has for a choice.
Rows(k, c) == CASE ~Paged(k) -> "some"
                [] Paged(k) /\ c < FullPages -> "full"
                [] Paged(k) /\ c = FullPages -> LastRows
                [] OTHER -> "none"

Asked(others, of, first) ==
    others \cup {[n |-> CHOOSE i \in 1..MaxAsks : \A a \in others : a.n # i,
                 effect |-> of.effect, choice |-> of.choice, first |-> first, part |-> 1,
                 tries |-> 1, answer |-> Nothing]}

Served ==
    \E a \in asks :
       /\ a.answer = Nothing
       /\ asks' = (asks \ {a}) \cup
            {[a EXCEPT !.answer = [of |-> a.choice, asOf |-> now, rows |-> Rows(chart.kind, a.choice)]]}
       /\ UNCHANGED <<chart, now, polledAt>>

\* The answers of an effect that is over are ignored by the compressor panes.
Stale_never(a) == FALSE \* defect: they are taken
Stale(a) == Guarded /\ a.effect # chart.effect

\* The part is shown, and the timeline asks for the next one.
Arrives(a) ==
    LET last == a.part = Len(Parts) IN
    /\ a.answer # Nothing /\ ~Stale(a)
    /\ chart' = [chart EXCEPT !.shown[Parts[a.part]] = a.answer,
                              !.readAt = IF a.part = 1 THEN now ELSE @,
                              !.error = FALSE,
                              !.loading = @ /\ (IF Guarded THEN ~a.first ELSE ~last),
                              !.timer = @ \/ chart.kind = "chart"]
    /\ asks' = (asks \ {a}) \cup
         IF last THEN {} ELSE {[a EXCEPT !.part = @ + 1, !.answer = Nothing]}
    /\ UNCHANGED <<now, polledAt>>

\* An answer that is not ok: the timeline keeps what it has of the part, but for
\* the cycles, and goes on with the next.
Refused(a) ==
    /\ chart.kind = "timeline"
    /\ chart' = [chart EXCEPT !.shown = IF a.part = 3 THEN [@ EXCEPT !["cycles"] = Nothing] ELSE @,
                              !.loading = @ /\ a.part < 3]
    /\ asks' = (asks \ {a}) \cup IF a.part = 3 THEN {} ELSE {[a EXCEPT !.part = @ + 1, !.answer = Nothing]}
    /\ UNCHANGED <<now, polledAt>>

\* No answer: the other panes of machines are emptied, and those of compressors
\* say so at the first load alone.
Fails(a) ==
    /\ ~Stale(a) /\ ~(chart.kind = "chart" /\ a.first /\ a.tries < INITIAL_FETCH_RETRIES)
    /\ chart' = [chart EXCEPT !.shown = IF chart.kind \in {"runs", "prd3"} THEN [p \in DOMAIN @ |-> Nothing] ELSE @,
                              !.error = @ \/ (Guarded /\ a.first),
                              !.loading = @ /\ Guarded /\ ~a.first,
                              !.timer = @ \/ chart.kind = "chart"]
    /\ asks' = asks \ {a}
    /\ UNCHANGED <<now, polledAt>>

\* The charts try their first load three times.
fetchCompressorStatusSamples(a) ==
    /\ chart.kind = "chart" /\ ~Stale(a) /\ a.first /\ a.tries < INITIAL_FETCH_RETRIES
    /\ asks' = (asks \ {a}) \cup {[a EXCEPT !.tries = @ + 1, !.answer = Nothing]}
    /\ UNCHANGED <<chart, now, polledAt>>

Ignored(a) ==
    /\ Stale(a)
    /\ asks' = asks \ {a}
    /\ UNCHANGED <<chart, now, polledAt>>

-----------------------------------------------------------------------------
(* Reading again                                                             *)

\* A minute is over. The panes of machines show that they load.
IntervalFires ==
    /\ chart.kind \in {"timeline", "prd3", "history"} /\ Cardinality(asks) < MaxAsks
    /\ chart' = [chart EXCEPT !.loading = @ \/ ~Guarded]
    /\ asks' = Asked(asks, chart, FALSE)
    /\ UNCHANGED <<now, polledAt>>

\* The charts wait from one answer to the next request.
runPoll_again ==  \* defect: the timer goes on
    /\ chart.timer /\ Cardinality(asks) < MaxAsks
    /\ asks' = Asked(asks, chart, FALSE)
    /\ UNCHANGED <<chart, now, polledAt>>
runPoll ==
    /\ chart.timer /\ Cardinality(asks) < MaxAsks
    /\ chart' = [chart EXCEPT !.timer = FALSE]
    /\ asks' = Asked(asks, chart, FALSE)
    /\ UNCHANGED <<now, polledAt>>

-----------------------------------------------------------------------------
(* The user and the world                                                    *)

\* A page can be turned while there are rows, forward if there are a hundred.
PageTurns(c) ==
    /\ ~chart.loading /\ ~(Guarded /\ chart.error)
    /\ LET rows == chart.shown["rows"].rows
       IN rows # "none" /\ (c + 1 = chart.choice \/ (c = chart.choice + 1 /\ rows = "full"))

\* The effect runs again: what it asked for is aborted by the compressor panes,
\* but for what the interval of their history has asked for.
Choose(c) ==
    /\ c # chart.choice /\ chart.effect < MaxChanges
    /\ Paged(chart.kind) => PageTurns(c)
    /\ LET next == [chart EXCEPT !.choice = c, !.effect = @ + 1, !.loading = TRUE,
                                 !.error = @ /\ ~Guarded, !.timer = FALSE]
           left == {a \in asks : chart.kind # "chart" /\ ~(chart.kind = "history" /\ a.first)}
       IN /\ Cardinality(left) < MaxAsks
          /\ chart' = next
          /\ asks' = Asked(left, next, TRUE)
    /\ UNCHANGED <<now, polledAt>>

\* Time passes, rows are recorded, and the machine has been polled or not.
Passes ==
    /\ now < MaxNow /\ now' = now + 1
    /\ polledAt' \in IF Guarded THEN {None} ELSE {polledAt, now + 1}
    /\ UNCHANGED <<chart, asks>>

-----------------------------------------------------------------------------
(* The light of a pane                                                       *)

\* The older of the two, or the one there is. A pane of a compressor has one.
earlierIsoTimestamp ==
    CASE Guarded -> chart.readAt
      [] ~Guarded /\ polledAt = None -> None
      [] ~Guarded /\ polledAt # None ->
           IF chart.readAt # None /\ chart.readAt <= polledAt THEN chart.readAt ELSE polledAt

PollingStatusLight ==
    LET at == earlierIsoTimestamp
    IN IF at = None THEN "unknown"
       ELSE IF now - at <= FreshMax THEN "fresh"
       ELSE IF now - at <= 3 * FreshMax THEN "waning" ELSE "stale"

-----------------------------------------------------------------------------
ChartsInit ==
    /\ \E k \in ChartKinds :
          chart = [kind |-> k, choice |-> 0, effect |-> 0, loading |-> TRUE, error |-> FALSE,
                   timer |-> FALSE, readAt |-> None,
                   shown |-> [p \in IF k = "timeline" THEN {"events", "alarms", "cycles"} ELSE {"rows"} |-> Nothing]]
    /\ asks = {[n |-> 1, effect |-> 0, choice |-> 0, first |-> TRUE, part |-> 1, tries |-> 1, answer |-> Nothing]}
    /\ now = 0 /\ polledAt = None

ChartsNext ==
    \/ Served \/ IntervalFires \/ runPoll \/ Passes
    \/ \E a \in asks : Arrives(a) \/ Refused(a) \/ Fails(a) \/ fetchCompressorStatusSamples(a) \/ Ignored(a)
    \/ \E c \in Selectable : Choose(c)

ChartsSpec == ChartsInit /\ [][ChartsNext]_chartVars

-----------------------------------------------------------------------------
(* Properties                                                                *)

Choosable == Selectable \cup {0}

Answer == [of : Choosable \cup {None}, asOf : Nat, rows : {"none", "some", "full", LastRows}]

\* Types of the pane, of the requests under way and of the two clocks.
ChartsTypeOK ==
    /\ chart \in [kind : ChartKinds, choice : Choosable, effect : Nat, loading : BOOLEAN,
                  error : BOOLEAN, timer : BOOLEAN, readAt : Nat \cup {None},
                  shown : [{"events", "alarms", "cycles"} -> Answer] \cup [{"rows"} -> Answer]]
    /\ DOMAIN chart.shown = {Parts[i] : i \in 1..Len(Parts)}
    /\ asks \subseteq [n : 1..MaxAsks, effect : Nat, choice : Choosable, first : BOOLEAN,
                       part : 1..Len(Parts), tries : 1..INITIAL_FETCH_RETRIES, answer : Answer]
    /\ IsFiniteSet(asks)
    /\ now \in Nat /\ polledAt \in Nat \cup {None}

\* A pane of a compressor that is not loading and shows no error shows the range
\* or the page that is chosen, whichever answers are late.
ShownIsChosen == Guarded /\ ~chart.loading /\ ~chart.error => chart.shown["rows"].of = chart.choice

\* A pane that says it loads has a request under way that ends that, and a chart
\* has one request under way or waits to ask again: it neither stops nor asks
\* twice at a time, whatever fails and however fast ranges are chosen.
ReadingGoesOn ==
    /\ chart.loading => \E a \in asks : ~Stale(a) /\ (Guarded => a.first)
    /\ chart.kind = "chart" =>
         LET live == {a \in asks : a.effect = chart.effect}
         IN IF chart.timer THEN live = {} ELSE Cardinality(live) = 1

\* The panes of machines do show another range or page than the chosen one: a
\* late answer is taken, and stays until the next minute, or for ever.
MachineShowsChosen ==
    ~Guarded /\ ~chart.loading
      => \A p \in DOMAIN chart.shown : chart.shown[p] = Nothing \/ chart.shown[p].of = chart.choice

\* From a page without rows there is no way back: the buttons are not shown.
PageLeaves ==
    Paged(chart.kind) /\ ~chart.loading /\ ~chart.error /\ chart.choice > 0 => PageTurns(chart.choice - 1)

\* A history may step back when the request of a minute ago is late.
HistoryAdvances ==
    [][\A p \in DOMAIN chart.shown :
         chart'.shown[p].of = chart.shown[p].of => chart'.shown[p].asOf >= chart.shown[p].asOf]_chartVars

\* What the comment at pollingFreshness.ts says: a light is only green when both
\* a recent read and a recent poll exist.
LightNeedsBoth ==
    PollingStatusLight = "fresh" =>
      /\ chart.readAt # None /\ now - chart.readAt <= FreshMax
      /\ Guarded \/ (polledAt # None /\ now - polledAt <= FreshMax)
=============================================================================
