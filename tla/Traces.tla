------------------------------- MODULE Traces -------------------------------
(* What the charts draw of a history: the durations of the pie and the trace *)
(* of a machine's status (statusTimelineUtils.ts, StatusTimeline.tsx,        *)
(* StatusPieChart.tsx), the thinned trace of a compressor's status           *)
(* (CompressorStatusTimelinePane.tsx, StatusOscilloscope.tsx) and the curve, *)
(* the peak and the range of its telemetry (CompressorTelemetrySeriesPane).  *)
(*                                                                           *)
(* A row has a time, a status that is normalised already, and a value.       *)
(* Smoothing, pixels and labels are left out.                                *)
EXTENDS Integers, SequencesExt, Screen

CONSTANTS ChartOf,    \* "machine", "status" or "telemetry" of a compressor
          Statuses,   \* with "off"
          Values,     \* what is measured, None for nothing
          Windows,    \* the lengths of the ranges
          Stride,     \* how many samples with one status are thinned to one
          MaxDraw,    \* how many points are drawn, and the extremes
          MaxTime, MaxRows   \* bounds; there is at most one row and one poll at a time

ASSUME TracesAssumption ==
    /\ IsFiniteSet(Statuses) /\ "off" \in Statuses /\ None \notin Statuses
    /\ Values \ {None} \subseteq Int
    /\ Windows \subseteq Nat /\ Windows # {}
    /\ Stride \in Nat /\ MaxDraw \in Nat \ {0} /\ MaxTime \in Nat /\ MaxRows \in Nat

VARIABLES
    history,   \* the rows of the database, oldest first
    fetched,   \* the rows the pane has
    live,      \* the last poll: status, value, when, and online, or None
    time,
    range,     \* the chosen range, and when it was chosen
    kindOf

traceVars == <<history, fetched, live, time, range, kindOf>>

-----------------------------------------------------------------------------
(* The pie and the trace of a machine                                        *)

normalizeStatus(s, online) == IF online = FALSE THEN "off" ELSE IF s = None THEN "standby" ELSE s

start == time - range.length

\* Rows, no two of one time, from the earliest to the latest.
ByTime(rows) ==
    [i \in 1..Cardinality(rows) |->
       CHOOSE r \in rows : Cardinality({x \in rows : x.t < r.t}) = i - 1]

Sorted(rows) == ByTime({r \in ToSet(rows) : r.t \in start..time})

\* The status that was active since the last event has the time up to the next.
Counted(acc, s, t) ==
    [ms |-> IF t > acc.from THEN [acc.ms EXCEPT ![acc.s] = @ + t - acc.from] ELSE acc.ms,
     s |-> s, from |-> t]

\* The window begins with the status of now, or the first event's without one;
\* the status of now, if it is known, has the time after the last event.
Slices(rows) ==
    LET n == Len(rows)
        now == normalizeStatus(live.s, live.online)
        begun == [ms |-> [s \in Statuses |-> 0],
                  s |-> IF live.s = None /\ n > 0 THEN rows[1].s ELSE now, from |-> start]
        counted == FoldLeft(LAMBDA acc, r : Counted(acc, r.s, r.t), begun, rows)
    IN IF live.s # None \/ (n = 0 /\ live.online # None)
       THEN Counted(counted, now, time).ms ELSE counted.ms

TotalOf(ms, S) == MapThenSumSet(LAMBDA x : ms[x], S)

computeStatusDurations_asFetched == Slices(fetched) \* defect: newest first
computeStatusDurations == Slices(Sorted(fetched))

StatusPieChart ==
    LET slices == {s \in Statuses : computeStatusDurations[s] > 0}
    IN [slices |-> slices, total |-> TotalOf(computeStatusDurations, slices)]

\* The points of the trace: nothing before the first event, and now if the
\* status is known. The trace of a compressor is built alike.
buildOscilloscopeData(rows) ==
    LET now == <<[t |-> time, s |-> normalizeStatus(live.s, live.online)]>>
        points == [i \in DOMAIN Sorted(rows) |-> [t |-> Sorted(rows)[i].t, s |-> Sorted(rows)[i].s]]
    IN IF rows = <<>>
       THEN IF live.s # None \/ live.online # None THEN <<[now[1] EXCEPT !.t = start]>> \o now ELSE <<>>
       ELSE IF live.s # None THEN points \o now ELSE points

-----------------------------------------------------------------------------
(* The samples of a compressor                                               *)

LastTime(rows) == IF rows = <<>> THEN -1 ELSE rows[Len(rows)].t

\* The last poll is drawn too when it is newer than the rows.
WithLiveTail(rows, known) ==
    IF ~known \/ live.online = FALSE \/ live.at = None THEN rows
    ELSE IF live.at <= LastTime(rows) THEN rows
    ELSE Append(rows, [t |-> live.at, s |-> live.s, v |-> live.v])

samplesWithLiveTail == WithLiveTail(fetched, live.s # None)

\* The first and the last row, every change, and one of Stride rows in between.
Thinned(rows, kept(_, _)) ==
    LET step(acc, r) == IF kept(acc, r) THEN [out |-> Append(acc.out, r), since |-> 0]
                        ELSE [acc EXCEPT !.since = @ + 1]
        thin == FoldLeft(step, [out |-> <<rows[1]>>, since |-> 0], SubSeq(rows, 2, Len(rows) - 1)).out
        last == rows[Len(rows)]
    IN IF Len(rows) <= 2 THEN rows
       ELSE IF thin[Len(thin)].t # last.t THEN Append(thin, last) ELSE thin

decimateSamplesForOscilloscope_count(rows) ==  \* defect: changes are not looked at
    Thinned(rows, LAMBDA acc, r : acc.since + 1 >= Stride)
decimateSamplesForOscilloscope(rows) ==
    Thinned(rows, LAMBDA acc, r : r.s # acc.out[Len(acc.out)].s \/ acc.since + 1 >= Stride)

\* Rows without a value are left out.
rowsToPoints(rows) == Only(rows, {r \in ToSet(rows) : r.v # None})

pointsWithLiveTail == WithLiveTail(rowsToPoints(fetched), live.v # None)

decimatePoints(points, most) ==
    LET n == Len(points)
        step == (n + most - 1) \div most
        out == [i \in 1..((n + step - 1) \div step) |-> points[(i - 1) * step + 1]]
    IN IF n <= most THEN points
       ELSE IF out[Len(out)].t # points[n].t THEN Append(out, points[n]) ELSE out

Lowest(points) == Min({points[i].v : i \in DOMAIN points})
peakInRange(points) == Max({points[i].v : i \in DOMAIN points})
FirstWith(points, v) == points[Min({i \in DOMAIN points : points[i].v = v})]

\* The first of the highest and of the lowest points are drawn in any case.
mergeExtremaSamples(thin, points) ==
    LET extremes == IF points = <<>> THEN {}
                    ELSE {FirstWith(points, peakInRange(points)), FirstWith(points, Lowest(points))}
    IN ByTime(ToSet(thin) \cup extremes)

drawPoints == mergeExtremaSamples(decimatePoints(pointsWithLiveTail, MaxDraw), pointsWithLiveTail)

\* The range that is announced is that of the time when it was chosen.
rangeToWindowMs == (range.chosen - range.length)..range.chosen
minMaxInRange == {pointsWithLiveTail[i].v : i \in {j \in DOMAIN pointsWithLiveTail : pointsWithLiveTail[j].t \in rangeToWindowMs}}

-----------------------------------------------------------------------------
Record ==
    /\ Len(history) < MaxRows /\ LastTime(history) < time
    /\ \E s \in IF kindOf = "telemetry" THEN {"standby"} ELSE Statuses,
          v \in IF kindOf = "telemetry" THEN Values ELSE {None} :
          history' = Append(history, [t |-> time, s |-> s, v |-> v])
    /\ UNCHANGED <<fetched, live, time, range, kindOf>>

Polled ==
    /\ live.at # time
    /\ \E s \in IF kindOf = "telemetry" THEN {"standby"} ELSE Statuses,
          v \in IF kindOf = "telemetry" THEN Values ELSE {None} :
          live' = [s |-> s, v |-> v, at |-> time, online |-> TRUE]
    /\ UNCHANGED <<history, fetched, time, range, kindOf>>

PollFailed ==
    /\ live' = [live EXCEPT !.online = FALSE]
    /\ UNCHANGED <<history, fetched, time, range, kindOf>>

\* A machine's events come newest first, a compressor's samples oldest first.
Fetched ==
    /\ fetched' = LET rows == Only(history, {r \in ToSet(history) : r.t >= start})
                  IN IF kindOf = "machine" THEN Reverse(rows) ELSE rows
    /\ UNCHANGED <<history, live, time, range, kindOf>>

setTimeRange ==
    /\ \E w \in Windows \ {range.length} : range' = [length |-> w, chosen |-> time]
    /\ UNCHANGED <<history, fetched, live, time, kindOf>>

Later ==
    /\ time < MaxTime /\ time' = time + 1
    /\ UNCHANGED <<history, fetched, live, range, kindOf>>

TracesInit ==
    /\ history = <<>> /\ fetched = <<>> /\ time = 0
    /\ live = [s |-> None, v |-> None, at |-> None, online |-> None]
    /\ range = [length |-> CHOOSE w \in Windows : TRUE, chosen |-> 0]
    /\ kindOf \in ChartOf

TracesNext == Record \/ Polled \/ PollFailed \/ Fetched \/ setTimeRange \/ Later

TracesSpec == TracesInit /\ [][TracesNext]_traceVars

-----------------------------------------------------------------------------
(* Properties                                                                *)

\* The pie counts every moment once: the whole window when the status is known,
\* up to the last event when it is not; and it gives every status at least the
\* time the trace shows it between two events.
PieWhole ==
    kindOf = "machine" =>
      LET rows == Sorted(fetched)
      IN /\ StatusPieChart.total =
              IF live.s # None \/ (rows = <<>> /\ live.online # None) THEN range.length
              ELSE IF rows = <<>> THEN 0 ELSE LastTime(rows) - start
         /\ \A s \in Statuses :
              computeStatusDurations[s] >=
                TotalOf([i \in 1..(Len(rows) - 1) |-> rows[i + 1].t - rows[i].t],
                        {i \in 1..(Len(rows) - 1) : rows[i].s = s})

\* The statuses of a trace, one after the other.
Changes(rows) ==
    FoldLeft(LAMBDA seen, r : IF seen # <<>> /\ seen[Len(seen)] = r.s THEN seen ELSE Append(seen, r.s),
             <<>>, rows)

\* No change of status is lost when a trace is thinned, however short it was.
ChangesKept ==
    kindOf = "status" =>
      Changes(decimateSamplesForOscilloscope(samplesWithLiveTail)) = Changes(samplesWithLiveTail)

\* The peak and the lowest value are drawn however few points there may be, in
\* the order of time and only what was measured.
ExtremesDrawn ==
    kindOf = "telemetry" /\ pointsWithLiveTail # <<>> =>
      /\ {peakInRange(pointsWithLiveTail), Lowest(pointsWithLiveTail)} \subseteq {drawPoints[i].v : i \in DOMAIN drawPoints}
      /\ ToSet(drawPoints) \subseteq ToSet(pointsWithLiveTail)
      /\ \A i \in 2..Len(drawPoints) : drawPoints[i - 1].t < drawPoints[i].t

\* Thinning drops nothing that the eye looks for, in either kind of chart.
ThinningKeeps == ChangesKept /\ ExtremesDrawn

\* The peak is not within the range that is announced beside it once the chart
\* has been open for some time: the range is that of when it was chosen.
PeakInRange ==
    kindOf = "telemetry" /\ pointsWithLiveTail # <<>> => peakInRange(pointsWithLiveTail) \in minMaxInRange

\* The pie counts time before the first event, of which the trace shows nothing.
PieAsTrace ==
    kindOf = "machine" /\ Sorted(fetched) # <<>> =>
      StatusPieChart.total <= time - buildOscilloscopeData(fetched)[1].t
=============================================================================
