------------------------- MODULE MachinePollerProofs -------------------------
(***************************************************************************)
(* Theorems about MachinePoller, for every set of slots and programs,      *)
(* every threshold and interval and every bound.                           *)
(***************************************************************************)
EXTENDS MachinePoller, SequenceTheorems, TLAPS

-----------------------------------------------------------------------------
(* Types *)

LEMMA NewPollerType ==
    ASSUME NEW st \in Statuses \cup {None}, NEW n \in BOOLEAN
    PROVE  NewPoller(st, n) \in PollerType
  BY ThresholdAssumption DEF NewPoller, PollerType

LEMMA UnusedType == Unused \in PollerType
  BY NewPollerType DEF Unused

\* The poller after a successful poll, and after a failed one.
LEMMA SucceedIs ==
    ASSUME NEW p \in PollerType, NEW st \in Statuses \cup {None}
    PROVE  /\ Succeed(p, st) \in PollerType
           /\ Succeed(p, st).online = DisplayOnline(Succeed(p, st))
           /\ Succeed(p, st).failures = 0 /\ Succeed(p, st).lastStatus = p.lastStatus
           /\ Succeed(p, st).loggedOffline <=> (p.loggedOffline /\ st = None)
<1> DEFINE b == p.loggedOffline /\ st = None
           ok == [p EXCEPT !.failures = 0, !.succeeded = TRUE, !.loggedOffline = b]
<1>1. Succeed(p, st) = [ok EXCEPT !.online = DisplayOnline(ok)]
  BY DEF Succeed
<1>2. b \in BOOLEAN
  BY Zenon
<1>3. 0 \in 0..OfflineThreshold
  BY ThresholdAssumption
<1> HIDE DEF b
<1>4. ok \in PollerType /\ ok.failures = 0 /\ ok.succeeded /\ ok.lastStatus = p.lastStatus
      /\ ok.loggedOffline = b
  BY <1>2, <1>3 DEF PollerType
<1> HIDE DEF ok
<1>5. DisplayOnline(ok) \in BOOLEAN
  BY DEF DisplayOnline
<1>6. /\ Succeed(p, st) \in PollerType /\ Succeed(p, st).online = DisplayOnline(ok)
      /\ Succeed(p, st).failures = ok.failures /\ Succeed(p, st).succeeded = ok.succeeded
      /\ Succeed(p, st).lastStatus = ok.lastStatus /\ Succeed(p, st).loggedOffline = ok.loggedOffline
  BY <1>1, <1>4, <1>5 DEF PollerType
<1>7. DisplayOnline(Succeed(p, st)) = DisplayOnline(ok)
  BY <1>6 DEF DisplayOnline
<1> QED BY <1>4, <1>6, <1>7 DEF b

LEMMA FailIs ==
    ASSUME NEW p \in PollerType, NEW age \in 0..PollTimeout
    PROVE  /\ Fail(p, age) \in PollerType
           /\ Fail(p, age).online = DisplayOnline(Fail(p, age))
           /\ Fail(p, age).failures >= OfflineThreshold => Fail(p, age).loggedOffline
           /\ Fail(p, age).lastStatus = IF GoesOff(p) THEN "off" ELSE p.lastStatus
           /\ Fail(p, age).loggedOffline <=> (p.loggedOffline \/ GoesOff(p))
<1> DEFINE failed == [p EXCEPT !.failures = Failures(p)]
<1>1. Failures(p) \in 0..OfflineThreshold
  BY ThresholdAssumption DEF PollerType, Failures
<1>2. /\ failed \in PollerType /\ failed.failures = Failures(p) /\ failed.succeeded = p.succeeded
      /\ failed.lastStatus = p.lastStatus /\ failed.loggedOffline = p.loggedOffline
      /\ failed.sinceBeat = p.sinceBeat
  BY <1>1 DEF PollerType
<1>3. Fail(p, age) = [failed EXCEPT
        !.online = DisplayOnline(failed),
        !.lastStatus = IF GoesOff(p) THEN "off" ELSE @,
        !.loggedOffline = @ \/ GoesOff(p),
        !.sinceBeat = IF GoesOff(p) \/ Beats(p, age) THEN age ELSE @]
  BY DEF Fail
<1> HIDE DEF failed
<1>4. DisplayOnline(failed) \in BOOLEAN
  BY DEF DisplayOnline
<1>5. (failed.loggedOffline \/ GoesOff(p)) \in BOOLEAN
  BY Zenon
<1>6. age \in 0..MaxAge
  BY TimeAssumption DEF MaxAge
<1>7. (IF GoesOff(p) \/ Beats(p, age) THEN age ELSE failed.sinceBeat) \in 0..MaxAge \cup {None}
  BY <1>2, <1>6 DEF PollerType
<1>8. (IF GoesOff(p) THEN "off" ELSE failed.lastStatus) \in Statuses \cup {None}
  BY <1>2 DEF PollerType, Statuses
<1>9. /\ Fail(p, age) \in PollerType
      /\ Fail(p, age).online = DisplayOnline(failed)
      /\ Fail(p, age).failures = failed.failures /\ Fail(p, age).succeeded = failed.succeeded
      /\ Fail(p, age).lastStatus = (IF GoesOff(p) THEN "off" ELSE failed.lastStatus)
      /\ Fail(p, age).loggedOffline = (failed.loggedOffline \/ GoesOff(p))
  BY <1>2, <1>3, <1>4, <1>5, <1>7, <1>8 DEF PollerType
<1>10. DisplayOnline(Fail(p, age)) = DisplayOnline(failed)
  BY <1>9 DEF DisplayOnline
<1>11. failed.failures >= OfflineThreshold => failed.loggedOffline \/ GoesOff(p)
  BY <1>2 DEF GoesOff
<1>12. Fail(p, age).failures >= OfflineThreshold => Fail(p, age).loggedOffline
  BY <1>9, <1>11
<1>13. Fail(p, age).loggedOffline <=> (p.loggedOffline \/ GoesOff(p))
  BY <1>2, <1>9
<1> QED BY <1>2, <1>9, <1>10, <1>12, <1>13

\* A step changes one poller, and forgets those that nothing refers to.
LEMMA CollectIs ==
    ASSUME NEW f \in [Pollers -> PollerType], poller' = Collect(f)
    PROVE  /\ poller' \in [Pollers -> PollerType]
           /\ \A o \in Pollers : Referred(o) => poller'[o] = f[o]
           /\ \A o \in Pollers : ~Referred(o) => poller'[o] = Unused
  BY UnusedType DEF Collect

LEMMA CurrentIs == TypeOK => Current \in Pollers
  BY BoundAssumption DEF TypeOK, Current, Pollers

\* The poll that a slot waits for.
LEMMA PollIs ==
    ASSUME NEW q \in PollType, q.phase # "idle"
    PROVE  /\ q \in [phase : {"connecting", "collecting"}, of : Pollers, age : 0..PollTimeout,
                     status : Statuses \cup {None}]
           /\ q.of \in Pollers /\ q.age \in 0..PollTimeout /\ q.status \in Statuses \cup {None}
  BY DEF PollType, Idle

LEMMA IdleType == Idle \in PollType
  BY DEF PollType

LEMMA NoOutputType == NoOutput \in OutputType
  BY DEF NoOutput, OutputType

LEMMA DisplayOnlineType ==
    ASSUME NEW p PROVE DisplayOnline(p) \in BOOLEAN
  BY DEF DisplayOnline

LEMMA AppendType ==
    ASSUME NEW S, NEW q \in Seq(S), NEW x \in S
    PROVE  Append(q, x) \in Seq(S)
  OBVIOUS

LEMMA TailType ==
    ASSUME NEW S, NEW q \in Seq(S), q # <<>>
    PROVE  /\ Head(q) \in S
           /\ Tail(q) \in Seq(S)
           /\ Len(Tail(q)) = Len(q) - 1
           /\ \A i \in 1..Len(Tail(q)) : Tail(q)[i] = q[i + 1]
  OBVIOUS

LEMMA NotifyType ==
    ASSUME NEW run \in RunType, NEW t
    PROVE  Notify(run, t) \in RunType
  BY DEF Notify, RunType

LEMMA CloseType ==
    ASSUME NEW run \in RunType, NEW c \in {"completed", "error", "interrupted"}
    PROVE  Close(run, c) \in ClosedType
  BY DEF Close, RunType, ClosedType

\* A log task leaves a sequence of run rows.
LEMMA TailDiffers ==
    ASSUME NEW S, NEW q \in Seq(S), q # <<>>
    PROVE  /\ Tail(q) # q
           /\ \A x : Tail(q) # Append(q, x)
<1> DEFINE L(r) == Len(r)
<1>1. L(Tail(q)) = L(q) - 1 /\ L(q) \in Nat BY TailType, LenProperties
<1>2. \A x : L(Append(q, x)) = L(q) + 1 OBVIOUS
<1> HIDE DEF L
<1>3. L(Tail(q)) # L(q) /\ L(Tail(q)) # L(q) + 1 BY <1>1
<1> QED BY <1>2, <1>3, Zenon

LEMMA RunsAfterType ==
    ASSUME openRuns \in Seq(RunType), NEW t \in TaskType, NEW outcome
    PROVE  RunsAfter(t, outcome) \in Seq(RunType)
<1>1. CASE outcome = "ok" /\ StartsRun(t)
  <2>1. Opened(t) \in RunType
    BY <1>1 DEF StartsRun, TaskType, RunType, Opened
  <2> QED BY <1>1, <2>1, AppendType DEF RunsAfter
<1>2. CASE outcome = "ok" /\ EndsRun(t) /\ ~StartsRun(t)
  <2>1. Tail(openRuns) \in Seq(RunType) BY <1>2, TailType DEF EndsRun
  <2> QED BY <1>2, <2>1 DEF RunsAfter
<1>3. CASE outcome = "commit" /\ EndsRun(t)
  <2>1. Head(openRuns) \in RunType /\ Tail(openRuns) \in Seq(RunType)
    BY <1>3, TailType DEF EndsRun
  <2>2. <<Notify(Head(openRuns), t)>> \in Seq(RunType)
    BY <2>1, NotifyType
  <2> QED BY <1>3, <2>1, <2>2 DEF RunsAfter
<1> QED BY <1>1, <1>2, <1>3 DEF RunsAfter

LEMMA ClosedRowType ==
    ASSUME openRuns \in Seq(RunType), NEW t \in TaskType
    PROVE  ClosedRow(t) \in ClosedType \cup {None}
<1>1. CASE EndsRun(t)
  <2>1. Head(openRuns) \in RunType BY <1>1, TailType DEF EndsRun
  <2>2. (IF Completed(t) THEN "completed" ELSE t.status)
          \in {"completed", "error", "interrupted"}
    BY <1>1 DEF EndsRun, Completed
  <2> QED BY <1>1, <2>1, <2>2, NotifyType, CloseType DEF ClosedRow
<1> QED BY <1>1 DEF ClosedRow

LEMMA InitType == Init => TypeOK
<1> SUFFICES ASSUME Init PROVE TypeOK OBVIOUS
<1>1. poller \in [Pollers -> PollerType] BY NewPollerType, UnusedType DEF Init
<1>2. polls \in [Slots -> PollType] BY IdleType DEF Init
<1>3. out \in OutputType BY NoOutputType DEF Init
<1>4. tasks \in Seq(TaskType) /\ openRuns \in Seq(RunType) BY DEF Init
<1>5. dbFailures \in 0..MaxDbFailures /\ restarts \in 0..MaxRestarts
  BY BoundAssumption DEF Init
<1>6. /\ machine \in Conditions
      /\ lastEvent \in Statuses \cup {None}
      /\ own \in BOOLEAN
  BY DEF Init
<1> QED BY <1>1, <1>2, <1>3, <1>4, <1>5, <1>6 DEF TypeOK

LEMMA NextType == TypeOK /\ [Next]_vars => TypeOK'
<1> SUFFICES ASSUME TypeOK, [Next]_vars PROVE TypeOK' OBVIOUS
<1> USE DEF TypeOK
<1>1. CASE MachineChanges
  <2>1. machine' \in Conditions /\ out' \in OutputType
    BY <1>1, NoOutputType DEF MachineChanges
  <2> QED BY <1>1, <2>1 DEF MachineChanges, dbVars, countVars
<1>2. CASE Tick
  <2>1. poller' \in [Pollers -> PollerType]
    <3> SUFFICES ASSUME NEW o \in Pollers PROVE poller'[o] \in PollerType
      BY <1>2 DEF Tick
    <3>1. poller[o] \in PollerType /\ poller'[o] = [poller[o] EXCEPT !.sinceBeat = Older(@)]
      BY <1>2 DEF Tick
    <3>2. Older(poller[o].sinceBeat) \in 0..MaxAge \cup {None}
      <4>1. MaxAge \in Nat BY TimeAssumption DEF MaxAge
      <4>2. \A a \in 0..MaxAge \cup {None} : Older(a) \in 0..MaxAge \cup {None}
        BY <4>1 DEF Older
      <4>3. poller[o].sinceBeat \in 0..MaxAge \cup {None} BY <3>1 DEF PollerType
      <4> QED BY <4>2, <4>3
    <3> QED BY <3>1, <3>2 DEF PollerType
  <2>2. polls' \in [Slots -> PollType]
    <3> SUFFICES ASSUME NEW s \in Slots PROVE polls'[s] \in PollType
      BY <1>2 DEF Tick
    <3>1. CASE polls[s].phase = "idle" BY <1>2, <3>1 DEF Tick
    <3>2. CASE polls[s].phase # "idle"
      <4>1. polls[s] \in [phase : {"connecting", "collecting"}, of : Pollers, age : 0..PollTimeout,
                          status : Statuses \cup {None}]
        BY <3>2, PollIs
      <4>2. polls[s].age + 1 \in 0..PollTimeout
        BY <1>2, <3>2, <4>1, TimeAssumption DEF Tick
      <4>3. polls'[s] = [polls[s] EXCEPT !.age = @ + 1]
        BY <1>2, <3>2 DEF Tick
      <4> QED BY <4>1, <4>2, <4>3 DEF PollType
    <3> QED BY <3>1, <3>2
  <2> QED BY <1>2, <2>1, <2>2, NoOutputType DEF Tick, dbVars, countVars
<1>3. ASSUME NEW s \in Slots, StartPoll(s) PROVE TypeOK'
  <2>1. \A o \in Pollers : [phase |-> "connecting", of |-> o, age |-> 0, status |-> None] \in PollType
    BY TimeAssumption DEF PollType
  <2>2. [phase |-> "connecting", of |-> Current, age |-> 0, status |-> None] \in PollType
    BY <2>1, CurrentIs
  <2> QED BY <1>3, <2>2, NoOutputType DEF StartPoll, dbVars, countVars
<1>4. ASSUME NEW s \in Slots, ReadPrd3(s) PROVE TypeOK'
  <2>1. PICK code \in Readings, active \in BOOLEAN :
          /\ polls' = [polls EXCEPT ![s].phase = "collecting",
                                    ![s].status = MachineStatus(code, active)]
          /\ poller' = [poller EXCEPT ![polls[s].of].lastPrd3 = MachineStatus(code, active)]
    BY <1>4 DEF ReadPrd3
  <2>2. MachineStatus(code, active) \in Statuses \cup {None}
    BY CodesAssumption DEF MachineStatus, Readings, Statuses, Conditions
  <2>3. /\ polls[s] \in [phase : {"connecting", "collecting"}, of : Pollers, age : 0..PollTimeout,
                         status : Statuses \cup {None}]
        /\ polls[s].of \in Pollers
    BY <1>4, PollIs DEF ReadPrd3
  <2>4. [polls[s] EXCEPT !.phase = "collecting", !.status = MachineStatus(code, active)] \in PollType
    BY <2>2, <2>3 DEF PollType
  <2>5. polls' = [polls EXCEPT ![s] = [polls[s] EXCEPT !.phase = "collecting",
                                                       !.status = MachineStatus(code, active)]]
    BY <2>1
  <2>6. polls' \in [Slots -> PollType] BY <2>4, <2>5
  <2>7. poller' \in [Pollers -> PollerType]
    <3> DEFINE o == polls[s].of
               q == [poller[o] EXCEPT !.lastPrd3 = MachineStatus(code, active)]
    <3>1. poller' = [poller EXCEPT ![o] = q] BY <2>1
    <3>2. o \in Pollers /\ poller[o] \in PollerType BY <2>3
    <3> HIDE DEF o
    <3>3. q \in PollerType BY <2>2, <3>2 DEF PollerType
    <3> HIDE DEF q
    <3> QED BY <3>1, <3>2, <3>3
  <2> QED BY <1>4, <2>6, <2>7, NoOutputType DEF ReadPrd3, dbVars, countVars
<1>5. ASSUME NEW s \in Slots, MissPrd3(s) PROVE TypeOK'
  <2> DEFINE known == poller[polls[s].of].lastPrd3
             st == IF known = None THEN "standby" ELSE known
  <2>1. /\ polls[s] \in [phase : {"connecting", "collecting"}, of : Pollers, age : 0..PollTimeout,
                         status : Statuses \cup {None}]
        /\ polls[s].of \in Pollers
    BY <1>5, PollIs DEF MissPrd3
  <2>2. st \in Statuses \cup {None}
    BY <2>1 DEF PollerType, Statuses
  <2>3. polls' = [polls EXCEPT ![s] = [polls[s] EXCEPT !.phase = "collecting", !.status = st]]
    BY <1>5 DEF MissPrd3
  <2> HIDE DEF st
  <2>4. [polls[s] EXCEPT !.phase = "collecting", !.status = st] \in PollType
    BY <2>1, <2>2 DEF PollType
  <2> QED BY <1>5, <2>3, <2>4, NoOutputType DEF MissPrd3, dbVars, countVars
<1>6. ASSUME NEW s \in Slots, CompletePoll(s) PROVE TypeOK'
  <2> DEFINE o == polls[s].of
             task(st, p) == [kind |-> "log", of |-> o, success |-> TRUE, status |-> st,
                             previous |-> None, program |-> p,
                             age |-> polls[s].age]
  <2>0. /\ o \in Pollers /\ polls[s].age \in 0..PollTimeout /\ polls[s].status \in Statuses \cup {None}
    BY <1>6, PollIs DEF CompletePoll
  <2>1. PICK halting \in BOOLEAN, p \in Programs \cup {NoProgram} :
          LET st == ReportedStatus(polls[s].status, halting)
          IN  /\ poller' = Collect([poller EXCEPT ![o] = Succeed(@, st)])
              /\ tasks' = IF st = None THEN tasks ELSE Append(tasks, task(st, p))
    BY <1>6 DEF CompletePoll
  <2> DEFINE st == ReportedStatus(polls[s].status, halting)
             f == [poller EXCEPT ![o] = Succeed(@, st)]
  <2>2. st \in Statuses \cup {None}
    BY <2>0 DEF ReportedStatus, Statuses
  <2>3. f \in [Pollers -> PollerType]
    <3> HIDE DEF st, o
    <3>1. Succeed(poller[o], st) \in PollerType
      BY <2>0, <2>2, SucceedIs
    <3> QED BY <3>1
  <2>4. poller' \in [Pollers -> PollerType]
    <3>1. poller' = Collect(f) BY <2>1
    <3> HIDE DEF f
    <3> QED BY <2>3, <3>1, CollectIs
  <2>5. tasks' \in Seq(TaskType)
    <3>1. CASE st = None BY <3>1, <2>1
    <3>2. CASE st # None
      <4>1. task(st, p) \in TaskType BY <2>0, <2>2, <3>2 DEF TaskType
      <4> HIDE DEF task, st, o
      <4> QED BY <4>1, <3>2, <2>1, AppendType DEF st
    <3> QED BY <3>1, <3>2
  <2>6. polls' \in [Slots -> PollType] BY <1>6, IdleType DEF CompletePoll
  <2> QED BY <1>6, <2>4, <2>5, <2>6, NoOutputType DEF CompletePoll, dbVars, countVars
<1>7. ASSUME NEW s \in Slots, FailPoll(s) PROVE TypeOK'
  <2> DEFINE o == polls[s].of
             age == polls[s].age
             task == [kind |-> "log", of |-> o, success |-> FALSE,
                      status |-> "off", previous |-> poller[o].lastStatus,
                      program |-> NoProgram, age |-> age]
             beat == [task EXCEPT !.kind = "offlineBeat", !.previous = "off"]
             f == [poller EXCEPT ![o] = Fail(poller[o], age)]
  <2>1. o \in Pollers /\ age \in 0..PollTimeout /\ poller[o] \in PollerType
    BY <1>7, PollIs DEF FailPoll
  <2>2. /\ poller' = Collect(f)
        /\ \/ tasks' = Append(tasks, task)
           \/ tasks' = Append(tasks, beat)
           \/ tasks' = tasks
    BY <1>7 DEF FailPoll
  <2>3. task \in TaskType /\ beat \in TaskType
    BY <2>1 DEF TaskType, PollerType, Statuses
  <2>4. tasks' \in Seq(TaskType)
    <3> HIDE DEF task, beat
    <3> QED BY <2>2, <2>3, AppendType
  <2>5. poller' \in [Pollers -> PollerType]
    <3> HIDE DEF o, age
    <3>1. f \in [Pollers -> PollerType]
      BY <2>1, FailIs
    <3> HIDE DEF f
    <3> QED BY <2>2, <3>1, CollectIs
  <2>6. polls' \in [Slots -> PollType] BY <1>7, IdleType DEF FailPoll
  <2> QED BY <1>7, <2>4, <2>5, <2>6, NoOutputType DEF FailPoll, dbVars, countVars
<1>8. CASE LogEvents
  <2> DEFINE t == Head(tasks)
             p == poller[t.of]
             changed == p.lastStatus # t.status
             beats   == ~changed /\ t.success /\ BeatDue(p, t.age)
             row     == [status |-> t.status,
                         previous |-> IF ~changed \/ p.lastStatus = None
                                      THEN t.status
                                      ELSE IF t.success THEN p.lastStatus
                                      ELSE t.previous]
  <2>0. t \in TaskType /\ tasks' \in Seq(TaskType) /\ t.of \in Pollers /\ p \in PollerType
    <3>1. t \in TaskType /\ tasks' \in Seq(TaskType)
      BY <1>8, TailType DEF LogEvents
    <3> QED BY <3>1 DEF TaskType
  <2>1. PICK outcome \in Outcomes(t) :
          /\ CountFailure(outcome)
          /\ \/ /\ out' = NoOutput
                /\ poller' = Collect(poller)
                /\ UNCHANGED <<lastEvent, own, openRuns>>
             \/ /\ \E b \in {t.age, p.sinceBeat} :
                     poller' = Collect([poller EXCEPT ![t.of] =
                                          [p EXCEPT !.lastStatus = t.status, !.sinceBeat = b]])
                /\ lastEvent' \in {t.status, lastEvent}
                /\ own' \in {t.of = Current, own}
                /\ openRuns' = RunsAfter(t, outcome)
                /\ \E notes \in SUBSET {"status", "cycle"} :
                     out' = [event |-> IF outcome = "ok" /\ (changed \/ beats)
                                       THEN row ELSE None,
                             run |-> IF outcome = "ok" THEN ClosedRow(t) ELSE None,
                             notes |-> notes]
    <3> HIDE DEF row
    <3> QED BY <1>8 DEF LogEvents, dbVars, row
  <2>2. dbFailures' \in 0..MaxDbFailures
    BY <2>1, BoundAssumption DEF CountFailure
  <2>3. poller' \in [Pollers -> PollerType]
    <3>1. CASE poller' = Collect(poller) BY <3>1, CollectIs
    <3>2. ASSUME NEW b \in {t.age, p.sinceBeat},
                 poller' = Collect([poller EXCEPT ![t.of] =
                                      [p EXCEPT !.lastStatus = t.status, !.sinceBeat = b]])
          PROVE  poller' \in [Pollers -> PollerType]
      <4> DEFINE q == [p EXCEPT !.lastStatus = t.status, !.sinceBeat = b]
                 f == [poller EXCEPT ![t.of] = q]
      <4>1. b \in 0..MaxAge \cup {None} /\ t.status \in Statuses
        BY <2>0, TimeAssumption DEF TaskType, MaxAge, PollerType
      <4>2. q \in PollerType
        <5> HIDE DEF t, p
        <5> QED BY <2>0, <4>1 DEF PollerType
      <4>3. f \in [Pollers -> PollerType]
        <5> HIDE DEF q, t
        <5> QED BY <2>0, <4>2
      <4>4. poller' = Collect(f) BY <3>2
      <4> HIDE DEF f
      <4> QED BY <4>3, <4>4, CollectIs
    <3> HIDE DEF t, p
    <3> QED BY <2>1, <3>1, <3>2
  <2>4. own' \in BOOLEAN
    <3>1. (t.of = Current) \in BOOLEAN BY Zenon
    <3> QED BY <2>1, <3>1
  <2>5. lastEvent' \in Statuses \cup {None}
    BY <2>0, <2>1 DEF TaskType
  <2>6. openRuns' \in Seq(RunType)
    BY <2>0, <2>1, RunsAfterType
  <2>7. out' \in OutputType
    <3>1. changed \/ beats => row \in [status : Statuses,
                                       previous : Statuses \cup {None}]
      BY <2>0 DEF TaskType, PollerType
    <3>2. ClosedRow(t) \in ClosedType \cup {None} BY <2>0, ClosedRowType
    <3> HIDE DEF row, t, changed, beats, p
    <3> QED BY <2>1, <3>1, <3>2, NoOutputType DEF OutputType
  <2> QED
    BY <1>8, <2>0, <2>2, <2>3, <2>4, <2>5, <2>6, <2>7 DEF LogEvents
<1>9. CASE LogOfflineBeat
  <2>1. tasks' \in Seq(TaskType) /\ poller' \in [Pollers -> PollerType]
    BY <1>9, TailType, CollectIs DEF LogOfflineBeat
  <2>2. PICK outcome \in {"ok", "commit"} :
          /\ CountFailure(outcome)
          /\ lastEvent' = IF outcome = "ok" THEN "off" ELSE lastEvent
          /\ own' = IF outcome = "ok" THEN Head(tasks).of = Current ELSE own
          /\ out' = IF outcome = "ok"
                    THEN [NoOutput EXCEPT !.event = [status |-> "off",
                                                     previous |-> "off"]]
                    ELSE NoOutput
    BY <1>9 DEF LogOfflineBeat
  <2>3. dbFailures' \in 0..MaxDbFailures
    BY <2>2, BoundAssumption DEF CountFailure
  <2>4. lastEvent' \in Statuses \cup {None} BY <2>2 DEF Statuses
  <2>5. out' \in OutputType
    BY <2>2, NoOutputType DEF NoOutput, OutputType, Statuses
  <2>6. own' \in BOOLEAN
    <3>1. (Head(tasks).of = Current) \in BOOLEAN BY Zenon
    <3> QED BY <2>2, <3>1
  <2> QED BY <1>9, <2>1, <2>3, <2>4, <2>5, <2>6 DEF LogOfflineBeat
<1>10. ASSUME NEW n \in BOOLEAN, Seed(n), polls' \in [Slots -> PollType], tasks' \in Seq(TaskType)
       PROVE  TypeOK'
  <2>1. PICK outcome \in {"ok", "early", "commit"} :
          /\ CountFailure(outcome)
          /\ poller' = Collect([poller EXCEPT ![Current'] =
                                  NewPoller(IF outcome = "early" THEN None ELSE lastEvent, n)])
          /\ openRuns' = IF outcome = "ok" THEN <<>> ELSE openRuns
          /\ out' = IF outcome = "ok" /\ openRuns # <<>>
                    THEN [NoOutput EXCEPT !.run =
                            Close(Head(openRuns), "interrupted")]
                    ELSE NoOutput
    BY <1>10 DEF Seed
  <2>2. dbFailures' \in 0..MaxDbFailures
    BY <2>1, BoundAssumption DEF CountFailure
  <2>3. poller' \in [Pollers -> PollerType]
    <3> DEFINE new == NewPoller(IF outcome = "early" THEN None ELSE lastEvent, n)
               f == [poller EXCEPT ![Current'] = new]
    <3>1. new \in PollerType BY NewPollerType
    <3> HIDE DEF new
    <3>2. f \in [Pollers -> PollerType] BY <3>1
    <3>3. poller' = Collect(f) BY <2>1 DEF new
    <3> HIDE DEF f
    <3> QED BY <3>2, <3>3, CollectIs
  <2>4. openRuns' \in Seq(RunType) BY <2>1
  <2>5. out' \in OutputType
    <3>1. CASE openRuns # <<>>
      <4>1. Close(Head(openRuns), "interrupted") \in ClosedType
        BY <3>1, TailType, CloseType
      <4> QED BY <2>1, <4>1, NoOutputType DEF NoOutput, OutputType
    <3> QED BY <2>1, <3>1, NoOutputType
  <2>6. restarts' \in 0..MaxRestarts BY <1>10, BoundAssumption DEF Seed
  <2>7. machine' = machine /\ lastEvent' = lastEvent /\ own' = TRUE
    BY <1>10 DEF Seed
  <2> QED BY <1>10, <2>2, <2>3, <2>4, <2>5, <2>6, <2>7
<1>11. CASE Restart
  <2>1. /\ polls' = [s \in Slots |-> Idle] /\ tasks' = <<>> /\ Seed(TRUE) BY <1>11 DEF Restart
  <2>2. polls' \in [Slots -> PollType] BY <2>1, IdleType
  <2>3. tasks' \in Seq(TaskType) BY <2>1
  <2> QED BY <1>10, <2>1, <2>2, <2>3
<1>12. CASE Recreate BY <1>10, <1>12 DEF Recreate
<1>13. CASE UNCHANGED vars BY <1>13 DEF vars, Current
<1> QED
  BY <1>1, <1>2, <1>3, <1>4, <1>5, <1>6, <1>7, <1>8, <1>9, <1>11, <1>12, <1>13
  DEF Next, Poll

(* Every variable keeps its type: the fields of the pollers, their polls and  *)
(* tasks, and the rows of the tables.                                         *)
THEOREM Typing == Spec => []TypeOK
<1> QED BY InitType, NextType, PTL DEF Spec

-----------------------------------------------------------------------------
(* Production runs *)

\* At most one run is open, and its messages are bounded by the failures.
RunsInv == OneOpenRun /\ CycleReportedOnce

LEMMA RunsInit == Init => RunsInv
  BY DEF Init, RunsInv, OneOpenRun, CycleReportedOnce, NoOutput

LEMMA RunsUnchanged ==
    ASSUME TypeOK, RunsInv, UNCHANGED <<openRuns, dbFailures>>, out' = NoOutput
    PROVE  RunsInv'
  BY DEF RunsInv, OneOpenRun, CycleReportedOnce, NoOutput

\* With at most one open row, a row that ends leaves none.
LEMMA TailEmpty ==
    ASSUME TypeOK, OneOpenRun, openRuns # <<>>
    PROVE  /\ Tail(openRuns) = <<>>
           /\ Len(openRuns) = 1
           /\ Head(openRuns) = openRuns[1]
           /\ openRuns[1] \in RunType
<1>1. openRuns \in Seq(RunType) BY DEF TypeOK
<1>2. Len(openRuns) = 1
  <2>1. Tail(openRuns) \in Seq(RunType) /\ Len(Tail(openRuns)) = Len(openRuns) - 1
    BY <1>1, TailType
  <2>2. Len(Tail(openRuns)) \in Nat /\ Len(openRuns) \in Nat
    BY <1>1, <2>1, LenProperties
  <2> QED BY <2>1, <2>2 DEF OneOpenRun
<1>3. Tail(openRuns) \in Seq(RunType) /\ Len(Tail(openRuns)) = 0
  BY <1>1, <1>2, HeadTailProperties
<1>4. Tail(openRuns) = <<>> BY <1>3, EmptySeq
<1>5. openRuns[1] \in RunType BY <1>1, <1>2, ElementOfSeq
<1>6. Head(openRuns) = openRuns[1] BY <1>1
<1> QED BY <1>2, <1>4, <1>5, <1>6

LEMMA NotifiedNat ==
    ASSUME TypeOK
    PROVE  \A i \in 1..Len(openRuns) : openRuns[i].notified \in Nat
<1>1. openRuns \in Seq(RunType) BY DEF TypeOK
<1>2. ASSUME NEW i \in 1..Len(openRuns) PROVE openRuns[i] \in RunType
  BY <1>1, ElementOfSeq
<1> QED BY <1>2 DEF RunType

LEMMA RunsLog == TypeOK /\ RunsInv /\ LogEvents => RunsInv'
<1> SUFFICES ASSUME TypeOK, RunsInv, LogEvents PROVE RunsInv' OBVIOUS
<1> DEFINE t == Head(tasks)
<1>1. PICK outcome \in Outcomes(t) :
        /\ CountFailure(outcome)
        /\ \/ UNCHANGED openRuns /\ out' = NoOutput
           \/ /\ openRuns' = RunsAfter(t, outcome)
              /\ out'.run = IF outcome = "ok" THEN ClosedRow(t) ELSE None
  BY DEF LogEvents, dbVars
<1>2. dbFailures \in Nat /\ dbFailures' \in Nat /\ dbFailures <= dbFailures'
  BY <1>1, BoundAssumption DEF CountFailure, TypeOK
<1>3. CASE UNCHANGED openRuns /\ out' = NoOutput
  <2>2. \A i \in 1..Len(openRuns) : openRuns[i].notified \in Nat
    BY NotifiedNat
  <2> QED BY <1>2, <1>3, <2>2 DEF RunsInv, OneOpenRun, CycleReportedOnce, NoOutput
<1>4. CASE /\ openRuns' = RunsAfter(t, outcome)
           /\ out'.run = IF outcome = "ok" THEN ClosedRow(t) ELSE None
  <2>1. CASE outcome = "ok" /\ StartsRun(t)
    <3>1. openRuns' = <<Opened(t)>>
      BY <1>4, <2>1 DEF RunsAfter, StartsRun
    <3>2. ClosedRow(t) = None BY <2>1 DEF ClosedRow, StartsRun, EndsRun
    <3>3. Len(openRuns') = 1 /\ openRuns'[1].notified = 0 BY <3>1 DEF Opened
    <3>4. out'.run = None BY <1>4, <2>1, <3>2
    <3>5. \A i \in 1..Len(openRuns') : openRuns'[i].notified <= dbFailures'
      BY <1>2, <3>3
    <3> QED BY <3>3, <3>4, <3>5 DEF RunsInv, OneOpenRun, CycleReportedOnce
  <2>2. CASE EndsRun(t) /\ outcome \in {"ok", "commit"}
    <3>1. ~StartsRun(t) BY <2>2 DEF EndsRun, StartsRun
    <3>2. /\ Tail(openRuns) = <<>> /\ Head(openRuns) = openRuns[1]
          /\ openRuns[1] \in RunType /\ 1 \in 1..Len(openRuns)
      BY <2>2, TailEmpty DEF EndsRun, RunsInv
    <3>3. openRuns[1].notified \in Nat /\ openRuns[1].notified <= dbFailures
      BY <3>2 DEF RunsInv, CycleReportedOnce, RunType
    <3>4. /\ Notify(openRuns[1], t).notified \in Nat
          /\ Notify(openRuns[1], t).notified <= openRuns[1].notified + 1
      BY <3>2, <3>3 DEF Notify, RunType
    <3>5. CASE outcome = "ok"
      <4>1. openRuns' = <<>> BY <1>4, <2>2, <3>1, <3>2, <3>5 DEF RunsAfter
      <4>2. out'.run.notified = Notify(openRuns[1], t).notified
        BY <1>4, <2>2, <3>2, <3>5 DEF ClosedRow, Close
      <4>3. dbFailures' = dbFailures BY <1>1, <3>5 DEF CountFailure
      <4> QED BY <1>2, <3>3, <3>4, <4>1, <4>2, <4>3
              DEF RunsInv, OneOpenRun, CycleReportedOnce
    <3>6. CASE outcome = "commit"
      <4>0. openRuns' = <<Notify(openRuns[1], t)>>
        <5>1. openRuns' = <<Notify(Head(openRuns), t)>> \o Tail(openRuns)
          BY <1>4, <2>2, <3>6 DEF RunsAfter
        <5>2. Notify(openRuns[1], t) \in RunType BY <3>2, NotifyType
        <5>3. <<Notify(openRuns[1], t)>> \in Seq(RunType) BY <5>2
        <5> QED BY <3>2, <5>1, <5>3, ConcatEmptySeq
      <4>1. Len(openRuns') = 1 /\ openRuns'[1] = Notify(openRuns[1], t)
        BY <4>0
      <4>2. dbFailures' = dbFailures + 1 BY <1>1, <3>6 DEF CountFailure
      <4>3. out'.run = None BY <1>4, <3>6
      <4> QED BY <1>2, <3>3, <3>4, <4>1, <4>2, <4>3
              DEF RunsInv, OneOpenRun, CycleReportedOnce
    <3> QED BY <2>2, <3>5, <3>6
  <2>3. CASE /\ ~(outcome = "ok" /\ StartsRun(t))
             /\ ~(EndsRun(t) /\ outcome \in {"ok", "commit"})
    <3>1. openRuns' = openRuns BY <1>4, <2>3 DEF RunsAfter
    <3>2. out'.run = None BY <1>4, <2>3 DEF ClosedRow
    <3>4. \A i \in 1..Len(openRuns) : openRuns[i].notified \in Nat
      BY NotifiedNat
    <3> QED BY <1>2, <3>1, <3>2, <3>4 DEF RunsInv, OneOpenRun, CycleReportedOnce
  <2> QED BY <2>1, <2>2, <2>3
<1> QED BY <1>1, <1>3, <1>4

LEMMA RunsSeed ==
    ASSUME TypeOK, RunsInv, NEW n, Seed(n)
    PROVE  RunsInv'
<1>1. PICK outcome \in {"ok", "early", "commit"} :
        /\ CountFailure(outcome)
        /\ openRuns' = IF outcome = "ok" THEN <<>> ELSE openRuns
        /\ out' = IF outcome = "ok" /\ openRuns # <<>>
                  THEN [NoOutput EXCEPT !.run =
                          Close(Head(openRuns), "interrupted")]
                  ELSE NoOutput
  BY DEF Seed
<1>2. dbFailures \in Nat /\ dbFailures' \in Nat /\ dbFailures <= dbFailures'
  BY <1>1, BoundAssumption DEF CountFailure, TypeOK
<1>3. \A i \in 1..Len(openRuns) : openRuns[i].notified \in Nat
  BY NotifiedNat
<1>4. OneOpenRun' BY <1>1 DEF RunsInv, OneOpenRun
<1>5. \A i \in 1..Len(openRuns') : openRuns'[i].notified <= dbFailures'
  BY <1>1, <1>2, <1>3 DEF RunsInv, CycleReportedOnce
<1>6. CASE outcome = "ok" /\ openRuns # <<>>
  <2>1. /\ Head(openRuns) = openRuns[1] /\ 1 \in 1..Len(openRuns)
    BY <1>6, TailEmpty DEF RunsInv
  <2>2. out'.run.notified = openRuns[1].notified
    BY <1>1, <1>6, <2>1 DEF NoOutput, Close
  <2>3. openRuns[1].notified <= dbFailures
    BY <2>1 DEF RunsInv, CycleReportedOnce
  <2> QED BY <1>2, <1>3, <1>4, <1>5, <2>1, <2>2, <2>3
          DEF RunsInv, CycleReportedOnce
<1>7. CASE ~(outcome = "ok" /\ openRuns # <<>>)
  <2>1. out'.run = None BY <1>1, <1>7 DEF NoOutput
  <2> QED BY <1>4, <1>5, <2>1 DEF RunsInv, CycleReportedOnce
<1> QED BY <1>6, <1>7

LEMMA RunsNext == TypeOK /\ RunsInv /\ [Next]_vars => RunsInv'
<1> SUFFICES ASSUME TypeOK, RunsInv, [Next]_vars PROVE RunsInv' OBVIOUS
<1>1. CASE MachineChanges BY <1>1, RunsUnchanged DEF MachineChanges, dbVars, countVars
<1>2. CASE Tick BY <1>2, RunsUnchanged DEF Tick, dbVars, countVars
<1>3. ASSUME NEW s \in Slots, Poll(s) PROVE RunsInv'
  BY <1>3, RunsUnchanged
  DEF Poll, StartPoll, ReadPrd3, MissPrd3, CompletePoll, FailPoll, dbVars, countVars
<1>4. CASE LogEvents BY <1>4, RunsLog
<1>5. CASE LogOfflineBeat
  <2>1. /\ openRuns' = openRuns /\ out'.run = None
        /\ dbFailures \in Nat /\ dbFailures' \in Nat /\ dbFailures <= dbFailures'
    BY <1>5, BoundAssumption DEF LogOfflineBeat, CountFailure, TypeOK, NoOutput
  <2>2. \A i \in 1..Len(openRuns) : openRuns[i].notified \in Nat
    BY NotifiedNat
  <2> QED BY <2>1, <2>2 DEF RunsInv, OneOpenRun, CycleReportedOnce
<1>6. CASE Restart BY <1>6, RunsSeed DEF Restart
<1>7. CASE Recreate BY <1>7, RunsSeed DEF Recreate
<1>8. CASE UNCHANGED vars
  BY <1>8 DEF vars, RunsInv, OneOpenRun, CycleReportedOnce
<1> QED BY <1>1, <1>2, <1>3, <1>4, <1>5, <1>6, <1>7, <1>8 DEF Next

(* At most one production run of a machine is ever open.                      *)
THEOREM OneOpenRunHolds == Spec => []OneOpenRun
<1>1. Init => TypeOK /\ RunsInv BY InitType, RunsInit
<1>2. TypeOK /\ RunsInv /\ [Next]_vars => TypeOK' /\ RunsInv'
  BY NextType, RunsNext
<1>3. RunsInv => OneOpenRun BY DEF RunsInv
<1> QED BY <1>1, <1>2, <1>3, PTL DEF Spec

(* A run is reported complete at most once more than the database failed.     *)
THEOREM CycleReportedOnceHolds == Spec => []CycleReportedOnce
<1>1. Init => TypeOK /\ RunsInv BY InitType, RunsInit
<1>2. TypeOK /\ RunsInv /\ [Next]_vars => TypeOK' /\ RunsInv'
  BY NextType, RunsNext
<1>3. RunsInv => CycleReportedOnce BY DEF RunsInv
<1> QED BY <1>1, <1>2, <1>3, PTL DEF Spec

-----------------------------------------------------------------------------
(* Flags and memory *)

(* The status that the poller o will hold once tasks 1..n of queue q ran, if  *)
(* it is last now: the last of its tasks among them, or memory, is off, and   *)
(* the log task of a failed poll, which makes it off, cannot fail before.     *)
OffAfter(o, q, last, n) ==
    \E i \in 0..n :
      /\ \A j \in (i+1)..n : q[j].of = o => q[j].status = "off"
      /\ IF i = 0 THEN last = "off" ELSE q[i].of = o /\ q[i].kind = "log" /\ ~q[i].success

(* The flags agree with the failure count; while the offline flag is up the   *)
(* queue ends in off, and so it does at each queued offline heartbeat.        *)
Queued(o, q, last) ==
    \A n \in 1..Len(q) : q[n].of = o =>
      /\ ~q[n].success => q[n].status = "off"
      /\ q[n].kind = "offlineBeat" => ~q[n].success /\ OffAfter(o, q, last, n)

FlagsOf(o) ==
    /\ poller[o].online = DisplayOnline(poller[o])
    /\ poller[o].failures >= OfflineThreshold => poller[o].loggedOffline
    /\ poller[o].loggedOffline => OffAfter(o, tasks, poller[o].lastStatus, Len(tasks))
    /\ Queued(o, tasks, poller[o].lastStatus)

FlagsInv == \A o \in Pollers : FlagsOf(o)

(* What memory holds is in the table, and an open run is a running machine's. *)
MemoryInv == MemoryMatchesTable /\ OpenRunMeansOperating

\* What is settled stays settled when tasks are added or memory goes off.
LEMMA OffExtend ==
    ASSUME NEW o, NEW q \in Seq(TaskType), NEW r \in Seq(TaskType),
           Len(r) >= Len(q), \A k \in 1..Len(q) : r[k] = q[k],
           NEW last, NEW new \in {last, "off"},
           NEW n \in 0..Len(q), OffAfter(o, q, last, n)
    PROVE  OffAfter(o, r, new, n)
<1> PICK i \in 0..n :
      /\ \A j \in (i+1)..n : q[j].of = o => q[j].status = "off"
      /\ IF i = 0 THEN last = "off" ELSE q[i].of = o /\ q[i].kind = "log" /\ ~q[i].success
  BY DEF OffAfter
<1>1. Len(q) \in Nat BY LenProperties
<1>2. \A k \in 1..n : r[k] = q[k] BY <1>1
<1>3. \A j \in (i+1)..n : r[j].of = o => r[j].status = "off" BY <1>1, <1>2
<1>4. IF i = 0 THEN new = "off" ELSE r[i].of = o /\ r[i].kind = "log" /\ ~r[i].success
  BY <1>1, <1>2
<1> QED BY <1>3, <1>4 DEF OffAfter

\* Running the oldest task shifts the positions by one.
LEMMA OffPop ==
    ASSUME NEW o, NEW q \in Seq(TaskType), q # <<>>,
           NEW last, NEW new, NEW n \in 1..Len(q), OffAfter(o, q, last, n),
           q[1].of = o /\ ~q[1].success => q[1].status = "off",
           \/ q[1].of = o /\ new = q[1].status
           \/ new = last /\ ~(q[1].of = o /\ q[1].kind = "log" /\ ~q[1].success)
    PROVE  OffAfter(o, Tail(q), new, n - 1)
<1> PICK i \in 0..n :
      /\ \A j \in (i+1)..n : q[j].of = o => q[j].status = "off"
      /\ IF i = 0 THEN last = "off" ELSE q[i].of = o /\ q[i].kind = "log" /\ ~q[i].success
  BY DEF OffAfter
<1> DEFINE r == Tail(q)
<1>1. /\ Len(q) \in Nat /\ Len(r) = Len(q) - 1
      /\ \A k \in 1..(Len(q) - 1) : r[k] = q[k + 1]
  BY TailType, LenProperties
<1> HIDE DEF r
<1>2. CASE i <= 1
  <2>1. \A j \in 2..n : q[j].of = o => q[j].status = "off" BY <1>2
  <2>2. \A j \in 1..(n-1) : r[j].of = o => r[j].status = "off" BY <1>1, <2>1
  <2>3. new = "off"
    <3>1. CASE i = 0
      <4>1. q[1].of = o => q[1].status = "off" BY <3>1
      <4> QED BY <3>1, <4>1
    <3>2. CASE i = 1 BY <3>2
    <3> QED BY <1>2, <3>1, <3>2
  <2>4. 0 \in 0..(n-1) /\ \A j \in (0+1)..(n-1) : r[j].of = o => r[j].status = "off"
    BY <2>2
  <2>5. OffAfter(o, r, new, n - 1) BY <2>3, <2>4 DEF OffAfter
  <2> QED BY <2>5 DEF r
<1>3. CASE i > 1
  <2>1. i - 1 \in 0..(n - 1) /\ i - 1 # 0 BY <1>3
  <2>2. ASSUME NEW j \in ((i-1)+1)..(n-1) PROVE r[j].of = o => r[j].status = "off"
    <3>1. j + 1 \in (i+1)..n /\ j \in 1..(Len(q) - 1) BY <1>1, <1>3
    <3> QED BY <1>1, <3>1
  <2>3. r[i-1].of = o /\ r[i-1].kind = "log" /\ ~r[i-1].success BY <1>1, <1>3
  <2>4. OffAfter(o, r, new, n - 1) BY <2>1, <2>2, <2>3 DEF OffAfter
  <2> QED BY <2>4 DEF r
<1> QED BY <1>2, <1>3

\* No poll and no task is one of a poller that is still to be made.
Known ==
    /\ \A s \in Slots : polls[s].phase # "idle" => polls[s].of \in 1..Current
    /\ \A i \in 1..Len(tasks) : tasks[i].of \in 1..Current

LEMMA KnownInit == Init => Known
  BY DEF Init, Known, Idle

LEMMA KnownNext == TypeOK /\ Known /\ [Next]_vars => Known'
<1> SUFFICES ASSUME TypeOK, Known, [Next]_vars PROVE Known' OBVIOUS
<1>0. tasks \in Seq(TaskType) /\ Len(tasks) \in Nat /\ restarts \in Nat /\ polls \in [Slots -> PollType]
  BY LenProperties, BoundAssumption DEF TypeOK
<1>1. CASE UNCHANGED <<polls, tasks, restarts>> BY <1>1 DEF Known, Current
<1>2. CASE Tick
  <2>1. \A s \in Slots : polls[s].phase = "idle" => polls'[s] = polls[s]
    BY <1>2 DEF Tick
  <2>2. \A s \in Slots : polls[s].phase # "idle" => polls'[s].of = polls[s].of
    <3> SUFFICES ASSUME NEW s \in Slots, polls[s].phase # "idle" PROVE polls'[s].of = polls[s].of
      OBVIOUS
    <3>1. polls'[s] = [polls[s] EXCEPT !.age = @ + 1] BY <1>2 DEF Tick
    <3>2. polls[s] \in [phase : {"connecting", "collecting"}, of : Pollers, age : 0..PollTimeout,
                        status : Statuses \cup {None}]
      BY <1>0, PollIs
    <3> QED BY <3>1, <3>2
  <2>3. UNCHANGED <<tasks, restarts>> BY <1>2 DEF Tick, countVars
  <2> QED BY <2>1, <2>2, <2>3 DEF Known, Current
<1>3. ASSUME NEW s \in Slots, StartPoll(s) PROVE Known'
  <2>1. polls' = [polls EXCEPT ![s] = [phase |-> "connecting", of |-> Current, age |-> 0, status |-> None]]
        /\ UNCHANGED <<tasks, restarts>>
    BY <1>3 DEF StartPoll, countVars
  <2>2. polls'[s].of = Current BY <1>0, <2>1
  <2>3. Current \in 1..Current /\ Current' = Current BY <1>0, <2>1 DEF Current
  <2>4. \A r \in Slots : r # s => polls'[r] = polls[r] BY <1>0, <2>1
  <2> QED BY <2>1, <2>2, <2>3, <2>4 DEF Known
<1>4. ASSUME NEW s \in Slots, ReadPrd3(s) \/ MissPrd3(s) PROVE Known'
  <2>1. PICK st : polls' = [polls EXCEPT ![s].phase = "collecting", ![s].status = st]
    BY <1>4 DEF ReadPrd3, MissPrd3
  <2>2. UNCHANGED <<tasks, restarts>> /\ polls[s].phase # "idle"
    BY <1>4 DEF ReadPrd3, MissPrd3, countVars
  <2>3. polls[s] \in [phase : {"connecting", "collecting"}, of : Pollers, age : 0..PollTimeout,
                      status : Statuses \cup {None}]
    BY <1>0, <2>2, PollIs
  <2>4. polls'[s].of = polls[s].of /\ \A r \in Slots : r # s => polls'[r] = polls[r]
    BY <1>0, <2>1, <2>3
  <2> QED BY <2>2, <2>4 DEF Known, Current
<1>5. ASSUME NEW s \in Slots, CompletePoll(s) \/ FailPoll(s) PROVE Known'
  <2> DEFINE o == polls[s].of
  <2>1. polls[s].phase # "idle" /\ polls' = [polls EXCEPT ![s] = Idle] /\ UNCHANGED restarts
    BY <1>5 DEF CompletePoll, FailPoll, countVars
  <2>2. o \in 1..Current /\ Current' = Current BY <2>1 DEF Known, Current
  <2>3. tasks' = tasks \/ \E x : tasks' = Append(tasks, x) /\ x.of = o
    <3>1. CASE CompletePoll(s)
      <4>1. PICK st, program :
              tasks' = IF st = None THEN tasks
                       ELSE Append(tasks, [kind |-> "log", of |-> o, success |-> TRUE, status |-> st,
                                           previous |-> None, program |-> program,
                                           age |-> polls[s].age])
        BY <3>1 DEF CompletePoll
      <4> QED BY <4>1
    <3>2. CASE FailPoll(s)
      <4> DEFINE task == [kind |-> "log", of |-> o, success |-> FALSE, status |-> "off",
                          previous |-> poller[o].lastStatus, program |-> NoProgram,
                          age |-> polls[s].age]
                 beat == [task EXCEPT !.kind = "offlineBeat", !.previous = "off"]
      <4>1. \/ tasks' = Append(tasks, task)
            \/ tasks' = Append(tasks, beat)
            \/ tasks' = tasks
        BY <3>2 DEF FailPoll
      <4>2. task.of = o /\ beat.of = o OBVIOUS
      <4> HIDE DEF task, beat
      <4> QED BY <4>1, <4>2
    <3> QED BY <1>5, <3>1, <3>2
  <2>4. \A i \in 1..Len(tasks') : tasks'[i].of \in 1..Current
    <3>1. CASE tasks' = tasks BY <3>1 DEF Known
    <3>2. ASSUME NEW x, tasks' = Append(tasks, x), x.of = o
          PROVE  \A i \in 1..Len(tasks') : tasks'[i].of \in 1..Current
      <4>1. Len(tasks') = Len(tasks) + 1 /\ tasks'[Len(tasks) + 1] = x
            /\ \A i \in 1..Len(tasks) : tasks'[i] = tasks[i]
        BY <1>0, <3>2
      <4> QED BY <1>0, <2>2, <3>2, <4>1 DEF Known
    <3> QED BY <2>3, <3>1, <3>2
  <2>5. \A r \in Slots : polls'[r].phase # "idle" => r # s /\ polls'[r] = polls[r]
    BY <1>0, <2>1 DEF Idle
  <2> QED BY <2>2, <2>4, <2>5 DEF Known
<1>6. CASE LogEvents \/ LogOfflineBeat
  <2>1. tasks # <<>> /\ tasks' = Tail(tasks) /\ UNCHANGED <<polls, restarts>>
    BY <1>6 DEF LogEvents, LogOfflineBeat
  <2>2. /\ Len(tasks') = Len(tasks) - 1
        /\ \A i \in 1..Len(tasks') : tasks'[i] = tasks[i + 1]
    BY <1>0, <2>1, TailType
  <2>3. \A i \in 1..Len(tasks') : i + 1 \in 1..Len(tasks) BY <1>0, <2>2
  <2> QED BY <2>1, <2>2, <2>3 DEF Known, Current
<1>7. CASE Restart
  <2>1. tasks' = <<>> /\ \A s \in Slots : polls'[s].phase = "idle" BY <1>7 DEF Restart, Idle
  <2> QED BY <2>1 DEF Known
<1>8. CASE Recreate
  <2>1. UNCHANGED <<polls, tasks>> /\ restarts' = restarts + 1 BY <1>8 DEF Recreate, Seed
  <2>2. \A i \in 1..Current : i \in 1..Current' BY <1>0, <2>1 DEF Current
  <2> QED BY <2>1, <2>2 DEF Known
<1> QED
  BY <1>1, <1>2, <1>3, <1>4, <1>5, <1>6, <1>7, <1>8
  DEF Next, Poll, vars, MachineChanges, countVars

LEMMA FlagsKept ==
    ASSUME FlagsInv, NEW o \in Pollers, tasks' = tasks,
           poller'[o].online = poller[o].online,
           poller'[o].succeeded = poller[o].succeeded,
           poller'[o].failures = poller[o].failures,
           poller'[o].loggedOffline = poller[o].loggedOffline,
           poller'[o].lastStatus = poller[o].lastStatus
    PROVE  FlagsOf(o)'
<1>1. FlagsOf(o) BY DEF FlagsInv
<1> QED BY <1>1 DEF FlagsOf, DisplayOnline

\* A poller that has done nothing, and that no task refers to.
LEMMA FlagsNew ==
    ASSUME NEW o \in Pollers, poller'[o].failures = 0, ~poller'[o].succeeded,
           poller'[o].online = FALSE, ~poller'[o].loggedOffline,
           \A i \in 1..Len(tasks') : tasks'[i].of # o
    PROVE  FlagsOf(o)'
<1>1. ~DisplayOnline(poller'[o]) BY DEF DisplayOnline
<1>2. DisplayOnline(poller'[o]) \in BOOLEAN BY DEF DisplayOnline
<1>3. poller'[o].online = DisplayOnline(poller'[o]) BY <1>1, <1>2
<1>4. ~(poller'[o].failures >= OfflineThreshold) BY ThresholdAssumption
<1>5. Queued(o, tasks', poller'[o].lastStatus) BY DEF Queued
<1> QED BY <1>3, <1>4, <1>5 DEF FlagsOf

\* A poller that is forgotten.
LEMMA FlagsForgotten ==
    ASSUME NEW o \in Pollers, ~Referred(o), poller'[o] = Unused
    PROVE  FlagsOf(o)'
<1>1. \A i \in 1..Len(tasks') : tasks'[i].of # o
  BY DEF Referred
<1>2. /\ poller'[o].failures = 0 /\ ~poller'[o].succeeded /\ poller'[o].online = FALSE
      /\ ~poller'[o].loggedOffline
  BY DEF Unused, NewPoller
<1> QED BY <1>1, <1>2, FlagsNew

\* A log or heartbeat task leaves the queue.
LEMMA FlagsPop ==
    ASSUME TypeOK, FlagsInv, NEW o \in Pollers, tasks # <<>>, tasks' = Tail(tasks),
           poller'[o].online = poller[o].online,
           poller'[o].succeeded = poller[o].succeeded,
           poller'[o].failures = poller[o].failures,
           poller'[o].loggedOffline = poller[o].loggedOffline,
           \/ tasks[1].of = o /\ poller'[o].lastStatus = tasks[1].status
           \/ /\ poller'[o].lastStatus = poller[o].lastStatus
              /\ ~(tasks[1].of = o /\ tasks[1].kind = "log" /\ ~tasks[1].success)
    PROVE  FlagsOf(o)'
<1> DEFINE last == poller[o].lastStatus
           new == poller'[o].lastStatus
<1>0. tasks \in Seq(TaskType) /\ FlagsOf(o) BY DEF TypeOK, FlagsInv
<1>1. /\ Len(tasks) \in Nat \ {0} /\ Len(tasks') = Len(tasks) - 1
      /\ \A k \in 1..(Len(tasks) - 1) : tasks'[k] = tasks[k + 1]
  <2>1. /\ Len(tasks) \in Nat /\ Len(tasks') \in Nat
        /\ Len(tasks') = Len(tasks) - 1
        /\ \A k \in 1..Len(tasks') : tasks'[k] = tasks[k + 1]
    BY <1>0, TailType, LenProperties
  <2> QED BY <2>1
<1>2. tasks[1].of = o /\ ~tasks[1].success => tasks[1].status = "off"
  BY <1>0, <1>1 DEF FlagsOf, Queued
<1> HIDE DEF last, new
<1>3. ASSUME NEW n \in 1..Len(tasks), OffAfter(o, tasks, last, n)
      PROVE  OffAfter(o, tasks', new, n - 1)
  BY <1>0, <1>2, <1>3, OffPop DEF last, new
<1>4. poller'[o].loggedOffline => OffAfter(o, tasks', new, Len(tasks'))
  BY <1>0, <1>1, <1>3 DEF FlagsOf, last
<1>5. ASSUME NEW n \in 1..Len(tasks'), tasks'[n].of = o
      PROVE  /\ ~tasks'[n].success => tasks'[n].status = "off"
             /\ tasks'[n].kind = "offlineBeat" => ~tasks'[n].success /\ OffAfter(o, tasks', new, n)
  <2>1. n + 1 \in 1..Len(tasks) /\ tasks'[n] = tasks[n + 1] /\ (n + 1) - 1 = n
    BY <1>1
  <2>2. OffAfter(o, tasks, last, n + 1) => OffAfter(o, tasks', new, n) BY <1>3, <2>1
  <2> QED BY <1>0, <1>5, <2>1, <2>2 DEF FlagsOf, Queued, last
<1>6. Queued(o, tasks', new) BY <1>5 DEF Queued
<1> QED BY <1>0, <1>4, <1>6 DEF FlagsOf, DisplayOnline, new

\* The task of another poller is queued.
LEMMA FlagsOther ==
    ASSUME TypeOK, TypeOK', FlagsInv, NEW o \in Pollers, NEW x \in TaskType, x.of # o,
           tasks' = Append(tasks, x), poller'[o] = poller[o]
    PROVE  FlagsOf(o)'
<1> DEFINE last == poller[o].lastStatus
<1>0. tasks \in Seq(TaskType) /\ tasks' \in Seq(TaskType) /\ FlagsOf(o) BY DEF TypeOK, FlagsInv
<1>1. /\ Len(tasks) \in Nat /\ Len(tasks') = Len(tasks) + 1
      /\ \A k \in 1..Len(tasks) : tasks'[k] = tasks[k]
      /\ tasks'[Len(tasks')] = x
  BY <1>0, AppendProperties, LenProperties
<1> HIDE DEF last
<1>2. ASSUME NEW n \in 0..Len(tasks), OffAfter(o, tasks, last, n)
      PROVE  OffAfter(o, tasks', last, n)
  <2>1. Len(tasks') >= Len(tasks) BY <1>1
  <2> QED BY <1>0, <1>1, <1>2, <2>1, OffExtend
<1>3. ASSUME OffAfter(o, tasks, last, Len(tasks))
      PROVE  OffAfter(o, tasks', last, Len(tasks'))
  <2>1. OffAfter(o, tasks', last, Len(tasks)) BY <1>1, <1>2, <1>3
  <2>2. PICK i \in 0..Len(tasks) :
          /\ \A j \in (i+1)..Len(tasks) : tasks'[j].of = o => tasks'[j].status = "off"
          /\ IF i = 0 THEN last = "off"
             ELSE tasks'[i].of = o /\ tasks'[i].kind = "log" /\ ~tasks'[i].success
    BY <2>1 DEF OffAfter
  <2>3. \A j \in (i+1)..Len(tasks') : tasks'[j].of = o => tasks'[j].status = "off"
    BY <1>1, <2>2
  <2>4. i \in 0..Len(tasks') BY <1>1
  <2> QED BY <2>2, <2>3, <2>4 DEF OffAfter
<1>4. ASSUME NEW n \in 1..Len(tasks'), tasks'[n].of = o
      PROVE  /\ ~tasks'[n].success => tasks'[n].status = "off"
             /\ tasks'[n].kind = "offlineBeat" => ~tasks'[n].success /\ OffAfter(o, tasks', last, n)
  <2>1. n # Len(tasks') BY <1>1, <1>4
  <2>2. n \in 1..Len(tasks) /\ n \in 0..Len(tasks) /\ tasks'[n] = tasks[n] BY <1>1, <2>1
  <2>3. OffAfter(o, tasks, last, n) => OffAfter(o, tasks', last, n) BY <1>2, <2>2
  <2> QED BY <1>0, <1>4, <2>2, <2>3 DEF FlagsOf, Queued, last
<1>5. Queued(o, tasks', last) BY <1>4 DEF Queued
<1> QED BY <1>0, <1>3, <1>5 DEF FlagsOf, last

\* A poll adds one task of its poller.
LEMMA FlagsAppend ==
    ASSUME TypeOK, TypeOK', FlagsInv, NEW o \in Pollers,
           NEW x \in TaskType, x.of = o, tasks' = Append(tasks, x),
           poller'[o].lastStatus \in {poller[o].lastStatus, "off"},
           poller'[o].online = DisplayOnline(poller'[o]),
           poller'[o].failures >= OfflineThreshold => poller'[o].loggedOffline,
           poller'[o].loggedOffline =>
             \/ x.kind = "log" /\ ~x.success
             \/ poller[o].loggedOffline /\ x.status = "off",
           ~x.success => x.status = "off",
           x.kind = "offlineBeat" => ~x.success /\ poller[o].loggedOffline
    PROVE  FlagsOf(o)'
<1> DEFINE last == poller[o].lastStatus
           new == poller'[o].lastStatus
<1>0. tasks \in Seq(TaskType) /\ tasks' \in Seq(TaskType) /\ FlagsOf(o) BY DEF TypeOK, FlagsInv
<1>1. /\ Len(tasks) \in Nat /\ Len(tasks') = Len(tasks) + 1
      /\ \A k \in 1..Len(tasks) : tasks'[k] = tasks[k]
      /\ tasks'[Len(tasks')] = x
  BY <1>0, AppendProperties, LenProperties
<1>2. new \in {last, "off"} OBVIOUS
<1> HIDE DEF last, new
<1>3. ASSUME NEW n \in 0..Len(tasks), OffAfter(o, tasks, last, n)
      PROVE  OffAfter(o, tasks', new, n)
  <2>1. Len(tasks') >= Len(tasks) BY <1>1
  <2> QED BY <1>0, <1>1, <1>2, <1>3, <2>1, OffExtend
<1>4. ASSUME \/ x.kind = "log" /\ ~x.success
             \/ OffAfter(o, tasks, last, Len(tasks)) /\ x.status = "off"
      PROVE  OffAfter(o, tasks', new, Len(tasks'))
  <2>1. CASE x.kind = "log" /\ ~x.success
    <3>1. Len(tasks') \in 0..Len(tasks') /\ Len(tasks') # 0 BY <1>1
    <3>2. \A j \in (Len(tasks') + 1)..Len(tasks') : tasks'[j].of = o => tasks'[j].status = "off"
      BY <1>1
    <3> QED BY <1>1, <2>1, <3>1, <3>2 DEF OffAfter
  <2>2. CASE OffAfter(o, tasks, last, Len(tasks)) /\ x.status = "off"
    <3>1. OffAfter(o, tasks', new, Len(tasks)) BY <1>1, <1>3, <2>2
    <3>2. PICK i \in 0..Len(tasks) :
            /\ \A j \in (i+1)..Len(tasks) : tasks'[j].of = o => tasks'[j].status = "off"
            /\ IF i = 0 THEN new = "off"
               ELSE tasks'[i].of = o /\ tasks'[i].kind = "log" /\ ~tasks'[i].success
      BY <3>1 DEF OffAfter
    <3>3. \A j \in (i+1)..Len(tasks') : tasks'[j].of = o => tasks'[j].status = "off"
      BY <1>1, <2>2, <3>2
    <3>4. i \in 0..Len(tasks') BY <1>1
    <3> QED BY <3>2, <3>3, <3>4 DEF OffAfter
  <2> QED BY <1>4, <2>1, <2>2
<1>5. poller'[o].loggedOffline => OffAfter(o, tasks', new, Len(tasks'))
  BY <1>0, <1>4 DEF FlagsOf, last
<1>6. ASSUME NEW n \in 1..Len(tasks'), tasks'[n].of = o
      PROVE  /\ ~tasks'[n].success => tasks'[n].status = "off"
             /\ tasks'[n].kind = "offlineBeat" => ~tasks'[n].success /\ OffAfter(o, tasks', new, n)
  <2>1. CASE n \in 1..Len(tasks)
    <3>1. n \in 0..Len(tasks) /\ tasks'[n] = tasks[n] BY <1>1, <2>1
    <3>2. OffAfter(o, tasks, last, n) => OffAfter(o, tasks', new, n) BY <1>3, <3>1
    <3> QED BY <1>0, <1>6, <2>1, <3>1, <3>2 DEF FlagsOf, Queued, last
  <2>2. CASE n = Len(tasks')
    <3>1. x.kind = "offlineBeat" => OffAfter(o, tasks', new, n)
      BY <1>0, <1>4, <2>2 DEF FlagsOf, last
    <3> QED BY <1>1, <2>2, <3>1
  <2> QED BY <1>1, <2>1, <2>2
<1>7. Queued(o, tasks', new) BY <1>6 DEF Queued
<1> QED BY <1>5, <1>7 DEF FlagsOf, new

LEMMA FlagsInit == Init => FlagsInv
<1> SUFFICES ASSUME Init, NEW o \in Pollers PROVE FlagsOf(o)
  BY DEF FlagsInv
<1>0. /\ poller[o].failures = 0 /\ ~poller[o].succeeded /\ poller[o].online = FALSE
      /\ ~poller[o].loggedOffline
  BY DEF Init, NewPoller, Unused
<1>1. ~DisplayOnline(poller[o]) /\ DisplayOnline(poller[o]) \in BOOLEAN BY <1>0 DEF DisplayOnline
<1>2. poller[o].online = DisplayOnline(poller[o]) BY <1>0, <1>1
<1>3. ~(poller[o].failures >= OfflineThreshold) BY <1>0, ThresholdAssumption
<1>4. Queued(o, tasks, poller[o].lastStatus) BY DEF Init, Queued
<1> QED BY <1>0, <1>2, <1>3, <1>4 DEF FlagsOf

LEMMA FlagsComplete ==
    ASSUME TypeOK, TypeOK', FlagsInv, NEW s \in Slots, CompletePoll(s), NEW k \in Pollers
    PROVE  FlagsOf(k)'
<1> DEFINE o == polls[s].of
           task(st, p) == [kind |-> "log", of |-> o, success |-> TRUE, status |-> st,
                           previous |-> None, program |-> p,
                           age |-> polls[s].age]
<1>0. /\ poller \in [Pollers -> PollerType] /\ o \in Pollers
      /\ polls[s].age \in 0..PollTimeout /\ polls[s].status \in Statuses \cup {None}
  BY PollIs DEF TypeOK, CompletePoll
<1>1. PICK halting \in BOOLEAN, p \in Programs \cup {NoProgram} :
        LET st == ReportedStatus(polls[s].status, halting)
        IN  /\ poller' = Collect([poller EXCEPT ![o] = Succeed(@, st)])
            /\ tasks' = IF st = None THEN tasks ELSE Append(tasks, task(st, p))
  BY DEF CompletePoll
<1> DEFINE st == ReportedStatus(polls[s].status, halting)
           f == [poller EXCEPT ![o] = Succeed(@, st)]
<1>2. st \in Statuses \cup {None}
  BY <1>0 DEF ReportedStatus, Statuses
<1>3. task(st, p).of = o /\ task(st, p).success /\ task(st, p).kind = "log"
  OBVIOUS
<1>4. st # None => task(st, p) \in TaskType
  BY <1>0, <1>2 DEF TaskType
<1>5. poller' = Collect(f) /\ tasks' = IF st = None THEN tasks ELSE Append(tasks, task(st, p))
  BY <1>1
<1> HIDE DEF task, st, o
<1>6. /\ Succeed(poller[o], st) \in PollerType
      /\ Succeed(poller[o], st).online = DisplayOnline(Succeed(poller[o], st))
      /\ Succeed(poller[o], st).failures = 0
      /\ Succeed(poller[o], st).lastStatus = poller[o].lastStatus
      /\ Succeed(poller[o], st).loggedOffline <=> (poller[o].loggedOffline /\ st = None)
  BY <1>0, <1>2, SucceedIs
<1>7. f \in [Pollers -> PollerType] /\ f[o] = Succeed(poller[o], st)
      /\ (k # o => f[k] = poller[k])
  BY <1>0, <1>6
<1> HIDE DEF f
<1>8. (Referred(k) => poller'[k] = f[k]) /\ (~Referred(k) => poller'[k] = Unused)
  BY <1>5, <1>7, CollectIs
<1>9. CASE ~Referred(k)
  BY <1>8, <1>9, FlagsForgotten
<1>10. CASE Referred(k) /\ k # o
  <2>1. poller'[k] = poller[k] BY <1>7, <1>8, <1>10
  <2>2. CASE st = None BY <1>5, <2>1, <2>2, FlagsKept
  <2>3. CASE st # None BY <1>3, <1>4, <1>5, <1>10, <2>1, <2>3, FlagsOther
  <2> QED BY <2>2, <2>3
<1>11. CASE Referred(k) /\ k = o
  <2>1. poller'[o] = Succeed(poller[o], st) BY <1>7, <1>8, <1>11
  <2>2. ~(poller'[o].failures >= OfflineThreshold) BY <1>6, <2>1, ThresholdAssumption
  <2>3. CASE st = None
    <3>1. tasks' = tasks /\ FlagsOf(o) BY <1>0, <1>5, <2>3 DEF FlagsInv
    <3> QED BY <1>6, <1>11, <2>1, <2>2, <3>1 DEF FlagsOf
  <2>4. CASE st # None
    <3>1. tasks' = Append(tasks, task(st, p)) BY <1>5, <2>4
    <3>2. ~poller'[o].loggedOffline BY <1>6, <2>1, <2>4
    <3> QED BY <1>0, <1>3, <1>4, <1>6, <1>11, <2>1, <2>2, <2>4, <3>1, <3>2, FlagsAppend
  <2> QED BY <2>3, <2>4
<1> QED BY <1>9, <1>10, <1>11

LEMMA FlagsFail ==
    ASSUME TypeOK, TypeOK', FlagsInv, NEW s \in Slots, FailPoll(s), NEW k \in Pollers
    PROVE  FlagsOf(k)'
<1> DEFINE o == polls[s].of
           age == polls[s].age
           task == [kind |-> "log", of |-> o, success |-> FALSE,
                    status |-> "off", previous |-> poller[o].lastStatus,
                    program |-> NoProgram, age |-> age]
           beat == [task EXCEPT !.kind = "offlineBeat", !.previous = "off"]
           f == [poller EXCEPT ![o] = Fail(poller[o], age)]
<1>0. /\ poller \in [Pollers -> PollerType] /\ o \in Pollers /\ age \in 0..PollTimeout
      /\ poller[o] \in PollerType
  BY PollIs DEF TypeOK, FailPoll
<1>1. /\ poller' = Collect(f)
      /\ tasks' = IF GoesOff(poller[o]) THEN Append(tasks, task)
                  ELSE IF Beats(poller[o], age) THEN Append(tasks, beat)
                  ELSE tasks
  BY DEF FailPoll
<1>2. /\ task \in TaskType /\ beat \in TaskType
      /\ task.of = o /\ task.kind = "log" /\ ~task.success /\ task.status = "off"
      /\ beat.of = o /\ beat.kind = "offlineBeat" /\ ~beat.success /\ beat.status = "off"
  BY <1>0 DEF TaskType, PollerType, Statuses
<1> HIDE DEF task, beat, o, age
<1>3. /\ Fail(poller[o], age) \in PollerType
      /\ Fail(poller[o], age).online = DisplayOnline(Fail(poller[o], age))
      /\ Fail(poller[o], age).failures >= OfflineThreshold => Fail(poller[o], age).loggedOffline
      /\ Fail(poller[o], age).lastStatus = IF GoesOff(poller[o]) THEN "off" ELSE poller[o].lastStatus
      /\ Fail(poller[o], age).loggedOffline <=> (poller[o].loggedOffline \/ GoesOff(poller[o]))
  BY <1>0, FailIs
<1>4. f \in [Pollers -> PollerType] /\ f[o] = Fail(poller[o], age)
      /\ (k # o => f[k] = poller[k])
  BY <1>0, <1>3
<1> HIDE DEF f
<1>5. (Referred(k) => poller'[k] = f[k]) /\ (~Referred(k) => poller'[k] = Unused)
  BY <1>1, <1>4, CollectIs
<1>6. CASE ~Referred(k)
  BY <1>5, <1>6, FlagsForgotten
<1>7. CASE Referred(k) /\ k # o
  <2>1. poller'[k] = poller[k] BY <1>4, <1>5, <1>7
  <2>2. CASE tasks' = tasks BY <2>1, <2>2, FlagsKept
  <2>3. CASE tasks' = Append(tasks, task) BY <1>2, <1>7, <2>1, <2>3, FlagsOther
  <2>4. CASE tasks' = Append(tasks, beat) BY <1>2, <1>7, <2>1, <2>4, FlagsOther
  <2> QED BY <1>1, <2>2, <2>3, <2>4
<1>8. CASE Referred(k) /\ k = o
  <2>1. poller'[o] = Fail(poller[o], age) BY <1>4, <1>5, <1>8
  <2>2. CASE GoesOff(poller[o])
    <3>1. tasks' = Append(tasks, task) /\ poller'[o].lastStatus = "off" BY <1>1, <1>3, <2>1, <2>2
    <3> QED BY <1>0, <1>2, <1>3, <1>8, <2>1, <3>1, FlagsAppend
  <2>3. CASE ~GoesOff(poller[o]) /\ Beats(poller[o], age)
    <3>1. /\ tasks' = Append(tasks, beat) /\ poller'[o].lastStatus = poller[o].lastStatus
          /\ poller[o].loggedOffline
      BY <1>1, <1>3, <2>1, <2>3 DEF Beats
    <3> QED BY <1>0, <1>2, <1>3, <1>8, <2>1, <3>1, FlagsAppend
  <2>4. CASE ~GoesOff(poller[o]) /\ ~Beats(poller[o], age)
    <3>1. /\ tasks' = tasks /\ poller'[o].lastStatus = poller[o].lastStatus
          /\ poller'[o].loggedOffline => poller[o].loggedOffline
      BY <1>1, <1>3, <2>1, <2>4
    <3>2. FlagsOf(o) BY <1>0 DEF FlagsInv
    <3> QED BY <1>3, <1>8, <2>1, <3>1, <3>2 DEF FlagsOf
  <2> QED BY <2>2, <2>3, <2>4
<1> QED BY <1>6, <1>7, <1>8

LEMMA FlagsTask ==
    ASSUME TypeOK, FlagsInv, LogEvents \/ LogOfflineBeat, NEW k \in Pollers
    PROVE  FlagsOf(k)'
<1> DEFINE t == Head(tasks)
<1>0. /\ poller \in [Pollers -> PollerType] /\ tasks # <<>> /\ tasks' = Tail(tasks)
      /\ t = tasks[1] /\ t \in TaskType /\ t.of \in Pollers
  <2>1. tasks \in Seq(TaskType) /\ tasks # <<>> /\ tasks' = Tail(tasks)
    BY DEF TypeOK, LogEvents, LogOfflineBeat
  <2>2. t \in TaskType BY <2>1, TailType
  <2> QED BY <2>1, <2>2 DEF TypeOK, TaskType
<1>1. \/ /\ poller' = Collect(poller)
         /\ ~(t.kind = "log" /\ ~t.success)
      \/ \E b : poller' = Collect([poller EXCEPT ![t.of] =
                  [poller[t.of] EXCEPT !.lastStatus = t.status, !.sinceBeat = b]])
             /\ b \in {t.age, poller[t.of].sinceBeat}
  <2>1. CASE LogEvents BY <2>1 DEF LogEvents, Outcomes
  <2>2. CASE LogOfflineBeat BY <2>2 DEF LogOfflineBeat
  <2> QED BY <2>1, <2>2
<1> HIDE DEF t
<1>2. CASE poller' = Collect(poller) /\ ~(t.kind = "log" /\ ~t.success)
  <2>1. (Referred(k) => poller'[k] = poller[k]) /\ (~Referred(k) => poller'[k] = Unused)
    BY <1>0, <1>2, CollectIs
  <2>2. CASE Referred(k) BY <1>0, <1>2, <2>1, <2>2, FlagsPop
  <2>3. CASE ~Referred(k) BY <2>1, <2>3, FlagsForgotten
  <2> QED BY <2>2, <2>3
<1>3. ASSUME NEW b \in {t.age, poller[t.of].sinceBeat},
             poller' = Collect([poller EXCEPT ![t.of] =
                  [poller[t.of] EXCEPT !.lastStatus = t.status, !.sinceBeat = b]])
      PROVE  FlagsOf(k)'
  <2> DEFINE q == [poller[t.of] EXCEPT !.lastStatus = t.status, !.sinceBeat = b]
             f == [poller EXCEPT ![t.of] = q]
  <2>1. b \in 0..MaxAge \cup {None} /\ t.status \in Statuses
    BY <1>0, TimeAssumption DEF TaskType, MaxAge, PollerType
  <2>2. /\ q \in PollerType /\ q.online = poller[t.of].online /\ q.succeeded = poller[t.of].succeeded
        /\ q.failures = poller[t.of].failures /\ q.loggedOffline = poller[t.of].loggedOffline
        /\ q.lastStatus = t.status
    <3> DEFINE p == poller[t.of]
    <3>1. p \in PollerType /\ q = [p EXCEPT !.lastStatus = t.status, !.sinceBeat = b]
      BY <1>0
    <3> HIDE DEF p, q
    <3>2. /\ q \in PollerType /\ q.online = p.online /\ q.succeeded = p.succeeded
          /\ q.failures = p.failures /\ q.loggedOffline = p.loggedOffline
          /\ q.lastStatus = t.status
      BY <2>1, <3>1 DEF PollerType
    <3> QED BY <3>2 DEF p
  <2> HIDE DEF q
  <2>3. f \in [Pollers -> PollerType] /\ f[t.of] = q /\ (k # t.of => f[k] = poller[k])
    BY <1>0, <2>2
  <2>4. poller' = Collect(f) BY <1>3 DEF q
  <2> HIDE DEF f
  <2>5. (Referred(k) => poller'[k] = f[k]) /\ (~Referred(k) => poller'[k] = Unused)
    BY <2>3, <2>4, CollectIs
  <2>6. CASE ~Referred(k) BY <2>5, <2>6, FlagsForgotten
  <2>7. CASE Referred(k) /\ k = t.of
    <3>1. poller'[k] = q BY <2>3, <2>5, <2>7
    <3> QED BY <1>0, <2>2, <2>7, <3>1, FlagsPop
  <2>8. CASE Referred(k) /\ k # t.of
    <3>1. poller'[k] = poller[k] BY <2>3, <2>5, <2>8
    <3> QED BY <1>0, <2>8, <3>1, FlagsPop
  <2> QED BY <2>6, <2>7, <2>8
<1> QED BY <1>1, <1>2, <1>3

\* A new poller: what is under way goes on or is gone.
LEMMA FlagsSeed ==
    ASSUME TypeOK, TypeOK', FlagsInv, Known, NEW n \in BOOLEAN, Seed(n),
           \/ UNCHANGED tasks
           \/ tasks' = <<>> /\ \A s \in Slots : polls'[s].of = None,
           NEW k \in Pollers
    PROVE  FlagsOf(k)'
<1>1. PICK st \in Statuses \cup {None} :
        poller' = Collect([poller EXCEPT ![Current'] = NewPoller(st, n)])
  BY DEF Seed, TypeOK
<1> DEFINE f == [poller EXCEPT ![Current'] = NewPoller(st, n)]
<1>2. /\ restarts \in Nat /\ restarts' = restarts + 1 /\ Current' = Current + 1
      /\ Current \in Nat /\ Current' \in Pollers
  BY BoundAssumption, CurrentIs DEF TypeOK, Seed, Current, Pollers
<1>3. /\ poller \in [Pollers -> PollerType] /\ NewPoller(st, n) \in PollerType
      /\ f \in [Pollers -> PollerType]
      /\ f[Current'] = NewPoller(st, n) /\ (k # Current' => f[k] = poller[k])
  <2>1. poller \in [Pollers -> PollerType] /\ NewPoller(st, n) \in PollerType
    BY NewPollerType DEF TypeOK
  <2> QED BY <1>2, <2>1
<1>4. poller' = Collect(f) BY <1>1
<1> HIDE DEF f
<1>5. (Referred(k) => poller'[k] = f[k]) /\ (~Referred(k) => poller'[k] = Unused)
  BY <1>3, <1>4, CollectIs
<1>6. CASE ~Referred(k) BY <1>5, <1>6, FlagsForgotten
<1>7. CASE k = Current'
  <2>1. Referred(k) BY <1>7 DEF Referred
  <2>2. /\ poller'[k].failures = 0 /\ ~poller'[k].succeeded /\ poller'[k].online = FALSE
        /\ ~poller'[k].loggedOffline
    BY <1>3, <1>5, <1>7, <2>1 DEF NewPoller
  <2>3. \A i \in 1..Len(tasks') : tasks'[i].of # k
    <3>1. CASE tasks' = <<>> BY <3>1
    <3>2. CASE UNCHANGED tasks
      <4>1. \A i \in 1..Len(tasks) : tasks[i].of \in 1..Current BY DEF Known
      <4>2. Current' \notin 1..Current BY <1>2
      <4> QED BY <1>7, <3>2, <4>1, <4>2
    <3> QED BY <3>1, <3>2
  <2> QED BY <2>2, <2>3, FlagsNew
<1>8. CASE Referred(k) /\ k # Current'
  <2>1. UNCHANGED tasks
    <3>1. CASE tasks' = <<>> /\ \A s \in Slots : polls'[s].of = None
      <4>1. k # None BY NoneAssumption DEF Pollers
      <4>2. 1..Len(tasks') = {} BY <3>1
      <4> QED BY <1>8, <3>1, <4>1, <4>2 DEF Referred
    <3> QED BY <3>1
  <2>2. poller'[k] = poller[k] BY <1>3, <1>5, <1>8
  <2> QED BY <2>1, <2>2, FlagsKept
<1> QED BY <1>6, <1>7, <1>8

LEMMA FlagsNext == TypeOK /\ TypeOK' /\ Known /\ FlagsInv /\ [Next]_vars => FlagsInv'
<1> SUFFICES ASSUME TypeOK, TypeOK', Known, FlagsInv, [Next]_vars, NEW k \in Pollers
             PROVE  FlagsOf(k)'
  BY DEF FlagsInv
<1>0. poller \in [Pollers -> PollerType] BY DEF TypeOK
<1>1. CASE MachineChanges BY <1>1, FlagsKept DEF MachineChanges
<1>2. CASE Tick
  <2>1. poller'[k] = [poller[k] EXCEPT !.sinceBeat = Older(@)] /\ tasks' = tasks
    BY <1>2 DEF Tick
  <2> QED BY <1>0, <2>1, FlagsKept DEF PollerType
<1>3. ASSUME NEW s \in Slots, StartPoll(s) \/ MissPrd3(s) PROVE FlagsOf(k)'
  BY <1>3, FlagsKept DEF StartPoll, MissPrd3
<1>4. ASSUME NEW s \in Slots, ReadPrd3(s) PROVE FlagsOf(k)'
  <2>1. polls[s].of \in Pollers /\ polls[s] \in PollType
    BY <1>4, PollIs DEF ReadPrd3, TypeOK
  <2>2. PICK st : poller' = [poller EXCEPT ![polls[s].of].lastPrd3 = st] /\ tasks' = tasks
    BY <1>4 DEF ReadPrd3
  <2>3. poller'[k] = [poller[k] EXCEPT !.lastPrd3 = IF k = polls[s].of THEN st ELSE @]
    BY <1>0, <2>1, <2>2 DEF PollerType
  <2> QED BY <1>0, <2>2, <2>3, FlagsKept DEF PollerType
<1>5. ASSUME NEW s \in Slots, CompletePoll(s) PROVE FlagsOf(k)'
  BY <1>5, FlagsComplete
<1>6. ASSUME NEW s \in Slots, FailPoll(s) PROVE FlagsOf(k)' BY <1>6, FlagsFail
<1>7. CASE LogEvents \/ LogOfflineBeat BY <1>7, FlagsTask
<1>8. CASE Restart
  <2>1. Seed(TRUE) /\ tasks' = <<>> /\ \A s \in Slots : polls'[s].of = None
    BY <1>8 DEF Restart, Idle
  <2> QED BY <2>1, FlagsSeed
<1>9. CASE Recreate BY <1>9, FlagsSeed DEF Recreate
<1>10. CASE UNCHANGED vars BY <1>10, FlagsKept DEF vars
<1> QED
  BY <1>1, <1>2, <1>3, <1>4, <1>5, <1>6, <1>7, <1>8, <1>9, <1>10
  DEF Next, Poll

LEMMA FlagsImply == TypeOK /\ FlagsInv => FlagsMatchFailures
<1> SUFFICES ASSUME FlagsInv, TypeOK, NEW o \in Pollers, poller[o].loggedOffline,
                    \A i \in 1..Len(tasks) : tasks[i].of # o
             PROVE  poller[o].lastStatus = "off"
  BY DEF FlagsInv, FlagsOf, FlagsMatchFailures
<1>1. OffAfter(o, tasks, poller[o].lastStatus, Len(tasks)) BY DEF FlagsInv, FlagsOf
<1>2. Len(tasks) \in Nat BY LenProperties DEF TypeOK
<1> QED BY <1>1, <1>2 DEF OffAfter

(* The flags of a poller never drift from its failure count, for every set of *)
(* overlapping polls and pollers and every threshold.                         *)
THEOREM FlagsMatchFailuresHolds == Spec => []FlagsMatchFailures
<1>1. Init => TypeOK /\ Known /\ FlagsInv BY InitType, KnownInit, FlagsInit
<1>2. TypeOK /\ Known /\ FlagsInv /\ [Next]_vars => TypeOK' /\ Known' /\ FlagsInv'
  BY NextType, KnownNext, FlagsNext
<1>3. TypeOK /\ FlagsInv => FlagsMatchFailures BY FlagsImply
<1> QED BY <1>1, <1>2, <1>3, PTL DEF Spec

-----------------------------------------------------------------------------
(* Memory and tables *)

LEMMA MemoryInit == Init => MemoryInv
<1> SUFFICES ASSUME Init PROVE MemoryInv
  OBVIOUS
<1>1. Current = 1 /\ Current \in Pollers /\ openRuns = <<>>
  BY BoundAssumption DEF Init, Current, Pollers
<1>2. poller[Current].lastStatus = None
  BY <1>1 DEF Init, NewPoller
<1> QED BY <1>1, <1>2 DEF MemoryInv, MemoryMatchesTable, OpenRunMeansOperating

LEMMA MemoryKept ==
    ASSUME MemoryInv, UNCHANGED <<lastEvent, own, openRuns, dbFailures, restarts>>,
           poller'[Current].lastStatus \in {poller[Current].lastStatus, "off"}
    PROVE  MemoryInv'
<1>1. Current' = Current BY DEF Current
<1> QED BY <1>1 DEF MemoryInv, MemoryMatchesTable, OpenRunMeansOperating

\* The poller of today is never forgotten.
LEMMA CurrentKept ==
    ASSUME TypeOK, UNCHANGED restarts, NEW f \in [Pollers -> PollerType], poller' = Collect(f)
    PROVE  poller'[Current] = f[Current] /\ Current' = Current /\ Current \in Pollers
<1>1. Current \in Pollers /\ Current' = Current BY CurrentIs DEF Current
<1>2. Referred(Current) BY <1>1 DEF Referred
<1> QED BY <1>1, <1>2, CollectIs

LEMMA MemoryLog ==
    ASSUME TypeOK, OneOpenRun, MemoryInv, LogEvents
    PROVE  MemoryInv'
<1> DEFINE t == Head(tasks)
           p == poller[t.of]
<1>0. /\ t \in TaskType /\ t.of \in Pollers /\ dbFailures \in Nat /\ p \in PollerType
      /\ poller \in [Pollers -> PollerType] /\ openRuns \in Seq(RunType)
  <2>1. t \in TaskType BY TailType DEF TypeOK, LogEvents
  <2> QED BY <2>1, BoundAssumption DEF TypeOK, TaskType
<1>1. PICK outcome \in Outcomes(t) :
        /\ CountFailure(outcome)
        /\ \/ poller' = Collect(poller) /\ UNCHANGED <<lastEvent, own, openRuns>> /\ outcome = "early"
           \/ /\ \E b : /\ b \in {t.age, p.sinceBeat}
                        /\ poller' = Collect([poller EXCEPT ![t.of] =
                                                [p EXCEPT !.lastStatus = t.status, !.sinceBeat = b]])
              /\ LET writes == outcome = "ok"
                                 /\ (p.lastStatus # t.status
                                     \/ (/\ ~(p.lastStatus # t.status)
                                         /\ t.success /\ BeatDue(p, t.age)))
                 IN  /\ lastEvent' = IF writes THEN t.status ELSE lastEvent
                     /\ own' = IF writes THEN t.of = Current ELSE own
              /\ openRuns' = RunsAfter(t, outcome)
  BY DEF LogEvents, dbVars
<1>2. dbFailures' = 0 => dbFailures = 0 /\ outcome = "ok"
  <2>1. CountFailure(outcome) BY <1>1
  <2> QED BY <1>0, <2>1 DEF CountFailure
<1>3. CASE dbFailures' # 0
  BY <1>3 DEF MemoryInv, MemoryMatchesTable, OpenRunMeansOperating
<1>4. CASE dbFailures' = 0
  <2> DEFINE changed == p.lastStatus # t.status
             writes == changed \/ (t.success /\ BeatDue(p, t.age))
  <2>1. PICK b \in {t.age, p.sinceBeat} :
          poller' = Collect([poller EXCEPT ![t.of] =
                               [p EXCEPT !.lastStatus = t.status, !.sinceBeat = b]])
    BY <1>1, <1>2, <1>4
  <2>2. /\ dbFailures = 0
        /\ lastEvent' = IF writes THEN t.status ELSE lastEvent
        /\ own' = IF writes THEN t.of = Current ELSE own
        /\ openRuns' = RunsAfter(t, "ok")
    BY <1>1, <1>2, <1>4
  <2> DEFINE q == [p EXCEPT !.lastStatus = t.status, !.sinceBeat = b]
             f == [poller EXCEPT ![t.of] = q]
  <2>3. q \in PollerType /\ q.lastStatus = t.status
    <3>1. b \in 0..MaxAge \cup {None} /\ t.status \in Statuses
      BY <1>0, TimeAssumption DEF TaskType, MaxAge, PollerType
    <3> HIDE DEF t, p
    <3> QED BY <1>0, <3>1 DEF PollerType
  <2>4. UNCHANGED restarts /\ poller' = Collect(f) BY <2>1 DEF LogEvents
  <2> HIDE DEF q, t, p
  <2>5. f \in [Pollers -> PollerType] BY <1>0, <2>3
  <2>6. poller'[Current] = f[Current] /\ Current' = Current /\ Current \in Pollers
    <3> HIDE DEF f
    <3> QED BY <2>4, <2>5, CurrentKept
  <2>7. poller'[Current].lastStatus = IF t.of = Current THEN t.status ELSE poller[Current].lastStatus
    BY <1>0, <2>3, <2>6
  <2>8. p = poller[t.of] BY DEF p
  <2>9. MemoryMatchesTable'
    <3>1. CASE t.of = Current
      BY <2>2, <2>6, <2>7, <2>8, <3>1 DEF MemoryInv, MemoryMatchesTable
    <3>2. CASE t.of # Current
      BY <2>2, <2>6, <2>7, <3>2 DEF MemoryInv, MemoryMatchesTable
    <3> QED BY <3>1, <3>2
  <2>10. OpenRunMeansOperating'
    <3> SUFFICES ASSUME NEW i \in 1..Len(openRuns'), openRuns'[i].by = Current
                 PROVE  poller'[Current].lastStatus \in {"operating", "off"}
      BY <2>6 DEF OpenRunMeansOperating
    <3>1. CASE StartsRun(t)
      <4>1. openRuns' = <<Opened(t)>> BY <2>2, <3>1 DEF RunsAfter, StartsRun
      <4>2. i = 1 /\ openRuns'[i].by = t.of BY <4>1 DEF Opened
      <4> QED BY <2>7, <3>1, <4>2 DEF StartsRun
    <3>2. CASE EndsRun(t)
      <4>1. ~StartsRun(t) BY <3>2 DEF EndsRun, StartsRun
      <4>2. openRuns' = Tail(openRuns) /\ Tail(openRuns) = <<>>
        BY <2>2, <3>2, <4>1, TailEmpty DEF RunsAfter, EndsRun
      <4>3. 1..Len(openRuns') = {} BY <4>2
      <4> QED BY <4>3
    <3>3. CASE ~StartsRun(t) /\ ~EndsRun(t)
      <4>1. openRuns' = openRuns BY <2>2, <3>3 DEF RunsAfter
      <4>2. poller[Current].lastStatus \in {"operating", "off"} /\ openRuns # <<>>
        BY <2>2, <4>1 DEF MemoryInv, OpenRunMeansOperating
      <4>3. t.status \in {"operating", "off"}
        BY <1>0, <3>3, <4>2 DEF EndsRun, TaskType, Statuses
      <4> QED BY <2>7, <4>2, <4>3
    <3> QED BY <3>1, <3>2, <3>3
  <2> QED BY <2>9, <2>10 DEF MemoryInv
<1> QED BY <1>3, <1>4

LEMMA MemoryBeat ==
    ASSUME TypeOK, FlagsInv, MemoryInv, LogOfflineBeat
    PROVE  MemoryInv'
<1> DEFINE o == tasks[1].of
<1>1. /\ tasks # <<>> /\ Head(tasks).kind = "offlineBeat"
      /\ poller' = Collect(poller) /\ openRuns' = openRuns /\ UNCHANGED restarts
      /\ dbFailures' = 0 => dbFailures = 0
  <2>1. dbFailures \in Nat BY BoundAssumption DEF TypeOK
  <2> QED BY <2>1 DEF LogOfflineBeat, CountFailure
<1>2. tasks \in Seq(TaskType) /\ Head(tasks) = tasks[1] /\ 1 \in 1..Len(tasks)
  <2>1. tasks \in Seq(TaskType) BY DEF TypeOK
  <2>2. /\ Len(Tail(tasks)) = Len(tasks) - 1 /\ Len(Tail(tasks)) \in Nat
        /\ Len(tasks) \in Nat
    BY <1>1, <2>1, TailType, LenProperties
  <2> QED BY <1>1, <2>1, <2>2
<1>3. o \in Pollers
  <2>1. tasks[1] \in TaskType BY <1>2, ElementOfSeq
  <2> QED BY <2>1 DEF TaskType
<1>4. OffAfter(o, tasks, poller[o].lastStatus, 1) /\ tasks[1].kind = "offlineBeat"
  BY <1>1, <1>2, <1>3 DEF FlagsInv, FlagsOf, Queued
<1>5. poller[o].lastStatus = "off"
  <2>1. PICK i \in 0..1 :
          IF i = 0 THEN poller[o].lastStatus = "off"
          ELSE tasks[i].kind = "log" /\ ~tasks[i].success
    BY <1>4 DEF OffAfter
  <2> QED BY <1>4, <2>1
<1>6. poller'[Current] = poller[Current] /\ Current' = Current
  BY <1>1, CurrentKept DEF TypeOK
<1>7. \/ UNCHANGED <<lastEvent, own>>
      \/ own' = (o = Current)
  BY <1>2 DEF LogOfflineBeat
<1>8. OpenRunMeansOperating' BY <1>1, <1>6 DEF MemoryInv, OpenRunMeansOperating
<1>9. MemoryMatchesTable'
  <2>1. CASE UNCHANGED <<lastEvent, own>>
    BY <1>1, <1>6, <2>1 DEF MemoryInv, MemoryMatchesTable
  <2>2. CASE own' = (o = Current)
    <3>1. own' => poller'[Current].lastStatus = "off" BY <1>5, <1>6, <2>2
    <3> QED BY <1>6, <3>1 DEF MemoryMatchesTable
  <2> QED BY <1>7, <2>1, <2>2
<1> QED BY <1>8, <1>9 DEF MemoryInv

LEMMA MemorySeed ==
    ASSUME TypeOK, MemoryInv, NEW n \in BOOLEAN, Seed(n)
    PROVE  MemoryInv'
<1>1. PICK outcome \in {"ok", "early", "commit"} :
        /\ CountFailure(outcome)
        /\ poller' = Collect([poller EXCEPT ![Current'] =
                                NewPoller(IF outcome = "early" THEN None ELSE lastEvent, n)])
        /\ openRuns' = IF outcome = "ok" THEN <<>> ELSE openRuns
  BY DEF Seed
<1>2. CASE dbFailures' # 0
  BY <1>2 DEF MemoryInv, MemoryMatchesTable, OpenRunMeansOperating
<1>3. CASE dbFailures' = 0
  <2>1. outcome = "ok"
    <3>1. dbFailures \in Nat BY BoundAssumption DEF TypeOK
    <3> QED BY <1>1, <1>3, <3>1 DEF CountFailure
  <2> DEFINE f == [poller EXCEPT ![Current'] = NewPoller(lastEvent, n)]
  <2>2. poller' = Collect(f) /\ openRuns' = <<>> /\ lastEvent' = lastEvent
    BY <1>1, <2>1 DEF Seed
  <2>3. Current' \in Pollers
    BY BoundAssumption DEF TypeOK, Seed, Current, Pollers
  <2>4. poller \in [Pollers -> PollerType] /\ NewPoller(lastEvent, n) \in PollerType
    BY NewPollerType DEF TypeOK
  <2>5. f \in [Pollers -> PollerType] /\ f[Current'] = NewPoller(lastEvent, n)
    BY <2>3, <2>4
  <2> HIDE DEF f
  <2>6. Referred(Current') BY DEF Referred
  <2>7. poller'[Current'] = NewPoller(lastEvent, n)
    BY <2>2, <2>3, <2>5, <2>6, CollectIs
  <2>8. poller'[Current'].lastStatus = lastEvent BY <2>7 DEF NewPoller
  <2>9. 1..Len(openRuns') = {} BY <2>2
  <2> QED BY <2>2, <2>8, <2>9 DEF MemoryInv, MemoryMatchesTable, OpenRunMeansOperating
<1> QED BY <1>2, <1>3

LEMMA MemoryNext ==
    TypeOK /\ OneOpenRun /\ FlagsInv /\ MemoryInv /\ [Next]_vars => MemoryInv'
<1> SUFFICES ASSUME TypeOK, OneOpenRun, FlagsInv, MemoryInv, [Next]_vars
             PROVE  MemoryInv'
  OBVIOUS
<1>0. poller \in [Pollers -> PollerType] /\ Current \in Pollers
  BY CurrentIs DEF TypeOK
<1>1. CASE MachineChanges BY <1>1, MemoryKept DEF MachineChanges, dbVars, countVars
<1>2. CASE Tick
  <2>1. poller'[Current] = [poller[Current] EXCEPT !.sinceBeat = Older(@)]
    BY <1>0, <1>2 DEF Tick
  <2>2. poller'[Current].lastStatus = poller[Current].lastStatus
    BY <1>0, <2>1 DEF PollerType
  <2> QED BY <1>2, <2>2, MemoryKept DEF Tick, dbVars, countVars
<1>3. ASSUME NEW s \in Slots, StartPoll(s) \/ MissPrd3(s) PROVE MemoryInv'
  BY <1>3, MemoryKept DEF StartPoll, MissPrd3, dbVars, countVars
<1>4. ASSUME NEW s \in Slots, ReadPrd3(s) PROVE MemoryInv'
  <2>1. PICK st : poller' = [poller EXCEPT ![polls[s].of].lastPrd3 = st] BY <1>4 DEF ReadPrd3
  <2>2. polls[s].of \in Pollers
    BY <1>4, PollIs DEF ReadPrd3, TypeOK
  <2>3. poller'[Current].lastStatus = poller[Current].lastStatus
    BY <1>0, <2>1, <2>2 DEF PollerType
  <2> QED BY <1>4, <2>3, MemoryKept DEF ReadPrd3, dbVars, countVars
<1>5. ASSUME NEW s \in Slots, CompletePoll(s) PROVE MemoryInv'
  <2> DEFINE o == polls[s].of
  <2>1. o \in Pollers /\ polls[s].status \in Statuses \cup {None}
    BY <1>5, PollIs DEF CompletePoll, TypeOK
  <2>2. PICK st \in Statuses \cup {None} : poller' = Collect([poller EXCEPT ![o] = Succeed(@, st)])
    <3>1. PICK halting \in BOOLEAN :
            poller' = Collect([poller EXCEPT ![o] = Succeed(@, ReportedStatus(polls[s].status, halting))])
      BY <1>5 DEF CompletePoll
    <3>2. ReportedStatus(polls[s].status, halting) \in Statuses \cup {None}
      BY <2>1 DEF ReportedStatus, Statuses
    <3> QED BY <3>1, <3>2
  <2> DEFINE f == [poller EXCEPT ![o] = Succeed(@, st)]
  <2>3. Succeed(poller[o], st) \in PollerType /\ Succeed(poller[o], st).lastStatus = poller[o].lastStatus
    BY <1>0, <2>1, SucceedIs
  <2>4. f \in [Pollers -> PollerType] /\ f[Current].lastStatus = poller[Current].lastStatus
    BY <1>0, <2>1, <2>3
  <2>5. poller' = Collect(f) BY <2>2
  <2> HIDE DEF f
  <2>6. poller'[Current] = f[Current]
    BY <1>5, <2>4, <2>5, CurrentKept DEF CompletePoll, countVars
  <2> QED BY <1>5, <2>4, <2>6, MemoryKept DEF CompletePoll, dbVars, countVars
<1>6. ASSUME NEW s \in Slots, FailPoll(s) PROVE MemoryInv'
  <2> DEFINE o == polls[s].of
             age == polls[s].age
             f == [poller EXCEPT ![o] = Fail(poller[o], age)]
  <2>1. o \in Pollers /\ age \in 0..PollTimeout
    BY <1>6, PollIs DEF FailPoll, TypeOK
  <2>2. poller' = Collect(f) BY <1>6 DEF FailPoll
  <2> HIDE DEF o, age
  <2>3. /\ Fail(poller[o], age) \in PollerType
        /\ Fail(poller[o], age).lastStatus \in {poller[o].lastStatus, "off"}
    BY <1>0, <2>1, FailIs
  <2>4. f \in [Pollers -> PollerType] /\ f[Current].lastStatus \in {poller[Current].lastStatus, "off"}
    BY <1>0, <2>1, <2>3
  <2> HIDE DEF f
  <2>5. poller'[Current] = f[Current]
    BY <1>6, <2>2, <2>4, CurrentKept DEF FailPoll, countVars
  <2> QED BY <1>6, <2>4, <2>5, MemoryKept DEF FailPoll, dbVars, countVars
<1>7. CASE LogEvents BY <1>7, MemoryLog
<1>8. CASE LogOfflineBeat BY <1>8, MemoryBeat
<1>9. CASE Restart BY <1>9, MemorySeed DEF Restart
<1>10. CASE Recreate BY <1>10, MemorySeed DEF Recreate
<1>11. CASE UNCHANGED vars BY <1>11, MemoryKept DEF vars
<1> QED
  BY <1>1, <1>2, <1>3, <1>4, <1>5, <1>6, <1>7, <1>8, <1>9, <1>10, <1>11
  DEF Next, Poll

\* What the theorems about memory rest on.
Invariant == TypeOK /\ Known /\ RunsInv /\ FlagsInv /\ MemoryInv

LEMMA Invariance == Spec => []Invariant
<1>1. Init => Invariant
  BY InitType, KnownInit, RunsInit, FlagsInit, MemoryInit DEF Invariant
<1>2. Invariant /\ [Next]_vars => Invariant'
  <2> SUFFICES ASSUME TypeOK, Known, RunsInv, FlagsInv, MemoryInv, [Next]_vars
               PROVE  TypeOK' /\ Known' /\ RunsInv' /\ FlagsInv' /\ MemoryInv'
    BY DEF Invariant
  <2>1. TypeOK' /\ Known' BY NextType, KnownNext
  <2>2. RunsInv' BY RunsNext
  <2>3. FlagsInv' BY <2>1, FlagsNext
  <2>4. MemoryInv' BY MemoryNext DEF RunsInv
  <2> QED BY <2>1, <2>2, <2>3, <2>4
<1> QED BY <1>1, <1>2, PTL DEF Spec

(* While the database worked, the status that the poller of today holds is    *)
(* the table's, or off, unless one it replaced wrote the newest event.        *)
THEOREM MemoryMatchesTableHolds == Spec => []MemoryMatchesTable
<1>1. Invariant => MemoryMatchesTable BY DEF Invariant, MemoryInv
<1> QED BY <1>1, Invariance, PTL

(* While the database worked, a run that the poller of today has opened is    *)
(* open only if it last saw the machine operating, or off.                    *)
THEOREM OpenRunMeansOperatingHolds == Spec => []OpenRunMeansOperating
<1>1. Invariant => OpenRunMeansOperating BY DEF Invariant, MemoryInv
<1> QED BY <1>1, Invariance, PTL

-----------------------------------------------------------------------------
(* The end of a cycle *)

\* The steps that may leave a message of a complete cycle unsent.
EndReported ==
    /\ tasks # <<>> /\ tasks' = Tail(tasks)
    /\ poller[Head(tasks).of].lastStatus = "operating"
    /\ Head(tasks).status \in {"standby", "stopped"}
    /\ poller[Head(tasks).of].notifier
    /\ <<dbFailures, restarts>>' = <<dbFailures, restarts>>
    => "cycle" \in out'.notes

\* A heartbeat brings off only; the row of the run may be open or missing.
LEMMA EndReportedNext ==
    ASSUME TypeOK, Known, FlagsInv, [Next]_vars
    PROVE  EndReported
<1> DEFINE t == Head(tasks)
<1> SUFFICES ASSUME tasks # <<>>, tasks' = Tail(tasks), poller[t.of].lastStatus = "operating",
                    t.status \in {"standby", "stopped"}, poller[t.of].notifier,
                    dbFailures' = dbFailures, restarts' = restarts
             PROVE  "cycle" \in out'.notes
  BY DEF EndReported
<1>0. /\ tasks \in Seq(TaskType) /\ t = tasks[1] /\ 1 \in 1..Len(tasks) /\ t.of \in Pollers
  <2>1. tasks \in Seq(TaskType) BY DEF TypeOK
  <2>2. /\ Len(Tail(tasks)) = Len(tasks) - 1 /\ Len(Tail(tasks)) \in Nat
        /\ Len(tasks) \in Nat /\ t \in TaskType
    BY <2>1, TailType, LenProperties
  <2> QED BY <2>1, <2>2 DEF TaskType
<1>0b. tasks' # tasks /\ \A x : tasks' # Append(tasks, x) BY <1>0, TailDiffers
<1>1. CASE LogEvents
  <2>1. PICK outcome \in Outcomes(t) :
          /\ CountFailure(outcome)
          /\ outcome # "early" => (outcome # "run" /\ CycleNote(t) => "cycle" \in out'.notes)
    BY <1>1 DEF LogEvents
  <2>2. outcome = "ok"
    BY <2>1 DEF CountFailure, TypeOK
  <2>3. CycleNote(t)
    BY DEF CycleNote, EndsUnrecorded, EndsRun, Completed
  <2> QED BY <2>1, <2>2, <2>3
<1>2. CASE LogOfflineBeat
  <2>1. t.kind = "offlineBeat" BY <1>2 DEF LogOfflineBeat
  <2>2. t.status = "off" BY <1>0, <2>1 DEF FlagsInv, FlagsOf, Queued
  <2> QED BY <2>2
<1>3. ASSUME NEW s \in Slots, CompletePoll(s) \/ FailPoll(s) PROVE FALSE
  <2>1. \/ tasks' = tasks
        \/ \E x : tasks' = Append(tasks, x)
    BY <1>3 DEF CompletePoll, FailPoll
  <2> QED BY <1>0b, <2>1
<1>4. CASE Restart \/ Recreate
  <2>1. restarts' = restarts + 1 BY <1>4 DEF Restart, Recreate, Seed
  <2> QED BY <2>1 DEF TypeOK
<1> QED
  BY <1>0b, <1>1, <1>2, <1>3, <1>4
  DEF Next, Poll, vars, MachineChanges, Tick, StartPoll, ReadPrd3, MissPrd3

(* Without a database failure in that step, no cycle's end goes unreported,   *)
(* whether the row of its run is open or was closed by a restart.             *)
THEOREM CycleEndReportedHolds == Spec => CycleEndReported
<1>1. Invariant /\ [Next]_vars => [EndReported]_vars
  BY EndReportedNext DEF Invariant
<1>2. Spec => [][EndReported]_vars
  BY <1>1, Invariance, PTL DEF Spec
<1> QED BY <1>2 DEF CycleEndReported, EndReported
=============================================================================
