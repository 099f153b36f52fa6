---------------------------- MODULE FtpSyncProofs ----------------------------
(***************************************************************************)
(* Theorems about FtpSyncService: about its runs, for every set of         *)
(* configurations and callers and every bound on runs, items, stops,       *)
(* failed commits and edits; and about what they do to a file, for every   *)
(* set of contents and every bound.                                        *)
(***************************************************************************)
EXTENDS FtpSync, DataLemmas

-----------------------------------------------------------------------------
(* Runs: types *)

LEMMA BoundTypes ==
    /\ MaxItems \in Nat /\ MaxRuns \in Nat /\ MaxStops \in Nat
    /\ MaxDbFailures \in Nat /\ MaxChanges \in Nat
  BY RunsBoundAssumption

LEMMA NoRunId == None \notin Nat /\ None \notin Configs
  BY NoneAssumption

LEMMA IdsAreNat == RunsTypeOK => Len(runs) \in Nat /\ Ids \subseteq Nat
  BY LenProperties DEF RunsTypeOK, Ids

\* The lock's queue and the map may name more runs once there are more.
LEMMA MoreRuns ==
    ASSUME NEW m \in Nat, NEW n \in Nat, m <= n, NEW q \in Seq(1..m)
    PROVE  q \in Seq(1..n)
<1>1. /\ Len(q) \in Nat /\ q \in [1..Len(q) -> 1..m]
  BY LenProperties
<1>2. q \in [1..Len(q) -> 1..n]
  <2>1. 1..m \subseteq 1..n OBVIOUS
  <2> QED BY <1>1, <2>1
<1> QED BY <1>1, <1>2

-----------------------------------------------------------------------------
(* What the steps do to the runs *)

\* A run is made for c.
Creates(c) ==
    /\ Len(runs') = Len(runs) + 1
    /\ \A s \in Ids : runs'[s] = runs[s]
    /\ runs'[Len(runs) + 1].config = c
    /\ runs'[Len(runs) + 1].pc = "scheduled"
    /\ runs'[Len(runs) + 1].status = "queued"
    /\ active' = [active EXCEPT ![c] = Len(runs) + 1]

LEMMA CreateDoes ==
    ASSUME RunsTypeOK, NEW c \in Configs, Create(c)
    PROVE  /\ Creates(c)
           /\ runs' \in Seq(RunType) /\ Len(runs') <= MaxRuns
           /\ active' \in [Configs -> Ids' \cup {None}]
<1>0. runs \in Seq(RunType) /\ Len(runs) \in Nat BY LenProperties DEF RunsTypeOK
<1>1. PICK n \in 0..MaxItems :
        runs' = Append(runs, [config |-> c, status |-> "queued",
                              pc |-> "scheduled", left |-> n, ok |-> FALSE,
                              failed |-> FALSE, conflict |-> FALSE])
  BY DEF Create
<1> DEFINE row == [config |-> c, status |-> "queued", pc |-> "scheduled",
                   left |-> n, ok |-> FALSE, failed |-> FALSE, conflict |-> FALSE]
<1>2. row \in RunType BY DEF RunType, Unfinished
<1>3. row.config = c /\ row.pc = "scheduled" /\ row.status = "queued" OBVIOUS
<1>4. runs' = Append(runs, row) BY <1>1
<1> HIDE DEF row
<1>5. /\ runs' \in Seq(RunType) /\ Len(runs') = Len(runs) + 1
      /\ \A s \in 1..Len(runs) : runs'[s] = runs[s]
      /\ runs'[Len(runs) + 1] = row
  BY <1>0, <1>2, <1>4, AppendProperties
<1>6. active' = [active EXCEPT ![c] = Len(runs) + 1] BY DEF Create
<1>7. Creates(c) BY <1>3, <1>5, <1>6 DEF Creates, Ids
<1>8. Len(runs') <= MaxRuns
  BY <1>0, <1>5, BoundTypes DEF Create
<1>9. active' \in [Configs -> Ids' \cup {None}]
  <2>1. Len(runs) + 1 \in Ids' /\ Ids \subseteq Ids' BY <1>0, <1>5 DEF Ids
  <2> QED BY <1>6, <2>1 DEF RunsTypeOK
<1> QED BY <1>5, <1>7, <1>8, <1>9

\* r goes on to pc with this status, the other runs stay as they are.
Goes(r, pc, state) ==
    /\ Len(runs') = Len(runs)
    /\ \A s \in Ids \ {r} : runs'[s] = runs[s]
    /\ runs'[r].config = runs[r].config
    /\ runs'[r].pc = pc
    /\ runs'[r].status = state

Pcs == {"scheduled", "waiting", "preparing", "items", "closing", "gone"}

LEMMA GoesOn ==
    ASSUME RunsTypeOK, NEW r \in Ids, NEW pc \in Pcs,
           runs' = [runs EXCEPT ![r].pc = pc]
    PROVE  Goes(r, pc, runs[r].status) /\ runs' \in Seq(RunType)
<1>0. runs \in Seq(RunType) /\ runs[r] \in RunType
  BY ElementOfSeq DEF RunsTypeOK, Ids
<1> DEFINE row == [runs[r] EXCEPT !.pc = pc]
<1>1. runs' = [runs EXCEPT ![r] = row] OBVIOUS
<1>2. /\ row \in RunType /\ row.pc = pc /\ row.status = runs[r].status
      /\ row.config = runs[r].config
  BY <1>0 DEF RunType, Pcs
<1> HIDE DEF row
<1>3. /\ runs' \in Seq(RunType) /\ Len(runs') = Len(runs)
      /\ \A s \in 1..Len(runs) : runs'[s] = IF s = r THEN row ELSE runs[s]
  BY <1>0, <1>1, <1>2, ExceptSeq DEF Ids
<1> QED BY <1>2, <1>3 DEF Goes, Ids

LEMMA GoesTo ==
    ASSUME RunsTypeOK, NEW r \in Ids, NEW pc \in Pcs,
           NEW state \in Unfinished \cup Final,
           runs' = [runs EXCEPT ![r].pc = pc, ![r].status = state]
    PROVE  Goes(r, pc, state) /\ runs' \in Seq(RunType)
<1>0. runs \in Seq(RunType) /\ runs[r] \in RunType /\ r \in DOMAIN runs
  BY ElementOfSeq, LenProperties DEF RunsTypeOK, Ids
<1> DEFINE row == [runs[r] EXCEPT !.pc = pc, !.status = state]
<1>1. runs' = [runs EXCEPT ![r] = row] BY <1>0
<1>2. /\ row \in RunType /\ row.pc = pc /\ row.status = state
      /\ row.config = runs[r].config
  BY <1>0 DEF RunType, Pcs
<1> HIDE DEF row
<1>3. /\ [runs EXCEPT ![r] = row] \in Seq(RunType)
      /\ Len([runs EXCEPT ![r] = row]) = Len(runs)
      /\ \A s \in 1..Len(runs) :
           [runs EXCEPT ![r] = row][s] = IF s = r THEN row ELSE runs[s]
  <2>1. r \in 1..Len(runs) /\ row \in RunType BY <1>2 DEF Ids
  <2> QED BY <1>0, <2>1, ExceptSeq
<1> QED BY <1>1, <1>2, <1>3 DEF Goes, Ids

LEMMA ItemDoes ==
    ASSUME RunsTypeOK, NEW r \in Ids, Item(r)
    PROVE  Goes(r, "items", runs[r].status) /\ runs' \in Seq(RunType)
<1>0. runs \in Seq(RunType) /\ runs[r] \in RunType /\ r \in DOMAIN runs
  BY ElementOfSeq, LenProperties DEF RunsTypeOK, Ids
<1>1. PICK flag \in {"ok", "failed", "conflict", "skipped"} :
         runs' = [runs EXCEPT ![r].left = @ - 1,
                              ![r].ok = @ \/ flag = "ok",
                              ![r].failed = @ \/ flag = "failed",
                              ![r].conflict = @ \/ flag = "conflict"]
  BY DEF Item
<1> DEFINE ok == runs[r].ok \/ flag = "ok"
           failed == runs[r].failed \/ flag = "failed"
           conflict == runs[r].conflict \/ flag = "conflict"
           row == [runs[r] EXCEPT !.left = runs[r].left - 1, !.ok = ok,
                                  !.failed = failed, !.conflict = conflict]
<1>2. runs' = [runs EXCEPT ![r] = row] BY <1>0, <1>1
<1>3. /\ ok \in BOOLEAN /\ failed \in BOOLEAN /\ conflict \in BOOLEAN
      /\ runs[r].left - 1 \in 0..MaxItems
      /\ runs[r].pc = "items"
  BY <1>0, BoundTypes DEF RunType, Item
<1> HIDE DEF ok, failed, conflict
<1>4. /\ row \in RunType /\ row.pc = "items" /\ row.status = runs[r].status
      /\ row.config = runs[r].config
  BY <1>0, <1>3 DEF RunType
<1> HIDE DEF row
<1>5. /\ runs' \in Seq(RunType) /\ Len(runs') = Len(runs)
      /\ \A s \in 1..Len(runs) : runs'[s] = IF s = r THEN row ELSE runs[s]
  BY <1>0, <1>2, <1>4, ExceptSeq DEF Ids
<1> QED BY <1>4, <1>5 DEF Goes, Ids

-----------------------------------------------------------------------------
(* What a run's coroutine does *)

InLock == {"waiting", "preparing", "items", "closing"}
Working == {"preparing", "items"}

\* A step of r: to the lock's queue, on with the lock, to a final status with
\* the lock kept or released, or out of the service's books.
RunStep(r) ==
    \/ /\ runs[r].pc = "scheduled" /\ Goes(r, "waiting", runs[r].status)
       /\ lock' = Append(lock, r) /\ UNCHANGED active
    \/ /\ runs[r].pc = "waiting" /\ CanRun(r)
       /\ Goes(r, "preparing", "in_progress")
       /\ UNCHANGED <<lock, active>>
    \/ /\ runs[r].pc \in Working /\ Goes(r, "items", runs[r].status)
       /\ UNCHANGED <<lock, active>>
    \/ /\ runs[r].pc \in {"waiting", "preparing", "items"}
       /\ \E state \in Final : Goes(r, "closing", state)
       /\ lock' = Without(lock, r) \/ UNCHANGED lock
       /\ UNCHANGED active
    \/ /\ runs[r].pc = "closing" /\ Goes(r, "gone", runs[r].status)
       /\ lock' = Without(lock, r)
       /\ active' = [active EXCEPT ![runs[r].config] = None]

LEMMA AbortDoes ==
    ASSUME RunsTypeOK, NEW r \in Ids, Abort(r)
    PROVE  /\ Goes(r, "closing", "failed") /\ runs' \in Seq(RunType)
           /\ lock' = Without(lock, r)
  BY GoesTo DEF Abort, Pcs, Final

LEMMA ProcessDoes ==
    ASSUME RunsTypeOK, NEW r \in Ids, Process(r)
    PROVE  /\ RunStep(r) /\ runs' \in Seq(RunType) /\ Len(runs') = Len(runs)
           /\ UNCHANGED <<up, triggers>>
<1>0. UNCHANGED <<up, triggers>>
  BY DEF Process, Begin, Acquire, Prepare, PrepareFails, Item, Conclude, Close
<1>1. CASE Begin(r)
  <2>1. Goes(r, "waiting", runs[r].status) /\ runs' \in Seq(RunType)
    BY <1>1, GoesOn DEF Begin, Pcs
  <2> QED BY <1>0, <1>1, <2>1 DEF Begin, RunStep, Goes
<1>2. CASE Acquire(r)
  <2>1. UNCHANGED active /\ runs[r].pc = "waiting" /\ CanRun(r)
    BY <1>2 DEF Acquire
  <2>2. CASE Abort(r)
    BY <1>0, <2>1, <2>2, AbortDoes DEF RunStep, Goes, Final
  <2>3. CASE /\ runs' = [runs EXCEPT ![r].pc = "preparing",
                                     ![r].status = "in_progress"]
             /\ UNCHANGED lock
    <3>1. Goes(r, "preparing", "in_progress") /\ runs' \in Seq(RunType)
      BY <2>3, GoesTo DEF Pcs, Unfinished
    <3> QED BY <1>0, <2>1, <2>3, <3>1 DEF RunStep, Goes
  <2> QED BY <1>2, <2>2, <2>3 DEF Acquire
<1>3. CASE Prepare(r)
  <2>1. Goes(r, "items", runs[r].status) /\ runs' \in Seq(RunType)
    BY <1>3, GoesOn DEF Prepare, Pcs
  <2> QED BY <1>0, <1>3, <2>1 DEF Prepare, RunStep, Goes, Working
<1>4. CASE PrepareFails(r)
  BY <1>0, <1>4, AbortDoes DEF PrepareFails, RunStep, Goes, Final
<1>5. CASE Item(r)
  <2>1. runs[r].pc = "items" /\ UNCHANGED <<lock, active>> BY <1>5 DEF Item
  <2> QED BY <1>0, <1>5, <2>1, ItemDoes DEF RunStep, Goes, Working
<1>6. CASE Conclude(r)
  <2>1. UNCHANGED active /\ runs[r].pc = "items" BY <1>6 DEF Conclude
  <2>2. CASE Abort(r)
    BY <1>0, <2>1, <2>2, AbortDoes DEF RunStep, Goes, Final
  <2>3. CASE /\ runs' = [runs EXCEPT ![r].pc = "closing",
                                     ![r].status = Verdict(runs[r])]
             /\ UNCHANGED lock
    <3>1. Verdict(runs[r]) \in Final BY DEF Verdict, Final
    <3>2. Goes(r, "closing", Verdict(runs[r])) /\ runs' \in Seq(RunType)
      BY <2>3, <3>1, GoesTo DEF Pcs
    <3> QED BY <1>0, <2>1, <2>3, <3>1, <3>2 DEF RunStep, Goes
  <2> QED BY <1>6, <2>2, <2>3 DEF Conclude
<1>7. CASE Close(r)
  <2>1. Goes(r, "gone", runs[r].status) /\ runs' \in Seq(RunType)
    BY <1>7, GoesOn DEF Close, Pcs
  <2> QED BY <1>0, <1>7, <2>1 DEF Close, RunStep, Goes
<1> QED BY <1>1, <1>2, <1>3, <1>4, <1>5, <1>6, <1>7 DEF Process

-----------------------------------------------------------------------------
(* The inductive invariant *)

\* A run is at the lock at most once, while its coroutine needs it, and has it
\* from the first word to the remote side to the last.
QueueInv ==
    /\ IsInjective(lock)
    /\ \A r \in Ids : r \in Range(lock) => runs[r].pc \in InLock
    /\ \A r \in Ids : runs[r].pc \in Working => CanRun(r)

\* Only download triggers await, a run that closes has its verdict, and a
\* service that is down has neither coroutines nor books.
BooksInv ==
    /\ \A t \in Callers : triggers[t] \in Downloads \cup {None}
    /\ \A r \in Ids : runs[r].pc = "closing" => runs[r].status \in Final
    /\ ~up => /\ lock = <<>>
              /\ \A t \in Callers : triggers[t] = None
              /\ \A c \in Configs : active[c] = None
              /\ \A r \in Ids : ~Live(r)

RunsInv == RunsTypeOK /\ QueueInv /\ BooksInv /\ RunsTracked

\* What the invariant says of the queue after a step of r.
LEMMA QueueKept ==
    ASSUME RunsTypeOK, QueueInv, NEW r \in Ids, RunStep(r)
    PROVE  lock' \in Seq(Ids) /\ QueueInv'
<1>0. lock \in Seq(Ids) /\ IsInjective(lock) BY DEF RunsTypeOK, QueueInv
<1>a. Ids' = Ids BY DEF RunStep, Goes, Ids
<1>b. \A s \in Ids \ {r} : runs'[s].pc = runs[s].pc BY DEF RunStep, Goes
<1>1. CASE /\ runs[r].pc = "scheduled" /\ runs'[r].pc = "waiting"
           /\ lock' = Append(lock, r)
  <2>1. r \notin Range(lock) BY <1>1 DEF QueueInv, InLock
  <2>2. /\ lock' \in Seq(Ids) /\ IsInjective(lock')
        /\ \A s : s \in Range(lock') <=> s = r \/ s \in Range(lock)
        /\ lock # <<>> => lock' # <<>> /\ Head(lock') = Head(lock)
    BY <1>0, <1>1, <2>1, AppendKeeps
  <2>3. \A s \in Ids : s \in Range(lock') => runs'[s].pc \in InLock
    BY <1>b, <1>1, <2>2 DEF QueueInv, InLock
  <2>4. ASSUME NEW s \in Ids, runs'[s].pc \in Working PROVE CanRun(s)'
    <3>1. s # r /\ CanRun(s) BY <1>b, <1>1, <2>4 DEF QueueInv, Working
    <3> QED BY <2>2, <3>1 DEF CanRun
  <2> QED BY <1>a, <2>2, <2>3, <2>4 DEF QueueInv
<1>2. CASE /\ UNCHANGED lock
           /\ runs[r].pc \in InLock /\ runs'[r].pc \in InLock
           /\ runs'[r].pc \in Working => CanRun(r)
  <2>1. \A s \in Ids : s \in Range(lock') => runs'[s].pc \in InLock
    BY <1>b, <1>2 DEF QueueInv
  <2>2. \A s \in Ids : runs'[s].pc \in Working => CanRun(s)'
    BY <1>b, <1>2 DEF QueueInv, CanRun
  <2> QED BY <1>0, <1>a, <1>2, <2>1, <2>2 DEF QueueInv
<1>3. CASE lock' = Without(lock, r) /\ runs'[r].pc \notin Working
  <2>1. /\ lock' \in Seq(Ids) /\ IsInjective(lock')
        /\ r \notin Range(lock')
        /\ \A s : s # r => (s \in Range(lock') <=> s \in Range(lock))
    BY <1>0, <1>3, RemoveKeeps DEF Without
  <2>2. \A s \in Ids : s \in Range(lock') => runs'[s].pc \in InLock
    BY <1>b, <2>1 DEF QueueInv
  <2>3. ASSUME NEW s \in Ids, runs'[s].pc \in Working PROVE CanRun(s)'
    <3>1. s # r /\ CanRun(s) BY <1>b, <1>3, <2>3 DEF QueueInv
    <3> QED BY <1>0, <1>3, <3>1, RemoveKeepsHead DEF Without, CanRun
  <2> QED BY <1>a, <2>1, <2>2, <2>3 DEF QueueInv
<1>4. \/ /\ runs[r].pc = "scheduled" /\ runs'[r].pc = "waiting"
         /\ lock' = Append(lock, r)
      \/ /\ UNCHANGED lock
         /\ runs[r].pc \in InLock /\ runs'[r].pc \in InLock
         /\ runs'[r].pc \in Working => CanRun(r)
      \/ lock' = Without(lock, r) /\ runs'[r].pc \notin Working
  <2>1. runs[r].pc \in Working => CanRun(r) BY DEF QueueInv
  <2> QED BY <2>1 DEF RunStep, Goes, InLock, Working
<1> QED BY <1>1, <1>2, <1>3, <1>4

\* ... and of the books.
LEMMA BooksKept ==
    ASSUME RunsInv, NEW r \in Ids, RunStep(r), UNCHANGED <<up, triggers>>
    PROVE  BooksInv'
<1>a. Ids' = Ids BY DEF RunStep, Goes, Ids
<1>b. \A s \in Ids \ {r} : runs'[s] = runs[s] BY DEF RunStep, Goes
<1>1. up BY DEF RunStep, RunsInv, BooksInv, Live, Working
<1>2. runs'[r].pc = "closing" => runs'[r].status \in Final
  BY DEF RunStep, Goes
<1> QED BY <1>a, <1>b, <1>1, <1>2 DEF RunsInv, BooksInv

LEMMA TrackedKept ==
    ASSUME RunsInv, NEW r \in Ids, RunStep(r), UNCHANGED up,
           dbFailures' = 0 => dbFailures = 0
    PROVE  RunsTracked'
<1>a. Ids' = Ids /\ Ids \subseteq Nat BY IdsAreNat DEF RunStep, Goes, Ids, RunsInv
<1>b. \A s \in Ids \ {r} : runs'[s] = runs[s] BY DEF RunStep, Goes
<1>c. Live(r) BY DEF RunStep, Live, Working
<1>d. runs'[r].config = runs[r].config BY DEF RunStep, Goes
<1>e. runs[r].config \in Configs
  <2>1. runs[r] \in RunType BY ElementOfSeq DEF RunsInv, RunsTypeOK, Ids
  <2> QED BY <2>1 DEF RunType
<1>1. CASE UNCHANGED active /\ Live(r)' /\ runs'[r].pc # "gone"
  <2>1. \A s \in Ids : Live(s)' <=> Live(s) BY <1>b, <1>c, <1>1 DEF Live
  <2>2. \A s \in Ids : runs'[s].config = runs[s].config BY <1>b, <1>d
  <2>3. UploadsRegistered'
    BY <1>a, <1>1, <2>1, <2>2 DEF RunsInv, RunsTracked, UploadsRegistered
  <2>4. NoneBlocked'
    BY <1>a, <1>1, <2>1, <2>2 DEF RunsInv, RunsTracked, NoneBlocked
  <2>5. NoDanglingRow'
    <3>1. \A s \in Ids : runs'[s].status \in Unfinished => Live(s)' \/ s # r
      BY <1>1
    <3> QED BY <1>a, <1>b, <1>1, <2>1, <3>1
            DEF RunsInv, RunsTracked, NoDanglingRow
  <2> QED BY <2>3, <2>4, <2>5 DEF RunsTracked
<1>2. CASE /\ runs[r].pc = "closing" /\ runs'[r].pc = "gone"
           /\ runs'[r].status = runs[r].status
           /\ active' = [active EXCEPT ![runs[r].config] = None]
  <2>1. ASSUME NEW s \in Ids, Live(s)' PROVE s # r /\ Live(s) /\ runs'[s] = runs[s]
    BY <1>b, <1>2, <2>1 DEF Live
  <2>2. ASSUME NEW s \in Ids, Live(s)', runs'[s].config \in Uploads
        PROVE  active'[runs'[s].config] = s
    <3>1. active[runs[s].config] = s
      BY <2>1, <2>2 DEF RunsInv, RunsTracked, UploadsRegistered
    <3>2. runs[s].config # runs[r].config
      BY <1>c, <2>1, <2>2, <3>1 DEF RunsInv, RunsTracked, UploadsRegistered
    <3> QED BY <1>2, <1>e, <2>1, <2>2, <3>1, <3>2
            DEF RunsInv, RunsTypeOK, Uploads
  <2>3. ASSUME NEW c \in Configs, active'[c] # None
        PROVE  \E s \in Ids : Live(s)' /\ runs'[s].config = c
    <3>1. c # runs[r].config /\ active[c] # None
      BY <1>2, <1>e, <2>3 DEF RunsInv, RunsTypeOK
    <3>2. PICK s \in Ids : Live(s) /\ runs[s].config = c
      BY <3>1 DEF RunsInv, RunsTracked, NoneBlocked
    <3>3. runs'[s] = runs[s] BY <1>b, <3>1, <3>2
    <3> QED BY <3>2, <3>3 DEF Live
  <2>4. ASSUME up, dbFailures = 0, NEW s \in Ids, runs'[s].status \in Unfinished
        PROVE  Live(s)'
    <3>1. s # r
      BY <1>2, <2>4 DEF RunsInv, BooksInv, Final, Unfinished
    <3>2. runs'[s] = runs[s] BY <1>b, <3>1
    <3> QED BY <2>4, <3>2 DEF RunsInv, RunsTracked, NoDanglingRow, Live
  <2> QED BY <1>a, <2>2, <2>3, <2>4
          DEF RunsTracked, UploadsRegistered, NoneBlocked, NoDanglingRow
<1>3. \/ UNCHANGED active /\ Live(r)' /\ runs'[r].pc # "gone"
      \/ /\ runs[r].pc = "closing" /\ runs'[r].pc = "gone"
         /\ runs'[r].status = runs[r].status
         /\ active' = [active EXCEPT ![runs[r].config] = None]
  BY DEF RunStep, Goes, Live
<1> QED BY <1>1, <1>2, <1>3

-----------------------------------------------------------------------------
(* New runs *)

\* A run may be made for c: no other one of an upload configuration is live.
LEMMA CreateKeeps ==
    ASSUME RunsInv, NEW c \in Configs, Creates(c), c \in Uploads => active[c] = None,
           up, UNCHANGED <<up, lock, dbFailures>>,
           \A t \in Callers : triggers'[t] \in {triggers[t], None} \cup Downloads
    PROVE  lock' \in Seq(Ids') /\ QueueInv' /\ BooksInv' /\ RunsTracked'
<1>0. /\ Len(runs) \in Nat /\ lock \in Seq(1..Len(runs))
      /\ active \in [Configs -> Ids \cup {None}]
  BY IdsAreNat DEF RunsInv, RunsTypeOK, Ids
<1> DEFINE n == Len(runs) + 1
<1>1. Ids' = Ids \cup {n} /\ n \notin Ids /\ n \in Nat
  BY <1>0 DEF Creates, Ids
<1>2. /\ \A s \in Ids : runs'[s] = runs[s]
      /\ runs'[n].config = c /\ runs'[n].pc = "scheduled"
      /\ runs'[n].status = "queued"
      /\ active' = [active EXCEPT ![c] = n]
  BY DEF Creates
<1>3. lock' \in Seq(Ids')
  <2>1. lock \in Seq(1..(Len(runs) + 1)) BY <1>0, MoreRuns
  <2> QED BY <2>1 DEF Creates, Ids
<1>4. Range(lock) \subseteq Ids
  <2>1. \A i \in 1..Len(lock) : lock[i] \in Ids BY <1>0, ElementOfSeq DEF Ids
  <2>2. DOMAIN lock = 1..Len(lock) BY <1>0, LenProperties
  <2> QED BY <2>1, <2>2 DEF Range
<1> HIDE DEF n
<1>5. QueueInv'
  <2>1. \A s \in Ids' : s \in Range(lock') => runs'[s].pc \in InLock
    BY <1>1, <1>2, <1>4 DEF RunsInv, QueueInv
  <2>2. \A s \in Ids' : runs'[s].pc \in Working => CanRun(s)'
    BY <1>1, <1>2 DEF RunsInv, QueueInv, CanRun, Working
  <2> QED BY <2>1, <2>2 DEF RunsInv, QueueInv
<1>6. BooksInv'
  <2>1. \A s \in Ids' : runs'[s].pc = "closing" => runs'[s].status \in Final
    BY <1>1, <1>2 DEF RunsInv, BooksInv
  <2> QED BY <2>1 DEF RunsInv, BooksInv
<1>7. UploadsRegistered'
  <2>1. ASSUME NEW s \in Ids', Live(s)', runs'[s].config \in Uploads
        PROVE  active'[runs'[s].config] = s
    <3>1. CASE s = n BY <1>0, <1>2, <3>1
    <3>2. CASE s # n
      <4>1. s \in Ids /\ Live(s) /\ runs'[s] = runs[s]
        BY <1>1, <1>2, <2>1, <3>2 DEF Live
      <4>2. active[runs[s].config] = s
        BY <2>1, <4>1 DEF RunsInv, RunsTracked, UploadsRegistered
      <4>3. s # None BY <1>0, <4>1, NoRunId DEF Ids
      <4>4. runs[s].config # c BY <2>1, <4>1, <4>2, <4>3
      <4>5. runs[s].config \in Configs BY <2>1, <4>1 DEF Uploads
      <4> QED BY <1>0, <1>2, <4>1, <4>2, <4>4, <4>5
    <3> QED BY <3>1, <3>2
  <2> QED BY <2>1 DEF UploadsRegistered
<1>8. NoneBlocked'
  <2>1. ASSUME NEW d \in Configs, active'[d] # None
        PROVE  \E s \in Ids' : Live(s)' /\ runs'[s].config = d
    <3>1. CASE d = c BY <1>1, <1>2, <3>1 DEF Live
    <3>2. CASE d # c
      <4>1. active[d] # None BY <1>0, <1>2, <2>1, <3>2
      <4>2. PICK s \in Ids : Live(s) /\ runs[s].config = d
        BY <4>1 DEF RunsInv, RunsTracked, NoneBlocked
      <4> QED BY <1>1, <1>2, <4>2 DEF Live
    <3> QED BY <3>1, <3>2
  <2> QED BY <2>1 DEF NoneBlocked
<1>9. NoDanglingRow'
  <2>1. ASSUME dbFailures = 0, NEW s \in Ids', runs'[s].status \in Unfinished
        PROVE  Live(s)'
    <3>1. CASE s = n BY <1>2, <3>1 DEF Live
    <3>2. CASE s # n
      BY <1>1, <1>2, <2>1, <3>2 DEF RunsInv, RunsTracked, NoDanglingRow, Live
    <3> QED BY <3>1, <3>2
  <2> QED BY <2>1 DEF NoDanglingRow
<1> QED BY <1>3, <1>5, <1>6, <1>7, <1>8, <1>9 DEF RunsTracked

-----------------------------------------------------------------------------
(* Stop, crash and start *)

\* All coroutines are gone, all rows of the process are kept.
Gone ==
    /\ runs' \in Seq(RunType) /\ Len(runs') = Len(runs)
    /\ \A r \in Ids : runs'[r].pc = "gone"

LEMMA FunctionIsSeq ==
    ASSUME NEW S, NEW n \in Nat, NEW f \in [1..n -> S]
    PROVE  f \in Seq(S) /\ Len(f) = n
  OBVIOUS

LEMMA RowsGone ==
    ASSUME RunsTypeOK, NEW ok \in BOOLEAN,
           runs' = [r \in Ids |-> [runs[r] EXCEPT
                       !.pc = "gone",
                       !.status = IF ok /\ Stale(runs[r]) THEN "interrupted" ELSE @]]
    PROVE  /\ Gone
           /\ ok => \A r \in Ids : runs'[r].status \notin Unfinished
<1>0. runs \in Seq(RunType) /\ Len(runs) \in Nat
  BY LenProperties DEF RunsTypeOK
<1>1. ASSUME NEW r \in Ids
      PROVE  /\ runs'[r] \in RunType /\ runs'[r].pc = "gone"
             /\ ok => runs'[r].status \notin Unfinished
  <2>0. runs[r] \in RunType BY <1>0, ElementOfSeq DEF Ids
  <2> DEFINE state == IF ok /\ Stale(runs[r]) THEN "interrupted" ELSE runs[r].status
  <2>1. runs'[r] = [runs[r] EXCEPT !.pc = "gone", !.status = state]
    BY <2>0 DEF RunType
  <2>2. state \in Unfinished \cup Final /\ (ok => state \notin Unfinished)
    BY <2>0 DEF RunType, Stale, Final, Unfinished
  <2> HIDE DEF state
  <2> QED BY <2>0, <2>1, <2>2 DEF RunType
<1>3. runs' \in [1..Len(runs) -> RunType]
  <2>1. runs' = [r \in Ids |-> runs'[r]] OBVIOUS
  <2> QED BY <1>1, <2>1 DEF Ids
<1>4. runs' \in Seq(RunType) /\ Len(runs') = Len(runs)
  BY <1>0, <1>3, FunctionIsSeq
<1> QED BY <1>1, <1>4 DEF Gone

LEMMA CrashGone ==
    ASSUME RunsTypeOK, ServiceCrash PROVE Gone
<1>0. runs \in Seq(RunType) /\ Len(runs) \in Nat
  BY LenProperties DEF RunsTypeOK
<1>1. runs' = [r \in Ids |-> [runs[r] EXCEPT !.pc = "gone"]]
  BY DEF ServiceCrash
<1>2. ASSUME NEW r \in Ids PROVE runs'[r] \in RunType /\ runs'[r].pc = "gone"
  <2>0. runs[r] \in RunType BY <1>0, ElementOfSeq DEF Ids
  <2>1. runs'[r] = [runs[r] EXCEPT !.pc = "gone"] BY <1>1
  <2> QED BY <2>0, <2>1 DEF RunType
<1>3. runs' \in [1..Len(runs) -> RunType]
  <2>1. runs' = [r \in Ids |-> runs'[r]] BY <1>1
  <2> QED BY <1>2, <2>1 DEF Ids
<1>4. runs' \in Seq(RunType) /\ Len(runs') = Len(runs)
  BY <1>0, <1>3, FunctionIsSeq
<1> QED BY <1>2, <1>4 DEF Gone

\* What the invariant says once they are gone.
LEMMA GoneKeeps ==
    ASSUME RunsTypeOK, Gone, lock' = <<>>,
           \A c \in Configs : active'[c] = None,
           \A t \in Callers : triggers'[t] = None,
           up' /\ dbFailures' = 0
              => \A r \in Ids : runs'[r].status \notin Unfinished
    PROVE  lock' \in Seq(Ids') /\ QueueInv' /\ BooksInv' /\ RunsTracked'
<1>1. Ids' = Ids BY DEF Gone, Ids
<1>2. \A r \in Ids' : runs'[r].pc = "gone" /\ ~Live(r)'
  BY <1>1 DEF Gone, Live
<1>3. lock' \in Seq(Ids') /\ QueueInv'
  BY <1>2, EmptyQueue DEF QueueInv, Working
<1>4. BooksInv' BY <1>2 DEF BooksInv
<1>5. RunsTracked'
  BY <1>1, <1>2 DEF RunsTracked, UploadsRegistered, NoneBlocked, NoDanglingRow
<1> QED BY <1>3, <1>4, <1>5

-----------------------------------------------------------------------------
(* Every step keeps the invariant *)

\* The counts and the watcher's sets.
LEMMA CountsNext ==
    ASSUME RunsTypeOK, [RunsNext]_runsVars
    PROVE  /\ stops' \in 0..MaxStops /\ dbFailures' \in 0..MaxDbFailures
           /\ changes' \in 0..MaxChanges
           /\ dbFailures' = 0 => dbFailures = 0
           /\ changed' \subseteq Uploads /\ unsynced' \subseteq Uploads
<1>0. /\ stops \in 0..MaxStops /\ dbFailures \in 0..MaxDbFailures
      /\ changes \in 0..MaxChanges
      /\ changed \subseteq Uploads /\ unsynced \subseteq Uploads
  BY DEF RunsTypeOK
<1>1. \/ UNCHANGED dbFailures
      \/ dbFailures < MaxDbFailures /\ dbFailures' = dbFailures + 1
  BY DEF RunsNext, TriggerUpload, TriggerDownload, Listed, ListingFails, Edit,
     Scan, Process, Begin, Acquire, Prepare, PrepareFails, Item, Conclude, Close,
     Stop, ServiceCrash, Start, CountFailure, runsVars, runCounts
<1>2. \/ UNCHANGED stops
      \/ stops < MaxStops /\ stops' = stops + 1
  BY DEF RunsNext, TriggerUpload, TriggerDownload, Listed, ListingFails, Edit,
     Scan, Process, Begin, Acquire, Prepare, PrepareFails, Item, Conclude, Close,
     Stop, ServiceCrash, Start, runsVars, runCounts
<1>3. \/ UNCHANGED changes
      \/ changes < MaxChanges /\ changes' = changes + 1
  BY DEF RunsNext, TriggerUpload, TriggerDownload, Listed, ListingFails, Edit,
     Scan, Process, Begin, Acquire, Prepare, PrepareFails, Item, Conclude, Close,
     Stop, ServiceCrash, Start, runsVars, runCounts
<1>4. changed' \subseteq changed \cup Uploads /\ unsynced' \subseteq unsynced \cup Uploads
  BY DEF RunsNext, TriggerUpload, TriggerDownload, Listed, ListingFails, Edit,
     Scan, Process, Begin, Acquire, Prepare, PrepareFails, Item, Conclude, Close,
     Stop, ServiceCrash, Start, runsVars, watchVars
<1> QED BY <1>0, <1>1, <1>2, <1>3, <1>4, BoundTypes

\* The books, as far as they are typed by the runs there are.
BooksTyped ==
    /\ up \in BOOLEAN
    /\ runs \in Seq(RunType) /\ Len(runs) <= MaxRuns
    /\ active \in [Configs -> Ids \cup {None}]
    /\ lock \in Seq(Ids)
    /\ triggers \in [Callers -> Configs \cup {None}]

BooksGood == BooksTyped /\ QueueInv /\ BooksInv /\ RunsTracked

LEMMA CreateGood ==
    ASSUME RunsInv, NEW c \in Configs, Create(c), c \in Uploads => active[c] = None,
           up, UNCHANGED <<up, lock, dbFailures>>,
           \/ UNCHANGED triggers
           \/ \E t \in Callers : triggers' = [triggers EXCEPT ![t] = None]
    PROVE  BooksGood'
<1>0. RunsTypeOK BY DEF RunsInv
<1>1. /\ Creates(c) /\ runs' \in Seq(RunType) /\ Len(runs') <= MaxRuns
      /\ active' \in [Configs -> Ids' \cup {None}]
  BY <1>0, CreateDoes
<1>2. /\ triggers' \in [Callers -> Configs \cup {None}]
      /\ \A t \in Callers : triggers'[t] \in {triggers[t], None} \cup Downloads
  BY <1>0 DEF RunsTypeOK
<1>3. lock' \in Seq(Ids') /\ QueueInv' /\ BooksInv' /\ RunsTracked'
  BY <1>1, <1>2, CreateKeeps
<1> QED BY <1>0, <1>1, <1>2, <1>3 DEF BooksGood, BooksTyped, RunsTypeOK

LEMMA ProcessGood ==
    ASSUME RunsInv, NEW r \in Ids, Process(r), dbFailures' = 0 => dbFailures = 0
    PROVE  BooksGood'
<1>0. RunsTypeOK /\ QueueInv BY DEF RunsInv
<1>1. /\ RunStep(r) /\ runs' \in Seq(RunType) /\ Len(runs') = Len(runs)
      /\ UNCHANGED <<up, triggers>>
  BY <1>0, ProcessDoes
<1>2. Ids' = Ids BY <1>1 DEF Ids
<1>3. lock' \in Seq(Ids) /\ QueueInv' BY <1>0, <1>1, QueueKept
<1>4. BooksInv' BY <1>1, BooksKept
<1>5. RunsTracked' BY <1>1, TrackedKept
<1>6. active' \in [Configs -> Ids \cup {None}]
  BY <1>0, <1>1 DEF RunStep, RunsTypeOK
<1> QED BY <1>0, <1>1, <1>2, <1>3, <1>4, <1>5, <1>6
        DEF BooksGood, BooksTyped, RunsTypeOK

\* A step that moves neither a run nor the queue nor the map.
LEMMA QuietGood ==
    ASSUME RunsInv, UNCHANGED <<up, runs, active, lock, dbFailures>>,
           triggers' \in [Callers -> Configs \cup {None}],
           \A t \in Callers : \/ triggers'[t] \in {triggers[t], None}
                              \/ up /\ triggers'[t] \in Downloads
    PROVE  BooksGood'
<1>1. Ids' = Ids BY DEF Ids
<1>2. BooksTyped' BY <1>1 DEF RunsInv, RunsTypeOK, BooksTyped
<1>3. QueueInv' BY <1>1 DEF RunsInv, QueueInv, CanRun
<1>4. BooksInv' BY <1>1 DEF RunsInv, BooksInv, Live
<1>5. RunsTracked'
  BY <1>1 DEF RunsInv, RunsTracked, UploadsRegistered, NoneBlocked,
              NoDanglingRow, Live
<1> QED BY <1>2, <1>3, <1>4, <1>5 DEF BooksGood

LEMMA StopGood ==
    ASSUME RunsInv, Stop \/ ServiceCrash \/ Start PROVE BooksGood'
<1>0. RunsTypeOK BY DEF RunsInv
<1>1. /\ Gone
      /\ up' /\ dbFailures' = 0 => \A r \in Ids : runs'[r].status \notin Unfinished
  <2>1. CASE Stop
    <3>1. PICK ok \in BOOLEAN : Reconcile(ok) BY <2>1 DEF Stop
    <3> QED BY <1>0, <2>1, <3>1, RowsGone DEF Stop, Reconcile
  <2>2. CASE ServiceCrash
    BY <1>0, <2>2, CrashGone DEF ServiceCrash
  <2>3. CASE Start
    <3>1. PICK ok \in BOOLEAN : CountFailure(ok) /\ Reconcile(ok)
      BY <2>3 DEF Start
    <3>2. dbFailures' = 0 => ok
      <4>1. dbFailures \in Nat BY <1>0, BoundTypes DEF RunsTypeOK
      <4> QED BY <3>1, <4>1 DEF CountFailure
    <3> QED BY <1>0, <3>1, <3>2, RowsGone DEF Reconcile
  <2> QED BY <2>1, <2>2, <2>3
<1>2. /\ lock' = <<>>
      /\ \A c \in Configs : active'[c] = None
      /\ \A t \in Callers : triggers'[t] = None
      /\ up' \in BOOLEAN
      /\ active' \in [Configs -> Ids \cup {None}]
      /\ triggers' \in [Callers -> Configs \cup {None}]
  <2>1. CASE Stop BY <1>0, <2>1 DEF Stop, RunsTypeOK
  <2>2. CASE ServiceCrash BY <1>0, <2>2 DEF ServiceCrash, RunsTypeOK
  <2>3. CASE Start BY <1>0, <2>3 DEF Start, RunsInv, BooksInv, RunsTypeOK
  <2> QED BY <2>1, <2>2, <2>3
<1>3. lock' \in Seq(Ids') /\ QueueInv' /\ BooksInv' /\ RunsTracked'
  BY <1>0, <1>1, <1>2, GoneKeeps
<1>4. Ids' = Ids BY <1>1 DEF Gone, Ids
<1> QED BY <1>0, <1>1, <1>2, <1>3, <1>4
        DEF BooksGood, BooksTyped, Gone, RunsTypeOK

LEMMA NextGood == RunsInv /\ [RunsNext]_runsVars => BooksGood'
<1> SUFFICES ASSUME RunsInv, [RunsNext]_runsVars PROVE BooksGood'
  OBVIOUS
<1>0. RunsTypeOK /\ (dbFailures' = 0 => dbFailures = 0)
  BY CountsNext DEF RunsInv
<1>a. \A t \in Callers : triggers[t] # None => up /\ triggers[t] \in Downloads
  BY DEF RunsInv, BooksInv
<1>1. ASSUME NEW t \in Callers, NEW c \in Configs, TriggerUpload(t, c)
      PROVE  BooksGood'
  BY <1>1, CreateGood DEF TriggerUpload, runCounts
<1>2. ASSUME NEW t \in Callers, NEW c \in Configs, TriggerDownload(t, c)
      PROVE  BooksGood'
  BY <1>0, <1>2, QuietGood DEF TriggerDownload, runCounts, RunsTypeOK
<1>3. ASSUME NEW t \in Callers, Listed(t) PROVE BooksGood'
  <2>1. up /\ triggers[t] \in Downloads BY <1>a, <1>3 DEF Listed
  <2>2. triggers[t] \in Configs /\ triggers[t] \notin Uploads
    BY <2>1, DownloadsAssumption DEF Uploads
  <2> QED BY <1>3, <2>1, <2>2, CreateGood DEF Listed, runCounts
<1>4. ASSUME NEW t \in Callers, ListingFails(t) PROVE BooksGood'
  BY <1>0, <1>4, QuietGood DEF ListingFails, runCounts, RunsTypeOK
<1>5. ASSUME NEW c \in Configs, Edit(c) PROVE BooksGood'
  BY <1>0, <1>5, QuietGood DEF Edit, RunsTypeOK
<1>6. ASSUME NEW c \in Configs, Scan(c) PROVE BooksGood'
  <2>1. CASE active[c] = None
    BY <1>6, <2>1, CreateGood DEF Scan, runCounts
  <2>2. CASE active[c] # None
    BY <1>0, <1>6, <2>2, QuietGood DEF Scan, runCounts, RunsTypeOK
  <2> QED BY <2>1, <2>2
<1>7. ASSUME NEW r \in Ids, Process(r) PROVE BooksGood'
  BY <1>0, <1>7, ProcessGood
<1>8. CASE Stop \/ ServiceCrash \/ Start BY <1>8, StopGood
<1>9. CASE UNCHANGED runsVars
  BY <1>0, <1>9, QuietGood DEF runsVars, RunsTypeOK
<1> QED BY <1>1, <1>2, <1>3, <1>4, <1>5, <1>6, <1>7, <1>8, <1>9 DEF RunsNext

LEMMA InitRunsInv == RunsInit => RunsInv
<1> SUFFICES ASSUME RunsInit PROVE RunsInv
  OBVIOUS
<1>1. /\ runs = <<>> /\ Len(runs) = 0 /\ Ids = {} /\ lock = <<>>
      /\ runs \in Seq(RunType) /\ lock \in Seq(Ids)
  BY EmptySeq DEF RunsInit, Ids
<1>2. RunsTypeOK
  <2>0. Len(runs) <= MaxRuns BY <1>1, BoundTypes
  <2>1. /\ up = FALSE /\ stops = 0 /\ dbFailures = 0 /\ changes = 0
    BY DEF RunsInit
  <2>3. /\ stops \in 0..MaxStops /\ dbFailures \in 0..MaxDbFailures
        /\ changes \in 0..MaxChanges
    BY <2>1, BoundTypes
  <2>2. /\ active \in [Configs -> Ids \cup {None}]
        /\ triggers \in [Callers -> Configs \cup {None}]
        /\ changed \subseteq Uploads /\ unsynced \subseteq Uploads
    BY DEF RunsInit
  <2> QED BY <1>1, <2>0, <2>1, <2>2, <2>3 DEF RunsTypeOK
<1>3. QueueInv BY <1>1, EmptyQueue DEF QueueInv
<1>4. BooksInv BY <1>1 DEF RunsInit, BooksInv
<1>5. RunsTracked
  BY <1>1 DEF RunsInit, RunsTracked, UploadsRegistered, NoneBlocked, NoDanglingRow
<1> QED BY <1>2, <1>3, <1>4, <1>5 DEF RunsInv

LEMMA NextRunsInv == RunsInv /\ [RunsNext]_runsVars => RunsInv'
  BY NextGood, CountsNext DEF RunsInv, RunsTypeOK, BooksGood, BooksTyped

LEMMA RunsInvariance == RunsSpec => []RunsInv
  BY InitRunsInv, NextRunsInv, PTL DEF RunsSpec

-----------------------------------------------------------------------------
(* Theorems *)

(* RunsTyping: the rows, the map, the lock's queue and the triggers keep their *)
(* types through every trigger, failure, stop, crash and start.               *)
THEOREM RunsTyping == RunsSpec => []RunsTypeOK
<1>1. RunsInv => RunsTypeOK BY DEF RunsInv
<1> QED BY <1>1, RunsInvariance, PTL

(* RunsTracked: an upload configuration has one live run and the map names    *)
(* it, no configuration is blocked by a run that is gone, and while commits   *)
(* succeed every row that is not finished has its coroutine.                  *)
THEOREM RunsTrackedHolds == RunsSpec => []RunsTracked
<1>1. RunsInv => RunsTracked BY DEF RunsInv
<1> QED BY <1>1, RunsInvariance, PTL

(* OneSyncPerMachine: whatever runs were triggered by requests, the watcher   *)
(* or two triggers of one download, at most one works on the machine's files. *)
THEOREM OneSyncHolds == RunsSpec => []OneSyncPerMachine
<1>1. RunsInv => OneSyncPerMachine
  <2> SUFFICES ASSUME RunsInv PROVE OneSyncPerMachine
    OBVIOUS
  <2> DEFINE working == {r \in Ids : runs[r].pc \in {"preparing", "items"}}
  <2>1. \A r, s \in working : r = s
    BY DEF RunsInv, QueueInv, Working, CanRun
  <2>2. CASE working = {}
    BY <2>2, FS_EmptySet DEF OneSyncPerMachine
  <2>3. ASSUME NEW r \in working PROVE OneSyncPerMachine
    <3>1. working = {r} BY <2>1
    <3>2. Cardinality({r}) = 1 BY FS_Singleton
    <3> HIDE DEF working
    <3> QED BY <3>1, <3>2 DEF OneSyncPerMachine, working
  <2> QED BY <2>2, <2>3
<1> QED BY <1>1, RunsInvariance, PTL

-----------------------------------------------------------------------------
(* What a run does to one file                                               *)

FileRunType ==
    [pc : {"none", "item", "uploading", "uploaded", "registered", "fetched"},
     listed : BOOLEAN, bytes : Copies]

-----------------------------------------------------------------------------
(* Types *)

LEMMA NoRunType == NoRun \in FileRunType /\ NoRun.pc = "none" /\ NoRun.bytes = Absent
  BY DEF NoRun, FileRunType, Copies

\* What a run takes on its way.
LEMMA FileRunStep ==
    ASSUME NEW r \in FileRunType,
           NEW p \in {"none", "item", "uploading", "uploaded", "registered", "fetched"},
           NEW b \in Copies
    PROVE  /\ [r EXCEPT !.pc = p] \in FileRunType
           /\ [r EXCEPT !.pc = p].pc = p
           /\ [r EXCEPT !.pc = p].bytes = r.bytes
           /\ [r EXCEPT !.pc = p, !.bytes = b] \in FileRunType
           /\ [r EXCEPT !.pc = p, !.bytes = b].pc = p
           /\ [r EXCEPT !.pc = p, !.bytes = b].bytes = b
  BY DEF FileRunType

\* The part of the type that the run and the status share.
RunOK ==
    /\ run \in FileRunType
    /\ run.pc \in {"none", "item"} <=> run.bytes = Absent
    /\ status \in {"queued", "failed", "conflict", "skipped", "uploaded",
                   "registered", "downloaded"}

\* The rest.
StoreOK ==
    /\ local \in Copies /\ remote \in Copies /\ recorded \in Copies
    /\ registered \subseteq Texts
    /\ direction \in {"upload", "download"}
    /\ onMachine \subseteq Contents \cup {Cut}
    /\ byOperator \in BOOLEAN
    /\ edits \in 0..MaxEdits /\ switches \in 0..MaxSwitches
    /\ faults \in 0..MaxFaults

LEMMA TypeSplit == TypeOK <=> RunOK /\ StoreOK
  BY DEF TypeOK, RunOK, StoreOK, FileRunType

LEMMA TypeSplitNext == TypeOK' <=> (RunOK /\ StoreOK)'
  BY DEF TypeOK, RunOK, StoreOK, FileRunType, Copies

LEMMA InitType == Init => TypeOK
<1> SUFFICES ASSUME Init PROVE TypeOK
  OBVIOUS
<1>1. run \in FileRunType /\ (run.pc \in {"none", "item"} <=> run.bytes = Absent)
  BY NoRunType DEF Init
<1>2. {edits, switches, faults} \subseteq {0}
  BY DEF Init
<1>3. edits \in 0..MaxEdits /\ switches \in 0..MaxSwitches /\ faults \in 0..MaxFaults
  BY <1>2, BoundAssumption
<1>4. byOperator \in BOOLEAN BY DEF Init
<1>5. /\ local \in Copies /\ remote \in Copies /\ recorded \in Copies
      /\ onMachine \subseteq Contents \cup {Cut}
  BY DEF Init, Copies
<1>6. RunOK /\ StoreOK
  BY <1>1, <1>3, <1>4, <1>5 DEF Init, RunOK, StoreOK
<1> QED BY <1>6, TypeSplit

LEMMA Ended ==
    ASSUME NEW s \in {"failed", "conflict", "skipped", "uploaded", "registered",
                      "downloaded"},
           End(s)
    PROVE  RunOK'
  BY NoRunType DEF End, RunOK

\* A transfer that holds bytes goes on with another pc.
LEMMA FileGoesOn ==
    ASSUME RunOK,
           NEW p \in {"uploading", "uploaded", "registered", "fetched"},
           run.bytes # Absent,
           run' = [run EXCEPT !.pc = p], UNCHANGED status
    PROVE  RunOK'
<1>1. run' \in FileRunType /\ run'.pc = p /\ run'.bytes = run.bytes
  BY FileRunStep DEF RunOK, FileRunType
<1> QED BY <1>1 DEF RunOK

LEMMA Takes ==
    ASSUME RunOK,
           NEW p \in {"uploading", "fetched"}, NEW b \in Copies \ {Absent},
           run' = [run EXCEPT !.pc = p, !.bytes = b], UNCHANGED status
    PROVE  RunOK'
<1>1. run' \in FileRunType /\ run'.pc = p /\ run'.bytes = b
  BY DEF RunOK, FileRunType
<1> QED BY <1>1 DEF RunOK

LEMMA NextType == TypeOK /\ [Next]_vars => TypeOK'
<1> SUFFICES ASSUME TypeOK, [Next]_vars PROVE RunOK' /\ StoreOK'
  BY TypeSplitNext
<1>0. RunOK /\ StoreOK BY TypeSplit
<1> USE <1>0, BoundAssumption
<1>1. CASE EditLocal
  BY <1>1 DEF EditLocal, RunOK, StoreOK, Copies, tables
<1>2. CASE EditRemote
  <2>1. RunOK' BY <1>2 DEF EditRemote, RunOK
  <2>2. byOperator' \in BOOLEAN BY <1>2 DEF EditRemote
  <2>3. onMachine' \subseteq Contents \cup {Cut} /\ remote' \in Copies
    BY <1>2 DEF EditRemote, StoreOK, Copies
  <2> QED BY <1>2, <2>1, <2>2, <2>3 DEF EditRemote, StoreOK, tables
<1>3. CASE SwitchDirection
  BY <1>3 DEF SwitchDirection, RunOK, StoreOK, copies, tables
<1>4. CASE StartRun
  <2> DEFINE b == direction = "upload" /\ remote # Absent
  <2>1. run' = [pc |-> "item", bytes |-> Absent, listed |-> b]
    BY <1>4 DEF StartRun
  <2>2. b \in BOOLEAN OBVIOUS
  <2>3. run' \in FileRunType /\ run'.pc = "item" /\ run'.bytes = Absent
    <3> HIDE DEF b
    <3> QED BY <2>1, <2>2 DEF FileRunType, Copies
  <2>4. RunOK' BY <1>4, <2>3 DEF StartRun, RunOK
  <2>5. StoreOK' BY <1>4 DEF StartRun, StoreOK, tables, counts
  <2> QED BY <2>4, <2>5
<1>5. CASE Fail({"item", "uploading", "uploaded", "registered"})
  <2>1. RunOK' BY <1>5, Ended DEF Fail
  <2>2. StoreOK' BY <1>5 DEF Fail, Fault, StoreOK, copies, tables
  <2> QED BY <2>1, <2>2
<1>6. CASE Crash
  <2>1. RunOK' BY <1>6, NoRunType DEF Crash, RunOK
  <2>2. StoreOK' BY <1>6 DEF Crash, Fault, StoreOK, copies, tables
  <2> QED BY <2>1, <2>2
<1>7. CASE TakeUpload
  <2>1. StoreOK' BY <1>7 DEF TakeUpload, StoreOK, copies, tables, counts
  <2>2. CASE LocalGone \/ Conflicts \/ recorded = local
    <3>1. \E s \in {"failed", "conflict", "skipped"} : End(s)
      BY <1>7, <2>2 DEF TakeUpload
    <3> QED BY <2>1, <3>1, Ended
  <2>3. CASE ~(LocalGone \/ Conflicts \/ recorded = local)
    <3>1. run' = [run EXCEPT !.pc = "uploading", !.bytes = local] /\ UNCHANGED status
      BY <1>7, <2>3 DEF TakeUpload
    <3>2. local \in Copies \ {Absent}
      BY <2>3 DEF LocalGone, StoreOK
    <3> QED BY <2>1, <3>1, <3>2, Takes
  <2> QED BY <2>2, <2>3
<1>8. CASE Upload
  <2>1. run.bytes \in Contents \cup {Cut}
    BY <1>8 DEF Upload, RunOK, FileRunType, Copies
  <2>2. RunOK'
    BY <1>8, <2>1, FileGoesOn, ContentAssumption DEF Upload
  <2>3. StoreOK'
    BY <1>8, <2>1 DEF Upload, PutRemote, StoreOK, Copies, tables, counts
  <2> QED BY <2>2, <2>3
<1>9. CASE UploadFails
  <2>1. run.bytes \in Contents \cup {Cut}
    BY <1>9 DEF UploadFails, RunOK, FileRunType, Copies
  <2>2. RunOK' BY <1>9, Ended DEF UploadFails
  <2>3. faults' \in 0..MaxFaults BY <1>9 DEF UploadFails, Fault, StoreOK
  <2>4. remote' \in Copies /\ onMachine' \subseteq Contents \cup {Cut}
        /\ byOperator' \in BOOLEAN
    BY <1>9, <2>1 DEF UploadFails, PutRemote, StoreOK, Copies
  <2>5. StoreOK' BY <1>9, <2>3, <2>4 DEF UploadFails, StoreOK, tables
  <2> QED BY <2>2, <2>5
<1>10. CASE Register
  <2>1. run.bytes \in Copies \ {Absent}
    BY <1>10 DEF Register, RunOK, FileRunType, Copies
  <2>2. RunOK' BY <1>10, <2>1, FileGoesOn DEF Register
  <2>3. Decoded[run.bytes] \in Texts
    BY <2>1, DecodedAssumption DEF Copies
  <2>4. StoreOK' BY <1>10, <2>3 DEF Register, StoreOK, copies, counts
  <2> QED BY <2>2, <2>4
<1>11. CASE RecordUpload
  <2>1. RunOK' BY <1>11, Ended DEF RecordUpload
  <2>2. StoreOK'
    BY <1>11 DEF RecordUpload, RunOK, FileRunType, StoreOK, copies, counts
  <2> QED BY <2>1, <2>2
<1>12. CASE Fetch
  <2>1. StoreOK' BY <1>12 DEF Fetch, StoreOK, copies, tables, counts
  <2>2. CASE remote = Absent
    BY <1>12, <2>1, <2>2, Ended DEF Fetch
  <2>3. CASE remote # Absent
    <3>1. remote \in Copies \ {Absent} BY <2>3 DEF StoreOK
    <3> QED BY <1>12, <2>1, <2>3, <3>1, Takes DEF Fetch
  <2> QED BY <2>2, <2>3
<1>13. CASE Store
  <2>1. \E s \in {"skipped", "conflict", "downloaded", "failed"} : End(s)
    BY <1>13 DEF Store
  <2>2. RunOK' BY <2>1, Ended
  <2>3. run.bytes \in Copies BY DEF RunOK, FileRunType
  <2>4. local' \in Copies /\ recorded' \in Copies /\ faults' \in 0..MaxFaults
    BY <1>13, <2>3 DEF Store, Fault, StoreOK
  <2>5. StoreOK' BY <1>13, <2>4 DEF Store, StoreOK
  <2> QED BY <2>2, <2>5
<1>14. CASE UNCHANGED vars
  BY <1>14 DEF vars, RunOK, StoreOK
<1> QED
  BY <1>1, <1>2, <1>3, <1>4, <1>5, <1>6, <1>7, <1>8, <1>9, <1>10, <1>11,
     <1>12, <1>13, <1>14 DEF Next

(* Every copy, table and run of one file keeps its type, for any contents and *)
(* any number of edits, switches and faults.                                  *)
THEOREM FileTyping == Spec => []TypeOK
<1>1. Init => TypeOK BY InitType
<1>2. TypeOK /\ [Next]_vars => TypeOK' BY NextType
<1> QED BY <1>1, <1>2, PTL DEF Spec

-----------------------------------------------------------------------------
(* Records are real *)

\* What a run holds once it has transferred it, and what is on the machine,
\* has been on the machine.
SeenInv ==
    /\ RecordsAreReal
    /\ remote \in onMachine \cup {Absent}
    /\ run.pc \in {"uploaded", "registered", "fetched"} => run.bytes \in onMachine

LEMMA SeenInit == Init => SeenInv
  BY DEF Init, SeenInv, RecordsAreReal, NoRun

\* A step that ends or leaves alone the run and forgets no content.
LEMMA SeenKept ==
    ASSUME SeenInv, onMachine \subseteq onMachine', UNCHANGED tables,
           remote' \in onMachine' \cup {Absent},
           \/ UNCHANGED run
           \/ run'.pc \in {"none", "item", "uploading"}
    PROVE  SeenInv'
  BY DEF SeenInv, RecordsAreReal, tables

LEMMA SeenNext == TypeOK /\ SeenInv /\ [Next]_vars => SeenInv'
<1> SUFFICES ASSUME TypeOK, SeenInv, [Next]_vars PROVE SeenInv'
  OBVIOUS
<1>0. run \in FileRunType BY DEF TypeOK, FileRunType
<1> USE NoRunType
<1>1. CASE EditLocal
  BY <1>1, SeenKept DEF EditLocal, SeenInv
<1>2. CASE EditRemote
  BY <1>2, SeenKept DEF EditRemote
<1>3. CASE SwitchDirection
  BY <1>3, SeenKept DEF SwitchDirection, SeenInv, copies
<1>4. CASE StartRun
  BY <1>4, SeenKept DEF StartRun, SeenInv
<1>5. CASE Fail({"item", "uploading", "uploaded", "registered"}) \/ Crash
  BY <1>5, SeenKept DEF Fail, Crash, End, SeenInv, copies
<1>7. CASE TakeUpload
  <2>1. run' \in {NoRun, [run EXCEPT !.pc = "uploading", !.bytes = local]}
    BY <1>7 DEF TakeUpload, End
  <2>2. [run EXCEPT !.pc = "uploading", !.bytes = local].pc = "uploading"
    BY <1>0 DEF FileRunType
  <2>3. run'.pc \in {"none", "uploading"} BY <2>1, <2>2
  <2> QED BY <1>7, <2>3, SeenKept DEF TakeUpload, SeenInv, copies
<1>8. CASE Upload
  <2>1. run'.bytes = run.bytes BY <1>0, <1>8, FileRunStep DEF Upload, FileRunType
  <2> QED BY <1>8, <2>1 DEF Upload, PutRemote, SeenInv, RecordsAreReal, tables
<1>9. CASE UploadFails
  BY <1>9, SeenKept DEF UploadFails, PutRemote, End, SeenInv
<1>10. CASE Register
  <2>1. run'.bytes = run.bytes BY <1>0, <1>10, FileRunStep DEF Register, FileRunType
  <2> QED BY <1>10, <2>1 DEF Register, SeenInv, RecordsAreReal, copies
<1>11. CASE RecordUpload
  BY <1>11 DEF RecordUpload, End, SeenInv, RecordsAreReal, copies
<1>12. CASE Fetch
  <2>1. CASE remote = Absent
    BY <1>12, <2>1, SeenKept DEF Fetch, End, SeenInv, copies
  <2>2. CASE remote # Absent
    <3>1. run' = [run EXCEPT !.pc = "fetched", !.bytes = remote]
      BY <1>12, <2>2 DEF Fetch
    <3>2. run'.bytes = remote BY <1>0, <3>1 DEF FileRunType
    <3> QED BY <1>12, <2>2, <3>2 DEF Fetch, SeenInv, RecordsAreReal, copies, tables
  <2> QED BY <2>1, <2>2
<1>13. CASE Store
  <2>1. run' = NoRun BY <1>13 DEF Store, End
  <2>2. recorded' \in {recorded, run.bytes} BY <1>13 DEF Store
  <2> QED BY <1>13, <2>1, <2>2 DEF Store, SeenInv, RecordsAreReal
<1>14. CASE UNCHANGED vars
  BY <1>14, SeenKept DEF vars, tables, SeenInv
<1> QED
  BY <1>1, <1>2, <1>3, <1>4, <1>5, <1>7, <1>8, <1>9, <1>10, <1>11,
     <1>12, <1>13, <1>14 DEF Next

(* A hash is recorded and a program registered only for content the machine   *)
(* had (ftp_sync_service.py, _process_item), through any sequence of edits,   *)
(* failures, crashes and changes of direction.                                *)
THEOREM RecordsAreRealHolds == Spec => []RecordsAreReal
<1>1. Init => TypeOK /\ SeenInv BY InitType, SeenInit
<1>2. TypeOK /\ SeenInv /\ [Next]_vars => (TypeOK /\ SeenInv)'
  BY NextType, SeenNext
<1>3. SeenInv => RecordsAreReal BY DEF SeenInv
<1> QED BY <1>1, <1>2, <1>3, PTL DEF Spec

-----------------------------------------------------------------------------
(* Local work is kept *)

LEMMA LocalStep ==
    TypeOK /\ SeenInv /\ [Next]_vars
      => (run.pc = "fetched" /\ local' # local /\ run'.pc = "none"
            => local \in onMachine \cup {Absent})
<1> SUFFICES ASSUME TypeOK, SeenInv, [Next]_vars,
                    run.pc = "fetched", local' # local, run'.pc = "none"
             PROVE  local \in onMachine \cup {Absent}
  OBVIOUS
<1>1. Store
  <2>1. ~EditLocal BY DEF EditLocal
  <2> QED
    BY <2>1 DEF Next, vars, EditRemote, SwitchDirection, StartRun, Fail, Crash,
       TakeUpload, Upload, UploadFails, Register, RecordUpload, Fetch, copies
<1>2. ~LocalModified BY <1>1 DEF Store
<1> QED BY <1>2 DEF LocalModified, SeenInv, RecordsAreReal

(* A download never replaces a local copy the machine has not had             *)
(* (ftp_sync_service.py, _process_item_download), whatever was edited,        *)
(* committed or lost before.                                                  *)
THEOREM LocalWorkKeptHolds == Spec => LocalWorkKept
<1>1. Init => TypeOK /\ SeenInv BY InitType, SeenInit
<1>2. TypeOK /\ SeenInv /\ [Next]_vars => (TypeOK /\ SeenInv)'
  BY NextType, SeenNext
<1>3. TypeOK /\ SeenInv /\ [Next]_vars
        => [run.pc = "fetched" /\ local' # local /\ run'.pc = "none"
              => local \in onMachine \cup {Absent}]_vars
  BY LocalStep
<1> QED BY <1>1, <1>2, <1>3, PTL DEF Spec, LocalWorkKept

-----------------------------------------------------------------------------
(* Both together                                                             *)

LEMMA PartsImplemented == SyncSpec => Spec /\ RunsSpec
<1>1. SyncInit => Init /\ RunsInit BY DEF SyncInit
<1>2. [SyncNext]_<<vars, runsVars, part>> => [Next]_vars /\ [RunsNext]_runsVars
  BY DEF SyncNext
<1> QED BY <1>1, <1>2, PTL DEF SyncSpec, Spec, RunsSpec

(* The service as it is checked, runs and files: it has one synchronisation   *)
(* per machine at work, knows its runs, records only files that were          *)
(* transferred, and keeps what was edited locally.                            *)
THEOREM ServiceHolds ==
    SyncSpec => /\ [](OneSyncPerMachine /\ RunsTracked /\ RecordsAreReal)
                /\ LocalWorkKept
  BY PartsImplemented, OneSyncHolds, RunsTrackedHolds, RecordsAreRealHolds,
     LocalWorkKeptHolds, PTL
=============================================================================
