--------------------------- MODULE ToolBatchProofs ---------------------------
(***************************************************************************)
(* Theorems about ToolBatch, for every magazine, every set of tools and    *)
(* batches of any size.                                                    *)
(***************************************************************************)
EXTENDS ToolBatch, DataLemmas

USE PotsAssumption, ValuesAssumption, BoundAssumption, NoneAssumption

Stages == {"idle", "validating", "connected", "clearing", "applying",
           "done", "refused", "aborted"}
Nexts == {"read", "clear", "write", "verify"}

-----------------------------------------------------------------------------
(* Changes *)

LEMMA ChangeType ==
    ASSUME NEW c \in Changes
    PROVE  /\ c.op \in {"delete", "assignment", "cap", "spindle", "color"}
           /\ c.pot \in Nat
           /\ c.op \in {"delete", "assignment", "cap"} => c.pot \in Pots
           /\ c.op = "assignment" => c.tool \in Tools
           /\ c # None
  BY DEF Changes, Change

LEMMA ValueType ==
    ASSUME NEW c \in Changes, c.op \in {"assignment", "cap"}
    PROVE  Value(c) \in Slots /\ Value(c) # Empty
  BY ChangeType DEF Value, Slots

LEMMA RankType == \A c \in Changes : Rank(c.op) \in Nat
  BY ChangeType DEF Rank

\* The next change is one of the waiting ones, with the lowest rank.
LEMMA FirstIn ==
    ASSUME NEW S \in SUBSET Changes, S # {}
    PROVE  First(S) \in S /\ \A d \in S : Rank(First(S).op) <= Rank(d.op)
<1> DEFINE R == {Rank(c.op) : c \in S}
<1>1. R \in SUBSET Nat /\ R # {} BY RankType
<1>2. PICK r \in R : \A q \in R : r <= q
  <2> HIDE DEF R
  <2> QED BY <1>1, LeastNat
<1> DEFINE P == {c.pot : c \in {d \in S : Rank(d.op) = r}}
<1>3. P \in SUBSET Nat /\ P # {} BY ChangeType
<1>4. PICK n \in P : \A m \in P : n <= m
  <2> HIDE DEF P
  <2> QED BY <1>3, LeastNat
<1>5. PICK c \in S : Rank(c.op) = r /\ c.pot = n OBVIOUS
<1>6. \A d \in S : \/ Rank(c.op) < Rank(d.op)
                   \/ Rank(c.op) = Rank(d.op) /\ c.pot <= d.pot
  <2> TAKE d \in S
  <2>1. Rank(d.op) \in Nat /\ r \in Nat /\ r <= Rank(d.op)
    BY <1>1, <1>2, RankType
  <2>2. CASE r < Rank(d.op) BY <2>2, <1>5
  <2>3. CASE r = Rank(d.op)
    <3>1. d.pot \in P BY <2>3
    <3> QED BY <3>1, <1>4, <1>5, <2>3
  <2> QED BY <2>1, <2>2, <2>3
<1> DEFINE Least(x) == \A d \in S :
              \/ Rank(x.op) < Rank(d.op)
              \/ Rank(x.op) = Rank(d.op) /\ x.pot <= d.pot
<1>7. First(S) \in S /\ Least(First(S))
  <2>1. First(S) = CHOOSE x \in S : Least(x) BY DEF First
  <2>2. c \in S /\ Least(c) BY <1>5, <1>6
  <2> HIDE DEF Least
  <2> QED BY <2>1, <2>2
<1>8. \A d \in S : Rank(First(S).op) \in Nat /\ Rank(d.op) \in Nat
  BY <1>7, RankType
<1> QED BY <1>7, <1>8

\* The next pot to clear is one of those to be cleared.
LEMMA LeastPot ==
    ASSUME NEW S \in SUBSET Pots, S # {}
    PROVE  (CHOOSE p \in S : \A q \in S : p <= q) \in S
<1>1. \E p \in S : \A q \in S : p <= q BY LeastNat
<1> QED BY <1>1

-----------------------------------------------------------------------------
(* The inductive invariant, in parts *)

Magazines ==
    /\ magazine \in [Pots -> Slots] /\ before \in [Pots -> Slots]
    /\ \A p, q \in Pots : magazine[p] = magazine[q] /\ magazine[p] \in Tools => p = q

Stage ==
    /\ mode \in {"free", "editing", "running"}
    /\ pc \in Stages
    /\ seen \in [Pots -> Slots] \cup {None}
    /\ toClear \subseteq Pots
    /\ faults \in 0..MaxUpsets /\ meddling \in 0..MaxUpsets

\* Each command belongs to a change that consists of it.
StepOK ==
    \/ step = NoStep
    \/ /\ step \in [change : batch, next : Nexts]
       /\ step.next = "read" => step.change.op \in {"assignment", "cap"}
       /\ step.next = "clear" => step.change.op \in {"delete", "assignment", "cap"}
       /\ step.next = "write" => step.change.op # "delete"
       /\ step.next = "verify" => step.change.op \in {"delete", "assignment"}

\* Every change is waiting, under way, done or failed, and only one of these.
Account ==
    /\ batch \subseteq Changes /\ left \subseteq batch
    /\ results \in [ok : SUBSET batch, failed : SUBSET batch]
    /\ results.ok \cap results.failed = {}
    /\ left \cap (results.ok \cup results.failed) = {}
    /\ pc \in {"applying", "done"} =>
         {step.change} \ {None}
           = batch \ (left \cup results.ok \cup results.failed)
    /\ pc \notin {"applying", "done"} =>
         step = NoStep /\ results = [ok |-> {}, failed |-> {}]
    /\ pc = "idle" => left = {}
    /\ pc \in {"connected", "clearing"} => left = batch

\* What is cleared beforehand is named by the batch or held one of its tools.
Clears ==
    /\ \A p \in toClear : p \in PotsOf(batch) \/ Targets(batch, seen[p]) # {}
    /\ pc \in {"idle", "validating", "connected"} => toClear = {}

BatchInv == Magazines /\ Stage /\ StepOK /\ Account /\ Clears

LEMMA InvType == BatchInv => TypeOK
<1> SUFFICES ASSUME BatchInv PROVE TypeOK
  OBVIOUS
<1>1. step = NoStep \/ step \in [change : batch, next : Nexts]
  BY DEF BatchInv, StepOK
<1> QED
  BY <1>1 DEF BatchInv, Magazines, Stage, Account, TypeOK, Stages, Nexts

LEMMA InitInv == Init => BatchInv
<1> SUFFICES ASSUME Init PROVE BatchInv
  OBVIOUS
<1>1. Magazines BY DEF Init, Magazines
<1>2. Stage BY DEF Init, Stage, Stages
<1>3. StepOK BY DEF Init, StepOK
<1>4. Account BY DEF Init, Account
<1>5. Clears BY DEF Init, Clears
<1> QED BY <1>1, <1>2, <1>3, <1>4, <1>5 DEF BatchInv

-----------------------------------------------------------------------------
(* The magazine *)

LEMMA ClearKeeps ==
    ASSUME Magazines, NEW pot, Clear(pot), UNCHANGED before
    PROVE  Magazines'
<1>1. magazine' \in [Pots -> Slots] BY DEF Magazines, Clear, Slots
<1>2. \A p \in Pots : magazine'[p] \in {magazine[p], Empty}
  BY DEF Magazines, Clear
<1> QED BY <1>1, <1>2 DEF Magazines

LEMMA AssignKeeps ==
    ASSUME Magazines, NEW pot, NEW value \in Slots,
           Accepts(pot, value), Assign(pot, value), UNCHANGED before
    PROVE  Magazines'
<1>1. magazine' \in [Pots -> Slots] BY DEF Magazines, Assign
<1>2. \A p \in Pots : magazine'[p] = IF p = pot THEN value ELSE magazine[p]
  BY DEF Magazines, Assign
<1>3. value \in Tools => \A p \in Pots \ {pot} : magazine[p] # value
  BY DEF Accepts
<1> QED BY <1>1, <1>2, <1>3 DEF Magazines

LEMMA OperatorKeeps == Magazines /\ Operator => Magazines'
<1> SUFFICES ASSUME Magazines, Operator PROVE Magazines'
  OBVIOUS
<1>1. PICK p \in Pots, v \in Slots :
        /\ v \in Tools => \A q \in Pots : magazine[q] # v
        /\ magazine' = [magazine EXCEPT ![p] = v]
  BY DEF Operator
<1>2. \A q \in Pots : magazine'[q] = IF q = p THEN v ELSE magazine[q]
  BY <1>1 DEF Magazines
<1> QED BY <1>1, <1>2 DEF Magazines, Operator

\* Only three commands and the operator touch the magazine.
LEMMA MagazinesNext == BatchInv /\ [Next]_vars => Magazines'
<1> SUFFICES ASSUME BatchInv, [Next]_vars PROVE Magazines'
  OBVIOUS
<1>0. Magazines /\ Stage /\ StepOK /\ Account BY DEF BatchInv
<1>1. CASE Operator BY <1>0, <1>1, OperatorKeeps
<1>2. CASE Submit
  BY <1>0, <1>2 DEF Submit, Magazines
<1>3. CASE PreClear
  <2> DEFINE pot == CHOOSE p \in toClear : \A q \in toClear : p <= q
  <2>1. Clear(pot) \/ UNCHANGED magazine BY <1>3 DEF PreClear
  <2>2. UNCHANGED before BY <1>3 DEF PreClear
  <2> HIDE DEF pot
  <2> QED BY <1>0, <2>1, <2>2, ClearKeeps DEF Magazines
<1>4. CASE CommandFails
  <2> DEFINE c == step.change
  <2>1. \/ UNCHANGED magazine
        \/ Clear(c.pot)
        \/ /\ c.op \in {"assignment", "cap"}
           /\ Accepts(c.pot, Value(c)) /\ Assign(c.pot, Value(c))
    BY <1>4 DEF CommandFails
  <2>2. UNCHANGED before BY <1>4 DEF CommandFails, batchVars
  <2>3. c \in Changes BY <1>0, <1>4 DEF CommandFails, StepOK, Account
  <2> HIDE DEF c
  <2> QED BY <1>0, <2>1, <2>2, <2>3, ClearKeeps, AssignKeeps, ValueType
          DEF Magazines
<1>5. CASE ClearPot
  BY <1>0, <1>5, ClearKeeps DEF ClearPot, batchVars
<1>6. CASE Write
  <2> DEFINE c == step.change
  <2>1. \/ UNCHANGED magazine
        \/ /\ c.op \notin {"spindle", "color"}
           /\ Accepts(c.pot, Value(c)) /\ Assign(c.pot, Value(c))
    BY <1>6 DEF Write
  <2>2. UNCHANGED before BY <1>6 DEF Write, batchVars
  <2>3. c \in Changes /\ c.op # "delete"
    BY <1>0, <1>6 DEF Write, Command, StepOK, Account
  <2> HIDE DEF c
  <2> QED BY <1>0, <2>1, <2>2, <2>3, ChangeType, AssignKeeps, ValueType
          DEF Magazines
<1>7. CASE Validate \/ ReadMagazine \/ TakeChange \/ ReadPot \/ Verify \/ UNCHANGED vars
  <2>1. UNCHANGED <<magazine, before>>
    BY <1>7 DEF Validate, ReadMagazine, TakeChange, ReadPot, Verify, vars, batchVars
  <2> QED BY <1>0, <2>1 DEF Magazines
<1> QED BY <1>1, <1>2, <1>3, <1>4, <1>5, <1>6, <1>7 DEF Next

-----------------------------------------------------------------------------
(* The stages, the current change and the accounts *)

LEMMA StageNext == BatchInv /\ [Next]_vars => Stage'
<1> SUFFICES ASSUME BatchInv, [Next]_vars PROVE Stage'
  OBVIOUS
<1>0. Magazines /\ Stage /\ StepOK /\ Account BY DEF BatchInv
<1>1. CASE Operator
  BY <1>0, <1>1 DEF Operator, Upset, Stage
<1>2. CASE Submit
  BY <1>0, <1>2 DEF Submit, Stage, Stages
<1>3. CASE Validate
  BY <1>0, <1>3 DEF Validate, Fault, NoFault, Upset, Stage, Stages
<1>4. CASE ReadMagazine
  <2>1. ToClear(batch, magazine) \subseteq Pots
    BY <1>0, ChangeType
       DEF ToClear, Occupied, Sources, PotsOf, Of, Account
  <2>2. seen' \in [Pots -> Slots] \cup {None} /\ toClear' \subseteq Pots
    BY <1>0, <1>4, <2>1 DEF ReadMagazine, Stage, Magazines
  <2>3. pc' \in Stages BY <1>4 DEF ReadMagazine, Stages
  <2>4. faults' \in 0..MaxUpsets
    BY <1>0, <1>4 DEF ReadMagazine, Fault, NoFault, Upset, Stage
  <2> QED BY <1>0, <1>4, <2>2, <2>3, <2>4 DEF ReadMagazine, Stage
<1>5. CASE PreClear
  <2>1. pc' \in Stages /\ toClear' \subseteq Pots
    BY <1>0, <1>5 DEF PreClear, Stage, Stages
  <2>2. faults' \in 0..MaxUpsets
    BY <1>0, <1>5 DEF PreClear, Fault, NoFault, Upset, Stage
  <2> QED BY <1>0, <1>5, <2>1, <2>2 DEF PreClear, Stage
<1>6. CASE TakeChange
  BY <1>0, <1>6 DEF TakeChange, Stage, Stages
<1>7. CASE CommandFails
  BY <1>0, <1>7 DEF CommandFails, Fault, Upset, batchVars, Stage
<1>8. CASE ReadPot
  <2>1. faults' \in 0..MaxUpsets
    BY <1>0, <1>8 DEF ReadPot, Fault, NoFault, Upset, Stage
  <2> QED BY <1>0, <1>8, <2>1 DEF ReadPot, batchVars, Stage
<1>9. CASE ClearPot \/ Write \/ Verify \/ UNCHANGED vars
  BY <1>0, <1>9 DEF ClearPot, Write, Verify, NoFault, batchVars, vars, Stage
<1> QED BY <1>1, <1>2, <1>3, <1>4, <1>5, <1>6, <1>7, <1>8, <1>9 DEF Next

\* A change goes on with its next command, or is done or failed.
LEMMA ThenStep ==
    ASSUME StepOK, step # NoStep, NEW next \in Nexts, Then(next), UNCHANGED batch,
           next = "clear" => step.change.op \in {"delete", "assignment", "cap"},
           next = "write" => step.change.op # "delete",
           next = "verify" => step.change.op \in {"delete", "assignment"},
           next # "read"
    PROVE  StepOK' /\ step'.change = step.change /\ step' # NoStep
<1>1. step' \in [change : batch, next : Nexts] /\ step'.next = next
      /\ step'.change = step.change
  BY DEF StepOK, Then
<1>2. step' # NoStep BY <1>1 DEF NoStep, Nexts
<1> QED BY <1>1, <1>2 DEF StepOK

\* What a command does to the accounts.
Moves ==
    \/ /\ step' # NoStep /\ step'.change = step.change
       /\ UNCHANGED results
    \/ \E kind \in {"ok", "failed"} : Result(kind)

LEMMA AccountMoves ==
    ASSUME StepOK, Account, step # NoStep, pc = "applying", Moves,
           UNCHANGED <<batch, pc, left>>
    PROVE  Account'
<1>1. step.change \in batch /\ step.change # None
  BY ChangeType DEF StepOK, Account
<1>2. {step.change} = batch \ (left \cup results.ok \cup results.failed)
  BY <1>1 DEF Account
<1>3. CASE step' # NoStep /\ step'.change = step.change /\ UNCHANGED results
  BY <1>3 DEF Account
<1>4. CASE Result("ok")
  <2>1. /\ results' \in [ok : SUBSET batch, failed : SUBSET batch]
        /\ results'.ok = results.ok \cup {step.change}
        /\ results'.failed = results.failed
    BY <1>1, <1>4 DEF Result, Account
  <2>2. {step'.change} \ {None} = {} BY <1>4 DEF Result, NoStep
  <2> QED BY <1>1, <1>2, <2>1, <2>2 DEF Account
<1>5. CASE Result("failed")
  <2>1. /\ results' \in [ok : SUBSET batch, failed : SUBSET batch]
        /\ results'.ok = results.ok
        /\ results'.failed = results.failed \cup {step.change}
    BY <1>1, <1>5 DEF Result, Account
  <2>2. {step'.change} \ {None} = {} BY <1>5 DEF Result, NoStep
  <2> QED BY <1>1, <1>2, <2>1, <2>2 DEF Account
<1> QED BY <1>3, <1>4, <1>5 DEF Moves

LEMMA ResultStep ==
    ASSUME NEW kind, Result(kind) PROVE StepOK'
  BY DEF Result, StepOK

\* The commands, together.
LEMMA CommandsNext ==
    ASSUME StepOK, Account, CommandFails \/ ReadPot \/ ClearPot \/ Write \/ Verify
    PROVE  StepOK' /\ Account'
<1>1. /\ pc = "applying" /\ step # NoStep
      /\ UNCHANGED <<batch, pc, left>>
  BY DEF CommandFails, ReadPot, ClearPot, Write, Verify, Command, batchVars
<1>2. SUFFICES StepOK' /\ Moves
  BY <1>1, AccountMoves
<1>3. ASSUME NEW kind \in {"ok", "failed"}, Result(kind) PROVE StepOK' /\ Moves
  BY <1>3, ResultStep DEF Moves
<1>4. ASSUME NEW next \in Nexts, Then(next),
             next = "clear" => step.change.op \in {"delete", "assignment", "cap"},
             next = "write" => step.change.op # "delete",
             next = "verify" => step.change.op \in {"delete", "assignment"},
             next # "read"
      PROVE  StepOK' /\ Moves
  <2>1. StepOK' /\ step'.change = step.change /\ step' # NoStep
    BY <1>1, <1>4, ThenStep
  <2> QED BY <1>4, <2>1 DEF Moves, Then
<1>5. CASE CommandFails BY <1>3, <1>5 DEF CommandFails
<1>6. CASE ReadPot
  <2>1. step.change.op \in {"assignment", "cap"}
    BY <1>1, <1>6 DEF ReadPot, Command, StepOK
  <2>2. Result("ok") \/ Then("clear") \/ Then("write")
    BY <1>6 DEF ReadPot
  <2> QED BY <1>3, <1>4, <2>1, <2>2 DEF Nexts
<1>7. CASE ClearPot
  <2>1. step.change.op \in {"delete", "assignment", "cap"}
    BY <1>1, <1>7 DEF ClearPot, Command, StepOK
  <2>2. CASE step.change.op = "delete"
    <3>1. Then("verify") BY <1>7, <2>2 DEF ClearPot
    <3> QED BY <1>4, <2>2, <3>1 DEF Nexts
  <2>3. CASE step.change.op # "delete"
    <3>1. Then("write") BY <1>7, <2>3 DEF ClearPot
    <3> QED BY <1>4, <2>3, <3>1 DEF Nexts
  <2> QED BY <2>2, <2>3
<1>8. CASE Write
  <2>1. step.change.op # "delete"
    BY <1>1, <1>8 DEF Write, Command, StepOK
  <2>2. step.change.op \in {"delete", "assignment", "cap", "spindle", "color"}
    BY <1>1, ChangeType DEF StepOK, Account
  <2>3. \/ Result("ok") \/ Result("failed")
        \/ step.change.op = "assignment" /\ Then("verify")
    BY <1>8, <2>1, <2>2 DEF Write
  <2> QED BY <1>3, <1>4, <2>3 DEF Nexts
<1>9. CASE Verify
  BY <1>3, <1>9 DEF Verify
<1> QED BY <1>5, <1>6, <1>7, <1>8, <1>9

LEMMA TakeChangeNext ==
    ASSUME StepOK, Account, TakeChange
    PROVE  StepOK' /\ Account'
<1>1. CASE left = {}
  <2>1. pc' = "done" /\ UNCHANGED <<left, step, batch, results>>
    BY <1>1 DEF TakeChange
  <2> QED BY <2>1 DEF TakeChange, StepOK, Account
<1>2. CASE left # {}
  <2> DEFINE c == First(left)
  <2>1. c \in left BY <1>2, FirstIn DEF Account
  <2>2. /\ left' = left \ {c}
        /\ step' = [change |-> c, next |-> FirstCommand(c.op)]
        /\ UNCHANGED <<pc, batch, results>>
    BY <1>2 DEF TakeChange
  <2> HIDE DEF c
  <2>3. c \in batch /\ c \in Changes BY <2>1 DEF Account
  <2>4. StepOK'
    BY <2>2, <2>3, ChangeType DEF StepOK, FirstCommand, Nexts
  <2>5. {step.change} \ {None} = {} BY DEF TakeChange, NoStep
  <2>6. Account'
    <3>1. step'.change = c /\ c # None BY <2>2, <2>3, ChangeType
    <3> QED BY <2>1, <2>2, <2>3, <2>5, <3>1 DEF TakeChange, Account
  <2> QED BY <2>4, <2>6
<1> QED BY <1>1, <1>2

LEMMA StepAccountNext == BatchInv /\ [Next]_vars => StepOK' /\ Account'
<1> SUFFICES ASSUME BatchInv, [Next]_vars PROVE StepOK' /\ Account'
  OBVIOUS
<1>0. StepOK /\ Account BY DEF BatchInv
<1>1. CASE Operator
  BY <1>0, <1>1 DEF Operator, StepOK, Account
<1>2. CASE Submit
  <2>1. step = NoStep /\ step' = step BY <1>0, <1>2 DEF Submit, Account
  <2>2. StepOK' BY <2>1 DEF StepOK, NoStep
  <2>3. batch' \subseteq Changes /\ pc' \in {"validating", "refused"}
    BY <1>2 DEF Submit
  <2>4. /\ results' = [ok |-> {}, failed |-> {}]
        /\ left' = {}
    BY <1>0, <1>2 DEF Submit, Account
  <2>5. Account' BY <2>1, <2>3, <2>4 DEF Account, NoStep
  <2> QED BY <2>2, <2>5
<1>3. CASE Validate
  <2>1. pc = "validating" /\ pc' \in {"refused", "connected"} /\ left' = batch
        /\ UNCHANGED <<batch, step, results>>
    BY <1>3 DEF Validate
  <2> QED BY <1>0, <2>1 DEF StepOK, Account
<1>4. CASE ReadMagazine \/ PreClear
  <2>1. /\ pc \in {"connected", "clearing"}
        /\ pc' \in {"clearing", "applying", "aborted"}
        /\ UNCHANGED <<batch, step, results, left>>
    BY <1>4 DEF ReadMagazine, PreClear
  <2>2. StepOK' BY <1>0, <2>1 DEF StepOK
  <2>3. step = NoStep /\ results = [ok |-> {}, failed |-> {}] /\ left = batch
    BY <1>0, <2>1 DEF Account
  <2>4. {step.change} \ {None} = {} BY <2>3 DEF NoStep
  <2>5. batch \ (left \cup results.ok \cup results.failed) = {} BY <2>3
  <2>6. Account' BY <1>0, <2>1, <2>3, <2>4, <2>5 DEF Account
  <2> QED BY <2>2, <2>6
<1>5. CASE TakeChange BY <1>0, <1>5, TakeChangeNext
<1>6. CASE CommandFails \/ ReadPot \/ ClearPot \/ Write \/ Verify
  BY <1>0, <1>6, CommandsNext
<1>7. CASE UNCHANGED vars
  BY <1>0, <1>7 DEF vars, StepOK, Account
<1> QED BY <1>1, <1>2, <1>3, <1>4, <1>5, <1>6, <1>7 DEF Next

-----------------------------------------------------------------------------
(* What is cleared *)

LEMMA ClearsNext == BatchInv /\ [Next]_vars => Clears'
<1> SUFFICES ASSUME BatchInv, [Next]_vars PROVE Clears'
  OBVIOUS
<1>0. Clears /\ Account /\ Stage BY DEF BatchInv
<1>1. CASE ReadMagazine
  <2>1. \A p \in ToClear(batch, magazine) :
          p \in PotsOf(batch) \/ Targets(batch, magazine[p]) # {}
    BY DEF ToClear, Occupied, Sources, PotsOf, Of
  <2>2. UNCHANGED batch BY <1>1 DEF ReadMagazine
  <2>3. \/ toClear' = toClear /\ seen' = seen
        \/ toClear' = ToClear(batch, magazine) /\ seen' = magazine
    BY <1>1 DEF ReadMagazine
  <2>4. pc' \in {"aborted", "applying", "clearing"} BY <1>1 DEF ReadMagazine
  <2> QED BY <1>0, <2>1, <2>2, <2>3, <2>4 DEF Clears, PotsOf, Targets
<1>2. CASE PreClear
  <2>1. /\ pc' \in {"aborted", "applying", "clearing"}
        /\ toClear' \subseteq toClear /\ UNCHANGED <<batch, seen>>
    BY <1>2 DEF PreClear
  <2> QED BY <1>0, <2>1 DEF Clears, PotsOf, Targets
<1>3. CASE Submit
  <2>1. toClear = {} BY <1>0, <1>3 DEF Submit, Clears
  <2> QED BY <1>3, <2>1 DEF Submit, Clears
<1>4. CASE Operator \/ Validate \/ TakeChange \/ CommandFails \/ ReadPot
           \/ ClearPot \/ Write \/ Verify \/ UNCHANGED vars
  <2>1. /\ UNCHANGED <<batch, seen, toClear>>
        /\ pc' \in {"idle", "validating", "connected"}
             => pc \in {"idle", "validating", "connected"}
    BY <1>4 DEF Operator, Validate, TakeChange, CommandFails, ReadPot, ClearPot,
       Write, Verify, batchVars, vars
  <2> QED BY <1>0, <2>1 DEF Clears, PotsOf, Targets
<1> QED BY <1>1, <1>2, <1>3, <1>4 DEF Next

LEMMA NextInv == BatchInv /\ [Next]_vars => BatchInv'
  BY MagazinesNext, StageNext, StepAccountNext, ClearsNext DEF BatchInv

(* No tool is ever in two pots, and each change of a batch is accounted for   *)
(* once, for batches of any size, any magazine and any number of failures.    *)
THEOREM Typing == Spec => []TypeOK
<1>1. Init => BatchInv BY InitInv
<1>2. BatchInv /\ [Next]_vars => BatchInv' BY NextInv
<1>3. BatchInv => TypeOK BY InvType
<1> QED BY <1>1, <1>2, <1>3, PTL DEF Spec

-----------------------------------------------------------------------------
(* Other pots *)

LEMMA OthersStep ==
    BatchInv /\ [Next]_vars
      => (UNCHANGED meddling => \A p \in Pots :
            magazine'[p] # magazine[p]
                => p \in PotsOf(batch) \/ Targets(batch, seen[p]) # {})
<1> SUFFICES ASSUME BatchInv, [Next]_vars, UNCHANGED meddling,
                    NEW p \in Pots, magazine'[p] # magazine[p]
             PROVE  p \in PotsOf(batch) \/ Targets(batch, seen[p]) # {}
  OBVIOUS
<1>0. Magazines /\ Stage /\ StepOK /\ Clears BY DEF BatchInv
<1>1. CASE PreClear
  <2> DEFINE pot == CHOOSE q \in toClear : \A r \in toClear : q <= r
  <2>1. toClear # {} /\ Clear(pot) BY <1>1 DEF PreClear
  <2>2. pot \in toClear BY <1>0, <2>1, LeastPot DEF Stage
  <2> HIDE DEF pot
  <2>3. p = pot BY <1>0, <2>1 DEF Clear, Magazines
  <2> QED BY <1>0, <2>2, <2>3 DEF Clears
<1>2. CASE CommandFails \/ ClearPot \/ Write
  <2>1. step # NoStep
    BY <1>2 DEF CommandFails, ClearPot, Write, Command
  <2>2. step.change \in batch BY <1>0, <2>1 DEF StepOK
  <2>3. \E v : magazine' = [magazine EXCEPT ![step.change.pot] = v]
    BY <1>2 DEF CommandFails, ClearPot, Write, Clear, Assign
  <2>4. p = step.change.pot BY <1>0, <2>3 DEF Magazines
  <2> QED BY <2>2, <2>4 DEF PotsOf
<1>3. CASE Operator
  BY <1>0, <1>3 DEF Operator, Stage
<1>4. CASE Submit \/ Validate \/ ReadMagazine \/ TakeChange \/ ReadPot \/ Verify
           \/ UNCHANGED vars
  BY <1>4 DEF Submit, Validate, ReadMagazine, TakeChange, ReadPot, Verify, vars
<1> QED BY <1>1, <1>2, <1>3, <1>4 DEF Next

(* A batch changes only pots it names and pots that held one of its tools     *)
(* when it read the magazine (tool_write_service.py), whatever fails, however *)
(* far it gets and whatever an operator does in between.                      *)
THEOREM OthersUntouchedHolds == Spec => OthersUntouched
<1>1. Init => BatchInv BY InitInv
<1>2. BatchInv /\ [Next]_vars => BatchInv' BY NextInv
<1>3. BatchInv /\ [Next]_vars
        => [UNCHANGED meddling => \A p \in Pots :
              magazine'[p] # magazine[p]
                  => p \in PotsOf(batch) \/ Targets(batch, seen[p]) # {}]_vars
  BY OthersStep
<1> QED BY <1>1, <1>2, <1>3, PTL DEF Spec, OthersUntouched

-----------------------------------------------------------------------------
(* The order of the changes *)

PotOps == {"delete", "assignment", "cap"}

\* The changes that put something into a pot.
Moving == Of(batch, "assignment") \cup Of(batch, "cap")

\* What is done or under way ranks no higher than what waits, and what is done
\* no higher than what is under way.
InOrder ==
    /\ pc \notin {"idle", "refused"} => OnePerPot(batch)
    /\ pc \in {"applying", "done"} =>
         \A c \in batch \ left, d \in left : Rank(c.op) <= Rank(d.op)
    /\ step # NoStep =>
         \A c \in results.ok \cup results.failed : Rank(c.op) <= Rank(step.change.op)
    /\ pc = "done" => left = {} /\ step = NoStep

LEMMA RanksOf ==
    /\ Rank("delete") = 0 /\ Rank("assignment") = 1 /\ Rank("cap") = 1
    /\ Rank("spindle") = 2 /\ Rank("color") = 4
  BY DEF Rank

LEMMA OrderNext == BatchInv /\ InOrder /\ [Next]_vars => InOrder'
<1> SUFFICES ASSUME BatchInv, InOrder, [Next]_vars PROVE InOrder'
  OBVIOUS
<1>0. StepOK /\ Account BY DEF BatchInv
<1>1. CASE Operator \/ UNCHANGED vars
  <2>1. UNCHANGED <<pc, batch, left, step, results>>
    BY <1>1 DEF Operator, vars
  <2> QED BY <2>1 DEF InOrder, OnePerPot, Of
<1>2. CASE Submit
  <2>1. pc' \in {"validating", "refused"} /\ (pc' = "validating" => OnePerPot(batch'))
    BY <1>2 DEF Submit
  <2>2. step' = NoStep BY <1>0, <1>2 DEF Submit, Account
  <2> QED BY <2>1, <2>2 DEF InOrder, OnePerPot, Of
<1>3. CASE Validate \/ ReadMagazine \/ PreClear
  <2>1. /\ pc \in {"validating", "connected", "clearing"}
        /\ pc' \in {"refused", "connected", "clearing", "applying", "aborted"}
        /\ UNCHANGED <<batch, step, results>>
        /\ pc' = "applying" => UNCHANGED left /\ pc \in {"connected", "clearing"}
    BY <1>3 DEF Validate, ReadMagazine, PreClear
  <2>2. step' = NoStep /\ (pc' = "applying" => left' = batch')
    BY <1>0, <2>1 DEF Account
  <2> QED BY <2>1, <2>2 DEF InOrder, OnePerPot, Of
<1>4. CASE TakeChange /\ left = {}
  <2>1. pc' = "done" /\ left' = {} /\ step' = NoStep /\ UNCHANGED <<batch, results>>
    BY <1>4 DEF TakeChange
  <2>2. OnePerPot(batch) BY <1>4 DEF TakeChange, InOrder
  <2> QED BY <2>1, <2>2 DEF InOrder, OnePerPot, Of
<1>5. CASE TakeChange /\ left # {}
  <2> DEFINE c == First(left)
  <2>1. c \in left /\ \A d \in left : Rank(c.op) <= Rank(d.op)
    BY <1>0, <1>5, FirstIn DEF Account
  <2>2. /\ left' = left \ {c} /\ step'.change = c
        /\ pc = "applying" /\ UNCHANGED <<pc, batch, results>>
    BY <1>5 DEF TakeChange
  <2> HIDE DEF c
  <2>3. \A x \in batch' \ left', d \in left' : Rank(x.op) <= Rank(d.op)
    BY <2>1, <2>2 DEF InOrder
  <2>4. \A x \in results.ok \cup results.failed : x \in batch \ left
    BY <1>0 DEF Account
  <2>5. \A x \in results'.ok \cup results'.failed : Rank(x.op) <= Rank(step'.change.op)
    BY <2>1, <2>2, <2>4 DEF InOrder
  <2> QED BY <2>2, <2>3, <2>5 DEF InOrder, OnePerPot, Of
<1>6. CASE CommandFails \/ ReadPot \/ ClearPot \/ Write \/ Verify
  <2>1. /\ pc = "applying" /\ step # NoStep
        /\ UNCHANGED <<batch, pc, left>>
    BY <1>6 DEF CommandFails, ReadPot, ClearPot, Write, Verify, Command, batchVars
  <2>2. step' = NoStep \/ (UNCHANGED results /\ step'.change = step.change)
    BY <1>0, <2>1, <1>6
       DEF CommandFails, ReadPot, ClearPot, Write, Verify, Then, Result, StepOK
  <2> QED BY <2>1, <2>2 DEF InOrder, OnePerPot, Of
<1> QED BY <1>1, <1>2, <1>3, <1>4, <1>5, <1>6 DEF Next

-----------------------------------------------------------------------------
(* What a command does to the magazine *)

\* The command of a change c clears its pot or assigns it.
Touches(c) ==
    \/ UNCHANGED magazine
    \/ /\ step.next = "clear" /\ c.op \in PotOps
       /\ c.pot \in Pots /\ Clear(c.pot)
    \/ /\ step.next = "write" /\ c.op \in {"assignment", "cap"}
       /\ c.pot \in Pots
       /\ Accepts(c.pot, Value(c)) /\ Assign(c.pot, Value(c))

Commands == CommandFails \/ ReadPot \/ ClearPot \/ Write \/ Verify

LEMMA CommandTouches ==
    ASSUME StepOK, Account, Commands
    PROVE  /\ pc = "applying" /\ step # NoStep
           /\ step.change \in batch /\ step.change \in Changes
           /\ UNCHANGED <<batch, pc, left, before, meddling, seen, toClear>>
           /\ Touches(step.change)
<1>1. /\ pc = "applying" /\ step # NoStep
      /\ UNCHANGED <<batch, pc, left, before, meddling, seen, toClear>>
  BY DEF Commands, CommandFails, ReadPot, ClearPot, Write, Verify, Command, batchVars
<1> DEFINE c == step.change
<1>2. /\ c \in batch /\ c \in Changes
      /\ c.op \in {"delete", "assignment", "cap", "spindle", "color"}
      /\ c.op \in PotOps => c.pot \in Pots
      /\ step.next = "clear" => c.op \in PotOps
      /\ step.next = "write" => c.op # "delete"
  BY <1>1, ChangeType DEF StepOK, Account, PotOps
<1>3. \/ UNCHANGED magazine
      \/ step.next = "clear" /\ Clear(c.pot)
      \/ /\ step.next = "write" /\ c.op \notin {"spindle", "color"}
         /\ Accepts(c.pot, Value(c)) /\ Assign(c.pot, Value(c))
  BY DEF Commands, CommandFails, ReadPot, ClearPot, Write, Verify, Command
<1> HIDE DEF c
<1>4. Touches(c) BY <1>2, <1>3 DEF Touches, PotOps
<1> QED BY <1>1, <1>2, <1>4 DEF c

\* A change that is done is out of reach of the one under way.
LEMMA DoneApart ==
    ASSUME StepOK, Account, InOrder, pc = "applying", step # NoStep,
           NEW d \in results.ok, step.change.op \in PotOps, d.pot = step.change.pot
    PROVE  d.op = "delete" /\ d.pot \in PotsOf(Moving)
<1> DEFINE c == step.change
<1>1. /\ c \in batch /\ d \in batch /\ c \in Changes /\ d \in Changes
  BY DEF StepOK, Account
<1>2. c # d
  <2>1. c # None BY <1>1, ChangeType
  <2>2. c \notin results.ok BY <1>1, <2>1 DEF Account
  <2> QED BY <2>2
<1>3. Rank(d.op) <= Rank(c.op) BY DEF InOrder
<1> HIDE DEF c
<1>4. c.op \in PotOps /\ d.pot = c.pot BY DEF c
<1>5. c.pot \in Pots /\ c.pot # 0 BY <1>1, <1>4, ChangeType DEF PotOps
<1>6. d.op \in PotOps
  BY <1>1, <1>4, <1>5, ChangeType DEF Changes, Change, PotOps
<1>7. CASE d.op \in {"assignment", "cap"}
  <2>1. c.op # "delete" BY <1>3, <1>7, RanksOf
  <2>2. c \in Moving /\ d \in Moving
    BY <1>1, <1>4, <1>7, <2>1 DEF Moving, Of, PotOps
  <2> QED BY <1>2, <1>4, <2>2 DEF InOrder, OnePerPot, Moving
<1>8. CASE d.op = "delete" /\ c.op = "delete"
  BY <1>1, <1>2, <1>4, <1>8 DEF Changes, Change
<1>9. CASE d.op = "delete" /\ c.op \in {"assignment", "cap"}
  <2>1. c \in Moving BY <1>1, <1>9 DEF Moving, Of
  <2> QED BY <1>4, <1>9, <2>1 DEF PotsOf
<1> QED BY <1>4, <1>6, <1>7, <1>8, <1>9 DEF PotOps

-----------------------------------------------------------------------------
(* What a batch alone with the magazine has applied *)

\* The magazine has what c asks for, unless a later change wants the pot.
Fulfilled(c) ==
    /\ c.op = "assignment" => magazine[c.pot] = c.tool
    /\ c.op = "cap" => magazine[c.pot] = Cap
    /\ c.op = "delete" /\ c.pot \notin PotsOf(Moving) => magazine[c.pot] = Empty

\* Pots no change puts something into keep their tool or are emptied, and they
\* are emptied only for a change or for the tool they held.
Elsewhere ==
    /\ \A p \in Pots \ PotsOf(Moving) : magazine[p] \in {before[p], Empty}
    /\ \A p \in Pots \ PotsOf(batch) :
          Targets(batch, before[p]) = {} => magazine[p] = before[p]

Applied ==
    Alone =>
      /\ pc \in {"validating", "connected"} => magazine = before
      /\ pc = "clearing" /\ toClear # {} => seen = before
      /\ pc \in {"clearing", "applying", "done"} => Elsewhere
      /\ step # NoStep /\ step.next = "verify" =>
            magazine[step.change.pot]
              = IF step.change.op = "delete" THEN Empty ELSE step.change.tool
      /\ \A c \in results.ok : Fulfilled(c)

\* Clearing or filling the pot of a change does nothing elsewhere.
LEMMA TouchesElsewhere ==
    ASSUME Magazines, Elsewhere, NEW c \in batch, Touches(c),
           UNCHANGED <<batch, before>>
    PROVE  Elsewhere'
<1>0. magazine \in [Pots -> Slots] BY DEF Magazines
<1>1. c.pot \in PotsOf(batch) BY DEF PotsOf
<1>2. c.op \in {"assignment", "cap"} => c.pot \in PotsOf(Moving)
  BY DEF PotsOf, Moving, Of
<1>3. \A p \in Pots \ PotsOf(Moving) : magazine'[p] \in {magazine[p], Empty}
  BY <1>0, <1>2 DEF Touches, Clear, Assign
<1>4. \A p \in Pots \ PotsOf(batch) : magazine'[p] = magazine[p]
  BY <1>0, <1>1 DEF Touches, Clear, Assign
<1>5. Moving' = Moving BY DEF Moving, Of
<1>6. \A p \in Pots \ PotsOf(Moving) : magazine'[p] \in {before[p], Empty}
  BY <1>3 DEF Elsewhere
<1>7. \A p \in Pots \ PotsOf(batch) :
        Targets(batch, before[p]) = {} => magazine'[p] = before[p]
  BY <1>4 DEF Elsewhere
<1> QED BY <1>5, <1>6, <1>7 DEF Elsewhere, PotsOf, Targets

\* What is done stays done.
LEMMA FulfilledStays ==
    ASSUME Magazines, StepOK, Account, InOrder, Commands,
           NEW d \in results.ok, Fulfilled(d)
    PROVE  Fulfilled(d)'
<1> DEFINE c == step.change
<1>1. /\ pc = "applying" /\ step # NoStep /\ UNCHANGED batch /\ Touches(c)
  BY CommandTouches
<1>2. Moving' = Moving BY <1>1 DEF Moving, Of
<1>3. CASE c.op \in PotOps /\ d.pot = c.pot
  <2>1. d.op = "delete" /\ d.pot \in PotsOf(Moving) BY <1>1, <1>3, DoneApart
  <2> QED BY <1>2, <2>1 DEF Fulfilled, PotsOf
<1>4. CASE ~(c.op \in PotOps /\ d.pot = c.pot)
  <2>1. magazine'[d.pot] = magazine[d.pot] \/ d.pot \notin Pots
    BY <1>1, <1>4 DEF Touches, Clear, Assign, PotOps, Magazines
  <2>2. d \in Changes BY DEF Account
  <2>3. d.op \in PotOps => d.pot \in Pots BY <2>2, ChangeType DEF PotOps
  <2> QED BY <1>2, <2>1, <2>3 DEF Fulfilled, PotsOf, PotOps
<1> QED BY <1>3, <1>4

\* A change that succeeds has been applied.
LEMMA SuccessFulfils ==
    ASSUME Magazines, StepOK, Account, Applied, Alone, Commands, Result("ok"),
           NEW c, c = step.change
    PROVE  Fulfilled(c)'
<1>1. /\ step # NoStep /\ UNCHANGED batch /\ c \in batch /\ c \in Changes
      /\ Touches(c)
  BY CommandTouches
<1>2. step'= NoStep /\ results'.ok # results.ok
  <2>1. step' = NoStep /\ results'.ok = results.ok \cup {c}
    BY <1>1 DEF Result, Account
  <2>2. c # None BY <1>1, ChangeType
  <2>3. c \notin results.ok BY <1>1, <2>2, CommandTouches DEF Account
  <2> QED BY <2>1, <2>3
<1>3. results' # [results EXCEPT !["failed"] = results["failed"] \cup {c}]
  BY <1>2 DEF Account
<1>4. CASE CommandFails
  BY <1>3, <1>4 DEF CommandFails, Result
<1>5. CASE ReadPot
  <2>1. c.op = "cap" /\ magazine[c.pot] = Cap /\ UNCHANGED magazine
    BY <1>1, <1>2, <1>5 DEF ReadPot, Then
  <2> QED BY <2>1 DEF Fulfilled
<1>6. CASE ClearPot
  BY <1>2, <1>6 DEF ClearPot, Then
<1>7. CASE Write
  <2>1. CASE c.op \in {"spindle", "color"} BY <2>1 DEF Fulfilled
  <2>2. CASE c.op \notin {"spindle", "color"}
    <3>1. Accepts(c.pot, Value(c))
      BY <1>3, <1>7, <2>2 DEF Write, Result
    <3>2. Assign(c.pot, Value(c)) /\ c.op = "cap"
      BY <1>2, <1>7, <2>2, <3>1 DEF Write, Then
    <3>3. c.pot \in Pots BY <1>1, <3>2, ChangeType
    <3>4. magazine'[c.pot] = Cap BY <3>2, <3>3 DEF Assign, Value, Magazines
    <3> QED BY <3>2, <3>4 DEF Fulfilled
  <2> QED BY <2>1, <2>2
<1>8. CASE Verify
  <2>1. UNCHANGED magazine /\ step.next = "verify" /\ c.op \in {"delete", "assignment"}
    BY <1>1, <1>8 DEF Verify, Command, StepOK
  <2>2. magazine[c.pot] = IF c.op = "delete" THEN Empty ELSE c.tool
    BY <1>1, <2>1 DEF Applied
  <2> QED BY <2>1, <2>2 DEF Fulfilled
<1> QED BY <1>4, <1>5, <1>6, <1>7, <1>8 DEF Commands

\* What is to be verified is what was just written.
LEMMA VerifyAfter ==
    ASSUME Magazines, StepOK, Account, Commands, step' # NoStep,
           NEW c, c = step.change
    PROVE  /\ step'.change = c
           /\ step'.next = "verify" =>
                magazine'[c.pot] = IF c.op = "delete" THEN Empty ELSE c.tool
<1>1. step # NoStep /\ c \in Changes BY CommandTouches
<1>2. \A kind : ~Result(kind) BY DEF Result
<1>3. CASE ReadPot
  <2>1. Then("clear") \/ Then("write") BY <1>2, <1>3 DEF ReadPot
  <2> QED BY <1>1, <2>1 DEF Then, StepOK
<1>4. CASE ClearPot
  <2>1. c.pot \in Pots
    BY <1>1, <1>4, ChangeType DEF ClearPot, Command, StepOK
  <2>2. magazine'[c.pot] = Empty BY <1>4, <2>1 DEF ClearPot, Clear, Magazines
  <2>3. step' = [step EXCEPT !.next =
                   IF c.op = "delete" THEN "verify" ELSE "write"]
    BY <1>4 DEF ClearPot, Then
  <2>4. step \in [change : batch, next : Nexts] BY <1>1 DEF StepOK
  <2> QED BY <2>2, <2>3, <2>4
<1>5. CASE Write
  <2>1. c.op \notin {"spindle", "color", "cap", "delete"}
    BY <1>1, <1>2, <1>5 DEF Write, Command, StepOK
  <2>2. c.op = "assignment" BY <1>1, <2>1, ChangeType
  <2>3. Assign(c.pot, c.tool) /\ Then("verify")
    BY <1>2, <1>5, <2>2 DEF Write, Value
  <2>4. c.pot \in Pots BY <1>1, <2>2, ChangeType
  <2>5. magazine'[c.pot] = c.tool BY <2>3, <2>4 DEF Assign, Magazines
  <2> QED BY <1>1, <2>2, <2>3, <2>5 DEF Then, StepOK
<1>6. CASE CommandFails \/ Verify
  BY <1>2, <1>6 DEF CommandFails, Verify
<1> QED BY <1>3, <1>4, <1>5, <1>6 DEF Commands

LEMMA AppliedNext == BatchInv /\ InOrder /\ Applied /\ [Next]_vars => Applied'
<1> SUFFICES ASSUME BatchInv, InOrder, Applied, [Next]_vars, Alone'
             PROVE  Applied'
  BY DEF Applied
<1>0. Magazines /\ Stage /\ StepOK /\ Account /\ Clears BY DEF BatchInv
<1>m. meddling \in Nat BY <1>0 DEF Stage
<1>1. CASE Operator BY <1>m, <1>1 DEF Operator, Alone
<1>2. CASE Submit
  <2>1. /\ pc' \in {"validating", "refused"} /\ before' = magazine'
        /\ step' = NoStep /\ results'.ok = {}
    BY <1>0, <1>2 DEF Submit, Account
  <2> QED BY <2>1 DEF Applied
<1>3. CASE Validate
  <2>1. /\ pc = "validating" /\ pc' \in {"connected", "refused"}
        /\ UNCHANGED <<magazine, before, step, results, meddling>>
    BY <1>3 DEF Validate
  <2>2. magazine = before /\ step = NoStep /\ results.ok = {}
    BY <1>0, <2>1 DEF Applied, Alone, Account
  <2> QED BY <2>1, <2>2 DEF Applied
<1>4. CASE ReadMagazine
  <2>1. /\ pc = "connected" /\ pc' \in {"aborted", "applying", "clearing"}
        /\ UNCHANGED <<magazine, before, batch, step, results, meddling>>
        /\ \/ seen' = magazine
           \/ UNCHANGED toClear
    BY <1>4 DEF ReadMagazine
  <2>2. /\ magazine = before /\ step = NoStep /\ results.ok = {} /\ toClear = {}
    BY <1>0, <2>1 DEF Applied, Alone, Account, Clears
  <2>3. Elsewhere' BY <2>1, <2>2 DEF Elsewhere
  <2> QED BY <2>1, <2>2, <2>3 DEF Applied
<1>5. CASE PreClear
  <2> DEFINE pot == CHOOSE p \in toClear : \A q \in toClear : p <= q
  <2>1. /\ pc = "clearing" /\ pc' \in {"aborted", "applying", "clearing"}
        /\ UNCHANGED <<batch, before, seen, step, results, meddling>>
        /\ toClear' \subseteq toClear
        /\ \/ UNCHANGED magazine
           \/ toClear # {} /\ Clear(pot)
    BY <1>5 DEF PreClear
  <2>2. /\ Elsewhere /\ step = NoStep /\ results.ok = {}
        /\ toClear # {} => seen = before
    BY <1>0, <2>1 DEF Applied, Alone, Account
  <2>3. CASE UNCHANGED magazine
    <3>1. Elsewhere'
      BY <2>1, <2>2, <2>3 DEF Elsewhere, PotsOf, Targets, Moving, Of
    <3> QED BY <2>1, <2>2, <3>1 DEF Applied
  <2>4. CASE toClear # {} /\ Clear(pot)
    <3>1. pot \in toClear /\ pot \in Pots
      BY <1>0, <2>4, LeastPot DEF Stage
    <3> HIDE DEF pot
    <3>2. \A p \in Pots : magazine'[p] = IF p = pot THEN Empty ELSE magazine[p]
      BY <1>0, <2>4 DEF Clear, Magazines
    <3>3. pot \in PotsOf(batch) \/ Targets(batch, before[pot]) # {}
      BY <1>0, <2>2, <3>1 DEF Clears
    <3>4. /\ \A p \in Pots \ PotsOf(Moving) : magazine'[p] \in {before[p], Empty}
          /\ \A p \in Pots \ PotsOf(batch) :
                Targets(batch, before[p]) = {} => magazine'[p] = before[p]
      BY <2>2, <3>2, <3>3 DEF Elsewhere
    <3>5. Elsewhere'
      BY <2>1, <3>4 DEF Elsewhere, PotsOf, Targets, Moving, Of
    <3> QED BY <2>1, <2>2, <3>5 DEF Applied
  <2> QED BY <2>1, <2>3, <2>4
<1>6. CASE TakeChange
  <2>1. /\ pc = "applying" /\ pc' \in {"applying", "done"}
        /\ UNCHANGED <<magazine, batch, before, results, meddling>>
        /\ step' = NoStep \/ \E x : step' = [change |-> x, next |-> FirstCommand(x.op)]
    BY <1>6 DEF TakeChange
  <2>2. ASSUME step' # NoStep PROVE step'.next # "verify"
    <3>1. First(left) \in Changes
      BY <1>0, <1>6, <2>2, FirstIn DEF TakeChange, Account
    <3>2. step'.next = FirstCommand(First(left).op)
      BY <1>6, <2>2 DEF TakeChange
    <3> QED BY <3>1, <3>2, ChangeType DEF FirstCommand
  <2>3. Elsewhere'
    BY <2>1 DEF Applied, Alone, Elsewhere, PotsOf, Targets, Moving, Of
  <2>4. \A c \in results'.ok : Fulfilled(c)'
    BY <2>1 DEF Applied, Alone, Fulfilled, PotsOf, Moving, Of
  <2> QED BY <2>1, <2>2, <2>3, <2>4 DEF Applied
<1>7. CASE Commands
  <2>1. /\ pc = "applying" /\ step # NoStep
        /\ step.change \in batch /\ step.change \in Changes
        /\ UNCHANGED <<batch, pc, left, before, meddling, seen, toClear>>
        /\ Touches(step.change)
    BY <1>0, <1>7, CommandTouches
  <2>2. Alone /\ Elsewhere /\ \A c \in results.ok : Fulfilled(c)
    BY <2>1 DEF Applied, Alone
  <2>3. Elsewhere' BY <1>0, <2>1, <2>2, TouchesElsewhere
  <2>4. \A c \in results.ok : Fulfilled(c)'
    BY <1>0, <1>7, <2>2, FulfilledStays
  <2>5. \A c \in results'.ok : Fulfilled(c)'
    <3>1. CASE Result("ok")
      <4>1. results'.ok = results.ok \cup {step.change}
        BY <1>0, <3>1 DEF Result, Account
      <4>2. ASSUME NEW c, c = step.change PROVE Fulfilled(c)'
        BY <1>0, <1>7, <2>2, <3>1, <4>2, SuccessFulfils
      <4> QED BY <2>4, <4>1, <4>2
    <3>2. CASE ~Result("ok")
      <4>1. UNCHANGED results \/ Result("failed")
        BY <1>7, <3>2 DEF Commands, CommandFails, ReadPot, ClearPot, Write, Verify, Then
      <4>2. results'.ok = results.ok BY <1>0, <4>1 DEF Result, Account
      <4> QED BY <2>4, <4>2
    <3> QED BY <3>1, <3>2
  <2>6. step' # NoStep /\ step'.next = "verify" =>
           magazine'[step'.change.pot]
             = IF step'.change.op = "delete" THEN Empty ELSE step'.change.tool
    BY <1>0, <1>7, VerifyAfter
  <2> QED BY <2>1, <2>3, <2>5, <2>6 DEF Applied
<1>8. CASE UNCHANGED vars
  BY <1>8 DEF vars, Applied, Alone, Elsewhere, Fulfilled, PotsOf, Targets, Moving, Of
<1> QED BY <1>1, <1>2, <1>3, <1>4, <1>5, <1>6, <1>7, <1>8 DEF Next, Commands

\* When all changes of a batch succeeded, the magazine is the one asked for.
LEMMA AppliedIsRequested ==
    ASSUME BatchInv, InOrder, Applied, pc = "done", Alone, results.failed = {}
    PROVE  magazine = Requested
<1>0. Magazines /\ Account BY DEF BatchInv
<1>1. /\ batch \subseteq Changes /\ batch = results.ok
  <2>1. left = {} /\ step = NoStep BY DEF InOrder
  <2>2. {step.change} \ {None} = {} BY <2>1 DEF NoStep
  <2> QED BY <1>0, <2>1, <2>2 DEF Account
<1>2. /\ \A c \in batch : Fulfilled(c)
      /\ Elsewhere
  BY <1>1 DEF Applied
<1>3. ASSUME NEW p \in Pots PROVE magazine[p] = Requested[p]
  <2>1. CASE p \in PotsOf(Of(batch, "assignment"))
    <3> DEFINE c == CHOOSE d \in Of(batch, "assignment") : d.pot = p
    <3>1. c \in Of(batch, "assignment") /\ c.pot = p BY <2>1 DEF PotsOf
    <3>2. Requested[p] = c.tool BY <2>1 DEF Requested
    <3> HIDE DEF c
    <3> QED BY <1>2, <3>1, <3>2 DEF Fulfilled, Of
  <2>2. CASE p \notin PotsOf(Of(batch, "assignment")) /\ p \in PotsOf(Of(batch, "cap"))
    <3>1. PICK c \in Of(batch, "cap") : c.pot = p BY <2>2 DEF PotsOf
    <3>2. Requested[p] = Cap BY <2>2 DEF Requested
    <3> QED BY <1>2, <3>1, <3>2 DEF Fulfilled, Of
  <2>3. CASE p \notin PotsOf(Moving)
    <3>0. /\ p \notin PotsOf(Of(batch, "assignment"))
          /\ p \notin PotsOf(Of(batch, "cap"))
      BY <2>3 DEF PotsOf, Moving
    <3>1. CASE p \in PotsOf(Of(batch, "delete"))
      <4>1. PICK c \in Of(batch, "delete") : c.pot = p BY <3>1 DEF PotsOf
      <4>2. Requested[p] = Empty BY <3>0, <3>1 DEF Requested
      <4> QED BY <1>2, <2>3, <4>1, <4>2 DEF Fulfilled, Of
    <3>2. CASE Targets(batch, before[p]) # {}
      <4>1. PICK c \in batch : c.op = "assignment" /\ c.tool = before[p]
        BY <3>2 DEF Targets
      <4>2. c.pot \in Pots /\ c.tool \in Tools BY <1>1, <4>1, ChangeType
      <4>3. magazine[c.pot] = before[p] BY <1>2, <4>1 DEF Fulfilled
      <4>4. c.pot # p BY <3>0, <4>1 DEF PotsOf, Of
      <4>5. magazine[p] # before[p] BY <1>0, <4>1, <4>2, <4>3, <4>4 DEF Magazines
      <4>6. magazine[p] = Empty BY <1>2, <2>3, <4>5 DEF Elsewhere
      <4> QED BY <3>0, <3>2, <4>6 DEF Requested
    <3>3. CASE p \notin PotsOf(Of(batch, "delete")) /\ Targets(batch, before[p]) = {}
      <4>1. Requested[p] = before[p] BY <3>0, <3>3 DEF Requested
      <4>2. CASE p \notin PotsOf(batch) BY <1>2, <3>3, <4>1, <4>2 DEF Elsewhere
      <4>3. CASE p \in PotsOf(batch)
        <5>1. PICK c \in batch : c.pot = p BY <4>3 DEF PotsOf
        <5>2. c.op \notin {"assignment", "cap", "delete"}
          BY <3>0, <3>3, <5>1 DEF PotsOf, Of
        <5>3. c.pot = 0 BY <1>1, <5>1, <5>2 DEF Changes, Change
        <5> QED BY <5>1, <5>3
      <4> QED BY <4>2, <4>3
    <3> QED BY <3>1, <3>2, <3>3
  <2> QED BY <2>1, <2>2, <2>3 DEF PotsOf, Moving
<1>4. Requested = [p \in Pots |-> Requested[p]] BY DEF Requested
<1>5. magazine = [p \in Pots |-> magazine[p]] BY <1>0 DEF Magazines
<1> QED BY <1>3, <1>4, <1>5

-----------------------------------------------------------------------------
(* A batch that is not disturbed *)

Clean == Alone /\ faults = 0

\* Pots that a delete of the batch has still to empty.
Uncleared ==
    {p \in Pots : \/ \E c \in left : c.op = "delete" /\ c.pot = p
                  \/ /\ step # NoStep /\ step.next = "clear"
                     /\ step.change.op = "delete" /\ step.change.pot = p}

\* Once the deletes are through, no assignment finds its pot taken or its tool
\* in a pot that is no target of that tool.
Ready ==
    \A c \in Of(batch, "assignment") :
        /\ magazine[c.pot] \in {Empty, c.tool} \/ c.pot \in Uncleared
        /\ \A p \in Pots \ Targets(batch, c.tool) :
              magazine[p] # c.tool \/ p \in Uncleared

\* The pots already taken from the list of pots to clear, and no others, are
\* empty.
Precleared ==
    /\ toClear \subseteq ToClear(batch, before)
    /\ \A p \in Pots :
          magazine[p] = IF p \in ToClear(batch, before) \ toClear
                          THEN Empty ELSE before[p]

Prepared ==
    Clean =>
      /\ pc = "clearing" => Precleared
      /\ pc \in {"applying", "done"} => Ready
      /\ step # NoStep /\ step.next = "write" /\ step.change.op = "cap"
           => magazine[step.change.pot] = Empty
      /\ Consistent => results.failed = {}

\* No tool is asked into two pots.
LEMMA OneTarget ==
    ASSUME Consistent, batch \subseteq Changes, NEW t \in Tools,
           NEW p \in Targets(batch, t), NEW q \in Targets(batch, t)
    PROVE  p = q
<1> DEFINE T == Targets(batch, t)
<1>1. T \subseteq Pots /\ Cardinality(T) <= 1
  BY ChangeType DEF Targets, Consistent
<1>2. IsFiniteSet(T) BY <1>1, FS_Subset
<1>3. ASSUME p # q PROVE FALSE
  <2>1. {p, q} \in SUBSET T OBVIOUS
  <2>2. Cardinality({p}) = 1 /\ IsFiniteSet({p}) BY FS_Singleton
  <2>3. Cardinality({p} \cup {q}) = 2
    <3>1. q \notin {p} BY <1>3
    <3>2. Cardinality({p} \cup {q}) = Cardinality({p}) + 1
      BY <2>2, <3>1, FS_AddElement
    <3> QED BY <2>2, <3>2
  <2>4. {p} \cup {q} = {p, q} OBVIOUS
  <2> HIDE DEF T
  <2>5. Cardinality({p, q}) <= Cardinality(T) BY <1>2, <2>1, FS_Subset
  <2>6. Cardinality(T) \in Nat BY <1>2, FS_CardinalityType
  <2> QED BY <1>1, <2>3, <2>4, <2>5, <2>6
<1> QED BY <1>3

\* Pre-clearing leaves only what a delete of the batch will empty.
LEMMA PreclearedIsReady ==
    ASSUME Magazines, Account, OnePerPot(batch), Precleared, toClear = {},
           left = batch
    PROVE  Ready
<1> DEFINE deletes == PotsOf(Of(batch, "delete"))
<1>1. \A p \in Pots : p \in deletes => p \in Uncleared
  BY DEF PotsOf, Of, Uncleared
<1>2. ASSUME NEW c \in Of(batch, "assignment")
      PROVE  /\ magazine[c.pot] \in {Empty, c.tool} \/ c.pot \in Uncleared
             /\ \A p \in Pots \ Targets(batch, c.tool) :
                   magazine[p] # c.tool \/ p \in Uncleared
  <2>0. c \in batch /\ c \in Changes /\ c.op = "assignment" BY DEF Of, Account
  <2>1. c.pot \in Pots /\ c.tool \in Tools BY <2>0, ChangeType
  <2>2. before[c.pot] \notin {Empty, c.tool} => c.pot \in Occupied(batch, before)
    BY DEF Occupied
  <2>3. magazine[c.pot] \in {Empty, c.tool} \/ c.pot \in Uncleared
    BY <1>1, <2>1, <2>2 DEF Precleared, ToClear
  <2>4. ASSUME NEW p \in Pots \ Targets(batch, c.tool), magazine[p] = c.tool
        PROVE  p \in Uncleared
    <3>1. c.tool # Empty BY <2>1
    <3>2. before[p] = c.tool /\ p \notin ToClear(batch, before)
      BY <2>4, <3>1 DEF Precleared
    <3>3. c.pot \in Targets(batch, c.tool) BY <2>0 DEF Targets
    <3>4. Target(batch, c.tool) \in Targets(batch, c.tool)
      <4>1. Targets(batch, c.tool) \in SUBSET Pots
        BY ChangeType DEF Targets, Account
      <4> QED BY <3>3, <4>1, LeastPot DEF Target
    <3>5. p \in Sources(batch, before) BY <3>2, <3>3, <3>4 DEF Sources
    <3> QED BY <1>1, <3>2, <3>5 DEF ToClear
  <2> QED BY <2>3, <2>4
<1> QED BY <1>2 DEF Ready

\* A change taken up keeps the pots that are still to be emptied.
LEMMA TakeKeepsReady ==
    ASSUME Account, Ready, TakeChange PROVE Ready'
<1>1. UNCHANGED <<magazine, batch>> BY DEF TakeChange
<1>2. \A p \in Uncleared : p \in Uncleared'
  <2>1. CASE left = {}
    BY <2>1 DEF TakeChange, Uncleared
  <2>2. CASE left # {}
    <3> DEFINE c == First(left)
    <3>1. c \in left BY <2>2, FirstIn DEF Account
    <3>2. /\ left' = left \ {c}
          /\ step' = [change |-> c, next |-> FirstCommand(c.op)]
          /\ step = NoStep
      BY <2>2 DEF TakeChange
    <3> HIDE DEF c
    <3>3. ASSUME NEW p \in Uncleared PROVE p \in Uncleared'
      <4>1. PICK d \in left : d.op = "delete" /\ d.pot = p
        BY <3>2 DEF Uncleared
      <4>2. CASE d = c
        <5>1. /\ step'.change = d /\ step'.next = "clear"
          BY <3>2, <4>1, <4>2 DEF FirstCommand
        <5>2. step' # NoStep BY <5>1 DEF NoStep
        <5> QED BY <4>1, <5>1, <5>2 DEF Uncleared
      <4>3. CASE d # c
        <5>1. d \in left' BY <3>2, <4>3
        <5> QED BY <4>1, <5>1 DEF Uncleared
      <4> QED BY <4>2, <4>3
    <3> QED BY <3>3
  <2> QED BY <2>1, <2>2
<1> QED BY <1>1, <1>2 DEF Ready, Targets, Of

\* A command only clears a pot, or puts the tool of an assignment in its pot.
LEMMA CommandKeepsReady ==
    ASSUME Magazines, StepOK, Account, InOrder, Ready, Commands, NoFault,
           faults = 0
    PROVE  Ready'
<1> DEFINE c == step.change
<1>1. /\ pc = "applying" /\ step # NoStep /\ c \in batch /\ c \in Changes
      /\ UNCHANGED <<batch, left>> /\ Touches(c)
  BY CommandTouches
<1>2. ASSUME NEW p \in Uncleared PROVE p \in Uncleared' \/ magazine'[p] = Empty
  <2>1. CASE \E d \in left : d.op = "delete" /\ d.pot = p
    BY <1>1, <2>1 DEF Uncleared
  <2>2. CASE step.next = "clear" /\ c.pot = p
    <3>1. Clear(c.pot)
      BY <2>2 DEF Commands, CommandFails, ReadPot, ClearPot, Write, Verify,
                  Command, Fault, NoFault
    <3> QED BY <2>2, <3>1 DEF Clear, Magazines, Uncleared
  <2> QED BY <2>1, <2>2 DEF Uncleared
<1> HIDE DEF c
<1>3. ASSUME NEW d \in Of(batch, "assignment")
      PROVE  /\ magazine'[d.pot] \in {Empty, d.tool} \/ d.pot \in Uncleared'
             /\ \A p \in Pots \ Targets(batch, d.tool) :
                   magazine'[p] # d.tool \/ p \in Uncleared'
  <2>0. d \in batch /\ d \in Changes /\ d.op = "assignment" BY DEF Of, Account
  <2>1. d.pot \in Pots /\ d.tool \in Tools BY <2>0, ChangeType
  <2>2. ASSUME NEW p \in Pots
        PROVE  \/ magazine'[p] = magazine[p]
               \/ magazine'[p] = Empty
               \/ /\ p = c.pot /\ c.op \in {"assignment", "cap"}
                  /\ magazine'[p] = Value(c)
    BY <1>1 DEF Touches, Clear, Assign, Magazines
  <2>3. ASSUME d.pot = c.pot, c.op \in {"assignment", "cap"} PROVE Value(c) = d.tool
    <3>1. c = d
      <4>1. c \in Moving /\ d \in Moving BY <1>1, <2>0, <2>3 DEF Moving, Of
      <4> QED BY <1>1, <2>3, <4>1 DEF InOrder, OnePerPot, Moving
    <3> QED BY <2>0, <3>1 DEF Value
  <2>4. magazine'[d.pot] \in {Empty, d.tool} \/ d.pot \in Uncleared'
    <3>1. magazine[d.pot] \in {Empty, d.tool} \/ d.pot \in Uncleared BY DEF Ready
    <3> QED BY <1>2, <2>1, <2>2, <2>3, <3>1
  <2>5. ASSUME NEW p \in Pots \ Targets(batch, d.tool), magazine'[p] = d.tool
        PROVE  p \in Uncleared'
    <3>1. d.tool # Empty /\ d.tool # Cap BY <2>1
    <3>2. ~(p = c.pot /\ c.op \in {"assignment", "cap"} /\ magazine'[p] = Value(c))
      <4>1. ASSUME p = c.pot, c.op = "assignment", c.tool = d.tool PROVE FALSE
        BY <1>1, <2>5, <4>1 DEF Targets
      <4> QED BY <2>5, <3>1, <4>1 DEF Value
    <3>3. magazine[p] = d.tool BY <2>2, <2>5, <3>1, <3>2
    <3>4. p \in Uncleared BY <3>3 DEF Ready
    <3> QED BY <1>2, <2>5, <3>1, <3>4
  <2> QED BY <2>4, <2>5
<1> QED BY <1>1, <1>3 DEF Ready, Targets, Of

\* The next command writes a cap only into an empty pot.
LEMMA CapAfter ==
    ASSUME Magazines, StepOK, Account, Commands, NoFault, faults = 0,
           step' # NoStep, step'.next = "write", step'.change.op = "cap"
    PROVE  magazine'[step'.change.pot] = Empty
<1> DEFINE c == step.change
<1>1. /\ step # NoStep /\ c \in Changes /\ step \in [change : batch, next : Nexts]
  BY CommandTouches DEF StepOK
<1>2. \A kind : ~Result(kind) BY DEF Result
<1>3. CASE ReadPot
  <2>1. Then("clear") \/ Then("write") BY <1>2, <1>3 DEF ReadPot
  <2>2. step'.change = c BY <1>1, <2>1 DEF Then
  <2>3. c.op = "cap" /\ c.pot \in Pots BY <1>1, <2>2, ChangeType
  <2>4. PICK value \in {magazine[c.pot], None} :
          /\ IF value = None THEN Fault ELSE NoFault
          /\ ~(value \in Tools) /\ value # Cap
    BY <1>1, <1>2, <1>3, <2>3, Zenon DEF ReadPot, Then
  <2>5. value = magazine[c.pot] BY <2>4 DEF Fault, NoFault
  <2> QED BY <1>3, <2>2, <2>3, <2>4, <2>5 DEF ReadPot, Magazines, Slots
<1>4. CASE ClearPot
  <2>1. step'.change = c /\ Clear(c.pot) BY <1>1, <1>4 DEF ClearPot, Then
  <2>2. c.pot \in Pots BY <1>1, <2>1, ChangeType
  <2> QED BY <2>1, <2>2 DEF Clear, Magazines
<1>5. CASE Write
  <2>1. step'.next = "verify" BY <1>1, <1>2, <1>5 DEF Write, Then
  <2> QED BY <2>1
<1>6. CASE CommandFails \/ Verify
  BY <1>2, <1>6 DEF CommandFails, Verify
<1> QED BY <1>3, <1>4, <1>5, <1>6 DEF Commands

\* Nothing the batch sends is refused, and all it verifies is there.
LEMMA NothingFails ==
    ASSUME BatchInv, InOrder, Applied, Prepared, Clean, Consistent,
           Commands, NoFault
    PROVE  ~Result("failed") \/ UNCHANGED results \/ Result("ok")
<1>0. Magazines /\ StepOK /\ Account BY DEF BatchInv
<1>1. /\ pc = "applying" /\ step # NoStep /\ step.change \in batch
      /\ step.change \in Changes
  BY <1>0, CommandTouches
<1>2. CASE CommandFails BY <1>2 DEF CommandFails, Clean, Fault, NoFault
<1>3. CASE ReadPot BY <1>3 DEF ReadPot, Then
<1>4. CASE ClearPot BY <1>4 DEF ClearPot, Then
<1>5. CASE Write
  <2> DEFINE c == step.change
  <2>0. step.next = "write" BY <1>5 DEF Write, Command
  <2>1. CASE c.op \in {"spindle", "color"} BY <1>5, <2>1 DEF Write
  <2>2. CASE c.op = "cap"
    <3>1. c.pot \in Pots BY <1>1, <2>2, ChangeType
    <3>2. magazine[c.pot] = Empty BY <1>1, <2>0, <2>2 DEF Prepared
    <3>3. Accepts(c.pot, Value(c)) BY <2>2, <3>2 DEF Accepts, Value
    <3> QED BY <1>5, <2>2, <3>3 DEF Write
  <2>3. CASE c.op = "assignment"
    <3>1. c.pot \in Pots /\ c.tool \in Tools BY <1>1, <2>3, ChangeType
    <3>2. \A p \in Pots : p \notin Uncleared
      <4>1. c \notin left
        <5>1. c # None BY <1>1, ChangeType
        <5> QED BY <1>0, <1>1, <5>1 DEF Account
      <4>2. \A d \in left : Rank(c.op) <= Rank(d.op) BY <1>1, <4>1 DEF InOrder
      <4>3. \A d \in left : d.op # "delete" BY <2>3, <4>2, RanksOf
      <4> QED BY <2>0, <4>3 DEF Uncleared
    <3>3. c \in Of(batch, "assignment") BY <1>1, <2>3 DEF Of
    <3>4. Ready BY <1>1 DEF Prepared
    <3>5. magazine[c.pot] \in {Empty, c.tool}
      BY <3>1, <3>2, <3>3, <3>4 DEF Ready
    <3>6. ASSUME NEW p \in Pots \ {c.pot} PROVE magazine[p] # c.tool
      <4>1. c.pot \in Targets(batch, c.tool) BY <1>1, <2>3 DEF Targets
      <4>2. p \notin Targets(batch, c.tool)
        BY <1>0, <3>1, <3>6, <4>1, OneTarget DEF Account
      <4> QED BY <3>2, <3>3, <3>4, <3>6, <4>2 DEF Ready
    <3>7. Accepts(c.pot, Value(c))
      BY <2>3, <3>5, <3>6 DEF Accepts, Value
    <3> QED BY <1>5, <2>3, <3>7 DEF Write, Then
  <2>4. c.op \in {"spindle", "color", "cap", "assignment"}
    BY <1>0, <1>1, <2>0, ChangeType DEF StepOK
  <2> QED BY <2>1, <2>2, <2>3, <2>4
<1>6. CASE Verify
  <2>1. step.next = "verify" BY <1>6 DEF Verify, Command
  <2>2. step.change.op \in {"delete", "assignment"}
    BY <1>0, <1>1, <2>1 DEF StepOK
  <2>3. magazine[step.change.pot]
          = IF step.change.op = "delete" THEN Empty ELSE step.change.tool
    BY <1>1, <2>1 DEF Applied, Clean
  <2>4. Verified(step.change) BY <2>2, <2>3 DEF Verified
  <2> QED BY <1>6, <2>4 DEF Verify
<1> QED BY <1>2, <1>3, <1>4, <1>5, <1>6 DEF Commands

LEMMA PreparedNext ==
    BatchInv /\ InOrder /\ Applied /\ Prepared /\ [Next]_vars => Prepared'
<1> SUFFICES ASSUME BatchInv, InOrder, Applied, Prepared, [Next]_vars, Clean'
             PROVE  Prepared'
  BY DEF Prepared
<1>0. Magazines /\ Stage /\ StepOK /\ Account /\ Clears BY DEF BatchInv
<1>m. meddling \in Nat /\ faults \in Nat BY <1>0 DEF Stage
<1>n. ~Fault /\ meddling' # meddling + 1 /\ meddling' = 0 /\ faults' = 0
  BY <1>m DEF Fault, Clean, Alone
<1>1. CASE Operator BY <1>1, <1>n DEF Operator
<1>2. CASE Submit
  <2>1. /\ pc' \in {"validating", "refused"}
        /\ step' = NoStep /\ results'.failed = {}
    BY <1>0, <1>2 DEF Submit, Account
  <2> QED BY <2>1 DEF Prepared
<1>3. CASE Validate
  <2>1. /\ pc = "validating" /\ pc' \in {"connected", "refused"}
        /\ UNCHANGED <<step, results>>
    BY <1>3 DEF Validate
  <2>2. step = NoStep /\ results.failed = {} BY <1>0, <2>1 DEF Account
  <2> QED BY <2>1, <2>2 DEF Prepared
<1>4. CASE ReadMagazine
  <2>1. /\ pc = "connected" /\ UNCHANGED <<magazine, before, batch, step, results>>
        /\ UNCHANGED meddling
    BY <1>4 DEF ReadMagazine
  <2>2. magazine = before /\ step = NoStep /\ results.failed = {}
    BY <1>0, <1>n, <2>1 DEF Applied, Alone, Account
  <2>3. CASE pc' = "applying" /\ Of(batch, "assignment") = {}
    <3>1. Ready' BY <2>1, <2>3 DEF Ready, Of
    <3> QED BY <2>1, <2>2, <2>3, <3>1 DEF Prepared
  <2>4. CASE pc' = "clearing" /\ toClear' = ToClear(batch, magazine)
    <3>1. toClear' = ToClear(batch', before') BY <2>1, <2>2, <2>4
    <3>2. Precleared' BY <2>1, <2>2, <3>1 DEF Precleared
    <3> QED BY <2>1, <2>2, <2>4, <3>2 DEF Prepared
  <2> QED BY <1>4, <1>n, <2>3, <2>4 DEF ReadMagazine
<1>5. CASE PreClear
  <2> DEFINE pot == CHOOSE p \in toClear : \A q \in toClear : p <= q
  <2>1. /\ pc = "clearing" /\ UNCHANGED <<batch, before, step, results, left>>
        /\ UNCHANGED meddling
    BY <1>5 DEF PreClear
  <2>2. NoFault BY <1>5, <1>n DEF PreClear
  <2>3. /\ Precleared /\ step = NoStep /\ results.failed = {} /\ left = batch
        /\ OnePerPot(batch)
    BY <1>0, <1>n, <2>1, <2>2 DEF Prepared, Clean, Alone, NoFault, Account, InOrder
  <2>4. CASE toClear = {}
    <3>1. pc' = "applying" /\ UNCHANGED <<magazine, toClear>>
      BY <1>5, <2>4 DEF PreClear
    <3>2. Ready BY <1>0, <2>3, <2>4, PreclearedIsReady
    <3>3. Ready' BY <2>1, <3>1, <3>2 DEF Ready, Uncleared, Targets, Of
    <3> QED BY <2>1, <2>3, <3>1, <3>3 DEF Prepared
  <2>5. CASE toClear # {}
    <3>1. Clear(pot) /\ toClear' = toClear \ {pot} /\ UNCHANGED pc
      BY <1>5, <1>n, <2>5 DEF PreClear
    <3>2. pot \in toClear /\ pot \in Pots BY <1>0, <2>5, LeastPot DEF Stage
    <3> HIDE DEF pot
    <3>3. \A p \in Pots : magazine'[p] = IF p = pot THEN Empty ELSE magazine[p]
      BY <1>0, <3>1 DEF Clear, Magazines
    <3>4. \A p \in Pots :
            magazine'[p] = IF p \in ToClear(batch, before) \ toClear'
                             THEN Empty ELSE before[p]
      BY <2>3, <3>1, <3>2, <3>3 DEF Precleared
    <3>5. ToClear(batch, before)' = ToClear(batch, before)
      BY <2>1 DEF ToClear, Occupied, Sources, Targets, Target, PotsOf, Of
    <3>6. toClear' \subseteq ToClear(batch, before) BY <2>3, <3>1 DEF Precleared
    <3>7. Precleared' BY <2>1, <3>4, <3>5, <3>6 DEF Precleared
    <3> QED BY <2>1, <2>3, <3>1, <3>7 DEF Prepared
  <2> QED BY <2>4, <2>5
<1>6. CASE TakeChange
  <2>1. /\ pc = "applying" /\ pc' \in {"applying", "done"}
        /\ UNCHANGED <<results, batch, meddling, faults>>
    BY <1>6 DEF TakeChange
  <2>2. Clean BY <1>n, <2>1 DEF Clean, Alone
  <2>3. Ready /\ (Consistent => results.failed = {})
    BY <2>1, <2>2 DEF Prepared
  <2>4. Ready' BY <1>0, <1>6, <2>3, TakeKeepsReady
  <2>5. ASSUME step' # NoStep, step'.next = "write" PROVE step'.change.op # "cap"
    <3>1. /\ step'.change = First(left)
          /\ step'.next = FirstCommand(First(left).op)
      BY <1>6, <2>5 DEF TakeChange
    <3>2. First(left).op = "cap" => FirstCommand(First(left).op) = "read"
      BY DEF FirstCommand
    <3> QED BY <2>5, <3>1, <3>2
  <2>6. Consistent' <=> Consistent BY <2>1 DEF Consistent, Targets
  <2> QED BY <2>1, <2>3, <2>4, <2>5, <2>6 DEF Prepared
<1>7. CASE Commands
  <2>1. /\ pc = "applying" /\ UNCHANGED <<batch, pc, meddling>>
    BY <1>0, <1>7, CommandTouches
  <2>2. NoFault
    BY <1>7, <1>n
       DEF Commands, CommandFails, ReadPot, ClearPot, Write, Verify
  <2>3. Clean BY <1>n, <2>1, <2>2 DEF Clean, Alone, NoFault
  <2>4. Ready /\ (Consistent => results.failed = {})
    BY <2>1, <2>3 DEF Prepared
  <2>5. Ready' BY <1>0, <1>7, <2>2, <2>3, <2>4, CommandKeepsReady DEF Clean
  <2>6. step' # NoStep /\ step'.next = "write" /\ step'.change.op = "cap"
          => magazine'[step'.change.pot] = Empty
    BY <1>0, <1>7, <2>2, <2>3, CapAfter DEF Clean
  <2>7. ASSUME Consistent PROVE results'.failed = {}
    <3>1. UNCHANGED results \/ Result("ok") \/ Result("failed")
      BY <1>7 DEF Commands, CommandFails, ReadPot, ClearPot, Write, Verify, Then
    <3>2. UNCHANGED results \/ Result("ok")
      BY <1>7, <2>2, <2>3, <2>7, <3>1, NothingFails
    <3> QED BY <1>0, <2>4, <2>7, <3>2 DEF Result, Account
  <2>8. Consistent' <=> Consistent BY <2>1 DEF Consistent, Targets
  <2> QED BY <2>1, <2>5, <2>6, <2>7, <2>8 DEF Prepared
<1>8. CASE UNCHANGED vars
  <2>1. UNCHANGED <<magazine, before, batch, pc, step, results, left, toClear,
                    meddling, faults>>
    BY <1>8 DEF vars
  <2>2. ToClear(batch, before)' = ToClear(batch, before)
    BY <2>1 DEF ToClear, Occupied, Sources, Targets, Target, PotsOf, Of
  <2>3. /\ Clean' <=> Clean
        /\ Consistent' <=> Consistent
    BY <2>1 DEF Clean, Alone, Consistent, Targets
  <2>4. Precleared => Precleared' BY <2>1, <2>2 DEF Precleared
  <2>5. Ready => Ready' BY <2>1 DEF Ready, Uncleared, Targets, Of
  <2> QED BY <2>1, <2>3, <2>4, <2>5 DEF Prepared
<1> QED BY <1>1, <1>2, <1>3, <1>4, <1>5, <1>6, <1>7, <1>8 DEF Next, Commands

-----------------------------------------------------------------------------
(* The report *)

ReportInv == BatchInv /\ InOrder /\ Applied /\ Prepared

LEMMA InitReport == Init => ReportInv
<1> SUFFICES ASSUME Init PROVE InOrder /\ Applied /\ Prepared
  BY InitInv DEF ReportInv
<1>1. pc = "idle" /\ step = NoStep /\ results.ok = {} /\ results.failed = {}
  BY DEF Init
<1> QED BY <1>1 DEF InOrder, Applied, Prepared

LEMMA NextReport == ReportInv /\ [Next]_vars => ReportInv'
  BY NextInv, OrderNext, AppliedNext, PreparedNext DEF ReportInv

(* ReportIsTrue: a consistent batch that nothing disturbs succeeds in full,   *)
(* and a batch that reports success for all its changes has made the magazine *)
(* the one it asks for, for batches and magazines of any size.                *)
THEOREM ReportIsTrueHolds == Spec => []ReportIsTrue
<1>1. ReportInv => CleanBatchSucceeds
  BY DEF ReportInv, Prepared, Clean, CleanBatchSucceeds
<1>2. ReportInv => SuccessIsApplied
  BY AppliedIsRequested DEF ReportInv, SuccessIsApplied
<1>3. ReportInv => ReportIsTrue BY <1>1, <1>2 DEF ReportIsTrue
<1> QED BY <1>3, InitReport, NextReport, PTL DEF Spec
=============================================================================
