------------------------------ MODULE ToolBatch ------------------------------
(***************************************************************************)
(* One batch of tool changes (services/tool_write_service.py) against the  *)
(* tool magazine of a machine: the check of the machine's state, the pots  *)
(* cleared before assignments, the changes in their order with the         *)
(* commands each consists of (clients/_telnet_write_ops.py), and the       *)
(* results, while commands fail and an operator changes the magazine.      *)
(*                                                                         *)
(* Each command takes the machine's lock by itself, so others come in      *)
(* between any two.  "spindle" stands for the strictly checked changes and *)
(* "color" for the leniently checked ones that leave the pots alone.  A    *)
(* request lists its changes by pot.                                       *)
(***************************************************************************)
EXTENDS Naturals, FiniteSets

CONSTANTS
    Pots,           \* numbers of the magazine's pots
    Tools,          \* tool numbers
    Empty, Cap,     \* ATCTL values of a pot without a tool (0; 255 or 999)
    None,           \* Python's None
    MaxChanges,     \* bound: changes of a batch
    MaxUpsets       \* bound: commands that fail and changes by the operator

ASSUME PotsAssumption == Pots \subseteq Nat \ {0} /\ IsFiniteSet(Pots)
ASSUME ValuesAssumption ==
    Empty \notin Tools /\ Cap \notin Tools /\ Empty # Cap
    /\ None \notin Tools \cup {Empty, Cap}
ASSUME BoundAssumption == {MaxChanges, MaxUpsets} \subseteq Nat

VARIABLES
    magazine,   \* what each pot of the machine is assigned
    mode,       \* "free", "editing" (an edit mode, or a held program) or
                \* "running" when the batch comes
    batch,      \* the requested changes
    pc,         \* stage of apply_tool_changes_batch
    seen,       \* atc_by_pot, None if it was not read
    toClear,    \* pots still to be pre-cleared
    left,       \* changes still to be applied
    step,       \* the current change and its next command
    results,    \* changes that succeeded and that failed
    before,     \* history: the magazine when the batch came
    faults, meddling        \* bounded counts

vars == <<magazine, mode, batch, pc, seen, toClear, left, step, results,
          before, faults, meddling>>

-----------------------------------------------------------------------------
(* Changes *)

Slots == Tools \cup {Empty, Cap}

Change(op, pot, tool) == [op |-> op, pot |-> pot, tool |-> tool]

Changes ==
    {Change("delete", p, None) : p \in Pots}
    \cup {Change("assignment", p, t) : p \in Pots, t \in Tools}
    \cup {Change("cap", p, None) : p \in Pots}
    \cup {Change("spindle", 0, None), Change("color", 0, None)}

ASSUME NoneAssumption == None \notin Changes

Of(changes, op) == {c \in changes : c.op = op}
PotsOf(changes) == {c.pot : c \in changes}

\* validate_batch_pot_conflicts
OnePerPot(changes) ==
    \A c, d \in Of(changes, "assignment") \cup Of(changes, "cap") :
        c.pot = d.pot => c = d

Rank_deletesLast(op) ==             \* defect: a pot is emptied after it was filled
    IF op = "delete" THEN 5 ELSE 1
\* _EXEC_ORDER
Rank(op) == CASE op = "delete" -> 0
              [] op \in {"assignment", "cap"} -> 1
              [] op = "spindle" -> 2
              [] op = "color" -> 4

\* sort_changes_for_execution
First(changes) ==
    CHOOSE c \in changes : \A d \in changes :
        \/ Rank(c.op) < Rank(d.op)
        \/ Rank(c.op) = Rank(d.op) /\ c.pot <= d.pot

\* validation_operation_type: a cap alone is not in the list of priorities.
Strict(changes) ==
    \E c \in changes : c.op \in {"assignment", "delete", "spindle"}

-----------------------------------------------------------------------------
(* Pots to clear before assignments *)

Targets(changes, tool) == {c.pot : c \in {d \in changes : d.op = "assignment"
                                                          /\ d.tool = tool}}
\* The first target of the request.
Target(changes, tool) ==
    CHOOSE p \in Targets(changes, tool) : \A q \in Targets(changes, tool) : p <= q

Occupied(changes, atc) ==
    {c.pot : c \in {d \in Of(changes, "assignment") :
                        atc[d.pot] \notin {Empty, d.tool}}}
    \cup {p \in PotsOf(Of(changes, "cap")) : atc[p] \in Tools}

Sources(changes, atc) ==
    {p \in Pots : /\ Targets(changes, atc[p]) # {}
                  /\ p # Target(changes, atc[p])}

ToClear_all(changes, atc) ==        \* defect: tools that stay are cleared, too
    {p \in Pots : atc[p] # Empty}
\* pots_needing_preclear_before_assignments
ToClear(changes, atc) ==
    (Occupied(changes, atc) \cup Sources(changes, atc))
        \ PotsOf(Of(changes, "delete"))

-----------------------------------------------------------------------------
(* The machine *)

Upset == faults + meddling < MaxUpsets
Fault == Upset /\ faults' = faults + 1
NoFault == UNCHANGED faults

\* CHGMAGD
Clear(pot) == magazine' = [magazine EXCEPT ![pot] = Empty]

\* CHGMAGM is refused for a pot that holds another tool or a cap, and for a
\* tool that is in another pot.
Accepts(pot, value) ==
    /\ magazine[pot] \in {Empty, value}
    /\ value = Cap \/ \A p \in Pots \ {pot} : magazine[p] # value
Assign(pot, value) == magazine' = [magazine EXCEPT ![pot] = value]

\* At the panel, or another client of the backend; before the batch reads the
\* magazine it only makes it a different one.
Operator ==
    /\ pc \in {"clearing", "applying"}
    /\ Upset /\ meddling' = meddling + 1
    /\ \E p \in Pots, v \in Slots :
         /\ v \in Tools => \A q \in Pots : magazine[q] # v
         /\ v # magazine[p]
         /\ magazine' = [magazine EXCEPT ![p] = v]
    /\ UNCHANGED <<mode, batch, pc, seen, toClear, left, step, results,
                   before, faults>>

-----------------------------------------------------------------------------
(* The batch up to its changes *)

NoStep == [change |-> None, next |-> "none"]

Submit ==
    /\ pc = "idle"
    /\ \E changes \in SUBSET Changes :
         /\ Cardinality(changes) \in 1..MaxChanges
         /\ batch' = changes
         /\ pc' = IF OnePerPot(changes) THEN "validating" ELSE "refused"
    /\ mode' \in {"free", "editing", "running"}
    /\ before' = magazine
    /\ UNCHANGED <<magazine, seen, toClear, left, step, results, faults, meddling>>

\* validate_safe_for_write; without an answer of the machine it allows.
Validate ==
    /\ pc = "validating"
    /\ \/ NoFault
          /\ pc' = IF mode = "running" \/ (mode = "editing" /\ Strict(batch))
                   THEN "refused" ELSE "connected"
       \/ Fault /\ pc' \in {"refused", "connected"}
    /\ mode' = "free"
    /\ left' = batch
    /\ UNCHANGED <<magazine, batch, seen, toClear, step, results, before, meddling>>

\* create_fresh_connection and, for a batch with assignments or caps,
\* _read_atc_pot_map; without an answer no pot is pre-cleared.
ReadMagazine ==
    /\ pc = "connected"
    /\ LET moves == Of(batch, "assignment") \cup Of(batch, "cap") # {}
       IN \/ /\ Fault /\ pc' = "aborted"
             /\ UNCHANGED <<seen, toClear>>
          \/ /\ ~moves /\ NoFault /\ pc' = "applying"
             /\ UNCHANGED <<seen, toClear>>
          \/ /\ moves /\ NoFault /\ pc' = "clearing"
             /\ seen' = magazine /\ toClear' = ToClear(batch, magazine)
          \/ /\ moves /\ Fault /\ pc' = "clearing"
             /\ UNCHANGED <<seen, toClear>>
    /\ UNCHANGED <<magazine, mode, batch, left, step, results, before, meddling>>

\* _preclear_atc_pots; a pot that cannot be cleared ends the batch.
PreClear ==
    /\ pc = "clearing"
    /\ IF toClear = {}
         THEN pc' = "applying" /\ UNCHANGED <<magazine, seen, toClear>> /\ NoFault
         ELSE LET pot == CHOOSE p \in toClear : \A q \in toClear : p <= q
              IN \/ /\ Clear(pot) /\ toClear' = toClear \ {pot}
                    /\ UNCHANGED pc /\ NoFault
                 \/ /\ Fault /\ pc' = "aborted" /\ toClear' = {}
                    /\ UNCHANGED magazine \/ Clear(pot)
    /\ UNCHANGED <<mode, batch, seen, left, step, results, before, meddling>>

-----------------------------------------------------------------------------
(* One change *)

FirstCommand(op) ==
    CASE op \in {"assignment", "cap"} -> "read"
      [] op = "delete" -> "clear"
      [] op \in {"spindle", "color"} -> "write"

TakeChange ==
    /\ pc = "applying" /\ step = NoStep
    /\ IF left = {} THEN pc' = "done" /\ UNCHANGED <<left, step>>
       ELSE LET c == First(left)
            IN /\ left' = left \ {c}
               /\ step' = [change |-> c, next |-> FirstCommand(c.op)]
               /\ UNCHANGED pc
    /\ UNCHANGED <<magazine, mode, batch, seen, toClear, results, before,
                   faults, meddling>>

Command(name) == pc = "applying" /\ step # NoStep /\ step.next = name
Then(name) == step' = [step EXCEPT !.next = name] /\ UNCHANGED results
Result(kind) ==
    /\ results' = [results EXCEPT ![kind] = @ \cup {step.change}]
    /\ step' = NoStep
batchVars == <<mode, batch, pc, seen, toClear, left, before, meddling>>

\* What CHGMAGM writes for a change.
Value(c) == IF c.op = "cap" THEN Cap ELSE c.tool

\* A command without success, or an exception; when only the answer was lost,
\* the machine has executed it.
CommandFails ==
    /\ pc = "applying" /\ step # NoStep /\ step.next # "read"
    /\ Fault
    /\ Result("failed")
    /\ LET c == step.change
       IN \/ UNCHANGED magazine
          \/ step.next = "clear" /\ Clear(c.pot)
          \/ /\ step.next = "write" /\ c.op \in {"assignment", "cap"}
             /\ Accepts(c.pot, Value(c)) /\ Assign(c.pot, Value(c))
    /\ UNCHANGED batchVars

\* _read_pot_tool_number before an assignment or cap; None if it fails.
ReadPot ==
    /\ Command("read")
    /\ \E value \in {magazine[step.change.pot], None} :
         /\ IF value = None THEN Fault ELSE NoFault
         /\ IF step.change.op = "cap" /\ value = Cap THEN Result("ok")
            ELSE IF value = Cap \/ (step.change.op = "cap" /\ value \in Tools)
                 THEN Then("clear")
            ELSE Then("write")
    /\ UNCHANGED <<magazine, batchVars>>

ClearPot ==
    /\ Command("clear")
    /\ Clear(step.change.pot)
    /\ NoFault
    /\ Then(IF step.change.op = "delete" THEN "verify" ELSE "write")
    /\ UNCHANGED batchVars

Write ==
    /\ Command("write")
    /\ NoFault
    /\ IF step.change.op \in {"spindle", "color"}
         THEN Result("ok") /\ UNCHANGED magazine
       ELSE LET value == Value(step.change)
            IN IF ~Accepts(step.change.pot, value)
                 THEN Result("failed") /\ UNCHANGED magazine
               ELSE /\ Assign(step.change.pot, value)
                    /\ IF step.change.op = "cap" THEN Result("ok") ELSE Then("verify")
    /\ UNCHANGED batchVars

\* _verify_pot_has_tool, _verify_pot_is_empty
Verified(c) == IF c.op = "delete" THEN magazine[c.pot] \in {Empty, Cap}
               ELSE magazine[c.pot] = c.tool

Verify ==
    /\ Command("verify")
    /\ NoFault
    /\ Result(IF Verified(step.change) THEN "ok" ELSE "failed")
    /\ UNCHANGED <<magazine, batchVars>>

-----------------------------------------------------------------------------

Init ==
    /\ magazine \in {m \in [Pots -> Slots] :
                        \A p, q \in Pots : m[p] = m[q] /\ m[p] \in Tools => p = q}
    /\ mode = "free" /\ batch = {} /\ pc = "idle"
    /\ seen = None /\ toClear = {} /\ left = {} /\ step = NoStep
    /\ results = [ok |-> {}, failed |-> {}]
    /\ before = magazine
    /\ faults = 0 /\ meddling = 0

Next ==
    \/ Operator
    \/ Submit \/ Validate \/ ReadMagazine \/ PreClear
    \/ TakeChange \/ CommandFails \/ ReadPot \/ ClearPot \/ Write \/ Verify

Spec == Init /\ [][Next]_vars

-----------------------------------------------------------------------------
(* What a batch asks for *)

\* The magazine a batch asks for: assigned tools leave the pots they were in.
Requested ==
    [p \in Pots |->
        IF p \in PotsOf(Of(batch, "assignment"))
          THEN (CHOOSE c \in Of(batch, "assignment") : c.pot = p).tool
        ELSE IF p \in PotsOf(Of(batch, "cap")) THEN Cap
        ELSE IF p \in PotsOf(Of(batch, "delete")) \/ Targets(batch, before[p]) # {}
          THEN Empty
        ELSE before[p]]

\* No tool is asked into two pots.
Consistent == \A t \in Tools : Cardinality(Targets(batch, t)) <= 1

Alone == meddling = 0

-----------------------------------------------------------------------------
(* Properties *)

(* The values of the variables: no tool is in two pots, and each change of a  *)
(* batch that began is either waiting, under way, or counted once as          *)
(* successful or failed.                                                      *)
TypeOK ==
    /\ magazine \in [Pots -> Slots] /\ before \in [Pots -> Slots]
    /\ \A p, q \in Pots : magazine[p] = magazine[q] /\ magazine[p] \in Tools => p = q
    /\ mode \in {"free", "editing", "running"}
    /\ batch \subseteq Changes /\ left \subseteq batch
    /\ pc \in {"idle", "validating", "connected", "clearing", "applying",
               "done", "refused", "aborted"}
    /\ seen \in [Pots -> Slots] \cup {None}
    /\ toClear \subseteq Pots
    /\ step = NoStep \/ step \in [change : batch,
                                  next : {"read", "clear", "write", "verify"}]
    /\ results \in [ok : SUBSET batch, failed : SUBSET batch]
    /\ results.ok \cap results.failed = {}
    /\ pc \in {"applying", "done"} =>
         {step.change} \ {None}
           = batch \ (left \cup results.ok \cup results.failed)
    /\ faults \in 0..MaxUpsets /\ meddling \in 0..MaxUpsets

(* A consistent batch succeeds in full when no command fails and nobody else  *)
(* touches the magazine: swaps, rotations, caps and deletes never get into    *)
(* each other's way.                                                          *)
CleanBatchSucceeds ==
    pc = "done" /\ Alone /\ faults = 0 /\ Consistent => results.failed = {}

(* A batch that reports success for all its changes has made the magazine the *)
(* one it asks for, whatever was retried or could not be read on the way.     *)
SuccessIsApplied ==
    pc = "done" /\ Alone /\ results.failed = {} => magazine = Requested

(* The report of a batch and the magazine agree, in both directions.          *)
ReportIsTrue == CleanBatchSucceeds /\ SuccessIsApplied

(* Whatever fails and whoever else changes the magazine, the batch itself     *)
(* changes only pots it names and pots that held one of its tools when it     *)
(* read the magazine: an abort in the middle leaves no other damage.          *)
OthersUntouched ==
    [][UNCHANGED meddling => \A p \in Pots :
        magazine'[p] # magazine[p]
            => p \in PotsOf(batch) \/ Targets(batch, seen[p]) # {}]_vars

(* What the argument tool_num of change_atc_tool is for ("Current tool number *)
(* in position (optional, for verification)") and the command does not carry: *)
(* pre-clearing removes only the tool that was read.                          *)
ClearsWhatWasSeen ==
    [][pc = "clearing" /\ UNCHANGED meddling => \A p \in Pots :
        magazine'[p] # magazine[p] => magazine[p] = seen[p]]_vars

(* What the docstring of validation_operation_type says ("Pick the strictest  *)
(* MachineStateValidator operation_type for this batch") and the list of      *)
(* priorities misses: a cap is an assignment.                                 *)
CapsAreStrict ==
    [][pc = "validating" /\ pc' = "connected" /\ UNCHANGED faults
        /\ Of(batch, "cap") # {} => mode = "free"]_vars
=============================================================================
