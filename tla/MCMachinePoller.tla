-------------------------- MODULE MCMachinePoller --------------------------
(* Small instances of MachinePoller for TLC. *)
EXTENDS MachinePoller, TLC

CONSTANTS loop, rest, p1

OneSlot == {loop}
TwoSlots == {loop, rest}
\* Only fairness tells the loop's slot from the other: the safety properties do not.
AnySlot == Permutations(TwoSlots)
OneProgram == {p1}
NeverSettled == {}
DownOrStandby == {"down", "standby"}
MainCodes == {"off", "standby", "operating", "unreadable"}
ThreeCodes == {"standby", "operating", "unreadable"}
TwoCodes == {"standby", "operating"}
=============================================================================
