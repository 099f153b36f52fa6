------------------------------ MODULE MCPages ------------------------------
EXTENDS Pages
MCMachines == {"m1", "m2"}
MCFiles == {"O1", "T"}
MCPrograms == {"O1"}
MCDisk == [m \in MCMachines |-> [p \in Paths |-> IF m = "m1" /\ p = Dir THEN MCPrograms ELSE MCFiles]]
MCDefault == [m \in MCMachines |-> IF m = "m1" THEN Root ELSE Dir]
MCLinks == {[m |-> None, f |-> None, p |-> None], [m |-> "m2", f |-> "O1", p |-> Root]}
MCStores == {{<<"m1", Dir>>, <<"m2", Root>>}}
MCOpened == {"m1"}
MCCards == {"m2"}
MCNumbers == {"O1"}

MCCnc == {"m", "n"}
MCCompressors == {"c"}
MCExisting == {"m", "c"}
MCConfigs == 1..2
MCGridRows == {"tools", "psi"}
=============================================================================
