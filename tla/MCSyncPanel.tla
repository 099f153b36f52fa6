---------------------------- MODULE MCSyncPanel ----------------------------
(* A folder and one in it, one config at first and one run.                  *)
EXTENDS SyncPanel
MCDirs == {"root", "sub"}
MCAbove == [d \in MCDirs |-> IF d = "sub" THEN "root" ELSE None]
MCDefault == [folder |-> "root", enabled |-> TRUE]
MCFirst == [c \in {1} |-> MCDefault]
=============================================================================
