------------------------------ MODULE MCBackup ------------------------------
(***************************************************************************)
(* Instances of Backup for TLC.                                            *)
(***************************************************************************)
EXTENDS Backup

CONSTANTS b1, b2

\* What the two kinds of cleanup leave: 50 and 10 in the script.
TwoManualOneAuto == [manual |-> 2, auto |-> 1]

\* The year ends before the last of the times.
YearsOfFour == [t \in Time |-> t \div 4]
=============================================================================
