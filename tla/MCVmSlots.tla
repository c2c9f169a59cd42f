------------------------------ MODULE MCVmSlots ------------------------------
(* VmSlots for TLC.  Slots are numbered and the lowest one is taken, but runs *)
(* are only compared: permuting them is sound for the safety runs.            *)
EXTENDS VmSlots, TLC
RunSymmetry == Permutations(Runs)
=============================================================================
