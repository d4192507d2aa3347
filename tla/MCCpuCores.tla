----------------------------- MODULE MCCpuCores -----------------------------
(* CpuCores for TLC: three CPUs on two packages whose cores have the same  *)
(* numbers.                                                                *)
EXTENDS CpuCores

Home(package, core) == [package |-> package, core |-> core]
MCHomes == <<Home(0, 0), Home(1, 0), Home(0, 1)>>
=============================================================================
