---------------------------- MODULE MCTestTimes -----------------------------
(* The idle task, QEMU's vCPU thread and its I/O thread, and a task that is  *)
(* neither, whose pid netperf has in the guest; a kick and another exit.    *)
EXTENDS TestTimes

CONSTANTS idle, vcpu, iothread, other, kick, eoi

(* Instants chosen so that different sums of intervals differ. *)
MCTime == [n \in 1 .. MaxTrace |-> 3 ^ n]
=============================================================================
