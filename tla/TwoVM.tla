------------------------------- MODULE TwoVM --------------------------------
(***************************************************************************)
(* utils/test_base.py: TestBase2VM.run() measures traffic between pairs of *)
(* VMs: it sets up and runs vm1, then vm2, measures, and tears vm2 and vm1 *)
(* down.  test_qemu_regular_vm2vm.py runs it with pairs of Qemu objects.   *)
(***************************************************************************)
EXTENDS QemuVM, Sequences

CONSTANT VmPairs        \* TestBase2VM._vms: a sequence of <<vm1, vm2>>

VARIABLES
    session,        \* is the Python process running, and if not, how it ended
    index,          \* the position of run()'s loop in VmPairs
    measured        \* the try block of the current pair has been left

runVars == <<session, index, measured>>
vars    == <<vmVars, runVars>>

TypeOK ==
    /\ VMTypeOK
    /\ session \in {"running", "aborted", "finished"}
    /\ index \in 1 .. Len(VmPairs) + 1
    /\ measured \in BOOLEAN

Init ==
    /\ HostBooted
    /\ FreshObjects
    /\ session = "running"
    /\ index = 1
    /\ measured = FALSE

VM1 == VmPairs[index][1]
VM2 == VmPairs[index][2]

InPair == session = "running" /\ index <= Len(VmPairs)

(* The method call that comes next in the body of run()'s loop. *)
Call(v, from, to) ==
    /\ Step(v, from, to)
    /\ UNCHANGED <<hostVars, tapDevice, pid, own, mon, session, index>>

SetupVM1 ==
    /\ InPair /\ ~measured
    /\ pc[VM2] = "idle"
    /\ Call(VM1, "idle", "netserver")
    /\ UNCHANGED measured

SetupVM2 ==
    /\ InPair /\ ~measured
    /\ pc[VM1] = "test"
    /\ Call(VM2, "idle", "netserver")
    /\ UNCHANGED measured

(* The try block ends; finally tears vm2 down first. *)
TeardownVM2 ==
    /\ InPair /\ ~measured
    /\ pc[VM1] = "test"
    /\ Call(VM2, "test", "shutdown")
    /\ measured' = TRUE

TeardownVM1 ==
    /\ InPair /\ measured
    /\ pc[VM2] = "idle"
    /\ Call(VM1, "test", "shutdown")
    /\ UNCHANGED measured

NextPair ==
    /\ InPair /\ measured
    /\ pc[VM1] = "idle" /\ pc[VM2] = "idle"
    /\ index' = index + 1
    /\ measured' = FALSE
    /\ UNCHANGED <<vmVars, session>>

Finish ==
    /\ session = "running" /\ index = Len(VmPairs) + 1
    /\ ObjectsReset
    /\ session' = "finished"
    /\ UNCHANGED <<hostVars, index, measured>>

(* Setup and run are outside the try block: what they raise ends the session. *)
Propagate ==
    /\ \E v \in VM : pc[v] = "raised"
    /\ ObjectsReset
    /\ session' = "aborted"
    /\ UNCHANGED <<hostVars, index, measured>>

Harness ==
    \/ SetupVM1 \/ SetupVM2 \/ TeardownVM2 \/ TeardownVM1
    \/ NextPair \/ Finish \/ Propagate
    \/ \E v \in VM : (Setup(v) \/ Run(v) \/ Teardown(v)) /\ UNCHANGED runVars

Fault == \E v \in VM : Raises(v) /\ UNCHANGED runVars

QemuWorks ==
    \E p \in Pid :
        /\ QemuStarts(p) \/ (qemu[p] = "stopping" /\ QemuExits(p))
        /\ UNCHANGED <<objVars, runVars>>

QemuCrashes == \E p \in Pid : QemuExits(p) /\ UNCHANGED <<objVars, runVars>>

Next == Harness \/ Fault \/ QemuWorks \/ QemuCrashes

Spec == Init /\ [][Next]_vars

(* Every command succeeds, no QEMU crashes and nobody presses Ctrl-C. *)
FaultFreeSpec == Init /\ [][Harness \/ QemuWorks]_vars

(***************************************************************************)
(* create_tun asserts that the tap it is given is tap0.  On a freshly      *)
(* booted host on which nothing fails, the assertion holds for every VM.   *)
(***************************************************************************)
TapAssertionHolds == \A v \in VM : tapDevice[v] \in {0, NoTap}
=============================================================================
