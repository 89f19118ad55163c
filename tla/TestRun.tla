------------------------------ MODULE TestRun -------------------------------
(***************************************************************************)
(* utils/test_base.py: TestBase.run() drives one VM object after the other *)
(* through setup, run, the measurements and teardown.  A session is one    *)
(* Python process; it ends when run() returns or an exception leaves it,   *)
(* and the host and its QEMU processes outlive it.  Sessions follow each   *)
(* other without a bound on their number.                                  *)
(***************************************************************************)
EXTENDS QemuVM, Sequences

CONSTANTS
    VmList,         \* TestBase._vms
    Enabled         \* the VM objects with enabled = True

ASSUME TestAssumption ==
    /\ VmList \in Seq(VM)
    /\ Enabled \subseteq VM

VARIABLES
    session,        \* is a Python process running, how the last one ended,
                    \* or "none": there was none since the host booted
    index           \* the position of run()'s loop in VmList

runVars == <<session, index>>
vars    == <<vmVars, runVars>>

TypeOK ==
    /\ VMTypeOK
    /\ session \in {"none", "running", "aborted", "finished"}
    /\ index \in 1 .. Len(VmList) + 1

NoneActive == \A v \in VM : pc[v] = "idle"

Init ==
    /\ HostBooted
    /\ FreshObjects
    /\ session = "none"
    /\ index = 1

StartSession ==
    /\ session # "running"
    /\ session' = "running"
    /\ index' = 1
    /\ UNCHANGED vmVars

(* run(): the loop takes the next VM; run_vm begins with setup(). *)
RunVM ==
    /\ session = "running"
    /\ NoneActive
    /\ index <= Len(VmList)
    /\ VmList[index] \in Enabled
    /\ pc' = [pc EXCEPT ![VmList[index]] = "netserver"]
    /\ UNCHANGED <<hostVars, tapDevice, pid, own, mon, runVars>>

(* A disabled VM only has its old results loaded. *)
LoadOldVmData ==
    /\ session = "running"
    /\ NoneActive
    /\ index <= Len(VmList)
    /\ VmList[index] \notin Enabled
    /\ index' = index + 1
    /\ UNCHANGED <<vmVars, session>>

(* run_vm's try block ends: all repetitions are done, a test raised, or    *)
(* Ctrl-C arrived.  Nothing leaves it; finally calls teardown().           *)
AfterTestsNoFinally  == "raised"    \* mutant: what a test raises is not caught
AfterTestsNoShutdown == "reset"     \* mutant: teardown without a poweroff
AfterTests == "shutdown"

EndOfTests(v) ==
    /\ Step(v, "test", AfterTests)
    /\ UNCHANGED <<hostVars, tapDevice, pid, own, mon, runVars>>

(* setup() and run() are called before the try block, so what they raise   *)
(* leaves run() without a teardown; so does what teardown() raises.        *)
Propagate(v) ==
    /\ pc[v] = "raised"
    /\ ObjectsReset
    /\ session' = "aborted"
    /\ index' = 1
    /\ UNCHANGED hostVars

(* pre_run, load_old_vm_data or Ctrl-C between two VMs raises. *)
LoopRaises ==
    /\ session = "running"
    /\ NoneActive
    /\ ObjectsReset
    /\ session' = "aborted"
    /\ index' = 1
    /\ UNCHANGED hostVars

Finish ==
    /\ session = "running"
    /\ NoneActive
    /\ index = Len(VmList) + 1
    /\ ObjectsReset
    /\ session' = "finished"
    /\ index' = 1
    /\ UNCHANGED hostVars

Reboot ==
    /\ HostReboots
    /\ ObjectsReset
    /\ session' = "none"
    /\ index' = 1

NextIndexEachCall(v) == index + 1   \* mutant: advanced by every call
NextIndex(v) == IF pc'[v] = "idle" THEN index + 1 ELSE index

VmStep(v) ==
    /\ Setup(v) \/ Run(v) \/ Teardown(v)
    /\ index' = NextIndex(v)
    /\ UNCHANGED session

Harness ==
    \/ RunVM \/ LoadOldVmData \/ Finish
    \/ \E v \in VM : VmStep(v) \/ EndOfTests(v) \/ Propagate(v)

Fault ==
    \/ LoopRaises
    \/ \E v \in VM : Raises(v) /\ UNCHANGED runVars

Environment ==
    \/ \E p \in Pid : (QemuStarts(p) \/ QemuExits(p)) /\ UNCHANGED <<objVars, runVars>>
    \/ Reboot

Next == StartSession \/ Harness \/ Fault \/ Environment

Spec == Init /\ [][Next]_vars

(***************************************************************************)
(* Fairness: the harness is a sequential program whose commands return; a  *)
(* command that cannot succeed raises; a QEMU whose guest powers off ends. *)
(* None for faults, crashes, reboots and new sessions.                     *)
(***************************************************************************)
Fairness ==
    /\ WF_vars(Harness)
    /\ WF_vars(\E v \in VM : MustRaise(v) /\ SetupOrRunRaises(v) /\ UNCHANGED runVars)
    /\ \A p \in Pid :
        WF_vars(/\ qemu[p] # "up"
                /\ QemuStarts(p) \/ QemuExits(p)
                /\ UNCHANGED <<objVars, runVars>>)

FairSpec == Spec /\ Fairness

-----------------------------------------------------------------------------
(* From create_tun's success to the end of delete_tun's loop, tap0 is v's. *)
Holding(v) ==
    pc[v] \in {"link", "hostcfg", "launch", "params", "pin", "connect", "boot",
               "test", "shutdown", "reset", "deltun"}

(***************************************************************************)
(* While v is configured and measured, the only QEMU on the host is the    *)
(* one v's own _run launched, and v.qmp talks to it: neither a QEMU leaked *)
(* by an aborted session nor one of another VM is measured in its place,   *)
(* although all of them share port 1235, tap0 and the guest's address.     *)
(***************************************************************************)
MeasuresOwnQemu ==
    \A v \in VM :
        pc[v] \in {"boot", "test"} => Live \subseteq {own[v]} /\ mon[v] = own[v]

(* taskset, renice and SIGUSR1 go to the QEMU of this run: the cached pid  *)
(* is never that of an earlier one.                                        *)
PidIsOwn ==
    \A v \in VM : pid[v] # NoPid => pid[v] = own[v]

(***************************************************************************)
(* While v is measured, the host is configured for v: checksums are off    *)
(* exactly for a QemuE1000Max on a kernel that can, and no netserver runs  *)
(* on another VM's core, whatever was interrupted before, unless the last  *)
(* command for that very setting failed and was ignored: one write-back    *)
(* that slips leaves the sysctl off for every later VM that is not an      *)
(* E1000Max, in this session and the next, until one of these writes it.   *)
(***************************************************************************)
MeasuresOwnConfiguration ==
    \A v \in VM : pc[v] = "test" =>
        /\ "csum" \notin slips => csumOff = (v \in CsumOffVM /\ SysctlPresent)
        /\ "netserver" \notin slips => netserver \in {NetserverCore[v], NoCore}

(***************************************************************************)
(* As long as a QEMU is left on the host, tap0 exists and create_tun's     *)
(* assertion keeps the next run from starting; so does a sysctl that an    *)
(* interrupted run has set, unless its write-back has failed unnoticed.    *)
(***************************************************************************)
TapGuardsHost ==
    /\ Live # {} => 0 \in taps
    /\ csumOff /\ "csum" \notin slips => 0 \in taps

(***************************************************************************)
(* A session whose run() returned after running a VM leaves no tap and no  *)
(* QEMU; sysctl, kvm-intel and netserver are as after a boot, each unless  *)
(* the last command that should have seen to it failed and was ignored.    *)
(***************************************************************************)
RanBefore(n) == \E i \in 1 .. n - 1 : VmList[i] \in Enabled

CleanFinish == session = "finished" /\ RanBefore(Len(VmList) + 1) => HostIsClean

(* A VM with disable_kvm_poll is measured on a host that does not poll. *)
NoPollHonoured ==
    \A v \in NoPollVM : pc[v] = "test" => kvm = "nopoll"

(***************************************************************************)
(* Every session ends, unless teardown is left waiting for a guest that    *)
(* it asked to power off and that did not: delete_tun's loop has no exit.  *)
(***************************************************************************)
WaitsForGuest(v) == pc[v] = "deltun" /\ own[v] \in Up /\ mon[v] = NoPid

SessionEnds ==
    session = "running" ~> session # "running" \/ \E v \in VM : WaitsForGuest(v)

-----------------------------------------------------------------------------
(* tap0 is a lease on the host: TestRun implements HostLease. *)
lease == IF session = "none" THEN "booted"
         ELSE IF 0 \notin taps THEN "free"
         ELSE IF \E v \in VM : Holding(v) THEN "held" ELSE "lost"

occupied  == Live # {}
slipped   == "csum" \in slips
measuring == \E v \in VM : pc[v] = "test"

Lease == INSTANCE HostLease
         WITH lease <- lease, occupied <- occupied, altered <- csumOff,
              slipped <- slipped, measuring <- measuring

LeaseSpec == Lease!Spec
=============================================================================
