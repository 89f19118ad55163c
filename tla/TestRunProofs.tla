--------------------------- MODULE TestRunProofs ----------------------------
(***************************************************************************)
(* Proofs that TestRun keeps its invariants for every set of VMs and       *)
(* processes, every VmList and every number of taps and sessions.          *)
(***************************************************************************)
EXTENDS TestRun, SequenceTheorems, TLAPS

(* Only the VM the loop is at has left "idle". *)
ActiveIsCurrent ==
    \A v \in VM : pc[v] # "idle" =>
        session = "running" /\ index <= Len(VmList) /\ v = VmList[index]

(* Every QEMU has tap0 open. *)
LiveHaveTap ==
    /\ \A p \in Live : qtap[p] = 0
    /\ Live # {} => 0 \in taps

(* tap0 exists whenever any tap does, and is the only one while it is held. *)
TapZero ==
    /\ 0 \notin taps => taps = {}
    /\ \A v \in VM : Holding(v) => tapDevice[v] = 0 /\ taps = {0}
    /\ \A v \in VM : pc[v] \in {"unload", "stopns"} => taps = {}

(* Nothing runs before the launch, and after it only what was launched. *)
LiveIsOwn ==
    \A v \in VM :
        /\ pc[v] \in {"link", "hostcfg", "launch"} => Live = {}
        /\ Holding(v) => Live \subseteq {own[v]}

(* The pid cache is empty up to the launch and after the shutdown, and never *)
(* holds the pid of another process.                                         *)
PidCache ==
    \A v \in VM :
        /\ pid[v] # NoPid => pid[v] = own[v]
        /\ pc[v] \in {"idle", "launch", "reset", "deltun", "unload", "stopns"} \cup SetupStages =>
             pid[v] = NoPid
        /\ pc[v] \in {"boot", "test"} => mon[v] = own[v]

(* But for a write that slipped, the sysctl is set only while tap0 exists,   *)
(* and follows the VM that holds it.                                         *)
Sysctl ==
    "csum" \notin slips =>
        /\ csumOff => 0 \in taps
        /\ \A v \in VM :
            /\ pc[v] \in {"link", "hostcfg", "deltun"} => ~csumOff
            /\ pc[v] \in RunStages \cup {"test", "shutdown", "reset"} =>
                 (csumOff <=> v \in CsumOffVM /\ SysctlPresent)

Netserver ==
    \A v \in VM :
        pc[v] \notin {"idle", "netserver", "raised"} /\ "netserver" \notin slips =>
            netserver \in {NetserverCore[v], NoCore}

Safe == LiveHaveTap /\ TapZero /\ LiveIsOwn /\ PidCache /\ Sysctl /\ Netserver

(* Until the first session after a boot, there is no tap and no QEMU. *)
Booted == session = "none" => taps = {} /\ Live = {}

IInv == TypeOK /\ ActiveIsCurrent /\ Safe /\ Booted

-----------------------------------------------------------------------------
(* Type correctness: TypeOK needs ActiveIsCurrent to bound the loop index. *)

(* The host as booted, and objects as created, are well-typed. *)
LEMMA InitType == Init => TypeOK /\ ActiveIsCurrent
<1> SUFFICES ASSUME Init PROVE TypeOK /\ ActiveIsCurrent
  OBVIOUS
<1> USE HostAssumption, VMAssumption, TestAssumption DEF Init
<1>1. HostTypeOK
  <2>1. 0 \in Tap
    BY DEF Tap
  <2>2. QED
    BY <2>1 DEF HostTypeOK, HostBooted
<1>2. VMTypeOK
  BY <1>1 DEF VMTypeOK, FreshObjects, Stages
<1>3. index \in 1 .. Len(VmList) + 1
  BY LenProperties
<1>4. QED
  BY <1>2, <1>3 DEF TypeOK, ActiveIsCurrent, FreshObjects

(* One object goes on to its next command. *)
LEMMA StepType ==
  ASSUME pc \in [VM -> Stages], NEW v \in VM, NEW from, NEW to \in Stages,
         Step(v, from, to)
  PROVE  pc' \in [VM -> Stages] /\ pc[v] = from /\ pc'[v] = to
         /\ \A w \in VM : w # v => pc'[w] = pc[w]
BY DEF Step

(* Whether an unchecked command works or slips, only such commands are noted. *)
LEMMA SlipType ==
  ASSUME slips \subseteq Unchecked, NEW what \in {"csum", "kvm", "netserver"},
         Works(what) \/ Slips(what)
  PROVE  slips' \subseteq Unchecked
BY DEF Works, Slips, Unchecked

(* get_pid answers a process or none. *)
LEMMA GetPidType ==
  ASSUME VMTypeOK, NEW v \in VM
  PROVE  GetPid(v) \in Pid \cup {NoPid}
BY DEF VMTypeOK, GetPid, Live

(* The steps of a VM method keep the types, whoever calls the method. *)
LEMMA VmStepType ==
  ASSUME VMTypeOK, NEW v \in VM, Setup(v) \/ Run(v) \/ Teardown(v) \/ Raises(v)
  PROVE  /\ VMTypeOK'
         /\ pc[v] # "idle"
         /\ \A w \in VM : w # v => pc'[w] = pc[w]
<1> USE HostAssumption, VMAssumption
<1> USE DEF VMTypeOK, HostTypeOK, hostVars
<1>a. {"idle", "test", "raised", "netserver", "kvm", "tun", "link", "hostcfg", "launch",
       "params", "pin", "connect", "boot", "shutdown", "reset", "deltun", "unload",
       "stopns"} = Stages
  BY DEF Stages, SetupStages, RunStages, TeardownStages
<1>1. CASE RestartNetserver(v)
  <2>1. slips' \subseteq Unchecked /\ netserver' \in Core \cup {NoCore}
    BY <1>1, SlipType DEF RestartNetserver
  <2>2. pc' \in [VM -> Stages] /\ pc[v] # "idle" /\ \A w \in VM : w # v => pc'[w] = pc[w]
    BY <1>1, <1>a, StepType DEF RestartNetserver
  <2>3. QED
    BY <1>1, <2>1, <2>2 DEF RestartNetserver
<1>2. CASE LoadKvm(v)
  BY <1>2, <1>a, StepType DEF LoadKvm, DisableKvmPoll
<1>3. CASE CreateTun(v)
  BY <1>3, <1>a, StepType DEF CreateTun, TunOutcome, IsFirstFreeTap
<1>4. CASE LinkUp(v)
  BY <1>4, <1>a, StepType DEF LinkUp
<1>5. CASE ConfigureHost(v)
  <2>1. slips' \subseteq Unchecked /\ csumOff' \in BOOLEAN
    BY <1>5, SlipType DEF ConfigureHost, WriteSysctl
  <2>2. pc' \in [VM -> Stages] /\ pc[v] # "idle" /\ \A w \in VM : w # v => pc'[w] = pc[w]
    BY <1>5, <1>a, StepType DEF ConfigureHost
  <2>3. QED
    BY <1>5, <2>1, <2>2 DEF ConfigureHost
<1>6. CASE Launch(v)
  <2>1. /\ pc' \in [VM -> Stages] /\ pc[v] = "launch"
        /\ \A w \in VM : w # v => pc'[w] = pc[w]
    BY <1>6, <1>a, StepType DEF Launch
  <2>2. PICK p \in Pid \ Live :
          /\ qemu' = [qemu EXCEPT ![p] = "starting"]
          /\ qtap' = [qtap EXCEPT ![p] = tapDevice[v]]
          /\ own' = [own EXCEPT ![v] = p]
    BY <1>6 DEF Launch
  <2>3. QED
    BY <1>6, <2>1, <2>2 DEF Launch
<1>7. CASE ChangeParameters(v)
  <2>1. pid' \in [VM -> Pid \cup {NoPid}]
    BY <1>7, GetPidType DEF ChangeParameters, UsePid
  <2>2. QED
    BY <1>7, <2>1, <1>a, StepType DEF ChangeParameters
<1>8. CASE PinProcess(v)
  <2>1. pid' \in [VM -> Pid \cup {NoPid}]
    BY <1>8, GetPidType DEF PinProcess, UsePid
  <2>2. QED
    BY <1>8, <2>1, <1>a, StepType DEF PinProcess
<1>9. CASE Connect(v)
  BY <1>9, <1>a, StepType DEF Connect, Listening
<1>10. CASE ConfigureGuest(v)
  BY <1>10, <1>a, StepType DEF ConfigureGuest
<1>11. CASE Shutdown(v)
  <2>1. qemu' \in [Pid -> {"gone", "starting", "up", "stopping"}]
    BY <1>11 DEF Shutdown, PidAfterShutdown, Up
  <2>2. QED
    BY <1>11, <2>1, <1>a, StepType DEF Shutdown, PidAfterShutdown
<1>12. CASE ResetHostConfiguration(v)
  <2>1. slips' \subseteq Unchecked /\ csumOff' \in BOOLEAN
    BY <1>12, SlipType DEF ResetHostConfiguration, WriteSysctl, CsumOffAfterReset
  <2>2. pc' \in [VM -> Stages] /\ pc[v] # "idle" /\ \A w \in VM : w # v => pc'[w] = pc[w]
    BY <1>12, <1>a, StepType DEF ResetHostConfiguration
  <2>3. QED
    BY <1>12, <2>1, <2>2 DEF ResetHostConfiguration
<1>13. CASE DeleteTun(v)
  BY <1>13, <1>a, StepType DEF DeleteTun, TapFree
<1>14. CASE UnloadKvm(v)
  <2>1. slips' \subseteq Unchecked /\ kvm' \in {"unloaded", "polling", "nopoll"}
    BY <1>14, SlipType DEF UnloadKvm
  <2>2. pc' \in [VM -> Stages] /\ pc[v] # "idle" /\ \A w \in VM : w # v => pc'[w] = pc[w]
    BY <1>14, <1>a, StepType DEF UnloadKvm
  <2>3. QED
    BY <1>14, <2>1, <2>2 DEF UnloadKvm
<1>15. CASE StopNetserver(v)
  <2>1. slips' \subseteq Unchecked /\ netserver' \in Core \cup {NoCore}
    BY <1>15, SlipType DEF StopNetserver
  <2>2. pc' \in [VM -> Stages] /\ pc[v] # "idle" /\ \A w \in VM : w # v => pc'[w] = pc[w]
    BY <1>15, <1>a, StepType DEF StopNetserver
  <2>3. QED
    BY <1>15, <2>1, <2>2 DEF StopNetserver
<1>16. CASE Raises(v)
  BY <1>16, <1>a DEF Raises, SetupOrRunRaises, TeardownRaises, SetupStages, RunStages,
     TeardownStages
<1>17. QED
  BY <1>1, <1>2, <1>3, <1>4, <1>5, <1>6, <1>7, <1>8, <1>9, <1>10, <1>11, <1>12, <1>13,
     <1>14, <1>15, <1>16 DEF Setup, Run, Teardown

(* The guards of run() that keep the loop index and the active VM in step. *)
LEMMA TypeStep == TypeOK /\ ActiveIsCurrent /\ [Next]_vars => TypeOK' /\ ActiveIsCurrent'
<1> SUFFICES ASSUME TypeOK, ActiveIsCurrent, [Next]_vars
             PROVE  TypeOK' /\ ActiveIsCurrent'
  OBVIOUS
<1> USE HostAssumption, VMAssumption, TestAssumption
<1>l. Len(VmList) \in Nat
  BY LenProperties
<1>o. ASSUME ObjectsReset, HostTypeOK', session' \in {"none", "aborted", "finished"}, index' = 1
      PROVE  TypeOK' /\ ActiveIsCurrent'
  BY <1>o, <1>l DEF ObjectsReset, TypeOK, VMTypeOK, ActiveIsCurrent, Stages
<1>h. UNCHANGED hostVars => HostTypeOK'
  BY DEF TypeOK, VMTypeOK, HostTypeOK, hostVars, Live, Tap
<1>1. CASE StartSession
  BY <1>1, <1>l DEF StartSession, TypeOK, VMTypeOK, HostTypeOK, vmVars, hostVars, objVars,
     ActiveIsCurrent
<1>2. CASE RunVM
  <2>1. VmList[index] \in VM
    BY <1>2, <1>l DEF RunVM, TypeOK
  <2>2. pc' \in [VM -> Stages]
    BY <1>2 DEF RunVM, TypeOK, VMTypeOK, Stages, SetupStages
  <2>3. TypeOK'
    BY <1>2, <2>2, <1>h DEF RunVM, TypeOK, VMTypeOK, runVars
  <2>4. ActiveIsCurrent'
    BY <1>2, <2>1 DEF RunVM, TypeOK, VMTypeOK, ActiveIsCurrent, NoneActive, runVars
  <2>5. QED
    BY <2>3, <2>4
<1>3. CASE LoadOldVmData
  BY <1>3, <1>l DEF LoadOldVmData, TypeOK, VMTypeOK, HostTypeOK, vmVars, hostVars, objVars,
     ActiveIsCurrent, NoneActive
<1>4. CASE Finish
  BY <1>4, <1>h, <1>o DEF Finish
<1>5. CASE LoopRaises
  BY <1>5, <1>h, <1>o DEF LoopRaises
<1>6. CASE Reboot
  <2>1. HostTypeOK'
    BY <1>6 DEF Reboot, HostReboots, TypeOK, VMTypeOK, HostTypeOK, Tap
  <2>2. QED
    BY <1>6, <2>1, <1>o DEF Reboot
<1>7. ASSUME NEW v \in VM, VmStep(v) \/ (Raises(v) /\ UNCHANGED runVars)
      PROVE  TypeOK' /\ ActiveIsCurrent'
  <2>1. /\ VMTypeOK' /\ pc[v] # "idle"
        /\ \A w \in VM : w # v => pc'[w] = pc[w]
    BY <1>7, VmStepType DEF VmStep, NextIndex, TypeOK
  <2>2. session = "running" /\ index <= Len(VmList) /\ v = VmList[index]
    BY <2>1 DEF ActiveIsCurrent
  <2>3. session' = session /\ index' = (IF pc'[v] = "idle" THEN index + 1 ELSE index)
    <3>1. CASE VmStep(v)
      BY <3>1 DEF VmStep, NextIndex
    <3>2. CASE Raises(v) /\ UNCHANGED runVars
      BY <3>2 DEF Raises, SetupOrRunRaises, TeardownRaises, runVars, TypeOK, VMTypeOK
    <3>3. QED
      BY <1>7, <3>1, <3>2
  <2>4. TypeOK'
    BY <2>1, <2>2, <2>3, <1>l DEF TypeOK
  <2>5. ActiveIsCurrent'
    BY <2>1, <2>2, <2>3 DEF ActiveIsCurrent
  <2>6. QED
    BY <2>4, <2>5
<1>8. ASSUME NEW v \in VM, EndOfTests(v)
      PROVE  TypeOK' /\ ActiveIsCurrent'
  <2>1. pc' \in [VM -> Stages] /\ pc[v] = "test"
        /\ \A w \in VM : w # v => pc'[w] = pc[w]
    BY <1>8, StepType DEF EndOfTests, AfterTests, TypeOK, VMTypeOK, Stages, TeardownStages
  <2>2. TypeOK'
    BY <1>8, <1>h, <2>1 DEF EndOfTests, AfterTests, TypeOK, VMTypeOK, runVars
  <2>3. QED
    BY <1>8, <2>1, <2>2 DEF EndOfTests, AfterTests, ActiveIsCurrent, runVars
<1>9. ASSUME NEW v \in VM, Propagate(v)
      PROVE  TypeOK' /\ ActiveIsCurrent'
  BY <1>9, <1>h, <1>o DEF Propagate
<1>10. ASSUME NEW p \in Pid, QemuStarts(p) \/ QemuExits(p), UNCHANGED <<objVars, runVars>>
       PROVE  TypeOK' /\ ActiveIsCurrent'
  <2>1. HostTypeOK'
    BY <1>10 DEF QemuStarts, QemuExits, TypeOK, VMTypeOK, HostTypeOK
  <2>2. QED
    BY <1>10, <2>1 DEF objVars, runVars, TypeOK, VMTypeOK, ActiveIsCurrent
<1>11. CASE UNCHANGED vars
  BY <1>11, <1>h DEF vars, vmVars, objVars, runVars, TypeOK, VMTypeOK, ActiveIsCurrent
<1>12. QED
  BY <1>1, <1>2, <1>3, <1>4, <1>5, <1>6, <1>7, <1>8, <1>9, <1>10, <1>11
  DEF Next, Harness, Fault, Environment

(* Every run of the harness keeps every variable within its type. *)
THEOREM TypeCorrect == Spec => [](TypeOK /\ ActiveIsCurrent)
BY InitType, TypeStep, PTL DEF Spec

-----------------------------------------------------------------------------
(* Safety. *)

(* Every command of a VM method keeps the host's invariant. *)
LEMMA VmStepSafe ==
  ASSUME IInv, NEW v \in VM, Setup(v) \/ Run(v) \/ Teardown(v) \/ Raises(v)
  PROVE  Safe'
<1> USE HostAssumption, VMAssumption
<1>o. \A w \in VM : w # v => pc[w] = "idle" /\ pc'[w] = "idle"
  BY VmStepType DEF IInv, TypeOK, ActiveIsCurrent
<1> USE DEF IInv, TypeOK, VMTypeOK, HostTypeOK, hostVars, Step, SetupStages, RunStages,
        Safe, LiveHaveTap, TapZero, LiveIsOwn, PidCache, Sysctl, Netserver, Holding,
        Works, Slips, WriteSysctl
<1>1. CASE RestartNetserver(v)
  BY <1>1, <1>o DEF RestartNetserver, Live
<1>2. CASE LoadKvm(v)
  BY <1>2, <1>o DEF LoadKvm, Live
<1>3. CASE CreateTun(v)
  <2>1. PICK t \in Tap :
          /\ IsFirstFreeTap(t)
          /\ Step(v, "tun", TunOutcome(t))
          /\ taps' = taps \cup {t}
          /\ tapDevice' = [tapDevice EXCEPT ![v] = t]
          /\ UNCHANGED <<kvm, csumOff, netserver, qemu, qtap, slips, pid, own, mon>>
    BY <1>3 DEF CreateTun
  <2>2. Live' = Live
    BY <2>1 DEF Live
  <2>3. CASE t = 0
    <3>1. /\ pc[v] = "tun" /\ pc'[v] = "link" /\ tapDevice'[v] = 0
          /\ taps' = {0} /\ Live = {} /\ ("csum" \notin slips => ~csumOff)
      BY <2>1, <2>3 DEF TunOutcome, IsFirstFreeTap
    <3>2. QED
      BY <2>1, <2>2, <3>1, <1>o
  <2>4. CASE t # 0
    <3>1. 0 \in taps
      BY <2>1, <2>4 DEF IsFirstFreeTap, Tap
    <3>2. QED
      BY <2>1, <2>2, <2>4, <3>1, <1>o DEF TunOutcome
  <2>5. QED
    BY <2>3, <2>4
<1>4. CASE LinkUp(v)
  BY <1>4, <1>o DEF LinkUp, Live
<1>5. CASE ConfigureHost(v)
  BY <1>5, <1>o DEF ConfigureHost, Live
<1>6. CASE Launch(v)
  BY <1>6, <1>o DEF Launch, Live
<1>7. CASE ChangeParameters(v)
  BY <1>7, <1>o DEF ChangeParameters, UsePid, GetPid, Live
<1>8. CASE PinProcess(v)
  BY <1>8, <1>o DEF PinProcess, UsePid, GetPid, Live
<1>9. CASE Connect(v)
  BY <1>9, <1>o DEF Connect, Listening, Live
<1>10. CASE ConfigureGuest(v)
  BY <1>10, <1>o DEF ConfigureGuest, Live
<1>11. CASE Shutdown(v)
  <2>1. pc[v] = "shutdown" /\ pc'[v] = "reset" /\ pid'[v] = NoPid /\ mon'[v] = NoPid
    BY <1>11 DEF Shutdown, PidAfterShutdown
  <2>2. Live' = Live
    BY <1>11 DEF Shutdown, PidAfterShutdown, Up, Live
  <2>3. QED
    BY <1>11, <2>1, <2>2, <1>o DEF Shutdown, PidAfterShutdown
<1>12. CASE ResetHostConfiguration(v)
  <2>1. Live' = Live
    BY <1>12 DEF ResetHostConfiguration, CsumOffAfterReset, Live
  <2>2. LiveHaveTap' /\ TapZero' /\ LiveIsOwn'
    BY <1>12, <2>1, <1>o DEF ResetHostConfiguration, CsumOffAfterReset
  <2>3. PidCache' /\ Sysctl' /\ Netserver'
    BY <1>12, <1>o DEF ResetHostConfiguration, CsumOffAfterReset
  <2>4. QED
    BY <2>2, <2>3
<1>13. CASE DeleteTun(v)
  <2>1. /\ pc[v] = "deltun" /\ pc'[v] = "unload" /\ Live' = Live
        /\ Live = {} /\ taps' = {}
    BY <1>13 DEF DeleteTun, TapFree, HoldersOf, Live
  <2>2. QED
    BY <1>13, <2>1, <1>o DEF DeleteTun, TapFree
<1>14. CASE UnloadKvm(v)
  <2>1. Live' = Live
    BY <1>14 DEF UnloadKvm, Live
  <2>2. LiveHaveTap' /\ TapZero' /\ LiveIsOwn'
    BY <1>14, <2>1, <1>o DEF UnloadKvm
  <2>3. PidCache' /\ Sysctl' /\ Netserver'
    BY <1>14, <1>o DEF UnloadKvm
  <2>4. QED
    BY <2>2, <2>3
<1>15. CASE StopNetserver(v)
  <2>1. pc[v] = "stopns" /\ pc'[v] = "idle" /\ Live' = Live
    BY <1>15 DEF StopNetserver, Live
  <2>2. LiveHaveTap' /\ TapZero' /\ LiveIsOwn'
    BY <1>15, <2>1, <1>o DEF StopNetserver
  <2>3. Sysctl' /\ Netserver'
    BY <1>15, <2>1, <1>o DEF StopNetserver
  <2>4. PidCache'
    BY <1>15, <2>1, <1>o DEF StopNetserver
  <2>5. QED
    BY <2>2, <2>3, <2>4
<1>16. CASE Raises(v)
  <2>1. pc'[v] = "raised" /\ Live' = Live /\ UNCHANGED <<hostVars, tapDevice, pid, own, mon>>
    BY <1>16 DEF Raises, SetupOrRunRaises, TeardownRaises, Live
  <2>2. LiveHaveTap' /\ TapZero' /\ LiveIsOwn'
    BY <2>1, <1>o
  <2>3. PidCache' /\ Sysctl' /\ Netserver'
    BY <2>1, <1>o
  <2>4. QED
    BY <2>2, <2>3
<1>17. QED
  BY <1>1, <1>2, <1>3, <1>4, <1>5, <1>6, <1>7, <1>8, <1>9, <1>10, <1>11, <1>12, <1>13,
     <1>14, <1>15, <1>16 DEF Setup, Run, Teardown

(* So does every step of the harness and of the host. *)
LEMMA StepSafe == IInv /\ [Next]_vars => Safe'
<1> SUFFICES ASSUME IInv, [Next]_vars PROVE Safe'
  OBVIOUS
<1> USE HostAssumption, VMAssumption, TestAssumption
<1> USE DEF IInv, Safe, LiveHaveTap, TapZero, LiveIsOwn, PidCache, Sysctl, Netserver,
        Holding, SetupStages, RunStages
<1>o. ASSUME ObjectsReset, UNCHANGED hostVars PROVE Safe'
  BY <1>o DEF ObjectsReset, hostVars, Live
<1>u. ASSUME UNCHANGED vmVars PROVE Safe'
  BY <1>u DEF vmVars, hostVars, objVars, Live
<1>1. CASE StartSession \/ LoadOldVmData
  BY <1>1, <1>u DEF StartSession, LoadOldVmData
<1>2. CASE RunVM
  <2>1. pc' \in [VM -> Stages]
    BY TypeStep, <1>2 DEF TypeOK, VMTypeOK, Next, Harness
  <2>2. \A w \in VM : pc[w] = "idle" /\ pc'[w] \in {"idle", "netserver"}
    BY <1>2 DEF RunVM, NoneActive, TypeOK, VMTypeOK
  <2>3. Live' = Live
    BY <1>2 DEF RunVM, hostVars, Live
  <2>4. QED
    BY <1>2, <2>1, <2>2, <2>3 DEF RunVM, hostVars
<1>3. CASE Finish \/ LoopRaises
  BY <1>3, <1>o DEF Finish, LoopRaises
<1>4. CASE Reboot
  BY <1>4 DEF Reboot, HostReboots, ObjectsReset, Live
<1>5. ASSUME NEW v \in VM, VmStep(v) \/ Raises(v) PROVE Safe'
  BY <1>5, VmStepSafe DEF VmStep, NextIndex
<1>6. ASSUME NEW v \in VM, EndOfTests(v) PROVE Safe'
  <2>1. /\ pc[v] = "test" /\ pc'[v] = "shutdown"
        /\ \A w \in VM : w # v => pc'[w] = pc[w]
    BY <1>6, StepType DEF EndOfTests, AfterTests, TypeOK, VMTypeOK, Stages, TeardownStages
  <2>2. Live' = Live
    BY <1>6 DEF EndOfTests, AfterTests, hostVars, Live
  <2>3. QED
    BY <1>6, <2>1, <2>2 DEF EndOfTests, AfterTests, hostVars
<1>7. ASSUME NEW v \in VM, Propagate(v) PROVE Safe'
  BY <1>7, <1>o DEF Propagate
<1>8. ASSUME NEW p \in Pid, QemuStarts(p) \/ QemuExits(p), UNCHANGED objVars PROVE Safe'
  <2>1. Live' \subseteq Live
    BY <1>8 DEF QemuStarts, QemuExits, Live, TypeOK, VMTypeOK, HostTypeOK
  <2>2. QED
    BY <1>8, <2>1 DEF QemuStarts, QemuExits, objVars
<1>9. CASE UNCHANGED vars
  BY <1>9, <1>u DEF vars
<1>10. QED
  BY <1>1, <1>2, <1>3, <1>4, <1>5, <1>6, <1>7, <1>8, <1>9
  DEF Next, Harness, Fault, Environment

(* Nothing is started before the first session. *)
LEMMA StepBooted == IInv /\ [Next]_vars => Booted'
<1> SUFFICES ASSUME IInv, [Next]_vars PROVE Booted'
  OBVIOUS
<1>1. CASE session' # "none"
  BY <1>1 DEF Booted
<1>2. CASE Reboot
  BY <1>2 DEF Reboot, HostReboots, Live, Booted
<1>3. ASSUME NEW p \in Pid, QemuStarts(p) \/ QemuExits(p), UNCHANGED <<objVars, runVars>>
      PROVE  Booted'
  BY <1>3 DEF QemuStarts, QemuExits, Live, runVars, Booted, IInv, TypeOK, VMTypeOK, HostTypeOK
<1>4. CASE UNCHANGED vars
  BY <1>4 DEF vars, vmVars, hostVars, runVars, Live, Booted, IInv
<1>5. CASE RunVM \/ LoadOldVmData \/ Finish \/ LoopRaises \/ StartSession
  BY <1>5 DEF RunVM, LoadOldVmData, Finish, LoopRaises, StartSession, runVars, Booted
<1>6. ASSUME NEW v \in VM,
             VmStep(v) \/ EndOfTests(v) \/ Propagate(v) \/ (Raises(v) /\ UNCHANGED runVars)
      PROVE  session' # "none"
  <2>1. CASE Propagate(v)
    BY <2>1 DEF Propagate
  <2>2. CASE EndOfTests(v)
    BY <2>2 DEF EndOfTests, Step, IInv, ActiveIsCurrent, runVars
  <2>3. CASE VmStep(v) \/ (Raises(v) /\ UNCHANGED runVars)
    BY <2>3, VmStepType DEF VmStep, IInv, TypeOK, ActiveIsCurrent, runVars
  <2>4. QED
    BY <1>6, <2>1, <2>2, <2>3
<1>7. QED
  BY <1>1, <1>2, <1>3, <1>4, <1>5, <1>6 DEF Next, Harness, Fault, Environment

(* A booted host is safe. *)
LEMMA InitSafe == Init => Safe
BY HostAssumption, VMAssumption DEF Init, HostBooted, FreshObjects, Live, Safe, LiveHaveTap,
   TapZero, LiveIsOwn, PidCache, Sysctl, Netserver, Holding, SetupStages, RunStages

(* The inductive invariant holds whatever sessions, failures and reboots there are. *)
THEOREM Invariance == Spec => []IInv
<1>1. Init => IInv
  BY InitType, InitSafe DEF IInv, Init, HostBooted, Live, Booted
<1>2. IInv /\ [Next]_vars => IInv'
  BY TypeStep, StepSafe, StepBooted DEF IInv
<1>3. QED
  BY <1>1, <1>2, PTL DEF Spec

(* MeasuresOwnQemu: nothing but the QEMU of the current run is measured. *)
THEOREM OwnQemu == Spec => []MeasuresOwnQemu
<1>1. IInv => MeasuresOwnQemu
  BY DEF IInv, Safe, LiveIsOwn, PidCache, MeasuresOwnQemu, Holding
<1>2. QED
  BY <1>1, Invariance, PTL

(* PidIsOwn: no pid survives the run it was read in. *)
THEOREM OwnPid == Spec => []PidIsOwn
<1>1. IInv => PidIsOwn
  BY DEF IInv, Safe, PidCache, PidIsOwn
<1>2. QED
  BY <1>1, Invariance, PTL

(* MeasuresOwnConfiguration: the host is configured for the VM measured. *)
THEOREM OwnConfiguration == Spec => []MeasuresOwnConfiguration
<1>1. ASSUME IInv, NEW v \in VM, pc[v] = "test", "csum" \notin slips
      PROVE  csumOff = (v \in CsumOffVM /\ SysctlPresent)
  <2>1. csumOff <=> v \in CsumOffVM /\ SysctlPresent
    BY <1>1 DEF IInv, Safe, Sysctl
  <2>2. csumOff \in BOOLEAN
    BY <1>1 DEF IInv, TypeOK, VMTypeOK, HostTypeOK
  <2>3. QED
    BY <2>1, <2>2
<1>2. ASSUME IInv, NEW v \in VM, pc[v] = "test", "netserver" \notin slips
      PROVE  netserver \in {NetserverCore[v], NoCore}
  BY <1>2 DEF IInv, Safe, Netserver
<1>3. IInv => MeasuresOwnConfiguration
  BY <1>1, <1>2 DEF MeasuresOwnConfiguration
<1>4. QED
  BY <1>3, Invariance, PTL

(* TapGuardsHost: what would spoil the next run is always behind tap0. *)
THEOREM TapGuards == Spec => []TapGuardsHost
<1>1. IInv => TapGuardsHost
  BY DEF IInv, Safe, Sysctl, LiveHaveTap, TapGuardsHost
<1>2. QED
  BY <1>1, Invariance, PTL

-----------------------------------------------------------------------------
(* CleanFinish needs to know what each finished VM left. *)
LeftClean ==
    /\ \A v \in VM : pc[v] = "stopns" => kvm = "unloaded" \/ "kvm" \in slips
    /\ session = "running" /\ NoneActive /\ RanBefore(index) => HostIsClean
    /\ CleanFinish

(* A VM's commands leave the host clean once its methods have returned. *)
LEMMA VmStepLeavesClean ==
  ASSUME IInv, LeftClean, NEW v \in VM, VmStep(v)
  PROVE  LeftClean'
<1> USE HostAssumption, VMAssumption, TestAssumption
<1>a. session = "running" /\ session' = "running" /\ pc[v] # "idle"
      /\ \A w \in VM : w # v => pc[w] = "idle" /\ pc'[w] = "idle"
  BY VmStepType DEF VmStep, NextIndex, IInv, TypeOK, ActiveIsCurrent
<1>b. CleanFinish'
  BY <1>a DEF CleanFinish
<1>1. CASE UnloadKvm(v)
  <2>1. pc[v] = "unload" /\ pc'[v] = "stopns"
    BY <1>1 DEF UnloadKvm, Step, IInv, TypeOK, VMTypeOK
  <2>2. Live = {}
    BY <2>1 DEF IInv, Safe, LiveHaveTap, TapZero
  <2>3. kvm' = "unloaded" \/ "kvm" \in slips'
    BY <1>1, <2>2 DEF UnloadKvm, Works, Slips
  <2>4. QED
    BY <1>a, <1>b, <2>1, <2>3 DEF LeftClean, NoneActive
<1>2. CASE StopNetserver(v)
  <2>1. pc[v] = "stopns" /\ pc'[v] = "idle"
    BY <1>2 DEF StopNetserver, Step, IInv, TypeOK, VMTypeOK
  <2>2. /\ Live = {} /\ taps = {}
        /\ kvm = "unloaded" \/ "kvm" \in slips
        /\ csumOff => "csum" \in slips
    BY <2>1 DEF IInv, Safe, LiveHaveTap, TapZero, LeftClean, Sysctl
  <2>3. Live' = {} /\ taps' = {}
    BY <1>2, <2>2 DEF StopNetserver, Live
  <2>4. RestoredOrSlipped'
    BY <1>2, <2>2 DEF StopNetserver, RestoredOrSlipped, Works, Slips
  <2>5. HostIsClean'
    BY <2>3, <2>4 DEF HostIsClean
  <2>6. QED
    BY <1>a, <1>b, <2>1, <2>5 DEF LeftClean
<1>3. CASE ~UnloadKvm(v) /\ ~StopNetserver(v)
  <2>1. pc'[v] \notin {"idle", "stopns"}
    BY <1>3 DEF VmStep, NextIndex, Setup, Run, Teardown, RestartNetserver, LoadKvm, CreateTun, TunOutcome,
       LinkUp, ConfigureHost, Launch, ChangeParameters, PinProcess, Connect, ConfigureGuest,
       Shutdown, PidAfterShutdown, ResetHostConfiguration, CsumOffAfterReset, DeleteTun, TapFree, Step, IInv, TypeOK, VMTypeOK
  <2>2. QED
    BY <1>a, <1>b, <2>1 DEF LeftClean, NoneActive
<1>4. QED
  BY <1>1, <1>2, <1>3

(* So does the harness between its VMs. *)
LEMMA StepLeavesClean == IInv /\ LeftClean /\ [Next]_vars => LeftClean'
<1> SUFFICES ASSUME IInv, LeftClean, [Next]_vars PROVE LeftClean'
  OBVIOUS
<1> USE HostAssumption, VMAssumption, TestAssumption
<1>l. Len(VmList) \in Nat
  BY LenProperties
<1>1. CASE StartSession
  BY <1>1 DEF StartSession, LeftClean, RanBefore, CleanFinish, vmVars, hostVars, objVars
<1>2. CASE RunVM
  <2>1. VmList[index] \in VM
    BY <1>2, <1>l DEF RunVM, IInv, TypeOK
  <2>2. pc'[VmList[index]] = "netserver"
        /\ \A w \in VM : pc'[w] \in {"idle", "netserver"}
    BY <1>2, <2>1 DEF RunVM, NoneActive, IInv, TypeOK, VMTypeOK
  <2>3. session' = "running"
    BY <1>2 DEF RunVM, runVars
  <2>4. QED
    BY <2>1, <2>2, <2>3 DEF LeftClean, NoneActive, CleanFinish
<1>3. CASE LoadOldVmData
  <2>1. RanBefore(index + 1) => RanBefore(index)
    BY <1>3 DEF LoadOldVmData, RanBefore, IInv, TypeOK
  <2>2. QED
    BY <1>3, <2>1 DEF LoadOldVmData, LeftClean, CleanFinish, NoneActive, HostIsClean, RestoredOrSlipped, Live,
       RanBefore, vmVars, hostVars, objVars
<1>4. CASE Finish
  BY <1>4 DEF Finish, LeftClean, CleanFinish, HostIsClean, RestoredOrSlipped, Live, ObjectsReset, hostVars,
     RanBefore
<1>5. CASE LoopRaises \/ Reboot \/ \E v \in VM : Propagate(v)
  BY <1>5 DEF LoopRaises, Reboot, Propagate, LeftClean, CleanFinish, ObjectsReset
<1>6. ASSUME NEW v \in VM, VmStep(v) PROVE LeftClean'
  BY <1>6, VmStepLeavesClean
<1>7. ASSUME NEW v \in VM, Raises(v) \/ EndOfTests(v), UNCHANGED runVars PROVE LeftClean'
  <2>1. pc[v] # "idle" /\ pc'[v] \in {"raised", "shutdown"}
        /\ \A w \in VM : w # v => pc'[w] = pc[w]
    BY <1>7, VmStepType DEF Raises, SetupOrRunRaises, TeardownRaises, EndOfTests, AfterTests, Step, IInv,
       TypeOK, VMTypeOK, SetupStages, RunStages, TeardownStages
  <2>2. session = "running" /\ session' = "running"
    BY <1>7, <2>1 DEF IInv, ActiveIsCurrent, runVars
  <2>3. kvm' = kvm /\ slips' = slips
    BY <1>7 DEF Raises, SetupOrRunRaises, TeardownRaises, EndOfTests, AfterTests, hostVars
  <2>4. QED
    BY <2>1, <2>2, <2>3 DEF LeftClean, NoneActive, CleanFinish
<1>8. ASSUME NEW p \in Pid, QemuStarts(p) \/ QemuExits(p), UNCHANGED <<objVars, runVars>>
      PROVE  LeftClean'
  <2>1. Live' \subseteq Live
    BY <1>8 DEF QemuStarts, QemuExits, Live, IInv, TypeOK, VMTypeOK, HostTypeOK
  <2>2. QED
    BY <1>8, <2>1 DEF QemuStarts, QemuExits, objVars, runVars, LeftClean, CleanFinish,
       NoneActive, HostIsClean, RestoredOrSlipped, RanBefore
<1>9. CASE UNCHANGED vars
  BY <1>9 DEF vars, vmVars, objVars, hostVars, runVars, LeftClean, CleanFinish,
     NoneActive, HostIsClean, RestoredOrSlipped, RanBefore, Live
<1>10. QED
  BY <1>1, <1>2, <1>3, <1>4, <1>5, <1>6, <1>7, <1>8, <1>9
  DEF Next, Harness, Fault, Environment, EndOfTests, AfterTests

(* CleanFinish: a session that ran a VM and returned leaves a clean host. *)
THEOREM FinishIsClean == Spec => []CleanFinish
<1>1. Init => LeftClean
  BY HostAssumption, VMAssumption, TestAssumption DEF Init, HostBooted, FreshObjects, LeftClean,
     CleanFinish, HostIsClean, Live
<1>2. LeftClean => CleanFinish
  BY DEF LeftClean
<1>3. QED
  BY <1>1, <1>2, StepLeavesClean, Invariance, PTL DEF Spec

-----------------------------------------------------------------------------
(* Refinement: every step of the harness and the host is a step of the     *)
(* lease, or leaves it alone.                                              *)

(* What the lease is, read off the taps. *)
LEMMA LeaseOf ==
  ASSUME IInv, NEW v \in VM, \A w \in VM : w # v => pc[w] = "idle", session # "none"
  PROVE  /\ Holding(v) => lease = "held"
         /\ ~Holding(v) => lease = IF 0 \in taps THEN "lost" ELSE "free"
         /\ measuring <=> pc[v] = "test"
<1>1. Holding(v) => 0 \in taps
  BY DEF IInv, Safe, TapZero
<1>2. QED
  BY <1>1 DEF lease, measuring, Holding

(* The same after a step. *)
LEMMA LeaseOfNext ==
  ASSUME IInv', NEW v \in VM, \A w \in VM : w # v => pc'[w] = "idle", session' # "none"
  PROVE  /\ Holding(v)' => lease' = "held"
         /\ ~Holding(v)' => lease' = IF 0 \in taps' THEN "lost" ELSE "free"
         /\ measuring' <=> pc'[v] = "test"
<1>1. Holding(v)' => 0 \in taps'
  BY DEF IInv, Safe, TapZero
<1>2. QED
  BY <1>1 DEF lease, measuring, Holding

(* Nothing is held when every VM object is idle or about to be set up. *)
LEMMA LeaseUnheld ==
  ASSUME \A w \in VM : ~Holding(w), session # "none"
  PROVE  lease = (IF 0 \in taps THEN "lost" ELSE "free") /\ ~measuring
BY DEF lease, measuring, Holding

(* A lease that is not held after a step is free or lost. *)
LEMMA LeaseUnheldNext ==
  ASSUME \A w \in VM : ~Holding(w)', session' # "none"
  PROVE  lease' = (IF 0 \in taps' THEN "lost" ELSE "free") /\ ~measuring'
BY DEF lease, measuring, Holding

(* A command of a VM method is a step of the lease, or leaves it alone. *)
LEMMA VmStepOnLease ==
  ASSUME IInv, IInv', NEW v \in VM, Setup(v) \/ Run(v) \/ Teardown(v) \/ Raises(v),
         session' = session
  PROVE  Lease!Next \/ UNCHANGED Lease!leaseVars
<1> USE HostAssumption, VMAssumption
<1>o. \A w \in VM : w # v => pc[w] = "idle" /\ pc'[w] = "idle"
  BY VmStepType DEF IInv, TypeOK, ActiveIsCurrent
<1>s. session = "running" /\ session' = "running"
  BY VmStepType DEF IInv, TypeOK, ActiveIsCurrent
<1>b. /\ Holding(v) => lease = "held"
      /\ ~Holding(v) => lease = IF 0 \in taps THEN "lost" ELSE "free"
      /\ measuring <=> pc[v] = "test"
  BY <1>o, <1>s, LeaseOf
<1>n. /\ Holding(v)' => lease' = "held"
      /\ ~Holding(v)' => lease' = IF 0 \in taps' THEN "lost" ELSE "free"
      /\ measuring' <=> pc'[v] = "test"
  BY <1>o, <1>s, LeaseOfNext
<1>bool. /\ measuring \in BOOLEAN /\ measuring' \in BOOLEAN
         /\ occupied \in BOOLEAN /\ occupied' \in BOOLEAN
         /\ slipped \in BOOLEAN /\ slipped' \in BOOLEAN
         /\ csumOff \in BOOLEAN /\ csumOff' \in BOOLEAN
  BY DEF measuring, occupied, slipped, IInv, TypeOK, VMTypeOK, HostTypeOK
<1> USE DEF Lease!leaseVars, Lease!hostState, Lease!Clean
<1>pc. pc \in [VM -> Stages]
  BY DEF IInv, TypeOK, VMTypeOK
<1>1. CASE CreateTun(v)
  <2>1. PICK t \in Tap :
          /\ IsFirstFreeTap(t)
          /\ Step(v, "tun", TunOutcome(t))
          /\ taps' = taps \cup {t}
          /\ UNCHANGED <<csumOff, qemu, slips>>
    BY <1>1 DEF CreateTun
  <2>2. occupied' = occupied /\ csumOff' = csumOff /\ slipped' = slipped
    BY <2>1 DEF occupied, slipped, Live
  <2>3. CASE t = 0
    <3>1. 0 \notin taps /\ 0 \in taps' /\ pc[v] = "tun" /\ pc'[v] = "link"
      BY <2>1, <2>3, <1>pc DEF IsFirstFreeTap, Step, TunOutcome
    <3>2. ~occupied /\ (csumOff => slipped)
      BY <3>1 DEF occupied, slipped, IInv, Safe, LiveHaveTap, Sysctl
    <3>3. lease = "free" /\ lease' = "held" /\ ~measuring /\ ~measuring'
      BY <3>1, <1>b, <1>n DEF Holding
    <3>4. Lease!Acquire
      BY <3>2, <3>3, <2>2, <1>bool DEF Lease!Acquire
    <3>5. QED
      BY <3>4 DEF Lease!Next
  <2>4. CASE t # 0
    <3>1. 0 \in taps /\ 0 \in taps' /\ pc[v] = "tun" /\ pc'[v] = "raised"
      BY <2>1, <2>4, <1>pc DEF IsFirstFreeTap, Tap, Step, TunOutcome
    <3>2. lease' = lease /\ ~measuring /\ ~measuring'
      BY <3>1, <1>b, <1>n DEF Holding
    <3>3. QED
      BY <3>2, <2>2, <1>bool
  <2>5. QED
    BY <2>3, <2>4
<1>2. CASE ConfigureHost(v) \/ Launch(v) \/ ResetHostConfiguration(v)
  <2>1. Holding(v) /\ Holding(v)' /\ pc[v] # "test" /\ pc'[v] # "test"
    BY <1>2, <1>pc DEF ConfigureHost, Launch, ResetHostConfiguration, CsumOffAfterReset, Step, Holding
  <2>2. Lease!Use
    BY <2>1, <1>b, <1>n, <1>bool DEF Lease!Use
  <2>3. QED
    BY <2>2 DEF Lease!Next
<1>3. CASE ConfigureGuest(v)
  <2>1. Holding(v) /\ Holding(v)' /\ pc[v] # "test" /\ pc'[v] = "test"
    BY <1>3, <1>pc DEF ConfigureGuest, Step, Holding
  <2>2. lease = "held" /\ lease' = "held" /\ measuring = FALSE /\ measuring' = TRUE
    BY <2>1, <1>b, <1>n, <1>bool
  <2>3. UNCHANGED <<occupied, csumOff, slipped>>
    BY <1>3 DEF ConfigureGuest, hostVars, occupied, slipped, Live
  <2>4. Lease!Measure
    BY <2>2, <2>3 DEF Lease!Measure
  <2>5. QED
    BY <2>4 DEF Lease!Next
<1>4. CASE DeleteTun(v)
  <2>1. pc[v] = "deltun" /\ pc'[v] = "unload"
    BY <1>4, <1>pc DEF DeleteTun, Step
  <2>1a. UNCHANGED <<occupied, csumOff, slipped>>
    BY <1>4 DEF DeleteTun, occupied, slipped, Live
  <2>2. ~occupied /\ (csumOff => slipped)
    BY <1>4, <2>1 DEF DeleteTun, TapFree, HoldersOf, IInv, Safe, TapZero, LiveHaveTap, Sysctl,
       Holding, occupied, slipped
  <2>3. 0 \notin taps'
    BY <1>4, <2>1 DEF DeleteTun, TapFree, IInv, Safe, TapZero, Holding
  <2>4. Lease!Release
    BY <2>1, <2>1a, <2>2, <2>3, <1>b, <1>n, <1>bool DEF Lease!Release, Holding
  <2>5. QED
    BY <2>4 DEF Lease!Next
<1>5. CASE Raises(v)
  <2>1. /\ pc[v] # "test" /\ pc'[v] = "raised"
        /\ taps' = taps /\ UNCHANGED <<occupied, csumOff, slipped>>
    BY <1>5, <1>pc DEF Raises, SetupOrRunRaises, TeardownRaises, hostVars, occupied, slipped,
       Live, SetupStages, RunStages, TeardownStages
  <2>2. ~measuring /\ ~measuring'
    BY <2>1, <1>b, <1>n
  <2>3. CASE Holding(v)
    <3>1. 0 \in taps'
      BY <2>1, <2>3 DEF IInv, Safe, TapZero
    <3>2. Lease!Lose
      BY <2>1, <2>2, <2>3, <3>1, <1>b, <1>n, <1>bool DEF Lease!Lose, Holding
    <3>3. QED
      BY <3>2 DEF Lease!Next
  <2>4. CASE ~Holding(v)
    BY <2>1, <2>2, <2>4, <1>b, <1>n, <1>bool DEF Holding
  <2>5. QED
    BY <2>3, <2>4
<1>6. CASE \/ RestartNetserver(v) \/ LoadKvm(v) \/ LinkUp(v) \/ ChangeParameters(v)
           \/ PinProcess(v) \/ Connect(v) \/ Shutdown(v) \/ UnloadKvm(v) \/ StopNetserver(v)
  <2>1. /\ Holding(v)' = Holding(v)
        /\ pc[v] # "test" /\ pc'[v] # "test"
        /\ taps' = taps /\ csumOff' = csumOff /\ ("csum" \in slips' <=> "csum" \in slips)
    BY <1>6, <1>pc DEF RestartNetserver, LoadKvm, LinkUp, ChangeParameters, PinProcess, Connect,
       Shutdown, PidAfterShutdown, UnloadKvm, StopNetserver, Step, Holding, hostVars, Works, Slips
  <2>2. Live' = Live
    <3>1. CASE Shutdown(v)
      BY <3>1 DEF Shutdown, PidAfterShutdown, Live, Up, IInv, TypeOK, VMTypeOK, HostTypeOK
    <3>2. CASE qemu' = qemu
      BY <3>2 DEF Live
    <3>3. QED
      BY <1>6, <3>1, <3>2 DEF RestartNetserver, LoadKvm, LinkUp, ChangeParameters, PinProcess,
         Connect, UnloadKvm, StopNetserver, hostVars
  <2>3. QED
    BY <2>1, <2>2, <1>b, <1>n, <1>bool DEF occupied, slipped
<1>7. QED
  BY <1>1, <1>2, <1>3, <1>4, <1>5, <1>6 DEF Setup, Run, Teardown

(* So is every step of the harness and of the host. *)
LEMMA StepOnLease ==
  ASSUME IInv, IInv', [Next]_vars
  PROVE  [Lease!Next]_Lease!leaseVars
<1> USE HostAssumption, VMAssumption, TestAssumption
<1> DEFINE Stutter == UNCHANGED Lease!leaseVars
<1> USE DEF Lease!leaseVars, Lease!hostState, Lease!Clean
<1>u. ASSUME UNCHANGED vmVars, session' = session PROVE Stutter
  BY <1>u DEF vmVars, hostVars, objVars, lease, occupied, slipped, measuring, Holding, Live
<1>h. ASSUME UNCHANGED hostVars, session # "none", session' # "none",
             \A w \in VM : ~Holding(w), \A w \in VM : ~Holding(w)'
      PROVE  Stutter
  <2>1. taps' = taps /\ UNCHANGED <<occupied, csumOff, slipped>>
    BY <1>h DEF hostVars, occupied, slipped, Live
  <2>2. QED
    BY <1>h, <2>1, LeaseUnheld, LeaseUnheldNext DEF measuring
<1>1. CASE StartSession
  <2>1. \A w \in VM : ~Holding(w) /\ ~Holding(w)'
    BY <1>1 DEF StartSession, IInv, ActiveIsCurrent, Holding, vmVars, objVars
  <2>2. UNCHANGED hostVars /\ session' = "running"
    BY <1>1 DEF StartSession, vmVars
  <2>3. CASE session = "none"
    <3>1. 0 \notin taps' /\ UNCHANGED <<occupied, csumOff, slipped>>
      BY <2>2, <2>3 DEF IInv, Booted, hostVars, occupied, slipped, Live
    <3>2. lease = "booted" /\ lease' = "free"
      BY <2>1, <2>2, <2>3, <3>1, LeaseUnheldNext DEF lease
    <3>3. measuring' = measuring
      BY <2>1 DEF measuring, Holding
    <3>4. Lease!Begin
      BY <3>1, <3>2, <3>3 DEF Lease!Begin
    <3>5. QED
      BY <3>4 DEF Lease!Next
  <2>4. CASE session # "none"
    BY <2>1, <2>2, <2>4, <1>h
  <2>5. QED
    BY <2>3, <2>4
<1>1a. CASE LoadOldVmData
  BY <1>1a, <1>u DEF LoadOldVmData
<1>2. CASE RunVM
  <2>1. \A w \in VM : pc[w] = "idle" /\ pc'[w] \in {"idle", "netserver"}
    BY <1>2 DEF RunVM, NoneActive, IInv, TypeOK, VMTypeOK
  <2>2. QED
    BY <1>2, <2>1, <1>h DEF RunVM, Holding, runVars
<1>3. CASE Finish \/ LoopRaises
  <2>1. \A w \in VM : pc[w] = "idle" /\ pc'[w] = "idle"
    BY <1>3 DEF Finish, LoopRaises, NoneActive, ObjectsReset
  <2>2. QED
    BY <1>3, <2>1, <1>h DEF Finish, LoopRaises, Holding
<1>4. CASE Reboot
  <2>1. lease' = "booted" /\ ~measuring'
    BY <1>4 DEF Reboot, ObjectsReset, lease, measuring
  <2>2. ~occupied' /\ ~csumOff' /\ ~slipped'
    BY <1>4 DEF Reboot, HostReboots, Live, occupied, slipped
  <2>3. Lease!Reboot
    BY <2>1, <2>2 DEF Lease!Reboot
  <2>4. QED
    BY <2>3 DEF Lease!Next
<1>5. ASSUME NEW v \in VM, VmStep(v) \/ (Raises(v) /\ UNCHANGED runVars)
      PROVE  Lease!Next \/ Stutter
  BY <1>5, VmStepOnLease DEF VmStep, NextIndex, runVars
<1>6. ASSUME NEW v \in VM, EndOfTests(v) PROVE Lease!Next \/ Stutter
  <2>1. pc[v] = "test" /\ pc'[v] = "shutdown" /\ \A w \in VM : w # v => pc'[w] = pc[w]
    BY <1>6 DEF EndOfTests, AfterTests, Step, IInv, TypeOK, VMTypeOK
  <2>2. \A w \in VM : w # v => pc[w] = "idle" /\ pc'[w] = "idle"
    BY <2>1 DEF IInv, ActiveIsCurrent
  <2>2a. session = "running" /\ session' = "running"
    BY <1>6, <2>1 DEF IInv, ActiveIsCurrent, EndOfTests, runVars
  <2>3. lease = "held" /\ lease' = "held" /\ measuring /\ ~measuring'
    BY <2>1, <2>2, <2>2a, LeaseOf, LeaseOfNext DEF Holding
  <2>4. UNCHANGED <<occupied, csumOff, slipped>> /\ measuring \in BOOLEAN /\ measuring' \in BOOLEAN
    BY <1>6 DEF EndOfTests, AfterTests, hostVars, occupied, slipped, Live, measuring
  <2>5. Lease!Measure
    BY <2>3, <2>4 DEF Lease!Measure
  <2>6. QED
    BY <2>5 DEF Lease!Next
<1>7. ASSUME NEW v \in VM, Propagate(v) PROVE Stutter
  <2>1. \A w \in VM : pc[w] \in {"idle", "raised"} /\ pc'[w] = "idle"
    BY <1>7 DEF Propagate, ObjectsReset, IInv, ActiveIsCurrent
  <2>2. session = "running"
    BY <1>7 DEF Propagate, IInv, ActiveIsCurrent
  <2>3. QED
    BY <1>7, <2>1, <2>2, <1>h DEF Propagate, Holding
<1>8. ASSUME NEW p \in Pid, QemuStarts(p) \/ QemuExits(p), UNCHANGED <<objVars, runVars>>
      PROVE  Lease!Next \/ Stutter
  <2>1. /\ taps' = taps /\ csumOff' = csumOff /\ slipped' = slipped
        /\ lease' = lease /\ measuring' = measuring
    BY <1>8 DEF QemuStarts, QemuExits, objVars, runVars, lease, measuring, slipped, Holding
  <2>2. Live' \subseteq Live
    BY <1>8 DEF QemuStarts, QemuExits, Live, IInv, TypeOK, VMTypeOK, HostTypeOK
  <2>3. occupied \in BOOLEAN /\ occupied' \in BOOLEAN /\ (occupied' => occupied)
    BY <2>2 DEF occupied
  <2>4. occupied => lease \in {"held", "lost"}
    BY DEF occupied, lease, IInv, Safe, LiveHaveTap, Booted
  <2>5. CASE occupied' = occupied
    BY <2>1, <2>5
  <2>6. CASE occupied' # occupied
    <3>1. csumOff \in BOOLEAN /\ slipped \in BOOLEAN /\ occupied /\ ~occupied'
      BY <2>3, <2>6 DEF slipped, IInv, TypeOK, VMTypeOK, HostTypeOK
    <3>2. Lease!Use \/ Lease!Decay
      BY <2>1, <2>3, <2>4, <3>1 DEF Lease!Use, Lease!Decay
    <3>3. QED
      BY <3>2 DEF Lease!Next
  <2>7. QED
    BY <2>5, <2>6
<1>9. CASE UNCHANGED vars
  BY <1>9, <1>u DEF vars, runVars
<1>10. QED
  BY <1>1, <1>1a, <1>2, <1>3, <1>4, <1>5, <1>6, <1>7, <1>8, <1>9
  DEF Next, Harness, Fault, Environment

(* TestRun implements HostLease: one run at a time has the host, it gets it *)
(* clean and returns it clean, but for a sysctl write that slipped, and the *)
(* host of an aborted run is not used again before a reboot.                *)
THEOREM ImplementsLease == Spec => LeaseSpec
<1>1. Init => Lease!Init
  BY DEF Init, FreshObjects, HostBooted, Live, lease, occupied, slipped, measuring, Lease!Init
<1>2. IInv /\ IInv' /\ [Next]_vars => [Lease!Next]_Lease!leaseVars
  BY StepOnLease
<1>3. QED
  BY <1>1, <1>2, Invariance, PTL DEF Spec, LeaseSpec, Lease!Spec
=============================================================================
