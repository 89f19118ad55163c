------------------------------- MODULE QemuVM -------------------------------
(***************************************************************************)
(* utils/vms.py: the life of a Qemu object, one action per host command of *)
(* setup(), run() and teardown().  pc[v] names the command v executes      *)
(* next, in the order of the code:                                         *)
(*                                                                         *)
(*   idle -> netserver -> kvm -> tun -> link -> hostcfg          setup     *)
(*        -> launch -> params -> pin -> connect -> boot          run       *)
(*        -> test                                     the harness measures *)
(*        -> shutdown -> reset -> deltun -> unload -> stopns     teardown  *)
(*        -> idle                                                          *)
(*                                                                         *)
(* "raised": an exception left the method.  What happens then is decided   *)
(* by the caller, in TestRun and TwoVM.                                    *)
(***************************************************************************)
EXTENDS QemuHost

CONSTANTS
    VM,             \* the Qemu objects
    NetserverCore,  \* Machine.netserver_core of each
    CsumOffVM,      \* instances of QemuE1000Max, which override _configure_host
    NoPollVM,       \* disable_kvm_poll = True
    ConfigVM,       \* qemu_config is not empty
    PinnedVM        \* io_thread_cpu or is_io_thread_nice is set

ASSUME VMAssumption ==
    /\ NetserverCore \in [VM -> Core]
    /\ CsumOffVM \subseteq VM
    /\ NoPollVM \subseteq VM
    /\ ConfigVM \subseteq VM
    /\ PinnedVM \subseteq VM

VARIABLES
    pc,             \* the command each VM object executes next
    tapDevice,      \* Qemu.tap_device, NoTap for ''
    pid,            \* Qemu._pid, the cached content of the pid file
    own,            \* the process launched by the current _run: it owns the pid file
    mon             \* the process at the other end of Qemu.qmp

objVars == <<pc, tapDevice, pid, own, mon>>
vmVars  == <<hostVars, objVars>>

SetupStages    == {"netserver", "kvm", "tun", "link", "hostcfg"}
RunStages      == {"launch", "params", "pin", "connect", "boot"}
TeardownStages == {"shutdown", "reset", "deltun", "unload", "stopns"}
Stages == {"idle", "test", "raised"} \cup SetupStages \cup RunStages \cup TeardownStages

VMTypeOK ==
    /\ HostTypeOK
    /\ pc \in [VM -> Stages]
    /\ tapDevice \in [VM -> Tap \cup {NoTap}]
    /\ pid \in [VM -> Pid \cup {NoPid}]
    /\ own \in [VM -> Pid \cup {NoPid}]
    /\ mon \in [VM -> Pid \cup {NoPid}]

(* Qemu.__init__ *)
FreshObjects ==
    /\ pc = [v \in VM |-> "idle"]
    /\ tapDevice = [v \in VM |-> NoTap]
    /\ pid = [v \in VM |-> NoPid]
    /\ own = [v \in VM |-> NoPid]
    /\ mon = [v \in VM |-> NoPid]

(* A Python process starts: its modules construct their VM objects anew. *)
ObjectsReset ==
    /\ pc' = [v \in VM |-> "idle"]
    /\ tapDevice' = [v \in VM |-> NoTap]
    /\ pid' = [v \in VM |-> NoPid]
    /\ own' = [v \in VM |-> NoPid]
    /\ mon' = [v \in VM |-> NoPid]

Step(v, from, to) ==
    /\ pc[v] = from
    /\ pc' = [pc EXCEPT ![v] = to]

(* A command nobody checks does what it is for, or leaves things as they are. *)
Works(what) == slips' = slips \ {what}
Slips(what) == slips' = slips \cup {what}

(***************************************************************************)
(* setup()                                                                 *)
(***************************************************************************)

(* Machine.setup: kill every netserver, start one; neither is checked, and *)
(* while an old one survives, a new one cannot listen.                     *)
RestartNetserver(v) ==
    /\ Step(v, "netserver", "kvm")
    /\ \/ Works("netserver") /\ netserver' \in {NetserverCore[v], NoCore}
       \/ Slips("netserver") /\ netserver # NoCore /\ UNCHANGED netserver
    /\ UNCHANGED <<taps, kvm, csumOff, qemu, qtap, tapDevice, pid, own, mon>>

(***************************************************************************)
(* load_kvm.  A loaded module keeps its parameters.  For a VM with         *)
(* disable_kvm_poll the command line "echo 0 | sudo tee ..." is split and  *)
(* executed without a shell: echo prints the rest and nothing is written.  *)
(***************************************************************************)
DisableKvmPoll(v, k) == k

LoadKvm(v) ==
    /\ Step(v, "kvm", "tun")
    /\ LET loaded == IF kvm = "unloaded" THEN "polling" ELSE kvm
       IN  kvm' = IF v \in NoPollVM THEN DisableKvmPoll(v, loaded) ELSE loaded
    /\ UNCHANGED <<taps, csumOff, netserver, qemu, qtap, slips, tapDevice, pid, own, mon>>

(* tunctl creates the first tap that does not exist. *)
IsFirstFreeTap(t) ==
    /\ t \in Tap \ taps
    /\ \A u \in Tap \ taps : t <= u

(* create_tun: the new tap must be tap0; when it is not, it stays behind. *)
TunOutcomeAnyTap(t) == "link"      \* mutant: no assertion
TunOutcome(t) == IF t = 0 THEN "link" ELSE "raised"

CreateTun(v) ==
    \E t \in Tap :
        /\ IsFirstFreeTap(t)
        /\ Step(v, "tun", TunOutcome(t))
        /\ taps' = taps \cup {t}
        /\ tapDevice' = [tapDevice EXCEPT ![v] = t]
        /\ UNCHANGED <<kvm, csumOff, netserver, qemu, qtap, slips, pid, own, mon>>

(* ip link set up, ip address or brctl addif. *)
LinkUp(v) ==
    /\ Step(v, "link", "hostcfg")
    /\ UNCHANGED <<hostVars, tapDevice, pid, own, mon>>

(* Only a QemuE1000Max writes the sysctl, and it ignores that the write     *)
(* fails: always on a kernel without the file, now and then on one with it. *)
WriteSysctl(v, value) ==
    IF v \in CsumOffVM /\ SysctlPresent
    THEN \/ Works("csum") /\ csumOff' = value
         \/ Slips("csum") /\ UNCHANGED csumOff
    ELSE UNCHANGED <<csumOff, slips>>

(* _configure_host *)
ConfigureHost(v) ==
    /\ Step(v, "hostcfg", "launch")
    /\ WriteSysctl(v, TRUE)
    /\ UNCHANGED <<taps, kvm, netserver, qemu, qtap, tapDevice, pid, own, mon>>

(***************************************************************************)
(* run()                                                                   *)
(***************************************************************************)

(* _run up to run_command_async: an unconnected QMP object, a new pid file *)
(* and a QEMU nobody waits for.                                            *)
Launch(v) ==
    /\ Step(v, "launch", "params")
    /\ \E p \in Pid \ Live :
        /\ qemu' = [qemu EXCEPT ![p] = "starting"]
        /\ qtap' = [qtap EXCEPT ![p] = tapDevice[v]]
        /\ own' = [own EXCEPT ![v] = p]
    /\ mon' = [mon EXCEPT ![v] = NoPid]
    /\ UNCHANGED <<taps, kvm, csumOff, netserver, slips, tapDevice, pid>>

(* get_pid: the cache first, then the pid file, which names a process only *)
(* while the QEMU that wrote it lives.                                     *)
GetPid(v) ==
    IF pid[v] # NoPid THEN pid[v]
    ELSE IF own[v] \in Live THEN own[v] ELSE NoPid

UsePid(v) ==
    /\ GetPid(v) \in Live
    /\ pid' = [pid EXCEPT ![v] = GetPid(v)]

(* change_qemu_parameters: write the parameter file and send SIGUSR1. *)
ChangeParameters(v) ==
    /\ Step(v, "params", "pin")
    /\ IF v \in ConfigVM THEN UsePid(v) ELSE UNCHANGED pid
    /\ UNCHANGED <<hostVars, tapDevice, own, mon>>

(* taskset and renice of the process the pid file names. *)
PinProcess(v) ==
    /\ Step(v, "pin", "connect")
    /\ IF v \in PinnedVM THEN UsePid(v) ELSE UNCHANGED pid
    /\ UNCHANGED <<hostVars, tapDevice, own, mon>>

(* qmp.connect: whichever QEMU listens on port 1235 answers. *)
Connect(v) ==
    /\ Step(v, "connect", "boot")
    /\ \E p \in Listening : mon' = [mon EXCEPT ![v] = p]
    /\ UNCHANGED <<hostVars, tapDevice, pid, own>>

(* configure_guest: ssh to the guest address, possibly with no command at all. *)
ConfigureGuest(v) ==
    /\ Step(v, "boot", "test")
    /\ UNCHANGED <<hostVars, tapDevice, pid, own, mon>>

(***************************************************************************)
(* A checked command of setup() or run() fails, get_pid finds no pid, the  *)
(* port refuses, or Ctrl-C arrives: the exception leaves the method.       *)
(* Between two commands it is as if the next one had failed.               *)
(***************************************************************************)
SetupOrRunRaises(v) ==
    /\ pc[v] \in SetupStages \cup RunStages
    /\ pc' = [pc EXCEPT ![v] = "raised"]
    /\ UNCHANGED <<hostVars, tapDevice, pid, own, mon>>

(***************************************************************************)
(* teardown()                                                              *)
(***************************************************************************)

PidKept(v)          == pid          \* mutant: the cache is not cleared
PidAfterShutdown(v) == [pid EXCEPT ![v] = NoPid]

(* poweroff over ssh reaches the guest that is up, or is lost; every       *)
(* exception is swallowed, and the QMP object and the pid are dropped.     *)
Shutdown(v) ==
    /\ Step(v, "shutdown", "reset")
    /\ \/ \E p \in Up : qemu' = [qemu EXCEPT ![p] = "stopping"]
       \/ UNCHANGED qemu
    /\ pid' = PidAfterShutdown(v)
    /\ mon' = [mon EXCEPT ![v] = NoPid]
    /\ UNCHANGED <<taps, kvm, csumOff, netserver, qtap, slips, tapDevice, own>>

CsumOffKept       == csumOff        \* mutant: nothing is written back
CsumOffAfterReset == FALSE

(* _reset_host_configuration; whether it worked or not, teardown goes on. *)
ResetHostConfiguration(v) ==
    /\ Step(v, "reset", "deltun")
    /\ WriteSysctl(v, CsumOffAfterReset)
    /\ UNCHANGED <<taps, kvm, netserver, qemu, qtap, tapDevice, pid, own, mon>>

(* delete_tun retries for ever: tunctl -d fails while a QEMU has the tap   *)
(* open, and without the name of a tap.                                    *)
TapFreeAssumed(v) == TRUE           \* mutant: the loop gives up at once
TapFree(v) == tapDevice[v] # NoTap /\ HoldersOf(tapDevice[v]) = {}

DeleteTun(v) ==
    /\ Step(v, "deltun", "unload")
    /\ TapFree(v)
    /\ taps' = taps \ {tapDevice[v]}
    /\ UNCHANGED <<kvm, csumOff, netserver, qemu, qtap, slips, tapDevice, pid, own, mon>>

(* modprobe -r, unchecked: it fails while a QEMU uses the module, and it    *)
(* may fail for other reasons.                                             *)
UnloadKvm(v) ==
    /\ Step(v, "unload", "stopns")
    /\ IF Live = {}
       THEN \/ Works("kvm") /\ kvm' = "unloaded"
            \/ Slips("kvm") /\ UNCHANGED kvm
       ELSE UNCHANGED <<kvm, slips>>
    /\ UNCHANGED <<taps, csumOff, netserver, qemu, qtap, tapDevice, pid, own, mon>>

StopNetserver(v) ==
    /\ Step(v, "stopns", "idle")
    /\ \/ Works("netserver") /\ netserver' = NoCore
       \/ Slips("netserver") /\ UNCHANGED netserver
    /\ UNCHANGED <<taps, kvm, csumOff, qemu, qtap, tapDevice, pid, own, mon>>

(* Ctrl-C in teardown, after the except clause that swallows everything. *)
TeardownRaises(v) ==
    /\ pc[v] \in TeardownStages \ {"shutdown"}
    /\ pc' = [pc EXCEPT ![v] = "raised"]
    /\ UNCHANGED <<hostVars, tapDevice, pid, own, mon>>

(* The cases in which the next command cannot but fail. *)
MustRaise(v) ==
    \/ pc[v] = "tun" /\ taps = Tap
    \/ pc[v] = "params" /\ v \in ConfigVM /\ GetPid(v) \notin Live
    \/ pc[v] = "pin" /\ v \in PinnedVM /\ GetPid(v) \notin Live
    \/ pc[v] = "connect" /\ Live = {}

Setup(v) ==
    RestartNetserver(v) \/ LoadKvm(v) \/ CreateTun(v) \/ LinkUp(v) \/ ConfigureHost(v)

Run(v) ==
    Launch(v) \/ ChangeParameters(v) \/ PinProcess(v) \/ Connect(v) \/ ConfigureGuest(v)

Teardown(v) ==
    \/ Shutdown(v) \/ ResetHostConfiguration(v) \/ DeleteTun(v)
    \/ UnloadKvm(v) \/ StopNetserver(v)

Raises(v) == SetupOrRunRaises(v) \/ TeardownRaises(v)
=============================================================================
