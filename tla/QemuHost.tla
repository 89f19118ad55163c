------------------------------ MODULE QemuHost ------------------------------
(***************************************************************************)
(* The host the benchmark harness runs on, as far as the harness depends   *)
(* on it: the tap devices tunctl has created, the kvm-intel module, the    *)
(* sysctl file that turns TCP checksums off, the netserver process and the *)
(* QEMU processes.  None of it is Python: it is modelled from the commands *)
(* utils/vms.py and sensors/netperf.py run and from what they rely on.     *)
(* Nothing here ends when a Python process ends: run_command* start their  *)
(* children in a process group of their own (utils/shell_utils.py:9-10).   *)
(***************************************************************************)
EXTENDS Naturals, FiniteSets

CONSTANTS
    Pid,            \* the names of QEMU processes
    NoPid,          \* "no process": None in the Python fields
    MaxTap,         \* bound: tunctl can create tap0 .. tap<MaxTap>
    Core,           \* the host cores a netserver can be pinned to
    NoCore,         \* no netserver runs
    SysctlPresent   \* the kernel has /proc/sys/debug/tun/no_tcp_checksum_on

ASSUME HostAssumption ==
    /\ NoPid \notin Pid
    /\ NoCore \notin Core
    /\ MaxTap \in Nat
    /\ SysctlPresent \in BOOLEAN

VARIABLES
    taps,           \* the tap devices that exist
    kvm,            \* is kvm-intel loaded, and does it poll on a halted vCPU
    csumOff,        \* the content of no_tcp_checksum_on
    netserver,      \* the core the netserver is pinned to
    qemu,           \* the state of each QEMU process
    qtap,           \* the tap each QEMU was told to open (ifname=)
    slips           \* history: what the last command to set it left as it was

hostVars == <<taps, kvm, csumOff, netserver, qemu, qtap, slips>>

(***************************************************************************)
(* What is set by commands whose failure goes unnoticed: the sysctl, whose *)
(* CalledProcessError is swallowed (vms.py:364-374), and kvm-intel and the *)
(* netserver, whose modprobe -r and killall run_command does not check.    *)
(***************************************************************************)
Unchecked == {"csum", "kvm", "netserver"}

Tap       == 0 .. MaxTap
NoTap     == MaxTap + 1        \* tap_device = ''
Live      == {p \in Pid : qemu[p] # "gone"}
Up        == {p \in Pid : qemu[p] = "up"}
Listening == {p \in Pid : qemu[p] \in {"up", "stopping"}}
HoldersOf(t) == {p \in Live : qtap[p] = t}

HostTypeOK ==
    /\ taps \subseteq Tap
    /\ kvm \in {"unloaded", "polling", "nopoll"}
    /\ csumOff \in BOOLEAN
    /\ netserver \in Core \cup {NoCore}
    /\ qemu \in [Pid -> {"gone", "starting", "up", "stopping"}]
    /\ qtap \in [Pid -> Tap \cup {NoTap}]
    /\ slips \subseteq Unchecked

(* A freshly booted host. *)
HostBooted ==
    /\ taps = {}
    /\ kvm = "unloaded"
    /\ csumOff = FALSE
    /\ netserver = NoCore
    /\ qemu = [p \in Pid |-> "gone"]
    /\ qtap = [p \in Pid |-> 0]
    /\ slips = {}

(***************************************************************************)
(* A launched QEMU opens its tap and its monitor port 1235; the port is    *)
(* the same for every VM, so a second QEMU cannot come up next to one that *)
(* still listens.  Its QMP server answers only once it is up.              *)
(***************************************************************************)
QemuStarts(p) ==
    /\ qemu[p] = "starting"
    /\ kvm # "unloaded"
    /\ qtap[p] \in taps
    /\ HoldersOf(qtap[p]) = {p}
    /\ Listening = {}
    /\ qemu' = [qemu EXCEPT ![p] = "up"]
    /\ UNCHANGED <<taps, kvm, csumOff, netserver, qtap, slips>>

(* It fails to start, crashes, or completes the shutdown of its guest. *)
QemuExits(p) ==
    /\ qemu[p] # "gone"
    /\ qemu' = [qemu EXCEPT ![p] = "gone"]
    /\ UNCHANGED <<taps, kvm, csumOff, netserver, qtap, slips>>

HostReboots ==
    /\ taps' = {}
    /\ kvm' = "unloaded"
    /\ csumOff' = FALSE
    /\ netserver' = NoCore
    /\ qemu' = [p \in Pid |-> "gone"]
    /\ slips' = {}
    /\ UNCHANGED qtap

(***************************************************************************)
(* No tap and no QEMU; sysctl, kvm-intel and netserver as after a boot,    *)
(* each unless the last command that should have seen to it slipped.       *)
(***************************************************************************)
RestoredOrSlipped ==
    /\ csumOff => "csum" \in slips
    /\ kvm # "unloaded" => "kvm" \in slips
    /\ netserver # NoCore => "netserver" \in slips

HostIsClean == taps = {} /\ Live = {} /\ RestoredOrSlipped
=============================================================================
