------------------------------ MODULE MCTestRun -----------------------------
(***************************************************************************)
(* TestRun with two VMs: m is a QemuE1000Max with qemu_config and a pinned *)
(* io thread, q a plain Qemu with disable_kvm_poll on another netserver    *)
(* core, and d a disabled VM.  m is listed twice.                           *)
(***************************************************************************)
EXTENDS TestRun, TLC

CONSTANTS m, q, d, p1, p2

MCVM            == {m, q, d}
MCPid           == {p1, p2}
MCCore          == {2, 3}
MCNetserverCore == (m :> 3) @@ (q :> 2) @@ (d :> 3)
MCVmList        == <<m, d, q, m>>
PidSymmetry     == Permutations(MCPid)
=============================================================================
