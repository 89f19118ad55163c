----------------------------- MODULE MCTraceRun -----------------------------
(***************************************************************************)
(* TraceRun with two VMs: m is a QemuE1000Max with a pinned io thread,     *)
(* whose pid is cached by run(), v a VM that never needs its pid before    *)
(* copy_maps.                                                              *)
(***************************************************************************)
EXTENDS TraceRun, TLC

CONSTANTS m, v, p1, p2

MCVM            == {m, v}
MCPid           == {p1, p2}
MCCore          == {3}
MCNetserverCore == (m :> 3) @@ (v :> 3)
=============================================================================
