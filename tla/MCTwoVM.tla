------------------------------- MODULE MCTwoVM ------------------------------
(* TwoVM with one pair of plain Qemu objects, as test_qemu_regular_vm2vm.py. *)
EXTENDS TwoVM

CONSTANTS a, b

MCVM            == {a, b}
MCNetserverCore == [v \in MCVM |-> 3]
MCVmPairs       == <<<<a, b>>>>
=============================================================================
