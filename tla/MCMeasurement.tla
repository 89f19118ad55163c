---------------------------- MODULE MCMeasurement ----------------------------
(***************************************************************************)
(* Two VMs, two x values, two repetitions, two sensors in the order of     *)
(* test_qemu_throughput.py: kvm_exits raises, batch_count answers zeros.   *)
(* kvm_exits / throughput and batch_count / kvm_exits are RatioGraphs.     *)
(***************************************************************************)
EXTENDS Measurement

CONSTANTS kvmExits, batchCount

MCSensors == <<kvmExits, batchCount>>
MCRatios  == {<<kvmExits, Netperf>>, <<batchCount, kvmExits>>}
=============================================================================
