------------------------------ MODULE MCResults ------------------------------
(* Two VMs, two tests each, two graphs; three sessions in one directory.    *)
(* The loops of a VM run to their end, are cut before the first sample,     *)
(* between the two sensors of a repetition, or between two tests, or lose   *)
(* a whole test of one sensor.                                              *)
EXTENDS Results

MCTakings ==
    {<<<<2, 2>>, <<2, 2>>>>, <<<<0, 0>>, <<0, 0>>>>, <<<<2, 0>>, <<1, 0>>>>,
     <<<<2, 0>>, <<2, 0>>>>, <<<<2, 2>>, <<0, 2>>>>}
=============================================================================
