------------------------------- MODULE Results -------------------------------
(***************************************************************************)
(* What sessions leave in their directory, and what the next session in    *)
(* the same directory makes of it: testinfo.json (create_testinfo of       *)
(* utils/test_base.py, get_info of utils/vms.py) and one JSON file per     *)
(* graph (dump_to_json and load_old_results of utils/graphs.py).  A VM     *)
(* that is not enabled is not run; its results and its info are taken over *)
(* from the files.                                                         *)
(*                                                                         *)
(* A sample is named by the session that measured it.                      *)
(***************************************************************************)
EXTENDS Naturals, Sequences, FiniteSets

CONSTANTS
    VmNum,          \* _vms, in their order
    XNum,           \* _x_categories, in their order
    Retries,        \* samples of each test
    GraphNum,       \* _sensors with a graph of their own, in their order
    Qemus,          \* the VMs of class Qemu
    Takings,        \* bound: how many samples of each test a VM's loops may leave in each graph
    MaxSessions     \* bound: sessions in the directory

ASSUME ResultsAssumption ==
    /\ {VmNum, XNum, Retries, GraphNum} \subseteq Nat \ {0}
    /\ Qemus \subseteq 1 .. VmNum
    /\ Takings \subseteq [1 .. GraphNum -> [1 .. XNum -> 0 .. Retries]]
    /\ MaxSessions \in Nat

VMs    == 1 .. VmNum
Xs     == 1 .. XNum
Graphs == 1 .. GraphNum

VARIABLES
    session,        \* the number of the session
    enabled,        \* the VMs that are enabled in it
    stage,          \* "idle", "pre", "run" or "post"
    next,           \* the VM or the sensor that is next
    data,           \* GraphBase.data of each graph
    testinfo,       \* testinfo.json: who wrote the info of a VM
    json,           \* the JSON file of each graph
    ended,          \* how the last session ended
    harmed          \* something has failed or was interrupted

vars == <<session, enabled, stage, next, data, testinfo, json, ended, harmed>>
disk == <<testinfo, json>>

(* Contents no file of results or of info has: their domains are Xs and VMs. *)
NoFile == <<>>
Torn   == [k \in {0} |-> k]      \* opened for writing, but not written
Intact(f) == f \notin {NoFile, Torn}

Zero   == 0                     \* stands in for a sample nobody measured
Cells  == [Xs -> [VMs -> Seq(0 .. MaxSessions)]]    \* <<>>: no such key
Empty  == [x \in Xs |-> [v \in VMs |-> <<>>]]
NoInfo == 0

TypeOK ==
    /\ session \in 0 .. MaxSessions
    /\ enabled \subseteq VMs
    /\ stage \in {"idle", "pre", "run", "post"}
    /\ next \in 1 .. VmNum + GraphNum
    /\ data \in [Graphs -> Cells]
    /\ testinfo \in {NoFile, Torn} \/ testinfo \in [VMs -> 1 .. session]
    /\ json \in [Graphs -> Cells \cup {NoFile, Torn}]
    /\ ended \in {"not yet", "finished", "testinfo", "vm", "load", "killed"}
    /\ harmed \in BOOLEAN

Init ==
    /\ session = 0
    /\ enabled = {}
    /\ stage = "idle"
    /\ next = 1
    /\ data = [g \in Graphs |-> Empty]
    /\ testinfo = NoFile
    /\ json = [g \in Graphs |-> NoFile]
    /\ ended = "not yet"
    /\ harmed = FALSE

-----------------------------------------------------------------------------
(* The script makes the test object; who is enabled is edited in it. *)
StartKeepsData(E) ==                \* mutant: the graphs outlive the session
    /\ stage = "idle"
    /\ session < MaxSessions
    /\ session' = session + 1
    /\ enabled' = E
    /\ stage' = "pre"
    /\ UNCHANGED <<next, data, disk, ended, harmed>>
Start(E) ==
    /\ stage = "idle"
    /\ session < MaxSessions
    /\ session' = session + 1
    /\ enabled' = E
    /\ stage' = "pre"
    /\ data' = [g \in Graphs |-> Empty]
    /\ UNCHANGED <<next, disk, ended, harmed>>

(* An exception leaves pre_run, run or post_run, and so the script. *)
Aborts(why) ==
    /\ stage' = "idle"
    /\ next' = 1
    /\ ended' = why
    /\ UNCHANGED <<session, enabled, data>>

(***************************************************************************)
(* get_info of a VM that is not enabled copies the old info.  That of Qemu *)
(* also copies the keys kernel_file, kernel_git and qemu_git, which no     *)
(* session writes any more.                                                *)
(***************************************************************************)
HasOldInfo(v) == testinfo # NoFile /\ v \notin Qemus

InfoNew(v) == session               \* mutant: as if the VM were enabled
Info(v) == IF v \in enabled THEN session ELSE testinfo[v]

CreateTestinfo ==
    /\ stage = "pre"
    /\ IF testinfo # Torn /\ \A v \in VMs \ enabled : HasOldInfo(v)
       THEN /\ testinfo' = [v \in VMs |-> Info(v)]
            /\ stage' = "run"
            /\ next' = 1
            /\ UNCHANGED <<session, enabled, data, ended>>
       ELSE Aborts("testinfo") /\ UNCHANGED testinfo
    /\ UNCHANGED <<json, harmed>>

(* Killed, or the disk full, after open(.., "w") has emptied the file. *)
TestinfoTorn ==
    /\ stage = "pre"
    /\ testinfo # Torn /\ \A v \in VMs \ enabled : HasOldInfo(v)
    /\ testinfo' = Torn
    /\ harmed' = TRUE
    /\ Aborts("killed")
    /\ UNCHANGED json

-----------------------------------------------------------------------------
AddSamples(cells, v, taken) ==
    [x \in Xs |-> [cells[x] EXCEPT ![v] = @ \o [k \in 1 .. taken[x] |-> session]]]

(***************************************************************************)
(* run_vm.  An exception or Ctrl-C ends the loops, in the middle of a test *)
(* or between two sensors, and no more; a sensor that fails leaves out one *)
(* sample.  What was measured is kept.                                     *)
(***************************************************************************)
RunVM(taken) ==
    /\ stage = "run" /\ next \in enabled
    /\ data' = [g \in Graphs |-> AddSamples(data[g], next, taken[g])]
    /\ harmed' = (harmed \/ \E g \in Graphs, x \in Xs : taken[g][x] < Retries)
    /\ next' = next + 1
    /\ UNCHANGED <<session, enabled, stage, disk, ended>>

(* vm.setup(), vm.run() and vm.teardown() are not protected. *)
VMFails ==
    /\ stage = "run" /\ next \in enabled
    /\ harmed' = TRUE
    /\ Aborts("vm")
    /\ UNCHANGED disk

(***************************************************************************)
(* load_old_results: old_json[x][vm_name] of every x of the file; without  *)
(* a file, a zero for every x that has been measured.                      *)
(***************************************************************************)
Known(cells, x) == \E v \in VMs : cells[x][v] # <<>>

Loadable(g, v) ==
    \/ json[g] = NoFile
    \/ json[g] # Torn /\ \A x \in Xs : Known(json[g], x) => json[g][x][v] # <<>>

LoadedFrom(g, v, x) ==
    IF json[g] # NoFile THEN json[g][x][v]
    ELSE IF Known(data[g], x) THEN <<Zero>> ELSE <<>>
LoadedOnce(g, v) ==                             \* mutant: the first sample of each test
    [x \in Xs |-> [data[g][x] EXCEPT ![v] = IF @ = <<>> THEN SubSeq(LoadedFrom(g, v, x), 1,
                        IF LoadedFrom(g, v, x) = <<>> THEN 0 ELSE 1) ELSE @]]
Loaded(g, v) == [x \in Xs |-> [data[g][x] EXCEPT ![v] = @ \o LoadedFrom(g, v, x)]]

LoadOldVmData ==
    /\ stage = "run" /\ next \in VMs \ enabled
    /\ IF \A g \in Graphs : Loadable(g, next)
       THEN /\ data' = [g \in Graphs |-> Loaded(g, next)]
            /\ next' = next + 1
            /\ UNCHANGED <<session, enabled, stage, ended>>
       ELSE Aborts("load")
    /\ UNCHANGED <<disk, harmed>>

RunEnds ==
    /\ stage = "run" /\ next > VmNum
    /\ stage' = "post"
    /\ next' = 1
    /\ UNCHANGED <<session, enabled, data, disk, ended, harmed>>

-----------------------------------------------------------------------------
(* create_sensor_graphs: dump_to_json of one graph after the other. *)
Dumped(g) == data[g]

CreateGraph(g) ==
    /\ stage = "post" /\ next = g
    /\ json' = [json EXCEPT ![g] = Dumped(g)]
    /\ next' = g + 1
    /\ UNCHANGED <<session, enabled, stage, data, testinfo, ended, harmed>>

(* What fails is logged: before the file is opened, or after. *)
CreateGraphFails(g) ==
    /\ stage = "post" /\ next = g
    /\ \/ UNCHANGED json
       \/ json' = [json EXCEPT ![g] = Torn]
    /\ next' = g + 1
    /\ harmed' = TRUE
    /\ UNCHANGED <<session, enabled, stage, data, testinfo, ended>>

Killed ==
    /\ stage # "idle"
    /\ harmed' = TRUE
    /\ Aborts("killed")
    /\ \/ UNCHANGED disk
       \/ /\ stage = "post" /\ next \in Graphs
          /\ json' = [json EXCEPT ![next] = Torn]
          /\ UNCHANGED testinfo

PostRunEnds ==
    /\ stage = "post" /\ next > GraphNum
    /\ stage' = "idle"
    /\ next' = 1
    /\ ended' = "finished"
    /\ UNCHANGED <<session, enabled, data, disk, harmed>>

Next ==
    \/ \E E \in SUBSET VMs : Start(E)
    \/ CreateTestinfo \/ TestinfoTorn
    \/ \E taken \in Takings : RunVM(taken)
    \/ VMFails \/ LoadOldVmData \/ RunEnds
    \/ \E g \in Graphs : CreateGraph(g) \/ CreateGraphFails(g)
    \/ PostRunEnds \/ Killed

Spec == Init /\ [][Next]_vars

-----------------------------------------------------------------------------
SamplesOf(cell) == {cell[k] : k \in DOMAIN cell}

(***************************************************************************)
(* The samples of one test of one VM always come from one session, in      *)
(* memory and on disk, and there are never more than a session takes:      *)
(* loading adds nothing to fresh results and running nothing to old ones.  *)
(***************************************************************************)
OneSessionPerTest ==
    \A g \in Graphs, x \in Xs, v \in VMs :
        \A f \in {data[g], json[g]} :
            Intact(f) => Len(f[x][v]) <= Retries /\ Cardinality(SamplesOf(f[x][v])) <= 1

(***************************************************************************)
(* Rewriting a file of results takes over, sample by sample, those of the  *)
(* VMs that were not run.                                                  *)
(***************************************************************************)
OldResultsKept ==
    [][\A g \in Graphs :
          json'[g] # json[g] /\ Intact(json[g]) /\ Intact(json'[g]) =>
              \A x \in Xs, v \in VMs \ enabled : json'[g][x][v] = json[g][x][v]]_vars

(***************************************************************************)
(* As long as nothing has failed, over any sequence of sessions,           *)
(* testinfo.json describes the machine the results of each VM were         *)
(* measured on, and a session that got past pre_run finds the old results  *)
(* of all VMs it does not run.  After a session that aborts it describes   *)
(* machines without results.                                               *)
(***************************************************************************)
InfoMatchesResults ==
    ~harmed =>
        /\ ended # "load"
        /\ ended = "finished" /\ stage = "idle" =>
            \A g \in Graphs, x \in Xs, v \in VMs : SamplesOf(json[g][x][v]) = {testinfo[v]}
=============================================================================
