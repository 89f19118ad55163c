---------------------------- MODULE Comparisons -----------------------------
(***************************************************************************)
(* The graphs a session publishes: create_sensor_graphs of                 *)
(* utils/test_base.py, called by post_run for the directory of the test    *)
(* and by tests/seq/qemu_step_comparison.py once more for each pair of     *)
(* VMs, into a folder of the pair; create_graph and what it calls in       *)
(* utils/graphs.py.  Every exception, Ctrl-C included, is logged and the   *)
(* next graph is created.                                                  *)
(*                                                                         *)
(* Of the data only is known which cells <<x, vm>> have samples.           *)
(***************************************************************************)
EXTENDS Naturals, Sequences, FiniteSets, FiniteSetsExt

CONSTANTS
    VmNum, XNum,    \* _vms and _x_categories, in their order
    Graphs,         \* the graphs of _sensors, in their order
    Ratio,          \* RatioGraphs: a function to <<graph1, graph2>>
    SameData,       \* SameDataGraphs: a function to their graph1
    Pairs,          \* the pairs of VMs that are compared
    MaxSessions,    \* bound: sessions in the directory
    MaxLost,        \* bound: cells without a sample in a session
    MaxFaults       \* bound: failures in a session that the data does not explain

VMs == 1 .. VmNum
Xs  == 1 .. XNum
Cell    == Xs \X VMs
Graph   == {Graphs[k] : k \in 1 .. Len(Graphs)}
Sources == Graph \ (DOMAIN Ratio \cup DOMAIN SameData)
Folder  == 0 .. Len(Pairs)          \* 0: the directory of the test itself

(* get_sensors makes each graph once, and lists a SameDataGraph after its  *)
(* graph1.  A RatioGraph stands over graphs that sensors fill, as all of   *)
(* qemu_step_comparison.py do; test_qemu_throughput.py:162 has a FuncGraph *)
(* over a RatioGraph, which is outside this model.                         *)
ASSUME ComparisonsAssumption ==
    /\ VmNum \in Nat \ {0} /\ XNum \in Nat \ {0}
    /\ Graphs \in Seq(Graph)
    /\ \A j, k \in 1 .. Len(Graphs) : Graphs[j] = Graphs[k] => j = k
    /\ \A k \in 1 .. Len(Graphs) : Graphs[k] \in DOMAIN SameData =>
          \E j \in 1 .. k - 1 : Graphs[j] = SameData[Graphs[k]]
    /\ Ratio \in [DOMAIN Ratio -> Sources \X Sources]
    /\ SameData \in [DOMAIN SameData -> Sources]
    /\ Pairs \in Seq(Seq(VMs))
    /\ {MaxSessions, MaxLost, MaxFaults} \subseteq Nat

VARIABLES
    session,        \* the number of the session
    call,           \* the call of create_sensor_graphs, by its folder
    next,           \* the position in the loop over _sensors
    step,           \* how far create_graph of that graph is; "idle": no session
    data,           \* GraphBase.data of each graph
    dir,            \* GraphBase.dir_name of each graph
    oldFolder,      \* local variable of create_graph
    table,          \* what create_graph writes
    txt, json, plot,    \* the files of each graph in each folder
    faults

loop  == <<session, call, next, step>>
files == <<txt, json, plot>>
vars  == <<session, call, next, step, data, dir, oldFolder, table, txt, json, plot, faults>>

NoFile == [session |-> 0, titles |-> <<>>, cells |-> {}]
Torn   == [session |-> 0, titles |-> <<0>>, cells |-> {}]
Table  == [session : 1 .. MaxSessions, titles : {[v \in VMs |-> v]} \cup {Pairs[c] : c \in 1 .. Len(Pairs)},
           cells : SUBSET Cell]
Intact(f) == f \notin {NoFile, Torn}

TypeOK ==
    /\ session \in 0 .. MaxSessions
    /\ call \in Folder
    /\ next \in 1 .. Len(Graphs) + 1
    /\ step \in {"idle", "create", "txt", "json", "plot"}
    /\ data \in [Graph -> SUBSET Cell]
    /\ dir \in [Graph -> Folder] /\ oldFolder \in Folder
    /\ table \in Table \cup {NoFile}
    /\ {txt, json} \subseteq [Folder -> [Graph -> Table \cup {NoFile, Torn}]]
    /\ plot \in [Folder -> [Graph -> [by : 0 .. session, of : Table \cup {NoFile, Torn}]]]
    /\ faults \in 0 .. MaxFaults

NoPlot  == [by |-> 0, of |-> NoFile]
NoFiles(f) == [c \in Folder |-> [g \in Graph |-> f]]

Init ==
    /\ session = 0
    /\ call = 0 /\ next = 1 /\ step = "idle"
    /\ data = [g \in Graph |-> {}]
    /\ dir = [g \in Graph |-> 0]
    /\ oldFolder = 0
    /\ table = NoFile
    /\ txt = NoFiles(NoFile) /\ json = NoFiles(NoFile) /\ plot = NoFiles(NoPlot)
    /\ faults = 0

-----------------------------------------------------------------------------
(***************************************************************************)
(* main: the folders of all pairs are removed, the test is run, and        *)
(* post_run begins with what has been measured or loaded.                  *)
(***************************************************************************)
Cleared(fs) == [c \in Folder |-> IF c = 0 THEN fs[c] ELSE NoFiles(NoFile)[c]]

RunTest ==
    /\ step = "idle"
    /\ session < MaxSessions
    /\ session' = session + 1
    /\ call' = 0 /\ next' = 1 /\ step' = "create"
    /\ \E lost \in UNION {kSubset(k, Sources \X Cell) : k \in 0 .. MaxLost} :
          data' = [g \in Graph |-> {c \in Cell : g \in Sources /\ <<g, c>> \notin lost}]
    /\ dir' = [g \in Graph |-> 0]
    /\ txt' = Cleared(txt) /\ json' = Cleared(json)
    /\ plot' = [c \in Folder |-> IF c = 0 THEN plot[c] ELSE NoFiles(NoPlot)[c]]
    /\ faults' = 0
    /\ oldFolder' = 0 /\ table' = NoFile

Titles(c) == IF c = 0 THEN [v \in VMs |-> v] ELSE Pairs[c]
TitleSet(c) == {Titles(c)[k] : k \in DOMAIN Titles(c)}
Rows(cells) == {cell[1] : cell \in cells}

(***************************************************************************)
(* _calc_data stops at a cell graph2 does not have.  The keys of graph1    *)
(* are in the order they were added: an x with the first VM that has it.   *)
(***************************************************************************)
FirstVM(cells, x) == Min({v \in VMs : <<x, v>> \in cells})
Before(cells, a, b) ==
    LET v == FirstVM(cells, a[1])
        w == FirstVM(cells, b[1])
    IN  IF a[1] = b[1] THEN a[2] < b[2] ELSE v < w \/ (v = w /\ a[1] < b[1])
RaisesNever(g) == FALSE             \* mutant: what graph2 lacks is passed over
Raises(g) == g \in DOMAIN Ratio /\ ~(data[Ratio[g][1]] \subseteq data[Ratio[g][2]])
CalcData(g) ==
    IF g \notin DOMAIN Ratio THEN data[g]
    ELSE LET cells   == data[Ratio[g][1]]
             lacking == cells \ data[Ratio[g][2]]
         IN  data[g] \cup {c \in cells : \A l \in lacking : Before(cells, c, l)}

(* _limit_data is called before _calc_data, but shares the lists of samples. *)
Limited(g) == {c \in data[g] : c[2] \in TitleSet(call)}
Contents(g) == IF call = 0 THEN CalcData(g) ELSE Limited(g)

(* What _limit_data writes as 0 for a cell without samples has no mean. *)
HasMeansAlways(g) == TRUE           \* mutant: _limit_data yields a series of zeros
HasMeans(g) == call = 0 \/ Rows(data[g]) \X TitleSet(call) \subseteq table.cells

-----------------------------------------------------------------------------
Creating(g, s) == step = s /\ next <= Len(Graphs) /\ g = Graphs[next]

(* create_graph is left, by return or by an exception, and with it its locals. *)
NextGraph ==
    /\ step' = "create"
    /\ next' = next + 1
    /\ oldFolder' = 0 /\ table' = NoFile
    /\ UNCHANGED <<session, call>>

DirKept(g) == dir[g]                \* mutant: the files stay where they are
Entered(g) == IF call = 0 THEN dir[g] ELSE call

(* create_graph, up to the files. *)
Create(g) ==
    /\ Creating(g, "create")
    /\ dir' = [dir EXCEPT ![g] = Entered(g)]
    /\ data' = [data EXCEPT ![g] = CalcData(g)]
    /\ IF Raises(g) THEN NextGraph
       ELSE /\ step' = IF g \in DOMAIN SameData THEN "plot" ELSE "txt"
            /\ oldFolder' = dir[g]
            /\ table' = [session |-> session, titles |-> Titles(call), cells |-> Contents(g)]
            /\ UNCHANGED <<session, call, next>>
    /\ UNCHANGED <<files, faults>>

WriteTxt(g) ==
    /\ Creating(g, "txt")
    /\ IF HasMeans(g)
       THEN /\ txt' = [txt EXCEPT ![dir[g]][g] = table]
            /\ step' = "json"
            /\ UNCHANGED <<session, call, next, oldFolder, table>>
       ELSE /\ txt' = [txt EXCEPT ![dir[g]][g] = Torn]
            /\ NextGraph
    /\ UNCHANGED <<data, dir, json, plot, faults>>

DumpToJson(g) ==
    /\ Creating(g, "json")
    /\ json' = [json EXCEPT ![dir[g]][g] = table]
    /\ step' = "plot"
    /\ UNCHANGED <<session, call, next, data, dir, oldFolder, table, txt, plot, faults>>

(* gnuplot reads the data file in the folder; that of a SameDataGraph is graph1's. *)
DataFile(g) == txt[dir[g]][IF g \in DOMAIN SameData THEN SameData[g] ELSE g]

Plot(g) ==
    /\ Creating(g, "plot")
    /\ DataFile(g) # NoFile
    /\ plot' = [plot EXCEPT ![dir[g]][g] = [by |-> session, of |-> DataFile(g)]]
    /\ dir' = [dir EXCEPT ![g] = oldFolder]
    /\ NextGraph
    /\ UNCHANGED <<data, txt, json, faults>>

(* There is nothing to plot, or a part of what is plotted is missing. *)
PlotRaises(g) ==
    /\ Creating(g, "plot")
    /\ ~Intact(DataFile(g)) \/ DataFile(g).cells = {}
    /\ NextGraph
    /\ UNCHANGED <<data, dir, files, faults>>

TornOrNot(f, g, s) == {f} \cup IF step = s THEN {[f EXCEPT ![dir[g]][g] = Torn]} ELSE {}

(* Anything else: the disk is full, gnuplot is missing, Ctrl-C, or a kill. *)
Fails(g) ==
    /\ step \in {"txt", "json", "plot"} /\ Creating(g, step)
    /\ faults < MaxFaults
    /\ faults' = faults + 1
    /\ txt' \in TornOrNot(txt, g, "txt") /\ json' \in TornOrNot(json, g, "json")
    /\ \/ NextGraph
       \/ step' = "idle" /\ UNCHANGED <<session, call, next, oldFolder, table>>
    /\ UNCHANGED <<data, dir, plot>>

(* create_sensor_graphs returns; the next pair, or the end of the script. *)
CallReturns ==
    /\ step = "create" /\ next > Len(Graphs)
    /\ IF call < Len(Pairs)
       THEN call' = call + 1 /\ next' = 1 /\ UNCHANGED step
       ELSE step' = "idle" /\ UNCHANGED <<call, next>>
    /\ UNCHANGED <<session, data, dir, oldFolder, table, files, faults>>

Next ==
    \/ RunTest \/ CallReturns
    \/ \E g \in Graph :
          Create(g) \/ WriteTxt(g) \/ DumpToJson(g) \/ Plot(g) \/ PlotRaises(g) \/ Fails(g)

Spec == Init /\ [][Next]_vars

-----------------------------------------------------------------------------
(***************************************************************************)
(* No comparison changes a file in the directory of the test: the complete *)
(* results, which later sessions load, are not replaced by those of a      *)
(* pair, whatever failed in the comparisons before.                        *)
(***************************************************************************)
CompleteResultsKept ==
    [][step # "idle" /\ call > 0 =>
          \A f \in {<<txt, txt'>>, <<json, json'>>, <<plot, plot'>>} : f[1][0] = f[2][0]]_vars

(***************************************************************************)
(* A JSON in the folder of a pair holds its two VMs in the order of the    *)
(* pair, from this session, with samples in every cell: a cell nobody      *)
(* measured never becomes the zero that _limit_data puts in its place.     *)
(* A plot shows the session and the VMs it was drawn for; only in the      *)
(* directory of the test, and after a failure, can it show the data file   *)
(* of an earlier session.                                                  *)
(***************************************************************************)
FoldersHoldTheirPair ==
    \A c \in Folder, g \in Graph :
        /\ c # 0 /\ Intact(json[c][g]) =>
            /\ json[c][g].titles = Pairs[c]
            /\ json[c][g].session = session
            /\ json[c][g].cells = Rows(data[g]) \X TitleSet(c)
        /\ plot[c][g].by = session /\ Intact(plot[c][g].of) =>
            \/ plot[c][g].of.session = session /\ plot[c][g].of.titles = Titles(c)
            \/ c = 0 /\ faults > 0

(***************************************************************************)
(* Once a call has returned in which nothing unforeseen failed, it has     *)
(* written the JSON of exactly the graphs whose data allows it: for a pair *)
(* only its own VMs must have been measured, for a RatioGraph no VM at all *)
(* may have a cell in graph1 and none in graph2, compared or not.          *)
(***************************************************************************)
Computable(g, c) ==
    /\ g \notin DOMAIN SameData
    /\ g \in DOMAIN Ratio => data[Ratio[g][1]] \subseteq data[Ratio[g][2]]
    /\ c # 0 => Rows(data[g]) \X TitleSet(c) \subseteq data[g]
PublishedIfMeasured ==
    step = "create" /\ next > Len(Graphs) /\ faults = 0 =>
        \A g \in Graph :
            Computable(g, call) <=> Intact(json[call][g]) /\ json[call][g].session = session
=============================================================================
