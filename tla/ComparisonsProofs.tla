-------------------------- MODULE ComparisonsProofs ---------------------------
(***************************************************************************)
(* Proofs about Comparisons, for any graphs, VMs, pairs, sessions and      *)
(* failures: of the type invariant, that a comparison leaves the files of  *)
(* the test alone, that a folder holds the results of its pair and of this *)
(* session, and that what can be published is published.                   *)
(***************************************************************************)
EXTENDS Comparisons, TLAPS

(* The length of the loop over _sensors. *)
Last == Len(Graphs)

(* Between the creation of a graph and the end of its create_graph. *)
Busy    == step \in {"txt", "json", "plot"}
Current == Graphs[next]

(* A session has a number, and the loop is not over while a graph is written. *)
Loop ==
    /\ step # "idle" => session >= 1
    /\ Busy => next <= Last
    /\ step \in {"txt", "json"} => Current \notin DOMAIN SameData
    /\ Busy => ~Raises(Current)

(***************************************************************************)
(* Files are written to the folder of the call; the graphs are never moved *)
(* while the test itself is published.                                     *)
(***************************************************************************)
DirOfCall ==
    /\ call = 0 => oldFolder = 0 /\ \A g \in Graph : dir[g] = 0
    /\ Busy => dir[Current] = call

(* _calc_data has run, and running it again adds nothing. *)
Calculated ==
    \A k \in 1 .. Last :
        call > 0 \/ k < next \/ (k = next /\ Busy) => CalcData(Graphs[k]) = data[Graphs[k]]

(* What is written is what the data of the graph now says. *)
TableOf(g) == [session |-> session, titles |-> Titles(call), cells |-> Contents(g)]
TableFits ==
    /\ Busy => table = TableOf(Current)
    /\ step \in {"json", "plot"} /\ Current \notin DOMAIN SameData =>
          HasMeans(Current) /\ txt[call][Current] = table

(* The folders of the pairs whose turn has not come are empty. *)
Cleared0 ==
    \A c \in Folder, g \in Graph : c > call =>
        txt[c][g] = NoFile /\ json[c][g] = NoFile /\ plot[c][g] = NoPlot

(* The data files and results in the folder of a pair are of this session. *)
TxtOfPair ==
    \A c \in Folder \ {0}, g \in Graph : Intact(txt[c][g]) =>
        txt[c][g].session = session /\ txt[c][g].titles = Titles(c)
JsonOfPair ==
    \A c \in Folder \ {0}, g \in Graph : Intact(json[c][g]) =>
        /\ json[c][g].titles = Pairs[c]
        /\ json[c][g].session = session
        /\ json[c][g].cells = Rows(data[g]) \X TitleSet(c)

(* Those of the test as well, up to the graph that is next, if nothing failed. *)
TxtOfTest ==
    call = 0 /\ faults = 0 =>
        \A k \in 1 .. Last : k < next /\ Graphs[k] \in Sources =>
            /\ txt[0][Graphs[k]].session = session
            /\ txt[0][Graphs[k]].titles = Titles(0)

(* A plot of this session shows data of this session. *)
PlotFits ==
    \A c \in Folder, g \in Graph : plot[c][g].by = session /\ Intact(plot[c][g].of) =>
        \/ plot[c][g].of.session = session /\ plot[c][g].of.titles = Titles(c)
        \/ c = 0 /\ faults > 0

(* No result is from the future, nor written before its graph's turn. *)
NotYet ==
    /\ \A c \in Folder, g \in Graph : json[c][g].session <= session
    /\ step # "idle" =>
          \A k \in 1 .. Last :
              \/ k > next
              \/ k = next /\ (step # "plot" \/ Graphs[k] \in DOMAIN SameData)
              => json[call][Graphs[k]].session # session

(* Of the graphs that are through, those that could be computed are published. *)
IsPublished(g) == Intact(json[call][g]) /\ json[call][g].session = session
Published ==
    step # "idle" /\ faults = 0 =>
        \A k \in 1 .. Last : k < next \/ (k = next /\ step = "plot") =>
            (Computable(Graphs[k], call) <=> IsPublished(Graphs[k]))

(* The inductive invariant. *)
IInv ==
    /\ TypeOK /\ Loop /\ DirOfCall /\ Calculated /\ TableFits
    /\ Cleared0 /\ TxtOfPair /\ JsonOfPair /\ TxtOfTest /\ PlotFits
    /\ NotYet /\ Published

-----------------------------------------------------------------------------
(* The constants, one by one. *)
LEMMA Constants ==
    /\ VmNum \in Nat \ {0} /\ XNum \in Nat \ {0}
    /\ Graphs \in Seq(Graph)
    /\ \A j, k \in 1 .. Len(Graphs) : Graphs[j] = Graphs[k] => j = k
    /\ \A k \in 1 .. Len(Graphs) : Graphs[k] \in DOMAIN SameData =>
          \E j \in 1 .. k - 1 : Graphs[j] = SameData[Graphs[k]]
    /\ Ratio \in [DOMAIN Ratio -> Sources \X Sources]
    /\ SameData \in [DOMAIN SameData -> Sources]
    /\ Pairs \in Seq(Seq(VMs))
    /\ MaxSessions \in Nat /\ MaxLost \in Nat /\ MaxFaults \in Nat
BY ComparisonsAssumption

(* The loop over _sensors names graphs, each once. *)
LEMMA Positions ==
    /\ Last \in Nat
    /\ \A k \in 1 .. Last : Graphs[k] \in Graph
    /\ \A g \in Graph : \E k \in 1 .. Last : g = Graphs[k]
    /\ \A j, k \in 1 .. Last : Graphs[j] = Graphs[k] => j = k
BY Constants DEF Last, Graph

(* Folders are numbers: 0 and the positions of the pairs. *)
LEMMA Folders ==
    /\ Len(Pairs) \in Nat /\ 0 \in Folder
    /\ \A c \in Folder : c \in Nat /\ (c # 0 => c \in 1 .. Len(Pairs))
<1>1. Len(Pairs) \in Nat
  BY Constants
<1> QED
  BY <1>1 DEF Folder

(* What the derived graphs are derived from is not derived itself. *)
LEMMA SourceGraphs ==
    /\ Sources \subseteq Graph
    /\ \A g \in Sources : g \notin DOMAIN Ratio /\ g \notin DOMAIN SameData
    /\ \A g \in DOMAIN Ratio : Ratio[g][1] \in Sources /\ Ratio[g][2] \in Sources
    /\ \A g \in DOMAIN SameData : SameData[g] \in Sources
BY Constants DEF Sources

(* One file, of one graph in one folder, is written. *)
LEMMA Filed ==
    ASSUME NEW V, NEW f \in [Folder -> [Graph -> V]], NEW c \in Folder, NEW g \in Graph,
           NEW w \in V
    PROVE  /\ [f EXCEPT ![c][g] = w] \in [Folder -> [Graph -> V]]
           /\ [f EXCEPT ![c][g] = w][c][g] = w
           /\ \A d \in Folder, h \in Graph :
                 ~(d = c /\ h = g) => [f EXCEPT ![c][g] = w][d][h] = f[d][h]
           /\ \A d \in Folder : d # c => [f EXCEPT ![c][g] = w][d] = f[d]
OBVIOUS

(* What was written whole is not taken for missing or torn. *)
LEMMA TableIntact ==
    ASSUME NEW f \in Table
    PROVE  Intact(f)
<1>1. f.session \in 1 .. MaxSessions
  BY DEF Table
<1>2. f.session # 0
  BY <1>1, Constants
<1> QED
  BY <1>2 DEF Intact, NoFile, Torn

(* What a file may hold, and what a plot of session n or earlier shows. *)
Files == Table \cup {NoFile, Torn}
Drawn(n) == [by : 0 .. n, of : Files]

(* The same as TypeOK, one variable after the other. *)
LEMMA Types ==
    ASSUME TypeOK
    PROVE  /\ session \in 0 .. MaxSessions /\ session \in Nat
           /\ call \in Folder
           /\ next \in 1 .. Last + 1 /\ next \in Nat
           /\ step \in {"idle", "create", "txt", "json", "plot"}
           /\ data \in [Graph -> SUBSET Cell]
           /\ dir \in [Graph -> Folder] /\ oldFolder \in Folder
           /\ table \in Table \cup {NoFile}
           /\ txt \in [Folder -> [Graph -> Files]] /\ json \in [Folder -> [Graph -> Files]]
           /\ plot \in [Folder -> [Graph -> Drawn(session)]]
           /\ faults \in 0 .. MaxFaults /\ faults \in Nat
<1>1. session \in 0 .. MaxSessions /\ next \in 1 .. Last + 1 /\ faults \in 0 .. MaxFaults
  BY DEF TypeOK, Last
<1>2. session \in Nat /\ next \in Nat /\ faults \in Nat
  BY <1>1, Constants, Positions
<1> QED
  BY <1>1, <1>2 DEF TypeOK, Files, Drawn

(* A graph's data is a set of cells, calculated or not; so is a selection of it. *)
LEMMA CellSets ==
    ASSUME TypeOK, NEW g \in Graph
    PROVE  CalcData(g) \in SUBSET Cell /\ Limited(g) \in SUBSET Cell /\ Contents(g) \in SUBSET Cell
<1>1. data[g] \in SUBSET Cell
  BY Types
<1>2. g \in DOMAIN Ratio => data[Ratio[g][1]] \in SUBSET Cell
  BY SourceGraphs, Types
<1>3. CalcData(g) \in SUBSET Cell
  BY <1>1, <1>2 DEF CalcData
<1>4. Limited(g) \in SUBSET Cell
  BY <1>1 DEF Limited
<1> QED
  BY <1>3, <1>4 DEF Contents

(* Calculating twice is calculating once, and concerns no other graph. *)
LEMMA Recalculated ==
    ASSUME TypeOK, NEW g \in Graph, data' = [data EXCEPT ![g] = CalcData(g)]
    PROVE  /\ data' \in [Graph -> SUBSET Cell]
           /\ data'[g] = CalcData(g)
           /\ \A h \in Graph : h # g => data'[h] = data[h]
           /\ \A s \in Sources : data'[s] = data[s]
           /\ CalcData(g)' = data'[g]
           /\ \A h \in Graph : CalcData(h) = data[h] => CalcData(h)' = data'[h]
           /\ \A h \in Graph : Raises(h)' <=> Raises(h)
<1>1. data \in [Graph -> SUBSET Cell] /\ CalcData(g) \in SUBSET Cell
  BY Types, CellSets
<1>2. /\ data' \in [Graph -> SUBSET Cell]
      /\ data'[g] = CalcData(g)
      /\ \A h \in Graph : h # g => data'[h] = data[h]
  BY <1>1
<1>3. ASSUME NEW s \in Sources
      PROVE  data'[s] = data[s]
  <2>1. s = g => CalcData(g) = data[g]
    BY SourceGraphs DEF CalcData
  <2> QED
    BY <1>2, <2>1, SourceGraphs
<1>4. ASSUME NEW h \in DOMAIN Ratio
      PROVE  data'[Ratio[h][1]] = data[Ratio[h][1]] /\ data'[Ratio[h][2]] = data[Ratio[h][2]]
  BY <1>3, SourceGraphs
<1>5. CalcData(g)' = data'[g]
  BY <1>2, <1>4 DEF CalcData
<1>6. ASSUME NEW h \in Graph, CalcData(h) = data[h]
      PROVE  CalcData(h)' = data'[h]
  <2>1. CASE h = g
    BY <1>5, <2>1
  <2>2. CASE h # g
    BY <1>2, <1>4, <1>6, <2>2 DEF CalcData
  <2> QED
    BY <2>1, <2>2
<1>7. ASSUME NEW h \in Graph
      PROVE  Raises(h)' <=> Raises(h)
  BY <1>4 DEF Raises
<1> QED
  BY <1>2, <1>3, <1>5, <1>6, <1>7

-----------------------------------------------------------------------------
(* The graph whose turn it is. *)
LEMMA Turn ==
    ASSUME TypeOK, NEW g \in Graph, NEW s, Creating(g, s)
    PROVE  /\ step = s /\ next \in 1 .. Last /\ g = Current /\ Graphs[next] = g
           /\ next + 1 \in 1 .. Last + 1
BY Types, Positions DEF Creating, Current, Last

(* TypeOK, put together again. *)
LEMMA Typed ==
    ASSUME session' \in 0 .. MaxSessions, call' \in Folder, next' \in 1 .. Last + 1,
           step' \in {"idle", "create", "txt", "json", "plot"},
           data' \in [Graph -> SUBSET Cell],
           dir' \in [Graph -> Folder], oldFolder' \in Folder,
           table' \in Table \cup {NoFile},
           txt' \in [Folder -> [Graph -> Files]], json' \in [Folder -> [Graph -> Files]],
           plot' \in [Folder -> [Graph -> Drawn(session')]],
           faults' \in 0 .. MaxFaults
    PROVE  TypeOK'
BY DEF TypeOK, Files, Drawn, Last, Table, NoFile, Torn

(* What Titles, TitleSet, and a table of this session and call are. *)
LEMMA TableTyped ==
    ASSUME TypeOK, NEW g \in Graph, session >= 1
    PROVE  TableOf(g) \in Table
<1>1. session \in 1 .. MaxSessions
  BY Types, Constants
<1>2. Titles(call) \in {[v \in VMs |-> v]} \cup {Pairs[c] : c \in 1 .. Len(Pairs)}
  BY Types, Folders DEF Titles
<1>3. Contents(g) \in SUBSET Cell
  BY CellSets
<1> QED
  BY <1>1, <1>2, <1>3 DEF TableOf, Table

(* The next session: its data, and the folders of the pairs empty again. *)
LEMMA RunTestFacts ==
    ASSUME TypeOK, RunTest
    PROVE  /\ step = "idle" /\ session' = session + 1 /\ session' \in 0 .. MaxSessions
           /\ call' = 0 /\ next' = 1 /\ step' = "create" /\ faults' = 0
           /\ oldFolder' = 0 /\ table' = NoFile
           /\ data' \in [Graph -> SUBSET Cell]
           /\ dir' = [g \in Graph |-> 0]
           /\ txt' \in [Folder -> [Graph -> Files]] /\ json' \in [Folder -> [Graph -> Files]]
           /\ plot' \in [Folder -> [Graph -> Drawn(session')]]
           /\ txt'[0] = txt[0] /\ json'[0] = json[0] /\ plot'[0] = plot[0]
           /\ \A c \in Folder, g \in Graph : c # 0 =>
                 txt'[c][g] = NoFile /\ json'[c][g] = NoFile /\ plot'[c][g] = NoPlot
<1>1. /\ step = "idle" /\ session' = session + 1 /\ session < MaxSessions
      /\ call' = 0 /\ next' = 1 /\ step' = "create" /\ faults' = 0
      /\ oldFolder' = 0 /\ table' = NoFile /\ dir' = [g \in Graph |-> 0]
      /\ txt' = Cleared(txt) /\ json' = Cleared(json)
      /\ plot' = [c \in Folder |-> IF c = 0 THEN plot[c] ELSE NoFiles(NoPlot)[c]]
  BY DEF RunTest
<1>2. PICK lost : data' = [g \in Graph |-> {c \in Cell : g \in Sources /\ <<g, c>> \notin lost}]
  BY DEF RunTest
<1>3. data' \in [Graph -> SUBSET Cell]
  BY <1>2
<1>4. session' \in 0 .. MaxSessions
  BY <1>1, Types, Constants
<1>5. NoFile \in Files
  BY DEF Files
<1>6. /\ txt' \in [Folder -> [Graph -> Files]] /\ txt'[0] = txt[0]
      /\ \A c \in Folder, g \in Graph : c # 0 => txt'[c][g] = NoFile
  BY <1>1, <1>5, Types, Folders DEF Cleared, NoFiles
<1>7. /\ json' \in [Folder -> [Graph -> Files]] /\ json'[0] = json[0]
      /\ \A c \in Folder, g \in Graph : c # 0 => json'[c][g] = NoFile
  BY <1>1, <1>5, Types, Folders DEF Cleared, NoFiles
<1>8. Drawn(session) \subseteq Drawn(session') /\ NoPlot \in Drawn(session')
  <2>1. 0 .. session \subseteq 0 .. session' /\ 0 \in 0 .. session'
    BY <1>1, Types
  <2> QED
    BY <2>1, <1>5 DEF Drawn, NoPlot
<1>9. /\ plot' \in [Folder -> [Graph -> Drawn(session')]] /\ plot'[0] = plot[0]
      /\ \A c \in Folder, g \in Graph : c # 0 => plot'[c][g] = NoPlot
  <2>1. plot \in [Folder -> [Graph -> Drawn(session')]]
    BY <1>8, Types
  <2> QED
    BY <1>1, <1>8, <2>1, Folders DEF NoFiles
<1> QED
  BY <1>1, <1>3, <1>4, <1>6, <1>7, <1>9

(* Every step keeps the types. *)
LEMMA TypeStep ==
    ASSUME TypeOK, Loop, [Next]_vars
    PROVE  TypeOK'
<1>t. /\ session \in 0 .. MaxSessions /\ session \in Nat
      /\ call \in Folder
      /\ next \in 1 .. Last + 1 /\ next \in Nat
      /\ step \in {"idle", "create", "txt", "json", "plot"}
      /\ data \in [Graph -> SUBSET Cell]
      /\ dir \in [Graph -> Folder] /\ oldFolder \in Folder
      /\ table \in Table \cup {NoFile}
      /\ txt \in [Folder -> [Graph -> Files]] /\ json \in [Folder -> [Graph -> Files]]
      /\ plot \in [Folder -> [Graph -> Drawn(session)]]
      /\ faults \in 0 .. MaxFaults /\ faults \in Nat
  BY Types
<1>f. table \in Files /\ Torn \in Files /\ NoFile \in Files /\ 0 \in Folder
      /\ NoFile \in Table \cup {NoFile}
  BY <1>t, Folders DEF Files
<1>o. 1 \in 1 .. Last + 1
  BY Positions
<1>n. ASSUME NextGraph, next + 1 \in 1 .. Last + 1
      PROVE  /\ session' = session /\ call' = call /\ next' \in 1 .. Last + 1 /\ step' = "create"
             /\ oldFolder' \in Folder /\ table' \in Table \cup {NoFile}
  BY <1>n, <1>f DEF NextGraph
<1>1. ASSUME RunTest
      PROVE  TypeOK'
  <2>1. dir' \in [Graph -> Folder] /\ faults' \in 0 .. MaxFaults
    BY <1>1, RunTestFacts, Folders, Constants
  <2> QED
    BY <1>1, <1>f, <1>o, <2>1, RunTestFacts, Typed
<1>2. ASSUME CallReturns
      PROVE  TypeOK'
  <2>1. /\ session' = session /\ data' = data /\ dir' = dir /\ oldFolder' = oldFolder
        /\ table' = table /\ txt' = txt /\ json' = json /\ plot' = plot /\ faults' = faults
    BY <1>2 DEF CallReturns, files
  <2>2. /\ call' \in Folder
        /\ next' \in 1 .. Last + 1 /\ step' \in {"idle", "create", "txt", "json", "plot"}
    <3>1. CASE call < Len(Pairs)
      <4>1. call' = call + 1 /\ next' = 1 /\ step' = step
        BY <1>2, <3>1 DEF CallReturns
      <4>2. call + 1 \in 0 .. Len(Pairs)
        BY <1>t, <3>1, Folders
      <4> QED
        BY <1>t, <1>o, <4>1, <4>2 DEF Folder
    <3>2. CASE ~(call < Len(Pairs))
      BY <1>2, <1>t, <3>2 DEF CallReturns
    <3> QED
      BY <3>1, <3>2
  <2> QED
    BY <1>t, <2>1, <2>2, Typed
<1>3. ASSUME NEW g \in Graph, Create(g)
      PROVE  TypeOK'
  <2>1. /\ Creating(g, "create")
        /\ dir' = [dir EXCEPT ![g] = Entered(g)] /\ data' = [data EXCEPT ![g] = CalcData(g)]
        /\ txt' = txt /\ json' = json /\ plot' = plot /\ faults' = faults
    BY <1>3 DEF Create, files
  <2>2. step = "create" /\ next + 1 \in 1 .. Last + 1
    BY <2>1, Turn
  <2>3. dir' \in [Graph -> Folder] /\ data' \in [Graph -> SUBSET Cell]
    <3>1. Entered(g) \in Folder
      BY <1>t DEF Entered
    <3> QED
      BY <1>t, <2>1, <3>1, Recalculated
  <2>4. CASE Raises(g)
    <3>1. NextGraph
      BY <1>3, <2>4 DEF Create
    <3> QED
      BY <1>t, <1>n, <2>1, <2>2, <2>3, <3>1, Typed
  <2>5. CASE ~Raises(g)
    <3>1. /\ step' \in {"plot", "txt"} /\ oldFolder' = dir[g] /\ table' = TableOf(g)
          /\ session' = session /\ call' = call /\ next' = next
      BY <1>3, <2>5 DEF Create, TableOf
    <3>2. TableOf(g) \in Table
      BY <2>2, TableTyped DEF Loop
    <3>3. oldFolder' \in Folder /\ table' \in Table \cup {NoFile}
      BY <1>t, <3>1, <3>2
    <3> QED
      BY <1>t, <2>1, <2>3, <3>1, <3>3, Typed
  <2> QED
    BY <2>4, <2>5
<1>4. ASSUME NEW g \in Graph, WriteTxt(g)
      PROVE  TypeOK'
  <2>1. /\ Creating(g, "txt") /\ data' = data /\ dir' = dir
        /\ json' = json /\ plot' = plot /\ faults' = faults
    BY <1>4 DEF WriteTxt
  <2>2. next + 1 \in 1 .. Last + 1 /\ dir[g] \in Folder
    BY <1>t, <2>1, Turn
  <2>3. CASE HasMeans(g)
    <3>1. /\ txt' = [txt EXCEPT ![dir[g]][g] = table] /\ step' = "json"
          /\ session' = session /\ call' = call /\ next' = next
          /\ oldFolder' = oldFolder /\ table' = table
      BY <1>4, <2>3 DEF WriteTxt
    <3>2. txt' \in [Folder -> [Graph -> Files]]
      BY <1>t, <1>f, <2>2, <3>1, Filed
    <3> QED
      BY <1>t, <2>1, <3>1, <3>2, Typed
  <2>4. CASE ~HasMeans(g)
    <3>1. txt' = [txt EXCEPT ![dir[g]][g] = Torn] /\ NextGraph
      BY <1>4, <2>4 DEF WriteTxt
    <3>2. txt' \in [Folder -> [Graph -> Files]]
      BY <1>t, <1>f, <2>2, <3>1, Filed
    <3> QED
      BY <1>t, <1>n, <2>1, <2>2, <3>1, <3>2, Typed
  <2> QED
    BY <2>3, <2>4
<1>5. ASSUME NEW g \in Graph, DumpToJson(g)
      PROVE  TypeOK'
  <2>1. /\ Creating(g, "json") /\ json' = [json EXCEPT ![dir[g]][g] = table] /\ step' = "plot"
        /\ session' = session /\ call' = call /\ next' = next /\ data' = data /\ dir' = dir
        /\ oldFolder' = oldFolder /\ table' = table /\ txt' = txt /\ plot' = plot
        /\ faults' = faults
    BY <1>5 DEF DumpToJson
  <2>2. json' \in [Folder -> [Graph -> Files]]
    BY <1>t, <1>f, <2>1, Filed
  <2> QED
    BY <1>t, <2>1, <2>2, Typed
<1>6. ASSUME NEW g \in Graph, Plot(g)
      PROVE  TypeOK'
  <2>1. /\ Creating(g, "plot") /\ NextGraph
        /\ plot' = [plot EXCEPT ![dir[g]][g] = [by |-> session, of |-> DataFile(g)]]
        /\ dir' = [dir EXCEPT ![g] = oldFolder]
        /\ data' = data /\ txt' = txt /\ json' = json /\ faults' = faults
    BY <1>6 DEF Plot
  <2>2. next + 1 \in 1 .. Last + 1
    BY <2>1, Turn
  <2>3. dir' \in [Graph -> Folder]
    BY <1>t, <2>1
  <2>4. DataFile(g) \in Files
    BY <1>t, SourceGraphs DEF DataFile
  <2>5. [by |-> session, of |-> DataFile(g)] \in Drawn(session)
    BY <1>t, <2>4 DEF Drawn
  <2>6. plot' \in [Folder -> [Graph -> Drawn(session)]]
    BY <1>t, <2>1, <2>5, Filed
  <2> QED
    BY <1>t, <1>n, <2>1, <2>2, <2>3, <2>6, Typed
<1>7. ASSUME NEW g \in Graph, PlotRaises(g)
      PROVE  TypeOK'
  <2>1. /\ Creating(g, "plot") /\ NextGraph
        /\ data' = data /\ dir' = dir /\ txt' = txt /\ json' = json /\ plot' = plot
        /\ faults' = faults
    BY <1>7 DEF PlotRaises, files
  <2>2. next + 1 \in 1 .. Last + 1
    BY <2>1, Turn
  <2> QED
    BY <1>t, <1>n, <2>1, <2>2, Typed
<1>8. ASSUME NEW g \in Graph, Fails(g)
      PROVE  TypeOK'
  <2>1. /\ Creating(g, step) /\ faults < MaxFaults /\ faults' = faults + 1
        /\ txt' = txt \/ txt' = [txt EXCEPT ![dir[g]][g] = Torn]
        /\ json' = json \/ json' = [json EXCEPT ![dir[g]][g] = Torn]
        /\ data' = data /\ dir' = dir /\ plot' = plot
    BY <1>8 DEF Fails, TornOrNot
  <2>2. next + 1 \in 1 .. Last + 1 /\ dir[g] \in Folder
    BY <1>t, <2>1, Turn
  <2>3. faults' \in 0 .. MaxFaults
    BY <1>t, <2>1, Constants
  <2>a. ASSUME NEW f \in [Folder -> [Graph -> Files]]
        PROVE  [f EXCEPT ![dir[g]][g] = Torn] \in [Folder -> [Graph -> Files]]
    BY <1>f, <2>2, Filed
  <2>4. txt' \in [Folder -> [Graph -> Files]] /\ json' \in [Folder -> [Graph -> Files]]
    <3>1. /\ [txt EXCEPT ![dir[g]][g] = Torn] \in [Folder -> [Graph -> Files]]
          /\ [json EXCEPT ![dir[g]][g] = Torn] \in [Folder -> [Graph -> Files]]
      BY <1>t, <2>a
    <3>2. txt \in [Folder -> [Graph -> Files]] /\ json \in [Folder -> [Graph -> Files]]
      BY <1>t
    <3> QED
      BY Zenon, <2>1, <3>1, <3>2
  <2>5. CASE NextGraph
    BY <1>t, <1>n, <2>1, <2>2, <2>3, <2>4, <2>5, Typed
  <2>6. CASE step' = "idle" /\ UNCHANGED <<session, call, next, oldFolder, table>>
    BY <1>t, <2>1, <2>3, <2>4, <2>6, Typed
  <2> QED
    BY <1>8, <2>5, <2>6 DEF Fails
<1>9. CASE UNCHANGED vars
  BY <1>9 DEF vars, TypeOK, Table, NoFile, Torn
<1> QED
  BY <1>1, <1>2, <1>3, <1>4, <1>5, <1>6, <1>7, <1>8, <1>9 DEF Next

-----------------------------------------------------------------------------
(***************************************************************************)
(* What the steps do, for the proofs below: first those that go on to the  *)
(* next graph or end the session, then those within create_graph.          *)
(***************************************************************************)
Moves ==
    /\ session' = session /\ call' = call
    /\ \/ step' = "create" /\ next' = next + 1 /\ oldFolder' = 0
       \/ step' = "idle" /\ next' = next /\ oldFolder' = oldFolder

Stays ==
    session' = session /\ call' = call /\ next' = next /\ faults' = faults

(* A call is over: the next pair's, or the end of the session. *)
LEMMA CallReturnsFacts ==
    ASSUME TypeOK, CallReturns
    PROVE  /\ step = "create" /\ next > Last /\ session' = session
           /\ data' = data /\ dir' = dir /\ oldFolder' = oldFolder /\ table' = table
           /\ txt' = txt /\ json' = json /\ plot' = plot /\ faults' = faults
           /\ \/ call' = call + 1 /\ next' = 1 /\ step' = "create" /\ call' \in Folder
              \/ call' = call /\ next' = next /\ step' = "idle"
<1>1. /\ step = "create" /\ next > Last /\ session' = session
      /\ data' = data /\ dir' = dir /\ oldFolder' = oldFolder /\ table' = table
      /\ txt' = txt /\ json' = json /\ plot' = plot /\ faults' = faults
  BY DEF CallReturns, files, Last
<1>2. CASE call < Len(Pairs)
  <2>1. call' = call + 1 /\ next' = 1 /\ step' = step
    BY <1>2 DEF CallReturns
  <2>2. call + 1 \in 0 .. Len(Pairs)
    BY <1>2, Types, Folders
  <2> QED
    BY <1>1, <2>1, <2>2 DEF Folder
<1>3. CASE ~(call < Len(Pairs))
  <2>1. call' = call /\ next' = next /\ step' = "idle"
    BY <1>3 DEF CallReturns
  <2> QED
    BY <1>1, <2>1
<1> QED
  BY <1>2, <1>3

(* A graph is calculated and enters its folder, or raises. *)
LEMMA CreateFacts ==
    ASSUME TypeOK, NEW g \in Graph, Create(g)
    PROVE  /\ step = "create" /\ next \in 1 .. Last /\ g = Graphs[next]
           /\ session' = session /\ call' = call /\ faults' = faults
           /\ txt' = txt /\ json' = json /\ plot' = plot
           /\ dir' = [dir EXCEPT ![g] = Entered(g)] /\ data' = [data EXCEPT ![g] = CalcData(g)]
           /\ \/ Raises(g) /\ Moves /\ step' = "create"
              \/ /\ ~Raises(g) /\ step' = IF g \in DOMAIN SameData THEN "plot" ELSE "txt"
                 /\ oldFolder' = dir[g] /\ table' = TableOf(g) /\ next' = next
<1>1. /\ Creating(g, "create")
      /\ dir' = [dir EXCEPT ![g] = Entered(g)] /\ data' = [data EXCEPT ![g] = CalcData(g)]
      /\ txt' = txt /\ json' = json /\ plot' = plot /\ faults' = faults
  BY DEF Create, files
<1>2. step = "create" /\ next \in 1 .. Last /\ g = Graphs[next]
  BY <1>1, Turn
<1>3. CASE Raises(g)
  <2>1. NextGraph
    BY <1>3 DEF Create
  <2> QED
    BY <1>1, <1>2, <1>3, <2>1 DEF NextGraph, Moves
<1>4. CASE ~Raises(g)
  <2>1. /\ step' = IF g \in DOMAIN SameData THEN "plot" ELSE "txt"
        /\ oldFolder' = dir[g] /\ table' = TableOf(g)
        /\ session' = session /\ call' = call /\ next' = next
    BY <1>4 DEF Create, TableOf
  <2> QED
    BY <1>1, <1>2, <1>4, <2>1
<1> QED
  BY <1>3, <1>4

(* Its data file is written, or torn for lack of a mean. *)
LEMMA WriteTxtFacts ==
    ASSUME TypeOK, NEW g \in Graph, WriteTxt(g)
    PROVE  /\ step = "txt" /\ next \in 1 .. Last /\ g = Graphs[next] /\ faults' = faults
           /\ data' = data /\ dir' = dir /\ json' = json /\ plot' = plot
           /\ \/ /\ HasMeans(g) /\ Stays /\ step' = "json"
                 /\ oldFolder' = oldFolder /\ table' = table
                 /\ txt' = [txt EXCEPT ![dir[g]][g] = table]
              \/ /\ ~HasMeans(g) /\ Moves /\ step' = "create"
                 /\ txt' = [txt EXCEPT ![dir[g]][g] = Torn]
<1>1. /\ Creating(g, "txt") /\ data' = data /\ dir' = dir
      /\ json' = json /\ plot' = plot /\ faults' = faults
  BY DEF WriteTxt
<1>2. step = "txt" /\ next \in 1 .. Last /\ g = Graphs[next]
  BY <1>1, Turn
<1>3. CASE HasMeans(g)
  BY <1>1, <1>2, <1>3 DEF WriteTxt, Stays
<1>4. CASE ~HasMeans(g)
  <2>1. txt' = [txt EXCEPT ![dir[g]][g] = Torn] /\ NextGraph
    BY <1>4 DEF WriteTxt
  <2> QED
    BY <1>1, <1>2, <1>4, <2>1 DEF NextGraph, Moves
<1> QED
  BY <1>3, <1>4

(* Its results are written. *)
LEMMA DumpFacts ==
    ASSUME TypeOK, NEW g \in Graph, DumpToJson(g)
    PROVE  /\ step = "json" /\ step' = "plot" /\ next \in 1 .. Last /\ g = Graphs[next] /\ Stays
           /\ json' = [json EXCEPT ![dir[g]][g] = table]
           /\ data' = data /\ dir' = dir /\ oldFolder' = oldFolder /\ table' = table
           /\ txt' = txt /\ plot' = plot
<1>1. /\ Creating(g, "json") /\ json' = [json EXCEPT ![dir[g]][g] = table] /\ step' = "plot"
      /\ session' = session /\ call' = call /\ next' = next /\ data' = data /\ dir' = dir
      /\ oldFolder' = oldFolder /\ table' = table /\ txt' = txt /\ plot' = plot
      /\ faults' = faults
  BY DEF DumpToJson
<1> QED
  BY <1>1, Turn DEF Stays

(* It is plotted, and leaves the folder. *)
LEMMA PlotFacts ==
    ASSUME TypeOK, NEW g \in Graph, Plot(g)
    PROVE  /\ step = "plot" /\ step' = "create" /\ next \in 1 .. Last /\ g = Graphs[next] /\ Moves
           /\ plot' = [plot EXCEPT ![dir[g]][g] = [by |-> session, of |-> DataFile(g)]]
           /\ dir' = [dir EXCEPT ![g] = oldFolder]
           /\ data' = data /\ txt' = txt /\ json' = json /\ faults' = faults
<1>1. /\ Creating(g, "plot") /\ NextGraph
      /\ plot' = [plot EXCEPT ![dir[g]][g] = [by |-> session, of |-> DataFile(g)]]
      /\ dir' = [dir EXCEPT ![g] = oldFolder]
      /\ data' = data /\ txt' = txt /\ json' = json /\ faults' = faults
  BY DEF Plot
<1> QED
  BY <1>1, Turn DEF NextGraph, Moves

(* It is not plotted, and stays in the folder. *)
LEMMA PlotRaisesFacts ==
    ASSUME TypeOK, NEW g \in Graph, PlotRaises(g)
    PROVE  /\ step = "plot" /\ step' = "create" /\ next \in 1 .. Last /\ g = Graphs[next] /\ Moves
           /\ data' = data /\ dir' = dir /\ txt' = txt /\ json' = json /\ plot' = plot
           /\ faults' = faults
<1>1. /\ Creating(g, "plot") /\ NextGraph
      /\ data' = data /\ dir' = dir /\ txt' = txt /\ json' = json /\ plot' = plot
      /\ faults' = faults
  BY DEF PlotRaises, files
<1> QED
  BY <1>1, Turn DEF NextGraph, Moves

(* Something unforeseen fails, and may tear the file being written. *)
LEMMA FailsFacts ==
    ASSUME TypeOK, NEW g \in Graph, Fails(g)
    PROVE  /\ Busy /\ next \in 1 .. Last /\ g = Graphs[next] /\ Moves /\ faults' > 0
           /\ data' = data /\ dir' = dir /\ plot' = plot
           /\ txt' = txt \/ txt' = [txt EXCEPT ![dir[g]][g] = Torn]
           /\ json' = json \/ json' = [json EXCEPT ![dir[g]][g] = Torn]
<1>1. /\ step \in {"txt", "json", "plot"} /\ Creating(g, step) /\ faults' = faults + 1
      /\ txt' = txt \/ txt' = [txt EXCEPT ![dir[g]][g] = Torn]
      /\ json' = json \/ json' = [json EXCEPT ![dir[g]][g] = Torn]
      /\ data' = data /\ dir' = dir /\ plot' = plot
  BY DEF Fails, TornOrNot
<1>2. NextGraph \/ (step' = "idle" /\ UNCHANGED <<session, call, next, oldFolder, table>>)
  BY DEF Fails
<1>3. Moves
  BY <1>2 DEF NextGraph, Moves
<1> QED
  BY <1>1, <1>3, Turn, Types DEF Busy

(* Nothing happens. *)
LEMMA StutterFacts ==
    ASSUME UNCHANGED vars
    PROVE  /\ session' = session /\ call' = call /\ next' = next /\ step' = step
           /\ data' = data /\ dir' = dir /\ oldFolder' = oldFolder /\ table' = table
           /\ txt' = txt /\ json' = json /\ plot' = plot /\ faults' = faults
BY DEF vars

-----------------------------------------------------------------------------
(* A graph is written only in its turn, and only if _calc_data has not failed. *)
LEMMA LoopStep ==
    ASSUME TypeOK, Loop, [Next]_vars
    PROVE  Loop'
<1>m. ASSUME Moves, step # "idle"
      PROVE  Loop'
  BY <1>m DEF Moves, Loop, Busy
<1>s. ASSUME Stays, data' = data,
             \/ step = "txt" /\ step' = "json"
             \/ step = "json" /\ step' = "plot"
      PROVE  Loop'
  BY <1>s DEF Stays, Loop, Busy, Current, Raises
<1>1. ASSUME RunTest
      PROVE  Loop'
  <2>1. session' = session + 1 /\ step' = "create" /\ session \in Nat
    BY <1>1, RunTestFacts, Types
  <2>2. session' >= 1
    BY <2>1
  <2> QED
    BY <2>1, <2>2 DEF Loop, Busy
<1>2. ASSUME CallReturns
      PROVE  Loop'
  BY <1>2, CallReturnsFacts DEF Loop, Busy
<1>3. ASSUME NEW g \in Graph, Create(g)
      PROVE  Loop'
  <2>1. step = "create" /\ next \in 1 .. Last /\ g = Graphs[next] /\ session' = session
    BY <1>3, CreateFacts
  <2>2. CASE Raises(g) /\ Moves
    BY <1>m, <2>1, <2>2
  <2>3. CASE ~Raises(g) /\ next' = next /\ step' = IF g \in DOMAIN SameData THEN "plot" ELSE "txt"
    <3>1. ~Raises(g)'
      <4>1. data' = [data EXCEPT ![g] = CalcData(g)]
        BY <1>3, CreateFacts
      <4> QED
        BY <2>3, <4>1, Recalculated
    <3>2. Current' = g
      BY <2>1, <2>3 DEF Current
    <3>3. ~Raises(Current)'
      BY <3>1, <3>2 DEF Raises
    <3>4. session' >= 1 /\ next' <= Last
      BY <2>1, <2>3, Positions DEF Loop
    <3>5. step' \in {"txt", "json"} => Current' \notin DOMAIN SameData
      BY <2>3, <3>2
    <3> QED
      BY <3>3, <3>4, <3>5 DEF Loop
  <2> QED
    BY <1>3, <2>2, <2>3, CreateFacts
<1>4. ASSUME NEW g \in Graph, WriteTxt(g)
      PROVE  Loop'
  <2>1. /\ step = "txt" /\ data' = data
        /\ \/ Stays /\ step' = "json"
           \/ Moves
    BY <1>4, WriteTxtFacts
  <2> QED
    BY <1>m, <1>s, <2>1
<1>5. ASSUME NEW g \in Graph, DumpToJson(g)
      PROVE  Loop'
  BY <1>5, <1>s, DumpFacts
<1>6. ASSUME NEW g \in Graph, Plot(g) \/ PlotRaises(g)
      PROVE  Loop'
  BY <1>6, <1>m, PlotFacts, PlotRaisesFacts
<1>7. ASSUME NEW g \in Graph, Fails(g)
      PROVE  Loop'
  BY <1>7, <1>m, FailsFacts DEF Busy
<1>8. ASSUME UNCHANGED vars
      PROVE  Loop'
  BY <1>8, StutterFacts DEF Loop, Busy, Current, Raises
<1> QED
  BY <1>1, <1>2, <1>3, <1>4, <1>5, <1>6, <1>7, <1>8 DEF Next

(* What is calculated from data that does not change. *)
LEMMA SameCalculation ==
    ASSUME data' = data
    PROVE  /\ \A g : CalcData(g)' = CalcData(g)
           /\ \A g : Raises(g)' <=> Raises(g)
           /\ \A g, c : Computable(g, c)' <=> Computable(g, c)
BY DEF CalcData, Raises, Computable

(* Nor does what is written of a graph change with the loop alone. *)
LEMMA SameTable ==
    ASSUME data' = data, call' = call, session' = session, table' = table, NEW g
    PROVE  TableOf(g)' = TableOf(g) /\ (HasMeans(g)' <=> HasMeans(g))
<1>1. Contents(g)' = Contents(g)
  BY DEF Contents, CalcData, Limited, TitleSet, Titles
<1>2. Titles(call)' = Titles(call)
  BY DEF Titles
<1>3. TableOf(g)' = TableOf(g)
  BY <1>1, <1>2 DEF TableOf
<1>4. HasMeans(g)' <=> HasMeans(g)
  BY DEF HasMeans, TitleSet, Titles
<1> QED
  BY <1>3, <1>4

(* No graph is moved while the test is published, later ones to their folder. *)
LEMMA DirOfCallStep ==
    ASSUME TypeOK, Loop, DirOfCall, [Next]_vars
    PROVE  DirOfCall'
<1>m. ASSUME Moves, dir' = dir
      PROVE  DirOfCall'
  BY <1>m DEF Moves, DirOfCall, Busy
<1>s. ASSUME Stays, Busy, dir' = dir, oldFolder' = oldFolder
      PROVE  DirOfCall'
  BY <1>s DEF Stays, DirOfCall, Busy, Current
<1>1. ASSUME RunTest
      PROVE  DirOfCall'
  <2>1. call' = 0 /\ oldFolder' = 0 /\ dir' = [g \in Graph |-> 0] /\ step' = "create"
    BY <1>1, RunTestFacts
  <2> QED
    BY <2>1 DEF DirOfCall, Busy
<1>2. ASSUME CallReturns
      PROVE  DirOfCall'
  <2>1. call \in Nat
    BY Types, Folders
  <2>2. /\ dir' = dir /\ oldFolder' = oldFolder /\ step' \in {"create", "idle"}
        /\ call' = call + 1 \/ call' = call
    BY <1>2, CallReturnsFacts
  <2> QED
    BY <2>1, <2>2 DEF DirOfCall, Busy
<1>3. ASSUME NEW g \in Graph, Create(g)
      PROVE  DirOfCall'
  <2>1. /\ next \in 1 .. Last /\ g = Graphs[next] /\ call' = call
        /\ dir' = [dir EXCEPT ![g] = Entered(g)]
        /\ \/ Moves /\ step' = "create"
           \/ oldFolder' = dir[g] /\ next' = next
    BY <1>3, CreateFacts
  <2>2. dir \in [Graph -> Folder]
    BY Types
  <2>3. Entered(g) = call
    BY DEF Entered, DirOfCall
  <2>4. dir'[g] = call /\ \A h \in Graph : h # g => dir'[h] = dir[h]
    BY <2>1, <2>2, <2>3
  <2>5. call' = 0 => oldFolder' = 0 /\ \A h \in Graph : dir'[h] = 0
    BY <2>1, <2>4 DEF DirOfCall, Moves
  <2>6. Busy' => dir'[Current'] = call'
    BY <2>1, <2>4 DEF Busy, Current
  <2> QED
    BY <2>5, <2>6 DEF DirOfCall
<1>4. ASSUME NEW g \in Graph, WriteTxt(g)
      PROVE  DirOfCall'
  <2>1. /\ step = "txt" /\ dir' = dir
        /\ \/ Stays /\ oldFolder' = oldFolder
           \/ Moves
    BY <1>4, WriteTxtFacts
  <2> QED
    BY <1>m, <1>s, <2>1 DEF Busy
<1>5. ASSUME NEW g \in Graph, DumpToJson(g)
      PROVE  DirOfCall'
  BY <1>5, <1>s, DumpFacts DEF Busy
<1>6. ASSUME NEW g \in Graph, Plot(g)
      PROVE  DirOfCall'
  <2>1. call' = call /\ oldFolder' = 0 /\ step' = "create" /\ dir' = [dir EXCEPT ![g] = oldFolder]
    BY <1>6, PlotFacts DEF Moves
  <2>2. call = 0 => \A h \in Graph : dir'[h] = 0
    BY <2>1, Types DEF DirOfCall
  <2> QED
    BY <2>1, <2>2 DEF DirOfCall, Busy
<1>7. ASSUME NEW g \in Graph, PlotRaises(g) \/ Fails(g)
      PROVE  DirOfCall'
  BY <1>7, <1>m, PlotRaisesFacts, FailsFacts
<1>8. ASSUME UNCHANGED vars
      PROVE  DirOfCall'
  BY <1>8, StutterFacts DEF DirOfCall, Busy, Current
<1> QED
  BY <1>1, <1>2, <1>3, <1>4, <1>5, <1>6, <1>7, <1>8 DEF Next

(* The data of a RatioGraph is complete once create_graph has got to it. *)
LEMMA CalculatedStep ==
    ASSUME TypeOK, Loop, Calculated, [Next]_vars
    PROVE  Calculated'
<1>k. \A k \in 1 .. Last : k \in Nat /\ k <= Last /\ Graphs[k] \in Graph
  BY Positions
<1>n. next \in Nat /\ call \in Nat /\ Last \in Nat
  BY Types, Folders, Positions
<1>m. ASSUME Moves, Busy, data' = data
      PROVE  Calculated'
  <2>1. ASSUME NEW k \in 1 .. Last, call' > 0 \/ k < next' \/ (k = next' /\ Busy')
        PROVE  CalcData(Graphs[k])' = data'[Graphs[k]]
    <3>1. call > 0 \/ k < next \/ (k = next /\ Busy)
      BY <1>m, <1>k, <1>n, <2>1 DEF Moves, Busy
    <3> QED
      BY <1>m, <3>1, SameCalculation DEF Calculated
  <2> QED
    BY <2>1 DEF Calculated
<1>s. ASSUME Stays, Busy, data' = data
      PROVE  Calculated'
  <2>1. ASSUME NEW k \in 1 .. Last, call' > 0 \/ k < next' \/ (k = next' /\ Busy')
        PROVE  CalcData(Graphs[k])' = data'[Graphs[k]]
    <3>1. call > 0 \/ k < next \/ (k = next /\ Busy)
      BY <1>s, <2>1 DEF Stays
    <3> QED
      BY <1>s, <3>1, SameCalculation DEF Calculated
  <2> QED
    BY <2>1 DEF Calculated
<1>1. ASSUME RunTest
      PROVE  Calculated'
  <2>1. call' = 0 /\ next' = 1 /\ step' = "create"
    BY <1>1, RunTestFacts
  <2>2. ~Busy' /\ ~(call' > 0) /\ \A k \in 1 .. Last : ~(k < next')
    BY <2>1 DEF Busy
  <2> QED
    BY <2>2 DEF Calculated
<1>2. ASSUME CallReturns
      PROVE  Calculated'
  <2>1. data' = data /\ next > Last
    BY <1>2, CallReturnsFacts
  <2>2. ASSUME NEW k \in 1 .. Last
        PROVE  CalcData(Graphs[k])' = data'[Graphs[k]]
    <3>1. k < next
      BY <1>k, <1>n, <2>1
    <3> QED
      BY <2>1, <3>1, SameCalculation DEF Calculated
  <2> QED
    BY <2>2 DEF Calculated
<1>3. ASSUME NEW g \in Graph, Create(g)
      PROVE  Calculated'
  <2>1. /\ step = "create" /\ next \in 1 .. Last /\ g = Graphs[next] /\ call' = call
        /\ data' = [data EXCEPT ![g] = CalcData(g)]
        /\ \/ next' = next + 1 /\ step' = "create"
           \/ next' = next
    BY <1>3, CreateFacts DEF Moves
  <2>2. ASSUME NEW k \in 1 .. Last, call' > 0 \/ k < next' \/ (k = next' /\ Busy')
        PROVE  CalcData(Graphs[k])' = data'[Graphs[k]]
    <3>1. call > 0 \/ k < next \/ k = next
      BY <1>k, <1>n, <2>1, <2>2 DEF Busy
    <3>2. CASE k = next
      <4>1. CalcData(g)' = data'[g]
        BY <2>1, Recalculated
      <4> QED
        BY <2>1, <3>2, <4>1
    <3>3. CASE call > 0 \/ k < next
      <4>1. CalcData(Graphs[k]) = data[Graphs[k]]
        BY <3>3 DEF Calculated
      <4> QED
        BY <1>k, <2>1, <4>1, Recalculated
    <3> QED
      BY <3>1, <3>2, <3>3
  <2> QED
    BY <2>2 DEF Calculated
<1>4. ASSUME NEW g \in Graph, WriteTxt(g)
      PROVE  Calculated'
  <2>1. step = "txt" /\ data' = data /\ (Stays \/ Moves)
    BY <1>4, WriteTxtFacts
  <2> QED
    BY <1>m, <1>s, <2>1 DEF Busy
<1>5. ASSUME NEW g \in Graph, DumpToJson(g)
      PROVE  Calculated'
  BY <1>5, <1>s, DumpFacts DEF Busy
<1>6. ASSUME NEW g \in Graph, Plot(g) \/ PlotRaises(g)
      PROVE  Calculated'
  BY <1>6, <1>m, PlotFacts, PlotRaisesFacts DEF Busy
<1>7. ASSUME NEW g \in Graph, Fails(g)
      PROVE  Calculated'
  BY <1>7, <1>m, FailsFacts
<1>8. ASSUME UNCHANGED vars
      PROVE  Calculated'
  BY <1>8, StutterFacts, SameCalculation DEF Calculated, Busy
<1> QED
  BY <1>1, <1>2, <1>3, <1>4, <1>5, <1>6, <1>7, <1>8 DEF Next

(* What is going to be written is what _limit_data or _calc_data yields. *)
LEMMA TableFitsStep ==
    ASSUME TypeOK, Loop, DirOfCall, Calculated, TableFits, [Next]_vars
    PROVE  TableFits'
<1>m. ASSUME step' \notin {"txt", "json", "plot"}
      PROVE  TableFits'
  BY <1>m DEF TableFits, Busy
<1>t. call \in Folder /\ txt \in [Folder -> [Graph -> Files]] /\ table \in Files
  BY Types DEF Files
<1>1. ASSUME RunTest \/ CallReturns
      PROVE  TableFits'
  BY <1>1, <1>m, RunTestFacts, CallReturnsFacts
<1>2. ASSUME NEW g \in Graph, Create(g)
      PROVE  TableFits'
  <2>1. /\ next \in 1 .. Last /\ g = Graphs[next] /\ call' = call /\ session' = session
        /\ data' = [data EXCEPT ![g] = CalcData(g)]
        /\ \/ step' = "create"
           \/ /\ step' = IF g \in DOMAIN SameData THEN "plot" ELSE "txt"
              /\ table' = TableOf(g) /\ next' = next
    BY <1>2, CreateFacts
  <2>2. CalcData(g)' = CalcData(g) /\ data'[g] = CalcData(g)
    BY <2>1, Recalculated
  <2>3. call # 0 => data'[g] = data[g]
    <3>1. call # 0 => call > 0
      BY Types, Folders
    <3>2. call > 0 => CalcData(g) = data[g]
      BY <2>1 DEF Calculated
    <3> QED
      BY <2>2, <3>1, <3>2
  <2>4. Contents(g)' = Contents(g)
    BY <2>1, <2>2, <2>3 DEF Contents, Limited, TitleSet, Titles
  <2>5. TableOf(g)' = TableOf(g)
    BY <2>1, <2>4 DEF TableOf, Titles
  <2>6. CASE step' = "create"
    BY <1>m, <2>6
  <2>7. CASE /\ step' = IF g \in DOMAIN SameData THEN "plot" ELSE "txt"
             /\ table' = TableOf(g) /\ next' = next
    <3>1. Current' = g
      BY <2>1, <2>7 DEF Current
    <3>2. table' = TableOf(Current)'
      BY <2>5, <2>7, <3>1 DEF TableOf
    <3>3. ~(step' \in {"json", "plot"} /\ Current' \notin DOMAIN SameData)
      BY <2>7, <3>1
    <3> QED
      BY <3>2, <3>3 DEF TableFits
  <2> QED
    BY <2>1, <2>6, <2>7
<1>3. ASSUME NEW g \in Graph, WriteTxt(g)
      PROVE  TableFits'
  <2>1. /\ step = "txt" /\ next \in 1 .. Last /\ g = Graphs[next] /\ data' = data
        /\ \/ /\ HasMeans(g) /\ Stays /\ step' = "json" /\ table' = table
              /\ txt' = [txt EXCEPT ![dir[g]][g] = table]
           \/ step' = "create"
    BY <1>3, WriteTxtFacts
  <2>2. CASE step' = "create"
    BY <1>m, <2>2
  <2>3. CASE /\ HasMeans(g) /\ Stays /\ step' = "json" /\ table' = table
             /\ txt' = [txt EXCEPT ![dir[g]][g] = table]
    <3>1. Current = g /\ Current' = g /\ call' = call /\ session' = session
      BY <2>1, <2>3 DEF Current, Stays
    <3>2. TableOf(g)' = TableOf(g) /\ HasMeans(g)'
      BY <2>1, <2>3, <3>1, SameTable
    <3>3. table = TableOf(g)
      BY <2>1, <3>1 DEF TableFits, Busy
    <3>4. dir[g] = call
      BY <2>1, <3>1 DEF DirOfCall, Busy
    <3>5. txt'[call][g] = table
      BY <1>t, <2>3, <3>4, Filed
    <3>6. table' = TableOf(Current)'
      BY <2>3, <3>1, <3>2, <3>3 DEF TableOf
    <3>7. HasMeans(Current)' /\ txt'[call'][Current'] = table'
      BY <2>3, <3>1, <3>2, <3>5 DEF HasMeans
    <3> QED
      BY <3>6, <3>7 DEF TableFits
  <2> QED
    BY <2>1, <2>2, <2>3
<1>4. ASSUME NEW g \in Graph, DumpToJson(g)
      PROVE  TableFits'
  <2>1. /\ step = "json" /\ step' = "plot" /\ g = Graphs[next] /\ Stays
        /\ data' = data /\ table' = table /\ txt' = txt
    BY <1>4, DumpFacts
  <2>2. Current = g /\ Current' = g /\ call' = call /\ session' = session
    BY <2>1 DEF Current, Stays
  <2>3. TableOf(g)' = TableOf(g) /\ (HasMeans(g)' <=> HasMeans(g))
    BY <2>1, <2>2, SameTable
  <2>4. /\ table = TableOf(g)
        /\ g \notin DOMAIN SameData => HasMeans(g) /\ txt[call][g] = table
    BY <2>1, <2>2 DEF TableFits, Busy
  <2>5. table' = TableOf(Current)'
    BY <2>1, <2>2, <2>3, <2>4 DEF TableOf
  <2>6. g \notin DOMAIN SameData => HasMeans(Current)' /\ txt'[call'][Current'] = table'
    BY <2>1, <2>2, <2>3, <2>4 DEF HasMeans
  <2> QED
    BY <2>2, <2>5, <2>6 DEF TableFits
<1>5. ASSUME NEW g \in Graph, Plot(g) \/ PlotRaises(g) \/ Fails(g)
      PROVE  TableFits'
  BY <1>5, <1>m, PlotFacts, PlotRaisesFacts, FailsFacts DEF Moves
<1>6. ASSUME UNCHANGED vars
      PROVE  TableFits'
  <2>1. /\ session' = session /\ call' = call /\ next' = next /\ step' = step
        /\ data' = data /\ table' = table /\ txt' = txt
    BY <1>6, StutterFacts
  <2>2. Current' = Current
    BY <2>1 DEF Current
  <2>3. TableOf(Current)' = TableOf(Current) /\ (HasMeans(Current)' <=> HasMeans(Current))
    BY <2>1, <2>2, SameTable DEF TableOf, HasMeans
  <2> QED
    BY <2>1, <2>2, <2>3 DEF TableFits, Busy
<1> QED
  BY <1>1, <1>2, <1>3, <1>4, <1>5, <1>6 DEF Next

-----------------------------------------------------------------------------
(***************************************************************************)
(* What becomes of the files within a session: only those of the folder of *)
(* the call are written, with the table of their graph, or torn; results   *)
(* only with samples in every cell.                                        *)
(***************************************************************************)
TxtWritten(c, h) ==
    \/ txt'[c][h] = txt[c][h]
    \/ /\ c = call /\ Busy /\ h = Current
       /\ txt'[c][h] = Torn \/ txt'[c][h] = TableOf(h)

JsonWritten(c, h) ==
    \/ json'[c][h] = json[c][h]
    \/ c = call /\ Busy /\ h = Current /\ json'[c][h] = Torn
    \/ /\ c = call /\ step = "json" /\ h = Current
       /\ json'[c][h] = TableOf(h) /\ HasMeans(h) /\ table = TableOf(h)

PlotWritten(c, h) ==
    \/ plot'[c][h] = plot[c][h]
    \/ /\ c = call /\ step = "plot" /\ h = Current
       /\ plot'[c][h] = [by |-> session, of |-> DataFile(h)]

InSession ==
    /\ session' = session
    /\ call' = call \/ call' = call + 1
    /\ faults > 0 => faults' > 0
    /\ call > 0 => \A h \in Graph : data'[h] = data[h]
    /\ \A c \in Folder, h \in Graph : TxtWritten(c, h) /\ JsonWritten(c, h) /\ PlotWritten(c, h)

(* A step begins a session or is one of those just described. *)
LEMMA SessionSteps ==
    ASSUME TypeOK, Loop, DirOfCall, Calculated, TableFits, [Next]_vars
    PROVE  RunTest \/ InSession
<1>t. /\ call \in Folder /\ txt \in [Folder -> [Graph -> Files]]
      /\ json \in [Folder -> [Graph -> Files]] /\ plot \in [Folder -> [Graph -> Drawn(session)]]
      /\ faults \in Nat /\ Torn \in Files /\ table \in Files
  BY Types DEF Files
<1>n. ASSUME session' = session, call' = call \/ call' = call + 1,
             faults > 0 => faults' > 0, data' = data,
             txt' = txt, json' = json, plot' = plot
      PROVE  InSession
  BY <1>n DEF InSession, TxtWritten, JsonWritten, PlotWritten
<1>1. ASSUME CallReturns
      PROVE  InSession
  <2>1. call' = call \/ call' = call + 1
    BY <1>1, CallReturnsFacts
  <2> QED
    BY <1>1, <1>n, <2>1, CallReturnsFacts
<1>2. ASSUME NEW g \in Graph, Create(g)
      PROVE  InSession
  <2>1. /\ session' = session /\ call' = call /\ faults' = faults
        /\ txt' = txt /\ json' = json /\ plot' = plot /\ data' = [data EXCEPT ![g] = CalcData(g)]
    BY <1>2, CreateFacts
  <2>2. ASSUME call > 0, NEW h \in Graph
        PROVE  data'[h] = data[h]
    <3>1. CalcData(g) = data[g]
      BY <2>2, Positions DEF Calculated
    <3> QED
      BY <2>1, <3>1, Recalculated
  <2> QED
    BY <2>1, <2>2 DEF InSession, TxtWritten, JsonWritten, PlotWritten
<1>3. ASSUME NEW g \in Graph, WriteTxt(g)
      PROVE  InSession
  <2>1. /\ step = "txt" /\ g = Current /\ faults' = faults
        /\ data' = data /\ json' = json /\ plot' = plot /\ session' = session /\ call' = call
        /\ \/ txt' = [txt EXCEPT ![dir[g]][g] = table]
           \/ txt' = [txt EXCEPT ![dir[g]][g] = Torn]
    BY <1>3, WriteTxtFacts DEF Moves, Stays, Current
  <2>2. dir[g] = call /\ table = TableOf(g)
    BY <2>1 DEF DirOfCall, TableFits, Busy
  <2>3. ASSUME NEW c \in Folder, NEW h \in Graph
        PROVE  TxtWritten(c, h)
    <3>1. CASE txt' = [txt EXCEPT ![dir[g]][g] = table]
      <4>1. txt'[call][g] = table /\ (~(c = call /\ h = g) => txt'[c][h] = txt[c][h])
        BY <1>t, <2>2, <3>1, Filed
      <4> QED
        BY <2>1, <2>2, <4>1 DEF TxtWritten, Busy
    <3>2. CASE txt' = [txt EXCEPT ![dir[g]][g] = Torn]
      <4>1. txt'[call][g] = Torn /\ (~(c = call /\ h = g) => txt'[c][h] = txt[c][h])
        BY <1>t, <2>2, <3>2, Filed
      <4> QED
        BY <2>1, <4>1 DEF TxtWritten, Busy
    <3> QED
      BY <2>1, <3>1, <3>2
  <2> QED
    BY <2>1, <2>3 DEF InSession, JsonWritten, PlotWritten
<1>4. ASSUME NEW g \in Graph, DumpToJson(g)
      PROVE  InSession
  <2>1. /\ step = "json" /\ next \in 1 .. Last /\ g = Current /\ faults' = faults
        /\ json' = [json EXCEPT ![dir[g]][g] = table]
        /\ data' = data /\ txt' = txt /\ plot' = plot /\ session' = session /\ call' = call
    BY <1>4, DumpFacts DEF Stays, Current
  <2>2. dir[g] = call /\ table = TableOf(g) /\ HasMeans(g)
    BY <2>1 DEF DirOfCall, TableFits, Busy, Loop
  <2>3. ASSUME NEW c \in Folder, NEW h \in Graph
        PROVE  JsonWritten(c, h)
    <3>1. json'[call][g] = table /\ (~(c = call /\ h = g) => json'[c][h] = json[c][h])
      BY <1>t, <2>1, <2>2, Filed
    <3> QED
      BY <2>1, <2>2, <3>1 DEF JsonWritten
  <2> QED
    BY <2>1, <2>3 DEF InSession, TxtWritten, PlotWritten
<1>5. ASSUME NEW g \in Graph, Plot(g)
      PROVE  InSession
  <2>1. /\ step = "plot" /\ g = Current /\ faults' = faults
        /\ plot' = [plot EXCEPT ![dir[g]][g] = [by |-> session, of |-> DataFile(g)]]
        /\ data' = data /\ txt' = txt /\ json' = json /\ session' = session /\ call' = call
    BY <1>5, PlotFacts DEF Moves, Current
  <2>2. dir[g] = call
    BY <2>1 DEF DirOfCall, Busy
  <2>3. [by |-> session, of |-> DataFile(g)] \in Drawn(session)
    <3>1. DataFile(g) \in Files
      BY <1>t, <2>2, SourceGraphs DEF DataFile
    <3> QED
      BY <3>1, Types DEF Drawn
  <2>4. ASSUME NEW c \in Folder, NEW h \in Graph
        PROVE  PlotWritten(c, h)
    <3>1. /\ plot'[call][g] = [by |-> session, of |-> DataFile(g)]
          /\ ~(c = call /\ h = g) => plot'[c][h] = plot[c][h]
      BY <1>t, <2>1, <2>2, <2>3, Filed
    <3> QED
      BY <2>1, <3>1 DEF PlotWritten
  <2> QED
    BY <2>1, <2>4 DEF InSession, TxtWritten, JsonWritten
<1>6. ASSUME NEW g \in Graph, PlotRaises(g)
      PROVE  InSession
  BY <1>6, <1>n, PlotRaisesFacts DEF Moves
<1>7. ASSUME NEW g \in Graph, Fails(g)
      PROVE  InSession
  <2>1. /\ Busy /\ g = Current /\ faults' > 0 /\ session' = session /\ call' = call
        /\ data' = data /\ plot' = plot
        /\ txt' = txt \/ txt' = [txt EXCEPT ![dir[g]][g] = Torn]
        /\ json' = json \/ json' = [json EXCEPT ![dir[g]][g] = Torn]
    BY <1>7, FailsFacts DEF Moves, Current
  <2>2. dir[g] = call
    BY <2>1 DEF DirOfCall
  <2>3. ASSUME NEW c \in Folder, NEW h \in Graph
        PROVE  TxtWritten(c, h)
    <3>1. CASE txt' = [txt EXCEPT ![dir[g]][g] = Torn]
      <4>1. txt'[call][g] = Torn /\ (~(c = call /\ h = g) => txt'[c][h] = txt[c][h])
        BY <1>t, <2>2, <3>1, Filed
      <4> QED
        BY <2>1, <4>1 DEF TxtWritten, Busy
    <3> QED
      BY <2>1, <3>1 DEF TxtWritten
  <2>4. ASSUME NEW c \in Folder, NEW h \in Graph
        PROVE  JsonWritten(c, h)
    <3>1. CASE json' = [json EXCEPT ![dir[g]][g] = Torn]
      <4>1. json'[call][g] = Torn /\ (~(c = call /\ h = g) => json'[c][h] = json[c][h])
        BY <1>t, <2>2, <3>1, Filed
      <4> QED
        BY <2>1, <4>1 DEF JsonWritten, Busy
    <3> QED
      BY <2>1, <3>1 DEF JsonWritten
  <2> QED
    BY <2>1, <2>3, <2>4 DEF InSession, PlotWritten
<1>8. ASSUME UNCHANGED vars
      PROVE  InSession
  BY <1>8, <1>n, StutterFacts
<1> QED
  BY <1>1, <1>2, <1>3, <1>4, <1>5, <1>6, <1>7, <1>8 DEF Next

(* No file is written before its folder's call. *)
LEMMA ClearedStep ==
    ASSUME TypeOK, Loop, DirOfCall, Calculated, TableFits, Cleared0, [Next]_vars
    PROVE  Cleared0'
<1>1. CASE RunTest
  <2>1. ASSUME NEW c \in Folder, NEW g \in Graph, c > call'
        PROVE  txt'[c][g] = NoFile /\ json'[c][g] = NoFile /\ plot'[c][g] = NoPlot
    <3>1. c # 0
      BY <1>1, <2>1, RunTestFacts
    <3> QED
      BY <1>1, <3>1, RunTestFacts
  <2> QED
    BY <2>1 DEF Cleared0, NoFile, NoPlot
<1>2. CASE InSession
  <2>1. ASSUME NEW c \in Folder, NEW g \in Graph, c > call'
        PROVE  txt'[c][g] = NoFile /\ json'[c][g] = NoFile /\ plot'[c][g] = NoPlot
    <3>1. c > call /\ c # call
      BY <1>2, <2>1, Types, Folders DEF InSession
    <3>2. txt'[c][g] = txt[c][g] /\ json'[c][g] = json[c][g] /\ plot'[c][g] = plot[c][g]
      BY <1>2, <3>1 DEF InSession, TxtWritten, JsonWritten, PlotWritten
    <3> QED
      BY <3>1, <3>2 DEF Cleared0
  <2> QED
    BY <2>1 DEF Cleared0, NoFile, NoPlot
<1> QED
  BY <1>1, <1>2, SessionSteps

(* A data file in the folder of a pair is of this session and of the pair. *)
LEMMA TxtOfPairStep ==
    ASSUME TypeOK, Loop, DirOfCall, Calculated, TableFits, TxtOfPair, [Next]_vars
    PROVE  TxtOfPair'
<1> SUFFICES ASSUME NEW c \in Folder \ {0}, NEW g \in Graph, Intact(txt'[c][g])
             PROVE  txt'[c][g].session = session' /\ txt'[c][g].titles = Titles(c)
  BY DEF TxtOfPair, Intact, NoFile, Torn, Titles
<1>1. CASE RunTest
  BY <1>1, RunTestFacts DEF Intact
<1>2. CASE InSession
  <2>1. session' = session /\ TxtWritten(c, g)
    BY <1>2 DEF InSession
  <2>2. CASE txt'[c][g] = txt[c][g]
    BY <2>1, <2>2 DEF TxtOfPair
  <2>3. CASE c = call /\ txt'[c][g] = TableOf(g)
    BY <2>1, <2>3 DEF TableOf
  <2> QED
    BY <2>1, <2>2, <2>3 DEF TxtWritten, Intact
<1> QED
  BY <1>1, <1>2, SessionSteps

(* Of a graph with samples in every cell, _limit_data leaves all cells of the pair. *)
LEMMA LimitedCells ==
    ASSUME TypeOK, NEW g \in Graph
    PROVE  /\ Limited(g) \subseteq Rows(data[g]) \X TitleSet(call)
           /\ Rows(data[g]) \X TitleSet(call) \subseteq Limited(g)
                 <=> Rows(data[g]) \X TitleSet(call) \subseteq data[g]
<1>1. data[g] \subseteq Xs \X VMs
  BY Types DEF Cell
<1>2. ASSUME NEW c \in Limited(g)
      PROVE  c \in Rows(data[g]) \X TitleSet(call)
  <2>1. c \in data[g] /\ c[2] \in TitleSet(call)
    BY DEF Limited
  <2>2. c = <<c[1], c[2]>> /\ c[1] \in Rows(data[g])
    BY <1>1, <2>1 DEF Rows
  <2> QED
    BY <2>1, <2>2
<1>3. ASSUME NEW c \in Rows(data[g]) \X TitleSet(call), c \in data[g]
      PROVE  c \in Limited(g)
  BY <1>3 DEF Limited
<1>4. Limited(g) \subseteq data[g]
  BY DEF Limited
<1> QED
  BY <1>2, <1>3, <1>4

(* Results in the folder of a pair are complete, and of the pair and the session. *)
LEMMA JsonOfPairStep ==
    ASSUME TypeOK, Loop, DirOfCall, Calculated, TableFits, Cleared0, JsonOfPair, [Next]_vars
    PROVE  JsonOfPair'
<1> SUFFICES ASSUME NEW c \in Folder \ {0}, NEW g \in Graph, Intact(json'[c][g])
             PROVE  /\ json'[c][g].titles = Pairs[c]
                    /\ json'[c][g].session = session'
                    /\ json'[c][g].cells = Rows(data'[g]) \X TitleSet(c)
  BY DEF JsonOfPair, Intact, NoFile, Torn, TitleSet, Titles, Rows
<1>1. CASE RunTest
  BY <1>1, RunTestFacts DEF Intact
<1>2. CASE InSession
  <2>1. session' = session /\ JsonWritten(c, g)
    BY <1>2 DEF InSession
  <2>c. call \in Nat /\ c \in Nat /\ c > 0
    BY Types, Folders
  <2>2. CASE json'[c][g] = json[c][g]
    <3>1. json[c][g] # NoFile
      BY <2>2 DEF Intact
    <3>2. ~(c > call)
      BY <3>1 DEF Cleared0
    <3>3. call > 0
      BY <2>c, <3>2
    <3>4. data'[g] = data[g]
      BY <1>2, <3>3 DEF InSession
    <3> QED
      BY <2>1, <2>2, <3>4 DEF JsonOfPair
  <2>3. CASE c = call /\ json'[c][g] = TableOf(g) /\ HasMeans(g) /\ table = TableOf(g)
    <3>1. TableOf(g).cells = Limited(g) /\ TableOf(g).titles = Pairs[c] /\ TableOf(g).session = session
      BY <2>c, <2>3 DEF TableOf, Contents, Titles
    <3>2. Rows(data[g]) \X TitleSet(call) \subseteq Limited(g)
      BY <2>c, <2>3, <3>1 DEF HasMeans
    <3>3. Limited(g) = Rows(data[g]) \X TitleSet(call)
      BY <3>2, LimitedCells
    <3>4. data'[g] = data[g]
      BY <1>2, <2>c, <2>3 DEF InSession
    <3> QED
      BY <2>1, <2>3, <3>1, <3>3, <3>4
  <2> QED
    BY <2>1, <2>2, <2>3 DEF JsonWritten, Intact
<1> QED
  BY <1>1, <1>2, SessionSteps

(* The data files of the test itself, up to the graph that is next, are new. *)
LEMMA TxtOfTestStep ==
    ASSUME TypeOK, Loop, DirOfCall, Calculated, TableFits, TxtOfTest, [Next]_vars
    PROVE  TxtOfTest'
<1> SUFFICES ASSUME call' = 0, faults' = 0, NEW k \in 1 .. Last, k < next', Graphs[k] \in Sources
             PROVE  /\ txt'[0][Graphs[k]].session = session'
                    /\ txt'[0][Graphs[k]].titles = Titles(0)
  BY DEF TxtOfTest, Titles
<1>k. /\ k \in Nat /\ k >= 1 /\ next \in Nat /\ call \in Nat /\ faults \in Nat
      /\ Graphs[k] \in Graph /\ 0 \in Folder
  BY Types, Positions, Folders
<1>1. ~RunTest
  BY <1>k, RunTestFacts
<1>2. InSession
  BY <1>1, SessionSteps
<1>3. call = 0 /\ faults = 0 /\ session' = session
  BY <1>k, <1>2 DEF InSession
<1>4. ASSUME k < next
      PROVE  txt'[0][Graphs[k]] = txt[0][Graphs[k]]
  <2>1. Busy => Graphs[k] # Current
    BY <1>k, <1>4, Types, Positions DEF Busy, Loop, Current
  <2> QED
    BY <1>k, <1>2, <2>1 DEF InSession, TxtWritten
<1>5. ASSUME k < next
      PROVE  /\ txt'[0][Graphs[k]].session = session'
             /\ txt'[0][Graphs[k]].titles = Titles(0)
  BY <1>3, <1>4, <1>5 DEF TxtOfTest
<1>m. ASSUME Moves, ~(k < next)
      PROVE  k = next
  BY <1>k, <1>m DEF Moves
<1>6. ASSUME CallReturns
      PROVE  k < next
  BY <1>6, <1>k, CallReturnsFacts
<1>7. ASSUME NEW g \in Graph, Create(g)
      PROVE  k < next
  <2>1. /\ step = "create" /\ next \in 1 .. Last /\ g = Graphs[next]
        /\ \/ Raises(g) /\ Moves
           \/ next' = next
    BY <1>7, CreateFacts
  <2>2. k = next => ~Raises(g)
    BY <2>1, SourceGraphs DEF Raises
  <2> QED
    BY <1>k, <1>m, <2>1, <2>2
<1>8. ASSUME NEW g \in Graph, WriteTxt(g)
      PROVE  k < next
  <2>1. HasMeans(g)
    BY <1>3 DEF HasMeans
  <2>2. next' = next
    BY <1>8, <2>1, WriteTxtFacts DEF Stays
  <2> QED
    BY <2>2
<1>9. ASSUME NEW g \in Graph, DumpToJson(g)
      PROVE  k < next
  BY <1>9, DumpFacts DEF Stays
<1>10. ASSUME NEW g \in Graph, Plot(g) \/ PlotRaises(g), ~(k < next)
       PROVE  /\ txt'[0][Graphs[k]].session = session'
              /\ txt'[0][Graphs[k]].titles = Titles(0)
  <2>1. step = "plot" /\ Moves /\ txt' = txt
    BY <1>10, PlotFacts, PlotRaisesFacts
  <2>2. k = next
    BY <1>10, <1>m, <2>1
  <2>3. Graphs[k] = Current /\ Current \notin DOMAIN SameData
    BY <2>2, SourceGraphs DEF Current
  <2>4. txt[0][Graphs[k]] = TableOf(Graphs[k])
    BY <1>3, <2>1, <2>3 DEF TableFits, Busy
  <2> QED
    BY <1>3, <2>1, <2>4 DEF TableOf
<1>11. ASSUME NEW g \in Graph, Fails(g)
       PROVE  FALSE
  BY <1>11, FailsFacts
<1>12. ASSUME UNCHANGED vars
       PROVE  k < next
  BY <1>12, StutterFacts
<1> QED
  BY <1>1, <1>5, <1>6, <1>7, <1>8, <1>9, <1>10, <1>11, <1>12 DEF Next

(* A plot shows the data file of its session, but for what a failure left out. *)
LEMMA PlotFitsStep ==
    ASSUME TypeOK, Loop, DirOfCall, Calculated, TableFits, TxtOfPair, TxtOfTest, PlotFits,
           [Next]_vars
    PROVE  PlotFits'
<1> SUFFICES ASSUME NEW c \in Folder, NEW g \in Graph,
                    plot'[c][g].by = session', Intact(plot'[c][g].of)
             PROVE  \/ /\ plot'[c][g].of.session = session'
                       /\ plot'[c][g].of.titles = Titles(c)
                    \/ c = 0 /\ faults' > 0
  BY DEF PlotFits, Intact, NoFile, Torn, Titles
<1>k. /\ session \in Nat /\ call \in Folder /\ call \in Nat /\ faults \in Nat
      /\ plot \in [Folder -> [Graph -> Drawn(session)]]
  BY Types, Folders
<1>1. ASSUME RunTest
      PROVE  FALSE
  <2>1. c # 0 => plot'[c][g] = NoPlot
    BY <1>1, RunTestFacts
  <2>2. c = 0 => plot'[c][g] = plot[c][g]
    BY <1>1, RunTestFacts
  <2>3. plot[c][g].by \in 0 .. session /\ NoPlot.by = 0
    BY <1>k DEF Drawn, NoPlot
  <2>4. session' = session + 1
    BY <1>1, RunTestFacts
  <2> QED
    BY <1>k, <2>1, <2>2, <2>3, <2>4
<1>2. InSession
  BY <1>1, SessionSteps
<1>3. session' = session /\ PlotWritten(c, g) /\ (faults > 0 => faults' > 0)
  BY <1>2 DEF InSession
<1>4. CASE plot'[c][g] = plot[c][g]
  BY <1>3, <1>4 DEF PlotFits
<1>5. CASE /\ c = call /\ step = "plot" /\ g = Current
           /\ plot'[c][g] = [by |-> session, of |-> DataFile(g)]
  <2>1. plot'[c][g].of = DataFile(g) /\ dir[g] = call
    BY <1>5 DEF DirOfCall, Busy
  <2>2. DataFile(g) = txt[c][IF g \in DOMAIN SameData THEN SameData[g] ELSE g]
    BY <1>5, <2>1 DEF DataFile
  <2>3. CASE c # 0
    <3>1. (IF g \in DOMAIN SameData THEN SameData[g] ELSE g) \in Graph
      BY SourceGraphs
    <3> QED
      BY <1>3, <2>1, <2>2, <2>3, <3>1 DEF TxtOfPair
  <2>4. CASE c = 0 /\ faults = 0
    <3>1. CASE g \notin DOMAIN SameData
      <4>1. txt[0][g] = TableOf(g)
        BY <1>5, <2>4, <3>1 DEF TableFits, Busy
      <4> QED
        BY <1>3, <1>5, <2>1, <2>2, <2>4, <3>1, <4>1 DEF TableOf
    <3>2. CASE g \in DOMAIN SameData
      <4>1. next \in 1 .. Last /\ g = Graphs[next]
        BY <1>5, Types, Positions DEF Loop, Busy, Current
      <4>2. PICK j \in 1 .. next - 1 : Graphs[j] = SameData[g]
        BY <3>2, <4>1, Constants DEF Last
      <4>3. j \in 1 .. Last /\ j < next
        BY <4>1, Positions
      <4>4. Graphs[j] \in Sources
        BY <3>2, <4>2, SourceGraphs
      <4>5. txt[0][Graphs[j]].session = session /\ txt[0][Graphs[j]].titles = Titles(0)
        BY <1>5, <2>4, <4>3, <4>4 DEF TxtOfTest
      <4> QED
        BY <1>3, <2>1, <2>2, <2>4, <3>2, <4>2, <4>5
    <3> QED
      BY <3>1, <3>2
  <2>5. CASE c = 0 /\ faults # 0
    BY <1>k, <1>3, <2>5
  <2> QED
    BY <2>3, <2>4, <2>5
<1> QED
  BY <1>3, <1>4, <1>5 DEF PlotWritten

(***************************************************************************)
(* How a session goes on within a call: a graph is through, with no        *)
(* results but those it has, unless something unforeseen fails; or it is   *)
(* not yet through; or its results are written.                            *)
(***************************************************************************)
GraphThrough ==
    /\ next \in 1 .. Last /\ next' = next + 1 /\ step' = "create"
    /\ \/ faults' > 0
       \/ /\ json' = json
          /\ \/ step = "create" /\ Raises(Current)
             \/ step = "txt" /\ ~HasMeans(Current)
             \/ step = "plot"

GraphGoesOn ==
    /\ next' = next /\ json' = json
    /\ \/ step' = step
       \/ step = "create" /\ next \in 1 .. Last /\ (step' = "plot" => Current \in DOMAIN SameData)
       \/ step = "txt" /\ step' = "json"

GraphResults ==
    /\ step = "json" /\ step' = "plot" /\ next' = next /\ next \in 1 .. Last
    /\ json'[call][Current] = table

(* A step that does not end the session is one of these, or begins a call. *)
LEMMA CallSteps ==
    ASSUME TypeOK, Loop, DirOfCall, [Next]_vars, step' # "idle"
    PROVE  \/ RunTest
           \/ CallReturns
           \/ /\ step # "idle" /\ session' = session /\ call' = call
              /\ GraphThrough \/ GraphGoesOn \/ GraphResults
<1>t. /\ call \in Folder /\ json \in [Folder -> [Graph -> Files]] /\ table \in Files
  BY Types DEF Files
<1>1. ASSUME NEW g \in Graph, Create(g)
      PROVE  /\ step # "idle" /\ session' = session /\ call' = call
             /\ GraphThrough \/ GraphGoesOn
  <2>1. /\ step = "create" /\ next \in 1 .. Last /\ g = Graphs[next]
        /\ session' = session /\ call' = call /\ json' = json
        /\ \/ Raises(g) /\ Moves /\ step' = "create"
           \/ next' = next /\ step' = IF g \in DOMAIN SameData THEN "plot" ELSE "txt"
    BY <1>1, CreateFacts
  <2>2. g = Current
    BY <2>1 DEF Current
  <2>3. CASE Raises(g) /\ Moves /\ step' = "create"
    BY <2>1, <2>2, <2>3 DEF GraphThrough, Moves
  <2>4. CASE next' = next /\ step' = IF g \in DOMAIN SameData THEN "plot" ELSE "txt"
    BY <2>1, <2>2, <2>4 DEF GraphGoesOn
  <2> QED
    BY <2>1, <2>3, <2>4
<1>2. ASSUME NEW g \in Graph, WriteTxt(g)
      PROVE  /\ step # "idle" /\ session' = session /\ call' = call
             /\ GraphThrough \/ GraphGoesOn
  <2>1. /\ step = "txt" /\ next \in 1 .. Last /\ g = Current /\ json' = json
        /\ \/ Stays /\ step' = "json"
           \/ ~HasMeans(g) /\ Moves /\ step' = "create"
    BY <1>2, WriteTxtFacts DEF Current
  <2> QED
    BY <2>1 DEF GraphThrough, GraphGoesOn, Moves, Stays
<1>3. ASSUME NEW g \in Graph, DumpToJson(g)
      PROVE  /\ step # "idle" /\ session' = session /\ call' = call
             /\ GraphResults
  <2>1. /\ step = "json" /\ step' = "plot" /\ next \in 1 .. Last /\ g = Current /\ Stays
        /\ json' = [json EXCEPT ![dir[g]][g] = table]
    BY <1>3, DumpFacts DEF Current
  <2>2. dir[g] = call
    BY <2>1 DEF DirOfCall, Busy
  <2>3. json'[call][g] = table
    BY <1>t, <2>1, <2>2, Filed
  <2> QED
    BY <2>1, <2>3 DEF GraphResults, Stays
<1>4. ASSUME NEW g \in Graph, Plot(g) \/ PlotRaises(g)
      PROVE  /\ step # "idle" /\ session' = session /\ call' = call
             /\ GraphThrough
  <2>1. step = "plot" /\ step' = "create" /\ next \in 1 .. Last /\ Moves /\ json' = json
    BY <1>4, PlotFacts, PlotRaisesFacts
  <2> QED
    BY <2>1 DEF GraphThrough, Moves
<1>5. ASSUME NEW g \in Graph, Fails(g)
      PROVE  /\ step # "idle" /\ session' = session /\ call' = call
             /\ GraphThrough
  <2>1. Busy /\ next \in 1 .. Last /\ Moves /\ faults' > 0
    BY <1>5, FailsFacts
  <2> QED
    BY <2>1 DEF GraphThrough, Moves, Busy
<1>6. ASSUME UNCHANGED vars
      PROVE  /\ step # "idle" /\ session' = session /\ call' = call
             /\ GraphGoesOn
  BY <1>6, StutterFacts DEF GraphGoesOn
<1> QED
  BY <1>1, <1>2, <1>3, <1>4, <1>5, <1>6 DEF Next

(* No result has the number of a session before it is its turn in that session. *)
LEMMA NotYetStep ==
    ASSUME TypeOK, Loop, DirOfCall, Calculated, TableFits, Cleared0, NotYet, [Next]_vars
    PROVE  NotYet'
<1>k. /\ session \in Nat /\ next \in Nat /\ call \in Folder /\ call \in Nat
      /\ NoFile.session = 0 /\ Torn.session = 0 /\ \A h : TableOf(h).session = session
      /\ \A c \in Folder, h \in Graph : json[c][h].session \in Nat
  <2>1. \A f \in Files : f.session \in Nat
    <3>1. MaxSessions \in Nat
      BY Constants
    <3> QED
      BY <3>1 DEF Files, Table, NoFile, Torn
  <2> QED
    BY <2>1, Types, Folders DEF NoFile, Torn, TableOf
<1>1. ASSUME NEW c \in Folder, NEW h \in Graph
      PROVE  json'[c][h].session <= session'
  <2>1. json[c][h].session <= session
    BY DEF NotYet
  <2>2. CASE RunTest
    <3>1. session' = session + 1 /\ (json'[c][h] = json[c][h] \/ json'[c][h] = NoFile)
      BY <2>2, RunTestFacts
    <3> QED
      BY <1>k, <2>1, <3>1
  <2>3. CASE InSession
    <3>1. session' = session /\ JsonWritten(c, h)
      BY <2>3 DEF InSession
    <3>2. \/ json'[c][h] = json[c][h]
          \/ json'[c][h] = Torn
          \/ json'[c][h] = TableOf(h)
      BY <3>1 DEF JsonWritten
    <3> QED
      BY <1>k, <2>1, <3>1, <3>2
  <2> QED
    BY <2>2, <2>3, SessionSteps
<1>2. ASSUME step' # "idle", NEW k \in 1 .. Last,
             \/ k > next'
             \/ k = next' /\ (step' # "plot" \/ Graphs[k] \in DOMAIN SameData)
      PROVE  json'[call'][Graphs[k]].session # session'
  <2>k. k \in Nat /\ Graphs[k] \in Graph
    BY Positions
  <2>1. CASE RunTest
    <3>1. /\ session' = session + 1 /\ call' = 0 /\ json'[0] = json[0]
          /\ json[0][Graphs[k]].session <= session
          /\ json[0][Graphs[k]].session \in Nat
      BY <1>k, <2>k, <2>1, RunTestFacts, Folders DEF NotYet
    <3> QED
      BY <1>k, <3>1
  <2>2. CASE CallReturns
    <3>1. /\ session' = session /\ session >= 1
          /\ call' = call + 1 /\ call' \in Folder /\ json' = json
      BY <1>2, <2>2, CallReturnsFacts DEF Loop
    <3>2. json'[call'][Graphs[k]] = NoFile
      BY <1>k, <2>k, <3>1 DEF Cleared0
    <3> QED
      BY <1>k, <3>1, <3>2
  <2>3. ASSUME step # "idle", session' = session, call' = call, ~RunTest,
               GraphThrough \/ GraphGoesOn \/ GraphResults
        PROVE  json'[call'][Graphs[k]].session # session'
    <3>1. session >= 1 /\ JsonWritten(call, Graphs[k])
      BY <1>k, <2>k, <2>3, SessionSteps DEF InSession, Loop
    <3>2. ASSUME \/ k > next
                 \/ k = next /\ (step # "plot" \/ Graphs[k] \in DOMAIN SameData)
          PROVE  json[call][Graphs[k]].session # session
      BY <2>3, <3>2 DEF NotYet
    <3>3. CASE GraphThrough
      <4>1. k > next /\ next \in 1 .. Last
        BY <1>k, <1>2, <2>k, <3>3 DEF GraphThrough
      <4>2. Graphs[k] # Current
        BY <1>k, <2>k, <4>1, Positions DEF Current
      <4> QED
        BY <2>3, <3>1, <3>2, <4>1, <4>2 DEF JsonWritten
    <3>4. CASE GraphGoesOn
      <4>1. \/ k > next
            \/ k = next /\ (step # "plot" \/ Graphs[k] \in DOMAIN SameData)
        BY <1>2, <3>4 DEF GraphGoesOn
      <4> QED
        BY <2>3, <3>2, <3>4, <4>1 DEF GraphGoesOn
    <3>5. CASE GraphResults
      <4>1. Graphs[next] \notin DOMAIN SameData
        BY <3>5 DEF GraphResults, Loop, Current
      <4>2. k > next /\ next \in 1 .. Last
        BY <1>2, <3>5, <4>1 DEF GraphResults
      <4>3. Graphs[k] # Current
        BY <1>k, <2>k, <4>2, Positions DEF Current
      <4> QED
        BY <2>3, <3>1, <3>2, <4>2, <4>3 DEF JsonWritten
    <3> QED
      BY <2>3, <3>3, <3>4, <3>5
  <2> QED
    BY <1>2, <2>1, <2>2, <2>3, CallSteps
<1> QED
  BY <1>1, <1>2 DEF NotYet

(* What can be computed stays the same in a session. *)
LEMMA SameComputable ==
    ASSUME TypeOK, Loop, DirOfCall, Calculated, TableFits, [Next]_vars, ~RunTest,
           call' = call, NEW g \in Graph
    PROVE  Computable(g, call)' <=> Computable(g, call)
<1>1. InSession
  BY SessionSteps
<1>2. call # 0 => data'[g] = data[g]
  BY <1>1, Types, Folders DEF InSession
<1>3. data' = data \/ \E h \in Graph : data' = [data EXCEPT ![h] = CalcData(h)]
  BY CallReturnsFacts, CreateFacts, WriteTxtFacts, DumpFacts, PlotFacts, PlotRaisesFacts,
     FailsFacts, StutterFacts DEF Next
<1>4. \A s \in Sources : data'[s] = data[s]
  BY <1>3, Recalculated
<1>5. g \in DOMAIN Ratio =>
        data'[Ratio[g][1]] = data[Ratio[g][1]] /\ data'[Ratio[g][2]] = data[Ratio[g][2]]
  BY <1>4, SourceGraphs
<1>6. CASE call = 0
  BY <1>5, <1>6 DEF Computable
<1>7. CASE call # 0
  BY <1>2, <1>5, <1>7 DEF Computable, Rows, TitleSet, Titles
<1> QED
  BY <1>6, <1>7

(* For a graph in its turn, HasMeans is what Computable asks of a pair. *)
LEMMA MeansOfPair ==
    ASSUME TypeOK, TableFits, Busy, NEW g \in Graph, g = Current
    PROVE  HasMeans(g) <=>
              (call # 0 => Rows(data[g]) \X TitleSet(call) \subseteq data[g])
<1>1. call # 0 => table.cells = Limited(g)
  BY DEF TableFits, TableOf, Contents
<1> QED
  BY <1>1, LimitedCells DEF HasMeans

(* What is computable is published when its turn is over. *)
LEMMA PublishedStep ==
    ASSUME TypeOK, Loop, DirOfCall, Calculated, TableFits, NotYet, Published, [Next]_vars
    PROVE  Published'
<1> SUFFICES ASSUME step' # "idle", faults' = 0, NEW k \in 1 .. Last,
                    k < next' \/ (k = next' /\ step' = "plot")
             PROVE  Computable(Graphs[k], call)' <=> IsPublished(Graphs[k])'
  BY DEF Published, Computable, IsPublished, Intact, NoFile, Torn, Rows, TitleSet, Titles
<1>k. k \in Nat /\ k >= 1 /\ Graphs[k] \in Graph /\ next \in Nat /\ call \in Folder /\ faults \in Nat
  BY Positions, Types
<1>1. ASSUME RunTest
      PROVE  FALSE
  BY <1>k, <1>1, RunTestFacts
<1>2. ASSUME CallReturns
      PROVE  FALSE
  BY <1>k, <1>2, CallReturnsFacts
<1>3. /\ step # "idle" /\ session' = session /\ call' = call
      /\ GraphThrough \/ GraphGoesOn \/ GraphResults
  BY <1>1, <1>2, CallSteps
<1>4. faults = 0 /\ session >= 1 /\ JsonWritten(call, Graphs[k])
  BY <1>k, <1>1, <1>3, SessionSteps DEF InSession, Loop
<1>5. Computable(Graphs[k], call)' <=> Computable(Graphs[k], call)
  BY <1>k, <1>1, <1>3, SameComputable
<1>6. ASSUME json'[call][Graphs[k]] = json[call][Graphs[k]]
      PROVE  IsPublished(Graphs[k])' <=> IsPublished(Graphs[k])
  BY <1>3, <1>6 DEF IsPublished, Intact, NoFile, Torn
<1>7. ASSUME k < next \/ (k = next /\ step = "plot")
      PROVE  Computable(Graphs[k], call) <=> IsPublished(Graphs[k])
  BY <1>3, <1>4, <1>7 DEF Published
<1>8. ASSUME k = next, step # "plot" \/ Graphs[k] \in DOMAIN SameData
      PROVE  ~IsPublished(Graphs[k])
  BY <1>3, <1>8 DEF NotYet, IsPublished
<1>9. k = next => Graphs[k] = Current
  BY DEF Current
<1>10. CASE k < next
  <2>1. Busy => Graphs[k] # Current
    BY <1>k, <1>10, Types, Positions DEF Busy, Loop, Current
  <2>2. json'[call][Graphs[k]] = json[call][Graphs[k]]
    BY <1>4, <2>1 DEF JsonWritten, Busy
  <2> QED
    BY <1>5, <1>6, <1>7, <1>10, <2>2
<1>11. CASE ~(k < next) /\ GraphThrough
  <2>1. k = next /\ json' = json
    BY <1>k, <1>11 DEF GraphThrough
  <2>2. CASE step = "create" /\ Raises(Current)
    <3>1. ~Computable(Graphs[k], call)
      BY <1>9, <2>1, <2>2 DEF Raises, Computable
    <3> QED
      BY <1>5, <1>6, <1>8, <2>1, <2>2, <3>1
  <2>3. CASE step = "txt" /\ ~HasMeans(Current)
    <3>1. ~Computable(Graphs[k], call)
      BY <1>k, <1>9, <2>1, <2>3, MeansOfPair DEF Busy, Computable
    <3> QED
      BY <1>5, <1>6, <1>8, <2>1, <2>3, <3>1
  <2>4. CASE step = "plot"
    BY <1>5, <1>6, <1>7, <2>1, <2>4
  <2> QED
    BY <1>11, <2>2, <2>3, <2>4 DEF GraphThrough
<1>12. CASE ~(k < next) /\ GraphGoesOn
  <2>1. k = next /\ json' = json /\ step' = "plot"
    BY <1>k, <1>12 DEF GraphGoesOn
  <2>2. CASE step = "plot"
    BY <1>5, <1>6, <1>7, <2>1, <2>2
  <2>3. CASE step # "plot"
    <3>1. Graphs[k] \in DOMAIN SameData
      BY <1>9, <1>12, <2>1, <2>3 DEF GraphGoesOn
    <3>2. ~Computable(Graphs[k], call)
      BY <3>1 DEF Computable
    <3> QED
      BY <1>5, <1>6, <1>8, <2>1, <3>1, <3>2
  <2> QED
    BY <2>2, <2>3
<1>13. CASE ~(k < next) /\ GraphResults
  <2>1. /\ k = next /\ Graphs[k] = Current /\ step = "json"
        /\ json'[call][Graphs[k]] = table
    BY <1>k, <1>9, <1>13 DEF GraphResults
  <2>2. /\ Current \notin DOMAIN SameData /\ ~Raises(Current)
        /\ table = TableOf(Current) /\ HasMeans(Current)
    BY <2>1 DEF Loop, TableFits, Busy
  <2>3. Computable(Graphs[k], call)
    <3>1. call # 0 => Rows(data[Graphs[k]]) \X TitleSet(call) \subseteq data[Graphs[k]]
      BY <1>k, <2>1, <2>2, MeansOfPair DEF Busy
    <3> QED
      BY <2>1, <2>2, <3>1 DEF Computable, Raises
  <2>4. table \in Table /\ table.session = session
    BY <1>k, <1>4, <2>1, <2>2, TableTyped DEF TableOf
  <2>5. IsPublished(Graphs[k])'
    <3>1. Intact(table)
      BY <2>4, TableIntact
    <3> QED
      BY <1>3, <2>1, <2>4, <3>1 DEF IsPublished, Intact, NoFile, Torn
  <2> QED
    BY <1>5, <2>3, <2>5
<1> QED
  BY <1>3, <1>10, <1>11, <1>12, <1>13

-----------------------------------------------------------------------------
(* Before the first session there are no files. *)
LEMMA InitIInv ==
    ASSUME Init
    PROVE  IInv
<1>1. /\ session = 0 /\ call = 0 /\ next = 1 /\ step = "idle"
      /\ data = [g \in Graph |-> {}] /\ dir = [g \in Graph |-> 0]
      /\ oldFolder = 0 /\ table = NoFile /\ faults = 0
      /\ txt = NoFiles(NoFile) /\ json = NoFiles(NoFile) /\ plot = NoFiles(NoPlot)
  BY DEF Init
<1>2. /\ Last \in Nat /\ MaxSessions \in Nat /\ MaxFaults \in Nat /\ 0 \in Folder
      /\ \A c \in Folder : c \in Nat
  BY Positions, Constants, Folders
<1>3. /\ \A c \in Folder, g \in Graph :
            txt[c][g] = NoFile /\ json[c][g] = NoFile /\ plot[c][g] = NoPlot
      /\ NoFile.session = 0 /\ ~Intact(NoFile) /\ NoPlot.of = NoFile
  BY <1>1 DEF NoFiles, Intact, NoFile, NoPlot
<1>4. TypeOK
  <2>1. /\ session \in 0 .. MaxSessions /\ next \in 1 .. Len(Graphs) + 1 /\ faults \in 0 .. MaxFaults
        /\ 0 \in 0 .. session
    BY <1>1, <1>2 DEF Last
  <2>2. /\ data \in [Graph -> SUBSET Cell] /\ dir \in [Graph -> Folder]
        /\ call \in Folder /\ oldFolder \in Folder
        /\ step \in {"idle", "create", "txt", "json", "plot"}
    BY <1>1, <1>2
  <2>3. /\ {txt, json} \subseteq [Folder -> [Graph -> Table \cup {NoFile, Torn}]]
        /\ table \in Table \cup {NoFile}
    BY <1>1 DEF NoFiles
  <2>4. NoPlot \in [by : 0 .. session, of : Table \cup {NoFile, Torn}]
    BY <2>1 DEF NoPlot
  <2>5. plot \in [Folder -> [Graph -> [by : 0 .. session, of : Table \cup {NoFile, Torn}]]]
    BY <1>1, <2>4 DEF NoFiles
  <2> QED
    BY <2>1, <2>2, <2>3, <2>5 DEF TypeOK
<1>5. Loop /\ DirOfCall /\ Calculated /\ TableFits
  BY <1>1 DEF Loop, DirOfCall, Calculated, TableFits, Busy
<1>6. Cleared0 /\ TxtOfPair /\ JsonOfPair
  BY <1>3 DEF Cleared0, TxtOfPair, JsonOfPair
<1>7. TxtOfTest
  BY <1>1 DEF TxtOfTest
<1>8. PlotFits
  BY <1>3 DEF PlotFits
<1>9. NotYet /\ Published
  BY <1>1, <1>3 DEF NotYet, Published
<1> QED
  BY <1>4, <1>5, <1>6, <1>7, <1>8, <1>9 DEF IInv

(* A step of the program, or none, keeps the inductive invariant. *)
LEMMA StepIInv ==
    ASSUME IInv, [Next]_vars
    PROVE  IInv'
<1>1. TypeOK' /\ Loop' /\ DirOfCall' /\ Calculated' /\ TableFits'
  BY TypeStep, LoopStep, DirOfCallStep, CalculatedStep, TableFitsStep DEF IInv
<1>2. Cleared0' /\ TxtOfPair' /\ JsonOfPair' /\ TxtOfTest' /\ PlotFits'
  BY ClearedStep, TxtOfPairStep, JsonOfPairStep, TxtOfTestStep, PlotFitsStep DEF IInv
<1>3. NotYet' /\ Published'
  BY NotYetStep, PublishedStep DEF IInv
<1> QED
  BY <1>1, <1>2, <1>3 DEF IInv

(***************************************************************************)
(* The inductive invariant holds in every state of every session, whatever *)
(* the measurements lack and whichever graphs fail.                        *)
(***************************************************************************)
THEOREM Invariance == Spec => []IInv
<1>1. Init => IInv
  BY InitIInv
<1>2. IInv /\ [Next]_vars => IInv'
  BY StepIInv
<1> QED
  BY <1>1, <1>2, PTL DEF Spec

(* The loops of create_sensor_graphs and the files it writes keep their types. *)
THEOREM TypeCorrect == Spec => []TypeOK
<1>1. IInv => TypeOK
  BY DEF IInv
<1> QED
  BY <1>1, Invariance, PTL

(***************************************************************************)
(* While pairs are compared, create_graph has moved every graph it writes  *)
(* to the folder of the pair, also if it left a graph before by an         *)
(* exception, its dir_name not restored: the files of the test itself stay *)
(* what they were.                                                         *)
(***************************************************************************)
THEOREM ComparisonsKeepResults == Spec => CompleteResultsKept
<1> DEFINE Kept == step # "idle" /\ call > 0 =>
                      \A f \in {<<txt, txt'>>, <<json, json'>>, <<plot, plot'>>} : f[1][0] = f[2][0]
<1>1. IInv /\ [Next]_vars => [Kept]_vars
  <2> SUFFICES ASSUME IInv, [Next]_vars, step # "idle", call > 0
               PROVE  txt'[0] = txt[0] /\ json'[0] = json[0] /\ plot'[0] = plot[0]
    OBVIOUS
  <2>1. TypeOK /\ Loop /\ DirOfCall /\ Calculated /\ TableFits
    BY DEF IInv
  <2>2. ~RunTest
    BY <2>1, RunTestFacts
  <2>3. InSession /\ TypeOK'
    BY <2>1, <2>2, SessionSteps, TypeStep
  <2>4. 0 \in Folder /\ call # 0 /\ call \in Nat
    BY <2>1, Types, Folders
  <2>5. ASSUME NEW h \in Graph
        PROVE  txt'[0][h] = txt[0][h] /\ json'[0][h] = json[0][h] /\ plot'[0][h] = plot[0][h]
    BY <2>3, <2>4 DEF InSession, TxtWritten, JsonWritten, PlotWritten
  <2>6. /\ txt[0] \in [Graph -> Files] /\ json[0] \in [Graph -> Files]
        /\ plot[0] \in [Graph -> Drawn(session)]
    BY <2>1, <2>4, Types
  <2>7. /\ txt'[0] \in [Graph -> Files] /\ json'[0] \in [Graph -> Files]
        /\ plot'[0] \in [Graph -> [by : 0 .. session', of : Files]]
    BY <2>3, <2>4 DEF TypeOK, Files, Table, NoFile, Torn
  <2> QED
    BY <2>5, <2>6, <2>7 DEF Drawn
<1> QED
  BY <1>1, Invariance, PTL DEF Spec, CompleteResultsKept

(***************************************************************************)
(* What the folder of a pair holds is of its two VMs and of this session,  *)
(* and no cell of a result is invented; a plot of this session shows an    *)
(* old data file only in the directory of the test and after a failure.    *)
(***************************************************************************)
THEOREM FoldersOfPairs == Spec => []FoldersHoldTheirPair
<1>1. IInv => FoldersHoldTheirPair
  BY DEF IInv, JsonOfPair, PlotFits, FoldersHoldTheirPair
<1> QED
  BY <1>1, Invariance, PTL

(***************************************************************************)
(* A call of create_sensor_graphs without unforeseen failures writes the   *)
(* results of exactly the graphs whose data suffices: those that raise are *)
(* skipped, and take no other graph's results with them.                   *)
(***************************************************************************)
THEOREM MeasuredIsPublished == Spec => []PublishedIfMeasured
<1>1. ASSUME IInv
      PROVE  PublishedIfMeasured
  <2> SUFFICES ASSUME step = "create", next > Len(Graphs), faults = 0, NEW g \in Graph
               PROVE  Computable(g, call) <=> Intact(json[call][g]) /\ json[call][g].session = session
    BY DEF PublishedIfMeasured
  <2>1. Published /\ TypeOK
    BY <1>1 DEF IInv
  <2>2. PICK k \in 1 .. Last : g = Graphs[k]
    BY Positions
  <2>3. k < next
    BY <2>1, Positions, Types DEF Last
  <2> QED
    BY <2>1, <2>2, <2>3 DEF Published, IsPublished
<1> QED
  BY <1>1, Invariance, PTL

=============================================================================
