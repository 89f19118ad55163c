---------------------------- MODULE ResultsProofs -----------------------------
(***************************************************************************)
(* Proofs about Results, for any number of VMs, tests, graphs, retries and *)
(* sessions: of the type invariant, that the samples of a test come from   *)
(* one session, that old results are taken over sample by sample, and that *)
(* testinfo.json describes the machines of the results.                    *)
(***************************************************************************)
EXTENDS Results, TLAPS, SequenceTheorems, FiniteSetTheorems

(* What OneSessionPerTest asks of the samples of one cell. *)
OneSession(cell) == Len(cell) <= Retries /\ \A i, j \in DOMAIN cell : cell[i] = cell[j]

(* A session has a number; those of the files are not of later ones. *)
Numbered == stage # "idle" => session >= 1

(* In memory and on disk, a cell holds samples of one session. *)
CellsClean ==
    \A g \in Graphs, x \in Xs, v \in VMs :
        /\ OneSession(data[g][x][v])
        /\ Intact(json[g]) => OneSession(json[g][x][v])

(* A VM whose turn has not come yet has no samples in memory. *)
Fresh ==
    \A g \in Graphs, x \in Xs, v \in VMs :
        stage = "pre" \/ (stage = "run" /\ next <= v) => data[g][x][v] = <<>>

(* What has been loaded is what the file still holds until it is replaced. *)
Kept ==
    \A g \in Graphs, x \in Xs, v \in VMs \ enabled :
        /\ Intact(json[g])
        /\ \/ stage = "run" /\ v < next
           \/ stage = "post" /\ next <= g
        => data[g][x][v] = json[g][x][v]

(* The results in a file are of the sessions that testinfo.json names. *)
Match(g, v) ==
    Intact(json[g]) /\ \A x \in Xs : SamplesOf(json[g][x][v]) = {testinfo[v]}

(***************************************************************************)
(* What holds as long as nothing has failed: the info is there once it is  *)
(* needed; between two sessions the files match it, unless there are none; *)
(* in a session the new info is ahead of the files, which still match it   *)
(* for the VMs that are not run, and what has been measured or loaded      *)
(* matches it; at the end the files are what is in memory.                 *)
(***************************************************************************)
InfoKnown ==
    /\ testinfo # Torn
    /\ ended # "load"
    /\ ended = "finished" \/ stage \in {"run", "post"} => testinfo # NoFile

Between ==
    stage \in {"idle", "pre"} /\ testinfo # NoFile =>
        \A g \in Graphs, v \in VMs : Match(g, v)

Running ==
    stage = "run" =>
        \A g \in Graphs, v \in VMs :
            /\ v \in enabled => testinfo[v] = session
            /\ v \notin enabled => Match(g, v)
            /\ v < next => \A x \in Xs : SamplesOf(data[g][x][v]) = {testinfo[v]}

Writing ==
    stage = "post" =>
        \A g \in Graphs :
            /\ \A x \in Xs, v \in VMs : SamplesOf(data[g][x][v]) = {testinfo[v]}
            /\ g < next => json[g] = data[g]

Unharmed == ~harmed => InfoKnown /\ Between /\ Running /\ Writing

(* The inductive invariant. *)
IInv == TypeOK /\ Numbered /\ CellsClean /\ Fresh /\ Kept /\ Unharmed

-----------------------------------------------------------------------------
(* The constants, one by one, and what no file of results has inside. *)
LEMMA Sizes ==
    /\ VmNum \in Nat /\ VmNum >= 1
    /\ XNum \in Nat /\ XNum >= 1
    /\ Retries \in Nat /\ Retries >= 1
    /\ GraphNum \in Nat /\ GraphNum >= 1
    /\ MaxSessions \in Nat
BY ResultsAssumption

(* The counters are numbers. *)
LEMMA Counters ==
    ASSUME TypeOK
    PROVE  session \in Nat /\ next \in Nat
<1>1. session \in 0 .. MaxSessions /\ next \in 1 .. VmNum + GraphNum
  BY DEF TypeOK
<1> QED
  BY <1>1, Sizes

(* Results are never mistaken for a file that is missing or torn. *)
LEMMA CellsIntact ==
    ASSUME NEW f \in Cells
    PROVE  Intact(f)
<1>1. DOMAIN f = 1 .. XNum
  BY DEF Cells, Xs
<1>2. 1 \in DOMAIN f /\ 0 \notin DOMAIN f
  BY <1>1, Sizes
<1>3. f # NoFile
  BY <1>2 DEF NoFile
<1>4. DOMAIN Torn = {0}
  BY DEF Torn
<1>5. f # Torn
  BY <1>2, <1>4
<1> QED
  BY <1>3, <1>5 DEF Intact

(* The same for the info. *)
LEMMA InfoIntact ==
    ASSUME NEW S, NEW f \in [VMs -> S]
    PROVE  Intact(f)
<1>1. DOMAIN f = 1 .. VmNum
  BY DEF VMs
<1>2. 1 \in DOMAIN f /\ 0 \notin DOMAIN f
  BY <1>1, Sizes
<1>3. f # NoFile
  BY <1>2 DEF NoFile
<1>4. DOMAIN Torn = {0}
  BY DEF Torn
<1>5. f # Torn
  BY <1>2, <1>4
<1> QED
  BY <1>3, <1>5 DEF Intact

(* The samples a session takes of one test, r of them: all its own. *)
Samples(n, r) == [k \in 1 .. r |-> n]

(* The samples of one test are of one session. *)
LEMMA SamplesAreClean ==
    ASSUME NEW n \in 0 .. MaxSessions, NEW r \in 0 .. Retries
    PROVE  /\ Samples(n, r) \in Seq(0 .. MaxSessions)
           /\ OneSession(Samples(n, r))
           /\ r = Retries => SamplesOf(Samples(n, r)) = {n}
<1>1. r \in Nat /\ r <= Retries /\ Retries >= 1
  BY Sizes
<1>2. Samples(n, r) \in Seq(0 .. MaxSessions) /\ Len(Samples(n, r)) = r
  BY <1>1 DEF Samples
<1>3. DOMAIN Samples(n, r) = 1 .. r /\ \A k \in 1 .. r : Samples(n, r)[k] = n
  BY DEF Samples
<1>4. ASSUME r = Retries
      PROVE  SamplesOf(Samples(n, r)) = {n}
  <2>1. 1 \in DOMAIN Samples(n, r)
    BY <1>1, <1>3, <1>4
  <2> QED
    BY <1>3, <2>1 DEF SamplesOf
<1>5. OneSession(Samples(n, r))
  BY <1>1, <1>2, <1>3 DEF OneSession
<1> QED
  BY <1>2, <1>4, <1>5

(* No sample at all and a single zero are clean as well. *)
LEMMA NothingIsClean ==
    /\ <<>> \in Seq(0 .. MaxSessions) /\ OneSession(<<>>)
    /\ <<Zero>> \in Seq(0 .. MaxSessions) /\ OneSession(<<Zero>>)
<1>1. <<>> \in Seq(0 .. MaxSessions) /\ <<Zero>> \in Seq(0 .. MaxSessions)
  BY Sizes DEF Zero
<1>2. OneSession(<<>>)
  BY Sizes DEF OneSession
<1>3. Len(<<Zero>>) = 1 /\ DOMAIN <<Zero>> = {1}
  OBVIOUS
<1>4. OneSession(<<Zero>>)
  BY <1>3, Sizes DEF OneSession
<1> QED
  BY <1>1, <1>2, <1>4

(* Clean cells have what OneSessionPerTest asks for. *)
LEMMA CleanCell ==
    ASSUME NEW cell \in Seq(0 .. MaxSessions), OneSession(cell)
    PROVE  Len(cell) <= Retries /\ Cardinality(SamplesOf(cell)) <= 1
<1>1. CASE SamplesOf(cell) = {}
  <2>1. Cardinality(SamplesOf(cell)) = 0
    BY <1>1, FS_EmptySet
  <2> QED
    BY <2>1 DEF OneSession
<1>2. CASE SamplesOf(cell) # {}
  <2>1. PICK k \in DOMAIN cell : TRUE
    BY <1>2 DEF SamplesOf
  <2>2. SamplesOf(cell) = {cell[k]}
    BY <2>1 DEF SamplesOf, OneSession
  <2>3. Cardinality(SamplesOf(cell)) = 1
    BY <2>2, FS_Singleton
  <2> QED
    BY <2>3 DEF OneSession
<1> QED
  BY <1>1, <1>2

(* A cell with a sample of somebody is not empty. *)
LEMMA SampledCell ==
    ASSUME NEW cell, NEW n, SamplesOf(cell) = {n}
    PROVE  cell # <<>>
<1>1. SamplesOf(<<>>) = {}
  BY DEF SamplesOf
<1> QED
  BY <1>1

-----------------------------------------------------------------------------
(* One VM's samples of a test are replaced. *)
LEMMA OneVM ==
    ASSUME NEW S, NEW row \in [VMs -> S], NEW w \in VMs, NEW cell \in S
    PROVE  /\ [row EXCEPT ![w] = cell] \in [VMs -> S]
           /\ \A v \in VMs : [row EXCEPT ![w] = cell][v] = IF v = w THEN cell ELSE row[v]
OBVIOUS

(* What run_vm adds to a VM without samples: those of this session. *)
LEMMA RunAdds ==
    ASSUME TypeOK, Numbered, Fresh, NEW taken \in Takings, RunVM(taken)
    PROVE  /\ data' \in [Graphs -> Cells]
           /\ \A g \in Graphs, x \in Xs, v \in VMs :
                 /\ taken[g][x] \in 0 .. Retries
                 /\ data'[g][x][v] = IF v = next THEN Samples(session, taken[g][x]) ELSE data[g][x][v]
<1>1. data' = [g \in Graphs |-> AddSamples(data[g], next, taken[g])] /\ stage = "run" /\ next \in VMs
  BY DEF RunVM, TypeOK
<1>2. session \in 0 .. MaxSessions
  BY DEF TypeOK
<1>t. \A g \in Graphs, x \in Xs : taken[g][x] \in 0 .. Retries
  BY ResultsAssumption DEF Graphs, Xs
<1>5. \A g \in Graphs, x \in Xs : Samples(session, taken[g][x]) \in Seq(0 .. MaxSessions)
  BY <1>2, <1>t, SamplesAreClean
<1>4. ASSUME NEW g \in Graphs, NEW x \in Xs
      PROVE  data'[g][x] = [data[g][x] EXCEPT ![next] = Samples(session, taken[g][x])]
  <2>1. data[g][x][next] = <<>>
    BY <1>1, Sizes DEF Fresh, VMs
  <2>2. Samples(session, taken[g][x]) \in Seq(0 .. MaxSessions)
    BY <1>5
  <2>3. <<>> \o Samples(session, taken[g][x]) = Samples(session, taken[g][x])
    BY <2>2
  <2>4. data[g][x][next] \o [k \in 1 .. taken[g][x] |-> session] = Samples(session, taken[g][x])
    BY <2>1, <2>3 DEF Samples
  <2>5. [data[g][x] EXCEPT ![next] = data[g][x][next] \o [k \in 1 .. taken[g][x] |-> session]]
            = [data[g][x] EXCEPT ![next] = Samples(session, taken[g][x])]
    BY <2>4
  <2>6. data'[g][x] = [data[g][x] EXCEPT ![next] = @ \o [k \in 1 .. taken[g][x] |-> session]]
    BY <1>1 DEF AddSamples
  <2> QED
    BY <2>5, <2>6
<1>6. ASSUME NEW g \in Graphs, NEW x \in Xs
      PROVE  /\ data'[g][x] \in [VMs -> Seq(0 .. MaxSessions)]
             /\ \A v \in VMs : data'[g][x][v] =
                    IF v = next THEN Samples(session, taken[g][x]) ELSE data[g][x][v]
  <2>1. data[g][x] \in [VMs -> Seq(0 .. MaxSessions)]
    BY DEF TypeOK, Cells
  <2>2. data'[g][x] = [data[g][x] EXCEPT ![next] = Samples(session, taken[g][x])]
    BY <1>4
  <2>3. Samples(session, taken[g][x]) \in Seq(0 .. MaxSessions) /\ next \in VMs
    BY <1>1, <1>5
  <2> QED
    BY <2>1, <2>2, <2>3, OneVM
<1>7. ASSUME NEW g \in Graphs
      PROVE  data'[g] = [x \in Xs |-> data'[g][x]]
  BY <1>1 DEF AddSamples
<1>8. ASSUME NEW g \in Graphs
      PROVE  data'[g] \in Cells
  BY <1>6, <1>7 DEF Cells
<1>9. data' = [g \in Graphs |-> data'[g]]
  BY <1>1
<1>10. data' \in [Graphs -> Cells]
  BY <1>8, <1>9
<1> QED
  BY <1>6, <1>10, <1>t

(* What load_old_results adds to a VM without samples: those of the file. *)
LEMMA LoadedCells ==
    ASSUME TypeOK, NEW g \in Graphs, NEW v \in VMs, NEW x \in Xs, Loadable(g, v)
    PROVE  /\ LoadedFrom(g, v, x) \in Seq(0 .. MaxSessions)
           /\ Intact(json[g]) => LoadedFrom(g, v, x) = json[g][x][v]
           /\ ~Intact(json[g]) => LoadedFrom(g, v, x) \in {<<>>, <<Zero>>}
<1>1. CASE json[g] = NoFile
  <2>1. LoadedFrom(g, v, x) \in {<<>>, <<Zero>>}
    BY <1>1 DEF LoadedFrom
  <2>2. ~Intact(json[g])
    BY <1>1 DEF Intact
  <2> QED
    BY <2>1, <2>2, NothingIsClean
<1>2. CASE json[g] # NoFile
  <2>1. json[g] # Torn
    BY <1>2 DEF Loadable
  <2>2. Intact(json[g]) /\ json[g] \in Cells
    BY <1>2, <2>1 DEF Intact, TypeOK
  <2>3. LoadedFrom(g, v, x) = json[g][x][v]
    BY <1>2 DEF LoadedFrom
  <2>4. json[g][x][v] \in Seq(0 .. MaxSessions)
    BY <2>2 DEF Cells
  <2> QED
    BY <2>2, <2>3, <2>4
<1> QED
  BY <1>1, <1>2

(* The next VM is not enabled, and the files have what is asked for. *)
LoadsOld == stage = "run" /\ next \in VMs \ enabled /\ \A g \in Graphs : Loadable(g, next)

(* Loading adds the old samples to the cells of this VM, and changes no other. *)
LEMMA LoadAdds ==
    ASSUME TypeOK, Fresh, LoadsOld, data' = [g \in Graphs |-> Loaded(g, next)]
    PROVE  /\ data' \in [Graphs -> Cells]
           /\ \A g \in Graphs, x \in Xs, v \in VMs :
                 data'[g][x][v] = IF v = next THEN LoadedFrom(g, next, x) ELSE data[g][x][v]
<1>1. stage = "run" /\ next \in VMs /\ \A g \in Graphs : Loadable(g, next)
  BY DEF LoadsOld
<1>2. ASSUME NEW g \in Graphs, NEW x \in Xs
      PROVE  data'[g][x] = [data[g][x] EXCEPT ![next] = LoadedFrom(g, next, x)]
  <2>1. data[g][x][next] = <<>>
    BY <1>1, Sizes DEF Fresh, VMs
  <2>2. LoadedFrom(g, next, x) \in Seq(0 .. MaxSessions)
    BY <1>1, LoadedCells
  <2>3. <<>> \o LoadedFrom(g, next, x) = LoadedFrom(g, next, x)
    BY <2>2
  <2>4. data[g][x][next] \o LoadedFrom(g, next, x) = LoadedFrom(g, next, x)
    BY <2>1, <2>3
  <2>5. data'[g][x] = [data[g][x] EXCEPT ![next] = data[g][x][next] \o LoadedFrom(g, next, x)]
    BY DEF Loaded
  <2> QED
    BY <2>4, <2>5
<1>3. ASSUME NEW g \in Graphs, NEW x \in Xs
      PROVE  /\ data'[g][x] \in [VMs -> Seq(0 .. MaxSessions)]
             /\ \A v \in VMs : data'[g][x][v] =
                    IF v = next THEN LoadedFrom(g, next, x) ELSE data[g][x][v]
  <2>1. data[g][x] \in [VMs -> Seq(0 .. MaxSessions)]
    BY DEF TypeOK, Cells
  <2>2. LoadedFrom(g, next, x) \in Seq(0 .. MaxSessions)
    BY <1>1, LoadedCells
  <2>3. /\ [data[g][x] EXCEPT ![next] = LoadedFrom(g, next, x)] \in [VMs -> Seq(0 .. MaxSessions)]
        /\ \A v \in VMs : [data[g][x] EXCEPT ![next] = LoadedFrom(g, next, x)][v]
              = IF v = next THEN LoadedFrom(g, next, x) ELSE data[g][x][v]
    BY <1>1, <2>1, <2>2, OneVM
  <2> QED
    BY <2>3, <1>2
<1>4. ASSUME NEW g \in Graphs
      PROVE  data'[g] = [x \in Xs |-> data'[g][x]]
  BY DEF Loaded
<1>5. ASSUME NEW g \in Graphs
      PROVE  data'[g] \in Cells
  BY <1>3, <1>4 DEF Cells
<1>6. data' = [g \in Graphs |-> data'[g]]
  OBVIOUS
<1>7. data' \in [Graphs -> Cells]
  BY <1>5, <1>6
<1> QED
  BY <1>3, <1>7

(* A graph nothing was added to. *)
LEMMA EmptyCells ==
    /\ Empty \in Cells
    /\ \A x \in Xs, v \in VMs : Empty[x][v] = <<>>
BY NothingIsClean DEF Empty, Cells

-----------------------------------------------------------------------------
(* Every step of a session keeps the types. *)
LEMMA TypeStep ==
    ASSUME TypeOK, Numbered, Fresh, [Next]_vars
    PROVE  TypeOK'
<1>a. session \in 0 .. MaxSessions /\ next \in 1 .. VmNum + GraphNum /\ enabled \subseteq VMs
  BY DEF TypeOK
<1>b. 1 \in 1 .. VmNum + GraphNum
  BY Sizes
<1>c. \A g \in Graphs : g + 1 \in 1 .. VmNum + GraphNum
  BY Sizes DEF Graphs
<1>d. next \in VMs => next + 1 \in 1 .. VmNum + GraphNum
  BY Sizes DEF VMs
<1>1. ASSUME NEW E \in SUBSET VMs, Start(E)
      PROVE  TypeOK'
  <2>1. session' \in 0 .. MaxSessions /\ enabled' \subseteq VMs
    BY <1>1, <1>a, Sizes DEF Start
  <2>2. data' \in [Graphs -> Cells]
    BY <1>1, EmptyCells DEF Start
  <2>3. testinfo' \in {NoFile, Torn} \/ testinfo' \in [VMs -> 1 .. session']
    <3>1. testinfo \in {NoFile, Torn} \/ testinfo \in [VMs -> 1 .. session]
      BY DEF TypeOK
    <3>2. 1 .. session \subseteq 1 .. session'
      BY <1>1, <1>a, Sizes DEF Start
    <3>3. testinfo' = testinfo
      BY <1>1 DEF Start, disk
    <3> QED
      BY <3>1, <3>2, <3>3
  <2>4. harmed' = harmed /\ json' = json
    BY <1>1 DEF Start, disk
  <2>5. stage' = "pre" /\ next' = next /\ ended' = ended
    BY <1>1 DEF Start
  <2> QED
    BY <2>1, <2>2, <2>3, <2>4, <2>5 DEF TypeOK
<1>2. ASSUME CreateTestinfo
      PROVE  TypeOK'
  <2>1. harmed' = harmed /\ json' = json
    BY <1>2 DEF CreateTestinfo
  <2>2. CASE testinfo # Torn /\ \A v \in VMs \ enabled : HasOldInfo(v)
    <3>1. testinfo' = [v \in VMs |-> Info(v)]
      BY <1>2, <2>2 DEF CreateTestinfo
    <3>2. ASSUME NEW v \in VMs
          PROVE  Info(v) \in 1 .. session
      <4>1. session \in 1 .. session
        BY <1>2, <1>a, Sizes DEF CreateTestinfo, Numbered
      <4>2. v \notin enabled => testinfo \in [VMs -> 1 .. session]
        BY <2>2 DEF HasOldInfo, TypeOK
      <4> QED
        BY <4>1, <4>2 DEF Info
    <3>3. testinfo' \in [VMs -> 1 .. session]
      BY <3>1, <3>2
    <3>4. /\ session' = session /\ enabled' = enabled /\ data' = data /\ ended' = ended
          /\ stage' = "run" /\ next' = 1
      BY <1>2, <2>2 DEF CreateTestinfo
    <3> QED
      BY <2>1, <3>3, <3>4, <1>b DEF TypeOK
  <2>3. CASE ~(testinfo # Torn /\ \A v \in VMs \ enabled : HasOldInfo(v))
    <3>1. /\ session' = session /\ enabled' = enabled /\ data' = data /\ ended' = "testinfo"
          /\ stage' = "idle" /\ next' = 1 /\ testinfo' = testinfo
      BY <1>2, <2>3 DEF CreateTestinfo, Aborts
    <3> QED
      BY <2>1, <3>1, <1>b DEF TypeOK
  <2> QED
    BY <2>2, <2>3
<1>3. ASSUME TestinfoTorn
      PROVE  TypeOK'
  <2>1. /\ session' = session /\ enabled' = enabled /\ data' = data /\ ended' = "killed"
        /\ stage' = "idle" /\ next' = 1 /\ testinfo' = Torn /\ json' = json
    BY <1>3 DEF TestinfoTorn, Aborts
  <2>2. harmed' = TRUE
    BY <1>3 DEF TestinfoTorn
  <2> QED
    BY <2>1, <2>2, <1>b DEF TypeOK
<1>4. ASSUME NEW taken \in Takings, RunVM(taken)
      PROVE  TypeOK'
  <2>1. data' \in [Graphs -> Cells]
    BY <1>4, RunAdds
  <2>2. next' \in 1 .. VmNum + GraphNum
    BY <1>4, <1>a, <1>d DEF RunVM
  <2>3. /\ session' = session /\ enabled' = enabled /\ stage' = stage /\ ended' = ended
        /\ testinfo' = testinfo /\ json' = json
    BY <1>4 DEF RunVM, disk
  <2>4. harmed' \in BOOLEAN
    BY <1>4 DEF RunVM
  <2> QED
    BY <2>1, <2>2, <2>3, <2>4 DEF TypeOK
<1>5. ASSUME VMFails
      PROVE  TypeOK'
  <2>1. /\ session' = session /\ enabled' = enabled /\ data' = data /\ ended' = "vm"
        /\ stage' = "idle" /\ next' = 1 /\ testinfo' = testinfo /\ json' = json
    BY <1>5 DEF VMFails, Aborts, disk
  <2>2. harmed' = TRUE
    BY <1>5 DEF VMFails
  <2> QED
    BY <2>1, <2>2, <1>b DEF TypeOK
<1>6. ASSUME LoadOldVmData
      PROVE  TypeOK'
  <2>1. testinfo' = testinfo /\ json' = json /\ harmed' = harmed
    BY <1>6 DEF LoadOldVmData, disk
  <2>2. CASE \A g \in Graphs : Loadable(g, next)
    <3>1. data' = [g \in Graphs |-> Loaded(g, next)] /\ LoadsOld
      BY <1>6, <2>2 DEF LoadOldVmData, LoadsOld
    <3>2. data' \in [Graphs -> Cells]
      BY <3>1, LoadAdds
    <3>3. next' \in 1 .. VmNum + GraphNum
      BY <1>6, <2>2, <1>d DEF LoadOldVmData
    <3>4. session' = session /\ enabled' = enabled /\ stage' = stage /\ ended' = ended
      BY <1>6, <2>2 DEF LoadOldVmData
    <3> QED
      BY <2>1, <3>2, <3>3, <3>4 DEF TypeOK
  <2>3. CASE ~\A g \in Graphs : Loadable(g, next)
    <3>1. /\ session' = session /\ enabled' = enabled /\ data' = data /\ ended' = "load"
          /\ stage' = "idle" /\ next' = 1
      BY <1>6, <2>3 DEF LoadOldVmData, Aborts
    <3> QED
      BY <2>1, <3>1, <1>b DEF TypeOK
  <2> QED
    BY <2>2, <2>3
<1>7. ASSUME RunEnds
      PROVE  TypeOK'
  <2>1. /\ session' = session /\ enabled' = enabled /\ data' = data /\ ended' = ended
        /\ stage' = "post" /\ next' = 1 /\ testinfo' = testinfo /\ json' = json
    BY <1>7 DEF RunEnds, disk
  <2>2. harmed' = harmed
    BY <1>7 DEF RunEnds
  <2> QED
    BY <2>1, <2>2, <1>b DEF TypeOK
<1>8. ASSUME NEW g \in Graphs, CreateGraph(g)
      PROVE  TypeOK'
  <2>1. json' = [json EXCEPT ![g] = data[g]]
    BY <1>8 DEF CreateGraph, Dumped
  <2>2. json' \in [Graphs -> Cells \cup {NoFile, Torn}]
    BY <2>1 DEF TypeOK
  <2>3. /\ session' = session /\ enabled' = enabled /\ data' = data /\ ended' = ended
        /\ stage' = stage /\ next' = g + 1 /\ testinfo' = testinfo
    BY <1>8 DEF CreateGraph
  <2>4. harmed' = harmed
    BY <1>8 DEF CreateGraph
  <2>5. next' \in 1 .. VmNum + GraphNum
    BY <2>3, <1>c
  <2> QED
    BY <2>2, <2>3, <2>4, <2>5 DEF TypeOK
<1>9. ASSUME NEW g \in Graphs, CreateGraphFails(g)
      PROVE  TypeOK'
  <2>1. json' = json \/ json' = [json EXCEPT ![g] = Torn]
    BY <1>9 DEF CreateGraphFails
  <2>2. json' \in [Graphs -> Cells \cup {NoFile, Torn}]
    BY <2>1 DEF TypeOK
  <2>3. /\ session' = session /\ enabled' = enabled /\ data' = data /\ ended' = ended
        /\ stage' = stage /\ next' = g + 1 /\ testinfo' = testinfo
    BY <1>9 DEF CreateGraphFails
  <2>4. harmed' = TRUE
    BY <1>9 DEF CreateGraphFails
  <2>5. next' \in 1 .. VmNum + GraphNum
    BY <2>3, <1>c
  <2> QED
    BY <2>2, <2>3, <2>4, <2>5 DEF TypeOK
<1>10. ASSUME PostRunEnds
       PROVE  TypeOK'
  <2>1. /\ session' = session /\ enabled' = enabled /\ data' = data /\ ended' = "finished"
        /\ stage' = "idle" /\ next' = 1 /\ testinfo' = testinfo /\ json' = json
    BY <1>10 DEF PostRunEnds, disk
  <2>2. harmed' = harmed
    BY <1>10 DEF PostRunEnds
  <2> QED
    BY <2>1, <2>2, <1>b DEF TypeOK
<1>11. ASSUME Killed
       PROVE  TypeOK'
  <2>1. /\ session' = session /\ enabled' = enabled /\ data' = data /\ ended' = "killed"
        /\ stage' = "idle" /\ next' = 1
    BY <1>11 DEF Killed, Aborts
  <2>2. testinfo' = testinfo
    BY <1>11 DEF Killed, disk
  <2>3. json' = json \/ json' = [json EXCEPT ![next] = Torn]
    BY <1>11 DEF Killed, disk
  <2>4. json' \in [Graphs -> Cells \cup {NoFile, Torn}]
    BY <2>3 DEF TypeOK
  <2>5. harmed' = TRUE
    BY <1>11 DEF Killed
  <2> QED
    BY <2>1, <2>2, <2>4, <2>5, <1>b DEF TypeOK
<1>12. ASSUME UNCHANGED vars
       PROVE  TypeOK'
  BY <1>12 DEF vars, TypeOK
<1> QED
  BY <1>1, <1>2, <1>3, <1>4, <1>5, <1>6, <1>7, <1>8, <1>9, <1>10, <1>11, <1>12 DEF Next

-----------------------------------------------------------------------------
(* What a step makes of the samples: in memory and on disk. *)
Tears == \A g \in Graphs : json'[g] = json[g] \/ json'[g] = Torn

DataStep ==
    \/ data' = [g \in Graphs |-> Empty] /\ json' = json
    \/ \E taken \in Takings : RunVM(taken)
    \/ LoadsOld /\ data' = [g \in Graphs |-> Loaded(g, next)] /\ json' = json
    \/ \E g \in Graphs : json' = [json EXCEPT ![g] = data[g]] /\ data' = data
    \/ data' = data /\ Tears

(* No other step touches them. *)
LEMMA DataSteps ==
    ASSUME TypeOK, [Next]_vars
    PROVE  DataStep
<1>0. json' = json => Tears
  BY DEF Tears
<1>t. ASSUME NEW h \in Graphs, json' = [json EXCEPT ![h] = Torn]
      PROVE  Tears
  BY <1>t DEF Tears, TypeOK
<1>1. ASSUME NEW E \in SUBSET VMs, Start(E)
      PROVE  DataStep
  BY <1>1 DEF Start, DataStep, disk
<1>2. ASSUME CreateTestinfo
      PROVE  DataStep
  BY <1>0, <1>2 DEF CreateTestinfo, DataStep, Aborts
<1>3. ASSUME TestinfoTorn
      PROVE  DataStep
  BY <1>0, <1>3 DEF TestinfoTorn, DataStep, Aborts
<1>4. ASSUME VMFails
      PROVE  DataStep
  BY <1>0, <1>4 DEF VMFails, DataStep, Aborts, disk
<1>5. ASSUME LoadOldVmData
      PROVE  DataStep
  <2>1. json' = json
    BY <1>5 DEF LoadOldVmData, disk
  <2>2. CASE \A g \in Graphs : Loadable(g, next)
    BY <1>5, <2>1, <2>2 DEF LoadOldVmData, DataStep, LoadsOld
  <2>3. CASE ~\A g \in Graphs : Loadable(g, next)
    BY <1>0, <1>5, <2>1, <2>3 DEF LoadOldVmData, DataStep, Aborts
  <2> QED
    BY <2>2, <2>3
<1>6. ASSUME RunEnds
      PROVE  DataStep
  BY <1>0, <1>6 DEF RunEnds, DataStep, disk
<1>7. ASSUME NEW g \in Graphs, CreateGraph(g)
      PROVE  DataStep
  BY <1>7 DEF CreateGraph, DataStep, Dumped
<1>8. ASSUME NEW g \in Graphs, CreateGraphFails(g)
      PROVE  DataStep
  BY <1>0, <1>t, <1>8 DEF CreateGraphFails, DataStep
<1>9. ASSUME PostRunEnds
      PROVE  DataStep
  BY <1>0, <1>9 DEF PostRunEnds, DataStep, disk
<1>10. ASSUME Killed
       PROVE  DataStep
  <2>1. data' = data
    BY <1>10 DEF Killed, Aborts
  <2>2. json' = json \/ (next \in Graphs /\ json' = [json EXCEPT ![next] = Torn])
    BY <1>10 DEF Killed, disk
  <2>3. Tears
    BY <1>0, <1>t, <2>2
  <2> QED
    BY <2>1, <2>3 DEF DataStep
<1>11. ASSUME UNCHANGED vars
       PROVE  DataStep
  BY <1>0, <1>11 DEF vars, DataStep
<1>12. ASSUME NEW taken \in Takings, RunVM(taken)
       PROVE  DataStep
  BY <1>12 DEF DataStep
<1> QED
  BY <1>1, <1>2, <1>3, <1>4, <1>5, <1>6, <1>7, <1>8, <1>9, <1>10, <1>11, <1>12 DEF Next

(* Samples are added to empty cells only, and written as they are. *)
LEMMA CellsCleanStep ==
    ASSUME TypeOK, Numbered, Fresh, CellsClean, [Next]_vars
    PROVE  CellsClean'
<1>1. SUFFICES ASSUME NEW g \in Graphs, NEW x \in Xs, NEW v \in VMs
               PROVE  /\ OneSession(data'[g][x][v])
                      /\ Intact(json'[g]) => OneSession(json'[g][x][v])
  BY DEF CellsClean, OneSession, Intact
<1>2. OneSession(data[g][x][v]) /\ (Intact(json[g]) => OneSession(json[g][x][v]))
  BY DEF CellsClean
<1>3. CASE data' = [h \in Graphs |-> Empty] /\ json' = json
  <2>1. data'[g][x][v] = <<>>
    BY <1>3, EmptyCells
  <2> QED
    BY <1>2, <1>3, <2>1, NothingIsClean
<1>4. ASSUME NEW taken \in Takings, RunVM(taken)
      PROVE  OneSession(data'[g][x][v]) /\ json' = json
  <2>1. /\ taken[g][x] \in 0 .. Retries
        /\ data'[g][x][v] = IF v = next THEN Samples(session, taken[g][x]) ELSE data[g][x][v]
    BY <1>4, RunAdds
  <2>2. session \in 0 .. MaxSessions
    BY DEF TypeOK
  <2>3. OneSession(Samples(session, taken[g][x]))
    BY <2>1, <2>2, SamplesAreClean
  <2>4. json' = json
    BY <1>4 DEF RunVM, disk
  <2> QED
    BY <1>2, <2>1, <2>3, <2>4
<1>5. CASE LoadsOld /\ data' = [h \in Graphs |-> Loaded(h, next)] /\ json' = json
  <2>1. data'[g][x][v] = IF v = next THEN LoadedFrom(g, next, x) ELSE data[g][x][v]
    BY <1>5, LoadAdds
  <2>2. next \in VMs /\ Loadable(g, next)
    BY <1>5 DEF LoadsOld
  <2>3. /\ Intact(json[g]) => LoadedFrom(g, next, x) = json[g][x][next]
        /\ ~Intact(json[g]) => LoadedFrom(g, next, x) \in {<<>>, <<Zero>>}
    BY <2>2, LoadedCells
  <2>4. Intact(json[g]) => OneSession(json[g][x][next])
    BY <2>2 DEF CellsClean
  <2>5. OneSession(LoadedFrom(g, next, x))
    BY <2>3, <2>4, NothingIsClean
  <2> QED
    BY <1>2, <1>5, <2>1, <2>5
<1>6. ASSUME NEW h \in Graphs, json' = [json EXCEPT ![h] = data[h]] /\ data' = data
      PROVE  OneSession(data'[g][x][v]) /\ (Intact(json'[g]) => OneSession(json'[g][x][v]))
  <2>1. json'[g] = IF g = h THEN data[g] ELSE json[g]
    BY <1>6 DEF TypeOK
  <2> QED
    BY <1>2, <1>6, <2>1
<1>7. CASE data' = data /\ Tears
  <2>1. json'[g] = json[g] \/ ~Intact(json'[g])
    BY <1>7 DEF Tears, Intact
  <2> QED
    BY <1>2, <1>7, <2>1
<1>8. DataStep
  BY DataSteps
<1> QED
  BY <1>2, <1>3, <1>4, <1>5, <1>6, <1>7, <1>8 DEF DataStep

(* A session has a number as soon as it begins. *)
LEMMA NumberedStep ==
    ASSUME TypeOK, Numbered, [Next]_vars
    PROVE  Numbered'
<1>1. session \in Nat
  BY Counters
<1>2. ASSUME NEW E \in SUBSET VMs, Start(E)
      PROVE  Numbered'
  BY <1>1, <1>2 DEF Start, Numbered
<1>3. ASSUME session' = session, stage' # "idle" => stage # "idle"
      PROVE  Numbered'
  BY <1>3 DEF Numbered
<1>4. ASSUME NEW taken \in Takings, RunVM(taken)
      PROVE  Numbered'
  BY <1>3, <1>4 DEF RunVM
<1>5. ASSUME NEW g \in Graphs, CreateGraph(g) \/ CreateGraphFails(g)
      PROVE  Numbered'
  BY <1>3, <1>5 DEF CreateGraph, CreateGraphFails
<1>6. CASE CreateTestinfo \/ TestinfoTorn
  BY <1>3, <1>6 DEF CreateTestinfo, TestinfoTorn, Aborts
<1>7. CASE VMFails \/ LoadOldVmData \/ RunEnds
  BY <1>3, <1>7 DEF VMFails, LoadOldVmData, RunEnds, Aborts
<1>8. CASE PostRunEnds \/ Killed
  BY <1>3, <1>8 DEF PostRunEnds, Killed, Aborts
<1>9. CASE UNCHANGED vars
  BY <1>3, <1>9 DEF vars
<1> QED
  BY <1>2, <1>4, <1>5, <1>6, <1>7, <1>8, <1>9 DEF Next

(* A VM gets samples at its turn and not before. *)
LEMMA FreshStep ==
    ASSUME TypeOK, Numbered, Fresh, [Next]_vars
    PROVE  Fresh'
<1> SUFFICES ASSUME NEW g \in Graphs, NEW x \in Xs, NEW v \in VMs,
                    stage' = "pre" \/ (stage' = "run" /\ next' <= v)
             PROVE  data'[g][x][v] = <<>>
  BY DEF Fresh
<1>0. stage = "pre" \/ (stage = "run" /\ next <= v) => data[g][x][v] = <<>>
  BY DEF Fresh
<1>a. next \in Nat /\ v \in Nat /\ v >= 1
  BY Sizes, Counters DEF VMs
<1>1. ASSUME NEW E \in SUBSET VMs, Start(E)
      PROVE  data'[g][x][v] = <<>>
  <2>1. data'[g] = Empty
    BY <1>1 DEF Start
  <2> QED
    BY <2>1, EmptyCells
<1>2. CASE CreateTestinfo \/ TestinfoTorn
  BY <1>0, <1>2 DEF CreateTestinfo, TestinfoTorn, Aborts
<1>3. ASSUME NEW taken \in Takings, RunVM(taken)
      PROVE  data'[g][x][v] = <<>>
  <2>1. next' = next + 1 /\ stage' = "run" /\ stage = "run"
    BY <1>3 DEF RunVM
  <2>2. next <= v /\ v # next
    BY <2>1, <1>a
  <2>3. data'[g][x][v] = data[g][x][v]
    BY <1>3, <2>2, RunAdds
  <2> QED
    BY <1>0, <2>1, <2>2, <2>3
<1>4. CASE VMFails
  BY <1>4 DEF VMFails, Aborts
<1>5. CASE LoadOldVmData
  <2>1. CASE \A h \in Graphs : Loadable(h, next)
    <3>1. next' = next + 1 /\ stage' = "run" /\ stage = "run"
      BY <1>5, <2>1 DEF LoadOldVmData
    <3>2. next <= v /\ v # next
      BY <3>1, <1>a
    <3>3. LoadsOld /\ data' = [h \in Graphs |-> Loaded(h, next)]
      BY <1>5, <2>1 DEF LoadOldVmData, LoadsOld
    <3>4. data'[g][x][v] = data[g][x][v]
      BY <3>2, <3>3, LoadAdds
    <3> QED
      BY <1>0, <3>1, <3>2, <3>4
  <2>2. CASE ~\A h \in Graphs : Loadable(h, next)
    BY <1>5, <2>2 DEF LoadOldVmData, Aborts
  <2> QED
    BY <2>1, <2>2
<1>6. CASE RunEnds
  BY <1>6 DEF RunEnds
<1>7. ASSUME NEW h \in Graphs, CreateGraph(h) \/ CreateGraphFails(h)
      PROVE  data'[g][x][v] = <<>>
  BY <1>7 DEF CreateGraph, CreateGraphFails
<1>8. CASE PostRunEnds \/ Killed
  BY <1>8 DEF PostRunEnds, Killed, Aborts
<1>9. CASE UNCHANGED vars
  BY <1>0, <1>9 DEF vars
<1> QED
  BY <1>1, <1>2, <1>3, <1>4, <1>5, <1>6, <1>7, <1>8, <1>9 DEF Next

(* What was loaded from a file stays the same until that file is written. *)
LEMMA KeptStep ==
    ASSUME TypeOK, Numbered, Fresh, Kept, [Next]_vars
    PROVE  Kept'
<1> SUFFICES ASSUME NEW g \in Graphs, NEW x \in Xs, NEW v \in VMs \ enabled',
                    Intact(json'[g]),
                    \/ stage' = "run" /\ v < next'
                    \/ stage' = "post" /\ next' <= g
             PROVE  data'[g][x][v] = json'[g][x][v]
  BY DEF Kept, Intact
<1>0. ASSUME v \notin enabled, Intact(json[g]),
             \/ stage = "run" /\ v < next
             \/ stage = "post" /\ next <= g
      PROVE  data[g][x][v] = json[g][x][v]
  BY <1>0 DEF Kept
<1>a. next \in Nat /\ v \in Nat /\ v >= 1 /\ v <= VmNum /\ g \in Nat /\ VmNum \in Nat
  BY Sizes, Counters DEF VMs, Graphs
<1>1. ASSUME NEW E \in SUBSET VMs, Start(E)
      PROVE  data'[g][x][v] = json'[g][x][v]
  BY <1>1 DEF Start
<1>2. CASE CreateTestinfo \/ TestinfoTorn
  BY <1>2, <1>a DEF CreateTestinfo, TestinfoTorn, Aborts
<1>3. ASSUME NEW taken \in Takings, RunVM(taken)
      PROVE  data'[g][x][v] = json'[g][x][v]
  <2>1. /\ next' = next + 1 /\ stage' = "run" /\ stage = "run"
        /\ next \in enabled /\ enabled' = enabled /\ json' = json
    BY <1>3 DEF RunVM, disk
  <2>2. v # next
    BY <2>1
  <2>3. v < next
    BY <2>1, <2>2, <1>a
  <2>4. data'[g][x][v] = data[g][x][v]
    BY <1>3, <2>2, RunAdds
  <2> QED
    BY <1>0, <2>1, <2>3, <2>4
<1>4. CASE VMFails
  BY <1>4 DEF VMFails, Aborts
<1>5. CASE LoadOldVmData
  <2>1. CASE \A h \in Graphs : Loadable(h, next)
    <3>1. /\ next' = next + 1 /\ stage' = "run" /\ stage = "run"
          /\ enabled' = enabled /\ json' = json
      BY <1>5, <2>1 DEF LoadOldVmData, disk
    <3>2. LoadsOld /\ data' = [h \in Graphs |-> Loaded(h, next)]
      BY <1>5, <2>1 DEF LoadOldVmData, LoadsOld
    <3>3. data'[g][x][v] = IF v = next THEN LoadedFrom(g, next, x) ELSE data[g][x][v]
      BY <3>2, LoadAdds
    <3>4. CASE v = next
      <4>1. LoadedFrom(g, v, x) = json[g][x][v]
        BY <2>1, <3>1, <3>4, LoadedCells
      <4> QED
        BY <3>1, <3>3, <3>4, <4>1
    <3>5. CASE v # next
      <4>1. v < next
        BY <3>1, <3>5, <1>a
      <4> QED
        BY <1>0, <3>1, <3>3, <3>5, <4>1
    <3> QED
      BY <3>4, <3>5
  <2>2. CASE ~\A h \in Graphs : Loadable(h, next)
    BY <1>5, <2>2 DEF LoadOldVmData, Aborts
  <2> QED
    BY <2>1, <2>2
<1>6. CASE RunEnds
  <2>1. /\ stage = "run" /\ next > VmNum /\ enabled' = enabled
        /\ data' = data /\ json' = json
    BY <1>6 DEF RunEnds, disk
  <2>2. v < next
    BY <2>1, <1>a
  <2> QED
    BY <1>0, <2>1, <2>2
<1>7. ASSUME NEW h \in Graphs, CreateGraph(h) \/ CreateGraphFails(h)
      PROVE  data'[g][x][v] = json'[g][x][v]
  <2>1. /\ stage = "post" /\ stage' = "post" /\ next = h /\ next' = h + 1
        /\ enabled' = enabled /\ data' = data
        /\ \/ json' = [json EXCEPT ![h] = data[h]]
           \/ json' = json
           \/ json' = [json EXCEPT ![h] = Torn]
    BY <1>7 DEF CreateGraph, CreateGraphFails, Dumped
  <2>2. next <= g /\ g # h
    BY <2>1, <1>a
  <2>3. json'[g] = json[g]
    BY <2>1, <2>2 DEF TypeOK
  <2> QED
    BY <1>0, <2>1, <2>2, <2>3
<1>8. CASE PostRunEnds \/ Killed
  BY <1>8 DEF PostRunEnds, Killed, Aborts
<1>9. CASE UNCHANGED vars
  BY <1>0, <1>9 DEF vars
<1> QED
  BY <1>1, <1>2, <1>3, <1>4, <1>5, <1>6, <1>7, <1>8, <1>9 DEF Next

-----------------------------------------------------------------------------
(* Between two sessions, and until the new info is written. *)
LEMMA UnharmedBetween ==
    ASSUME TypeOK, Numbered, Unharmed, ~harmed'
    PROVE  /\ \A E \in SUBSET VMs : Start(E) => Unharmed'
           /\ CreateTestinfo \/ TestinfoTorn => Unharmed'
           /\ UNCHANGED vars => Unharmed'
<1>m. ASSUME NEW g \in Graphs, NEW v \in VMs,
             json' = json, testinfo'[v] = testinfo[v], Match(g, v)
      PROVE  Match(g, v)'
  BY <1>m DEF Match, Intact, SamplesOf
<1>1. ASSUME NEW E \in SUBSET VMs, Start(E)
      PROVE  Unharmed'
  <2>1. /\ stage = "idle" /\ stage' = "pre" /\ testinfo' = testinfo /\ json' = json
        /\ ended' = ended /\ harmed' = harmed
    BY <1>1 DEF Start, disk
  <2>2. InfoKnown /\ Between
    BY <2>1 DEF Unharmed
  <2>3. InfoKnown'
    BY <2>1, <2>2 DEF InfoKnown, NoFile, Torn
  <2>4. Between'
    BY <1>m, <2>1, <2>2 DEF Between, NoFile
  <2>5. Running' /\ Writing'
    BY <2>1 DEF Running, Writing
  <2> QED
    BY <2>3, <2>4, <2>5 DEF Unharmed
<1>2. ASSUME CreateTestinfo
      PROVE  Unharmed'
  <2>1. stage = "pre" /\ json' = json /\ harmed' = harmed
    BY <1>2 DEF CreateTestinfo
  <2>2. InfoKnown /\ Between
    BY <2>1 DEF Unharmed
  <2>3. CASE testinfo # Torn /\ \A v \in VMs \ enabled : HasOldInfo(v)
    <3>1. /\ testinfo' = [v \in VMs |-> Info(v)] /\ stage' = "run" /\ next' = 1
          /\ session' = session /\ enabled' = enabled /\ ended' = ended
      BY <1>2, <2>3 DEF CreateTestinfo
    <3>2. testinfo' \in [VMs -> {Info(v) : v \in VMs}]
      BY <3>1
    <3>3. testinfo' # NoFile /\ testinfo' # Torn
      BY <3>2, InfoIntact DEF Intact
    <3>4. InfoKnown'
      BY <2>2, <3>1, <3>3 DEF InfoKnown, NoFile, Torn
    <3>5. Between' /\ Writing'
      BY <3>1 DEF Between, Writing
    <3>6. ASSUME NEW g \in Graphs, NEW v \in VMs
          PROVE  /\ v \in enabled' => testinfo'[v] = session'
                 /\ v \notin enabled' => Match(g, v)'
                 /\ ~(v < next')
      <4>1. v \in enabled => testinfo'[v] = session
        BY <3>1 DEF Info
      <4>2. ASSUME v \notin enabled
            PROVE  Match(g, v)'
        <5>1. testinfo # NoFile
          BY <2>3, <4>2 DEF HasOldInfo
        <5>2. Match(g, v)
          BY <2>1, <2>2, <5>1 DEF Between
        <5>3. testinfo'[v] = testinfo[v]
          BY <3>1, <4>2 DEF Info
        <5> QED
          BY <1>m, <2>1, <5>2, <5>3
      <4>3. ~(v < next')
        BY <3>1, Sizes DEF VMs
      <4> QED
        BY <3>1, <4>1, <4>2, <4>3
    <3>7. Running'
      BY <3>6 DEF Running
    <3> QED
      BY <3>4, <3>5, <3>7 DEF Unharmed
  <2>4. CASE ~(testinfo # Torn /\ \A v \in VMs \ enabled : HasOldInfo(v))
    <3>1. stage' = "idle" /\ ended' = "testinfo" /\ testinfo' = testinfo
      BY <1>2, <2>4 DEF CreateTestinfo, Aborts
    <3>2. InfoKnown'
      BY <2>2, <3>1 DEF InfoKnown, NoFile, Torn
    <3>3. Between'
      BY <1>m, <2>1, <2>2, <3>1 DEF Between, NoFile
    <3>4. Running' /\ Writing'
      BY <3>1 DEF Running, Writing
    <3> QED
      BY <3>2, <3>3, <3>4 DEF Unharmed
  <2> QED
    BY <2>3, <2>4
<1>3. ASSUME TestinfoTorn
      PROVE  Unharmed'
  <2>1. harmed' = TRUE
    BY <1>3 DEF TestinfoTorn
  <2> QED
    BY <2>1
<1>4. ASSUME UNCHANGED vars
      PROVE  Unharmed'
  <2>1. /\ session' = session /\ enabled' = enabled /\ stage' = stage /\ next' = next
        /\ data' = data /\ testinfo' = testinfo /\ json' = json /\ ended' = ended
        /\ harmed' = harmed
    BY <1>4 DEF vars
  <2>2. InfoKnown /\ Between /\ Running /\ Writing
    BY <2>1 DEF Unharmed
  <2>3. InfoKnown'
    BY <2>1, <2>2 DEF InfoKnown, NoFile, Torn
  <2>4. Between'
    BY <1>m, <2>1, <2>2 DEF Between, NoFile
  <2>5. Running'
    BY <1>m, <2>1, <2>2 DEF Running, SamplesOf
  <2>6. Writing'
    BY <2>1, <2>2 DEF Writing, SamplesOf
  <2> QED
    BY <2>3, <2>4, <2>5, <2>6 DEF Unharmed
<1> QED
  BY <1>1, <1>2, <1>3, <1>4

(* While the VMs are run or their old results loaded. *)
LEMMA UnharmedRun ==
    ASSUME TypeOK, Numbered, Fresh, Unharmed, ~harmed', stage = "run"
    PROVE  /\ \A taken \in Takings : RunVM(taken) => Unharmed'
           /\ VMFails \/ LoadOldVmData \/ RunEnds => Unharmed'
<1>m. ASSUME NEW g \in Graphs, NEW v \in VMs, json' = json, testinfo' = testinfo, Match(g, v)
      PROVE  Match(g, v)'
  BY <1>m DEF Match, Intact, SamplesOf
<1>a. next \in Nat /\ VmNum \in Nat /\ \A v \in VMs : v \in Nat /\ v <= VmNum /\ v >= 1
  BY Sizes, Counters DEF VMs
<1>r. ASSUME ~harmed, stage' = "run", next' = next + 1, session' = session,
             enabled' = enabled, json' = json, testinfo' = testinfo, ended' = ended,
             \A g \in Graphs, x \in Xs, v \in VMs : v # next => data'[g][x][v] = data[g][x][v],
             next \in VMs,
             \A g \in Graphs, x \in Xs : SamplesOf(data'[g][x][next]) = {testinfo[next]}
      PROVE  Unharmed'
  <2>1. InfoKnown /\ Running
    BY <1>r DEF Unharmed
  <2>2. InfoKnown'
    BY <1>r, <2>1 DEF InfoKnown, NoFile, Torn
  <2>3. Between' /\ Writing'
    BY <1>r DEF Between, Writing
  <2>4. ASSUME NEW g \in Graphs, NEW v \in VMs, v < next', NEW x \in Xs
        PROVE  SamplesOf(data'[g][x][v]) = {testinfo'[v]}
    <3>1. CASE v = next
      BY <1>r, <3>1
    <3>2. CASE v # next
      <4>1. v < next
        BY <1>r, <1>a, <2>4, <3>2
      <4>2. SamplesOf(data[g][x][v]) = {testinfo[v]}
        BY <2>1, <4>1 DEF Running
      <4>3. data'[g][x][v] = data[g][x][v]
        BY <1>r, <3>2
      <4> QED
        BY <1>r, <4>2, <4>3
    <3> QED
      BY <3>1, <3>2
  <2>5. ASSUME NEW g \in Graphs, NEW v \in VMs
        PROVE  /\ v \in enabled' => testinfo'[v] = session'
               /\ v \notin enabled' => Match(g, v)'
    BY <1>r, <1>m, <2>1 DEF Running
  <2>6. Running'
    BY <2>4, <2>5 DEF Running, SamplesOf
  <2> QED
    BY <2>2, <2>3, <2>6 DEF Unharmed
<1>1. ASSUME NEW taken \in Takings, RunVM(taken)
      PROVE  Unharmed'
  <2>1. harmed' = (harmed \/ \E g \in Graphs, x \in Xs : taken[g][x] < Retries)
    BY <1>1 DEF RunVM
  <2>2. ~harmed /\ \A g \in Graphs, x \in Xs : taken[g][x] = Retries
    <3>1. ~harmed /\ \A g \in Graphs, x \in Xs : ~(taken[g][x] < Retries)
      BY <2>1
    <3>2. \A g \in Graphs, x \in Xs : taken[g][x] \in 0 .. Retries
      BY ResultsAssumption DEF Graphs, Xs
    <3> QED
      BY <3>1, <3>2, Sizes
  <2>3. /\ stage' = "run" /\ next' = next + 1 /\ session' = session /\ enabled' = enabled
        /\ json' = json /\ testinfo' = testinfo /\ ended' = ended /\ next \in enabled
    BY <1>1 DEF RunVM, disk
  <2>4. next \in VMs /\ session \in 0 .. MaxSessions
    BY <2>3 DEF TypeOK
  <2>5. Running
    BY <2>2 DEF Unharmed
  <2>6. ASSUME NEW g \in Graphs, NEW x \in Xs
        PROVE  SamplesOf(data'[g][x][next]) = {testinfo[next]}
    <3>1. data'[g][x][next] = Samples(session, Retries)
      BY <1>1, <2>2, <2>4, RunAdds
    <3>2. SamplesOf(Samples(session, Retries)) = {session}
      <4>1. Retries \in 0 .. Retries
        BY Sizes
      <4> QED
        BY <2>4, <4>1, SamplesAreClean
    <3>3. testinfo[next] = session
      BY <2>3, <2>4, <2>5 DEF Running
    <3> QED
      BY <3>1, <3>2, <3>3
  <2>7. \A g \in Graphs, x \in Xs, v \in VMs : v # next => data'[g][x][v] = data[g][x][v]
    BY <1>1, RunAdds
  <2> QED
    BY <1>r, <2>2, <2>3, <2>4, <2>6, <2>7
<1>2. ASSUME VMFails
      PROVE  Unharmed'
  <2>1. harmed' = TRUE
    BY <1>2 DEF VMFails
  <2> QED
    BY <2>1
<1>3. ASSUME LoadOldVmData
      PROVE  Unharmed'
  <2>1. /\ json' = json /\ testinfo' = testinfo /\ harmed' = harmed
        /\ next \in VMs /\ next \notin enabled
    BY <1>3 DEF LoadOldVmData, disk
  <2>2. ~harmed
    BY <2>1
  <2>3. \A g \in Graphs : Match(g, next)
    BY <2>1, <2>2 DEF Unharmed, Running
  <2>4. ASSUME NEW g \in Graphs
        PROVE  Loadable(g, next)
    <3>1. json[g] # Torn
      BY <2>3 DEF Match, Intact
    <3>2. ASSUME NEW x \in Xs
          PROVE  json[g][x][next] # <<>>
      <4>1. SamplesOf(json[g][x][next]) = {testinfo[next]}
        BY <2>3 DEF Match
      <4> QED
        BY <4>1, SampledCell
    <3> QED
      BY <3>1, <3>2 DEF Loadable
  <2>5. LoadsOld
    BY <1>3, <2>4 DEF LoadsOld, LoadOldVmData
  <2>6. /\ data' = [g \in Graphs |-> Loaded(g, next)] /\ stage' = "run" /\ next' = next + 1
        /\ session' = session /\ enabled' = enabled /\ ended' = ended
    BY <1>3, <2>4 DEF LoadOldVmData
  <2>7. ASSUME NEW g \in Graphs, NEW x \in Xs
        PROVE  SamplesOf(data'[g][x][next]) = {testinfo[next]}
    <3>1. data'[g][x][next] = LoadedFrom(g, next, x)
      BY <2>1, <2>5, <2>6, LoadAdds
    <3>2. LoadedFrom(g, next, x) = json[g][x][next]
      <4>1. Intact(json[g])
        BY <2>3 DEF Match
      <4> QED
        BY <2>1, <2>4, <4>1, LoadedCells
    <3> QED
      BY <2>3, <3>1, <3>2 DEF Match
  <2>8. \A g \in Graphs, x \in Xs, v \in VMs : v # next => data'[g][x][v] = data[g][x][v]
    BY <2>5, <2>6, LoadAdds
  <2> QED
    BY <1>r, <2>1, <2>2, <2>6, <2>7, <2>8
<1>4. ASSUME RunEnds
      PROVE  Unharmed'
  <2>1. /\ next > VmNum /\ stage' = "post" /\ next' = 1 /\ data' = data /\ harmed' = harmed
        /\ json' = json /\ testinfo' = testinfo /\ ended' = ended
    BY <1>4 DEF RunEnds, disk
  <2>2. InfoKnown /\ Running
    BY <2>1 DEF Unharmed
  <2>3. InfoKnown'
    BY <2>1, <2>2 DEF InfoKnown, NoFile, Torn
  <2>4. Between' /\ Running'
    BY <2>1 DEF Between, Running
  <2>5. ASSUME NEW g \in Graphs, NEW x \in Xs, NEW v \in VMs
        PROVE  SamplesOf(data'[g][x][v]) = {testinfo'[v]}
    <3>1. v < next
      BY <1>a, <2>1
    <3> QED
      BY <2>1, <2>2, <3>1 DEF Running
  <2>6. \A g \in Graphs : ~(g < next')
    BY <2>1, Sizes DEF Graphs
  <2>7. Writing'
    BY <2>5, <2>6 DEF Writing, SamplesOf
  <2> QED
    BY <2>3, <2>4, <2>7 DEF Unharmed
<1> QED
  BY <1>1, <1>2, <1>3, <1>4

(* While the files are written, and after. *)
LEMMA UnharmedPost ==
    ASSUME TypeOK, Numbered, Unharmed, ~harmed'
    PROVE  /\ \A h \in Graphs : CreateGraph(h) \/ CreateGraphFails(h) => Unharmed'
           /\ PostRunEnds \/ Killed => Unharmed'
<1>1. ASSUME NEW h \in Graphs, CreateGraph(h)
      PROVE  Unharmed'
  <2>1. /\ stage = "post" /\ stage' = "post" /\ next = h /\ next' = h + 1 /\ data' = data
        /\ harmed' = harmed /\ json' = [json EXCEPT ![h] = data[h]]
        /\ testinfo' = testinfo /\ ended' = ended
    BY <1>1 DEF CreateGraph, Dumped
  <2>2. InfoKnown /\ Writing
    BY <2>1 DEF Unharmed
  <2>3. InfoKnown'
    BY <2>1, <2>2 DEF InfoKnown, NoFile, Torn
  <2>4. Between' /\ Running'
    BY <2>1 DEF Between, Running
  <2>5. \A g \in Graphs, x \in Xs, v \in VMs : SamplesOf(data'[g][x][v]) = {testinfo'[v]}
    BY <2>1, <2>2 DEF Writing
  <2>6. ASSUME NEW g \in Graphs, g < next'
        PROVE  json'[g] = data'[g]
    <3>1. g = h \/ g < next
      BY <2>1, <2>6, Sizes DEF Graphs
    <3>2. json'[g] = IF g = h THEN data[g] ELSE json[g]
      BY <2>1 DEF TypeOK
    <3>3. g < next => json[g] = data[g]
      BY <2>1, <2>2 DEF Writing
    <3> QED
      BY <2>1, <3>1, <3>2, <3>3
  <2>7. Writing'
    BY <2>5, <2>6 DEF Writing, SamplesOf
  <2> QED
    BY <2>3, <2>4, <2>7 DEF Unharmed
<1>2. ASSUME NEW h \in Graphs, CreateGraphFails(h)
      PROVE  Unharmed'
  <2>1. harmed' = TRUE
    BY <1>2 DEF CreateGraphFails
  <2> QED
    BY <2>1
<1>3. ASSUME PostRunEnds
      PROVE  Unharmed'
  <2>1. /\ stage = "post" /\ next > GraphNum /\ stage' = "idle" /\ ended' = "finished"
        /\ harmed' = harmed /\ json' = json /\ testinfo' = testinfo
    BY <1>3 DEF PostRunEnds, disk
  <2>2. InfoKnown /\ Writing
    BY <2>1 DEF Unharmed
  <2>3. InfoKnown'
    BY <2>1, <2>2 DEF InfoKnown, NoFile, Torn
  <2>4. ASSUME NEW g \in Graphs, NEW v \in VMs
        PROVE  Match(g, v)'
    <3>1. g < next
      BY <2>1, Counters, Sizes DEF Graphs
    <3>2. json[g] = data[g]
      BY <2>1, <2>2, <3>1 DEF Writing
    <3>3. data[g] \in Cells
      BY DEF TypeOK
    <3>4. Intact(json[g])
      BY <3>2, <3>3, CellsIntact
    <3>5. \A x \in Xs : SamplesOf(json[g][x][v]) = {testinfo[v]}
      BY <2>1, <2>2, <3>2 DEF Writing
    <3> QED
      BY <2>1, <3>4, <3>5 DEF Match, Intact, SamplesOf
  <2>5. Between'
    BY <2>4 DEF Between
  <2>6. Running' /\ Writing'
    BY <2>1 DEF Running, Writing
  <2> QED
    BY <2>3, <2>5, <2>6 DEF Unharmed
<1>4. ASSUME Killed
      PROVE  Unharmed'
  <2>1. harmed' = TRUE
    BY <1>4 DEF Killed
  <2> QED
    BY <2>1
<1> QED
  BY <1>1, <1>2, <1>3, <1>4

(* While nothing fails, no step parts the info from the results. *)
LEMMA UnharmedStep ==
    ASSUME TypeOK, Numbered, Fresh, Unharmed, [Next]_vars
    PROVE  Unharmed'
<1>1. CASE harmed'
  BY <1>1 DEF Unharmed
<1>2. CASE ~harmed'
  <2>1. ASSUME NEW taken \in Takings, RunVM(taken)
        PROVE  Unharmed'
    <3>1. stage = "run"
      BY <2>1 DEF RunVM
    <3> QED
      BY <1>2, <2>1, <3>1, UnharmedRun
  <2>2. ASSUME VMFails \/ LoadOldVmData \/ RunEnds
        PROVE  Unharmed'
    <3>1. stage = "run"
      BY <2>2 DEF VMFails, LoadOldVmData, RunEnds
    <3> QED
      BY <1>2, <2>2, <3>1, UnharmedRun
  <2>3. ASSUME NEW E \in SUBSET VMs, Start(E)
        PROVE  Unharmed'
    BY <1>2, <2>3, UnharmedBetween
  <2>4. ASSUME CreateTestinfo \/ TestinfoTorn \/ UNCHANGED vars
        PROVE  Unharmed'
    BY <1>2, <2>4, UnharmedBetween
  <2>5. ASSUME NEW h \in Graphs, CreateGraph(h) \/ CreateGraphFails(h)
        PROVE  Unharmed'
    BY <1>2, <2>5, UnharmedPost
  <2>6. ASSUME PostRunEnds \/ Killed
        PROVE  Unharmed'
    BY <1>2, <2>6, UnharmedPost
  <2> QED
    BY <2>1, <2>2, <2>3, <2>4, <2>5, <2>6 DEF Next
<1> QED
  BY <1>1, <1>2

-----------------------------------------------------------------------------
(* A directory without files is no contradiction. *)
LEMMA InitIInv ==
    ASSUME Init
    PROVE  IInv
<1>1. TypeOK
  <2>1. session \in 0 .. MaxSessions /\ next \in 1 .. VmNum + GraphNum /\ enabled \subseteq VMs
    <3>1. 0 \in 0 .. MaxSessions /\ 1 \in 1 .. VmNum + GraphNum
      BY Sizes
    <3> QED
      BY <3>1 DEF Init
  <2>2. data \in [Graphs -> Cells] /\ json \in [Graphs -> Cells \cup {NoFile, Torn}]
    BY EmptyCells DEF Init
  <2>3. testinfo \in {NoFile, Torn} /\ stage = "idle" /\ ended = "not yet" /\ harmed = FALSE
    BY DEF Init
  <2> QED
    BY <2>1, <2>2, <2>3 DEF TypeOK
<1>2. Numbered /\ Fresh /\ Kept
  BY DEF Init, Numbered, Fresh, Kept
<1>3. CellsClean
  <2>1. ASSUME NEW g \in Graphs, NEW x \in Xs, NEW v \in VMs
        PROVE  data[g][x][v] = <<>> /\ ~Intact(json[g])
    BY EmptyCells DEF Init, Intact
  <2> QED
    BY <2>1, NothingIsClean DEF CellsClean
<1>4. Unharmed
  <2>1. NoFile # Torn
    <3>1. DOMAIN Torn = {0} /\ DOMAIN NoFile = {}
      BY DEF NoFile, Torn
    <3> QED
      BY <3>1
  <2> QED
    BY <2>1 DEF Init, Unharmed, InfoKnown, Between, Running, Writing
<1> QED
  BY <1>1, <1>2, <1>3, <1>4 DEF IInv

(* The invariant of the sessions in one directory is inductive. *)
THEOREM Invariance == Spec => []IInv
<1>1. Init => IInv
  BY InitIInv
<1>2. IInv /\ [Next]_vars => IInv'
  <2> SUFFICES ASSUME IInv, [Next]_vars
               PROVE  IInv'
    OBVIOUS
  <2>1. TypeOK /\ Numbered /\ CellsClean /\ Fresh /\ Kept /\ Unharmed
    BY DEF IInv
  <2>2. TypeOK' /\ Numbered' /\ Fresh'
    BY <2>1, TypeStep, NumberedStep, FreshStep
  <2>3. CellsClean' /\ Kept' /\ Unharmed'
    BY <2>1, CellsCleanStep, KeptStep, UnharmedStep
  <2> QED
    BY <2>2, <2>3 DEF IInv
<1> QED
  BY <1>1, <1>2, PTL DEF Spec

(* Type correctness: samples, files and counters are what the code handles. *)
THEOREM TypeCorrect == Spec => []TypeOK
<1>1. IInv => TypeOK
  BY DEF IInv
<1> QED
  BY <1>1, Invariance, PTL

(***************************************************************************)
(* A cell never mixes samples of two sessions: load_old_results and run_vm *)
(* add to a cell that is still empty, whatever was torn or killed before.  *)
(***************************************************************************)
THEOREM CellsOfOneSession == Spec => []OneSessionPerTest
<1>1. IInv => OneSessionPerTest
  <2> SUFFICES ASSUME IInv, NEW g \in Graphs, NEW x \in Xs, NEW v \in VMs,
                      NEW f \in {data[g], json[g]}, Intact(f)
               PROVE  Len(f[x][v]) <= Retries /\ Cardinality(SamplesOf(f[x][v])) <= 1
    BY DEF OneSessionPerTest
  <2>1. TypeOK /\ CellsClean
    BY DEF IInv
  <2>2. f \in Cells
    BY <2>1 DEF TypeOK, Intact
  <2>3. f[x][v] \in Seq(0 .. MaxSessions)
    BY <2>2 DEF Cells
  <2>4. OneSession(f[x][v])
    BY <2>1 DEF CellsClean
  <2> QED
    BY <2>3, <2>4, CleanCell
<1> QED
  BY <1>1, Invariance, PTL

(***************************************************************************)
(* As long as nothing fails, testinfo.json names the sessions the results  *)
(* are of, and load_old_results finds all it looks for.                    *)
(***************************************************************************)
THEOREM InfoDescribesResults == Spec => []InfoMatchesResults
<1>1. IInv => InfoMatchesResults
  <2> SUFFICES ASSUME IInv, ~harmed
               PROVE  /\ ended # "load"
                      /\ ended = "finished" /\ stage = "idle" =>
                            \A g \in Graphs, x \in Xs, v \in VMs :
                                SamplesOf(json[g][x][v]) = {testinfo[v]}
    BY DEF InfoMatchesResults
  <2>1. InfoKnown /\ Between
    BY DEF IInv, Unharmed
  <2>2. ended # "load" /\ (ended = "finished" => testinfo # NoFile)
    BY <2>1 DEF InfoKnown
  <2>3. ended = "finished" /\ stage = "idle" => \A g \in Graphs, v \in VMs : Match(g, v)
    BY <2>1, <2>2 DEF Between
  <2> QED
    BY <2>2, <2>3 DEF Match
<1> QED
  BY <1>1, Invariance, PTL

(***************************************************************************)
(* A file of results that is written anew keeps, sample by sample, those   *)
(* of the VMs that the session did not run.                                *)
(***************************************************************************)
THEOREM OldResultsTakenOver == Spec => OldResultsKept
<1> DEFINE Keeps == \A g \in Graphs :
                        json'[g] # json[g] /\ Intact(json[g]) /\ Intact(json'[g]) =>
                            \A x \in Xs, v \in VMs \ enabled : json'[g][x][v] = json[g][x][v]
<1>1. IInv /\ [Next]_vars => [Keeps]_vars
  <2> SUFFICES ASSUME IInv, Next, NEW g \in Graphs, json'[g] # json[g], Intact(json[g]),
                      Intact(json'[g]), NEW x \in Xs, NEW v \in VMs \ enabled
               PROVE  json'[g][x][v] = json[g][x][v]
    BY DEF Intact
  <2>1. TypeOK /\ Kept
    BY DEF IInv
  <2>3. ASSUME NEW h \in Graphs, json' = [json EXCEPT ![h] = data[h]], data' = data, CreateGraph(h)
        PROVE  json'[g][x][v] = json[g][x][v]
    <3>1. g = h /\ json'[g] = data[g]
      BY <2>1, <2>3 DEF TypeOK
    <3>2. stage = "post" /\ next <= g
      BY <2>3, <3>1, Sizes DEF CreateGraph, Graphs
    <3>3. data[g][x][v] = json[g][x][v]
      BY <2>1, <3>2 DEF Kept
    <3> QED
      BY <3>1, <3>3
  <2>4. ASSUME Tears
        PROVE  FALSE
    BY <2>4 DEF Tears, Intact
  <2>5. ASSUME NEW h \in Graphs, CreateGraph(h)
        PROVE  json'[g][x][v] = json[g][x][v]
    BY <2>3, <2>5 DEF CreateGraph, Dumped
  <2>6. ASSUME NEW h \in Graphs, CreateGraphFails(h)
        PROVE  Tears
    BY <2>1, <2>6 DEF CreateGraphFails, Tears, TypeOK
  <2>7. ASSUME Killed
        PROVE  Tears
    BY <2>1, <2>7 DEF Killed, Tears, TypeOK, disk
  <2>8. ASSUME json' = json
        PROVE  FALSE
    BY <2>8
  <2>9. ASSUME NEW E \in SUBSET VMs, Start(E)
        PROVE  json' = json
    BY <2>9 DEF Start, disk
  <2>10. ASSUME NEW taken \in Takings, RunVM(taken)
         PROVE  json' = json
    BY <2>10 DEF RunVM, disk
  <2>11. ASSUME CreateTestinfo \/ TestinfoTorn \/ VMFails \/ LoadOldVmData \/ RunEnds \/ PostRunEnds
         PROVE  json' = json
    BY <2>11 DEF CreateTestinfo, TestinfoTorn, VMFails, LoadOldVmData, RunEnds, PostRunEnds, disk
  <2> QED
    BY <2>4, <2>5, <2>6, <2>7, <2>8, <2>9, <2>10, <2>11 DEF Next
<1>2. Spec => [][Keeps]_vars
  BY <1>1, Invariance, PTL DEF Spec
<1> QED
  BY <1>2 DEF OldResultsKept

=============================================================================
