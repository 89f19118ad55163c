-------------------------- MODULE MeasurementProofs --------------------------
(***************************************************************************)
(* Proofs about Measurement, for any numbers of VMs, x values, repetitions *)
(* and sensors, and any number of failed readings.                         *)
(***************************************************************************)
EXTENDS Measurement, FiniteSetTheorems, TLAPS

(* Samples of every graph for every x and VM. *)
Data == [Graph -> Cells(Seq(Sample))]

(* What Record does to every cell of every graph. *)
LEMMA RecordEffect ==
    ASSUME at \in Test, data \in Data,
           NEW g \in Graph, NEW e \in Sample, Record(g, e)
    PROVE  /\ data' \in Data
           /\ \A h \in Graph, x \in Xs, v \in VMs :
                data'[h][x][v] = IF h = g /\ x = at[2] /\ v = at[1]
                                 THEN Append(data[h][x][v], e) ELSE data[h][x][v]
<1> DEFINE s == data[g][at[2]][at[1]]
           row == [data[g][at[2]] EXCEPT ![at[1]] = Append(s, e)]
           grid == [data[g] EXCEPT ![at[2]] = row]
<1>1. at[1] \in VMs /\ at[2] \in Xs
  BY DEF Test
<1>2. data[g] \in Cells(Seq(Sample)) /\ data[g][at[2]] \in [VMs -> Seq(Sample)]
  BY <1>1 DEF Data, Cells
<1>3. s \in Seq(Sample)
  BY <1>1, <1>2
<1>4. Append(s, e) \in Seq(Sample)
  BY <1>3
<1>5. row \in [VMs -> Seq(Sample)]
  BY <1>1, <1>2, <1>4
<1>6. grid \in Cells(Seq(Sample))
  BY <1>1, <1>2, <1>5 DEF Cells
<1>7. data' = [data EXCEPT ![g] = grid]
  BY DEF Record, AddData
<1>8. data' \in Data
  BY <1>6, <1>7 DEF Data
<1>9. ASSUME NEW h \in Graph, NEW x \in Xs, NEW v \in VMs
      PROVE  data'[h][x][v] = IF h = g /\ x = at[2] /\ v = at[1]
                              THEN Append(data[h][x][v], e) ELSE data[h][x][v]
  <2>1. CASE h # g
    BY <2>1, <1>7 DEF Data
  <2>2. CASE h = g /\ x # at[2]
    <3>1. data'[h] = grid
      BY <2>2, <1>7 DEF Data
    <3>2. grid[x] = data[g][x]
      BY <2>2, <1>2 DEF Cells
    <3> QED BY <2>2, <3>1, <3>2
  <2>3. CASE h = g /\ x = at[2]
    <3>1. data'[h] = grid
      BY <2>3, <1>7 DEF Data
    <3>2. grid[x] = row
      BY <2>3, <1>2 DEF Cells
    <3>3. row[v] = IF v = at[1] THEN Append(s, e) ELSE data[g][x][v]
      BY <2>3, <1>2
    <3> QED BY <2>3, <3>1, <3>2, <3>3
  <2> QED BY <2>1, <2>2, <2>3
<1> QED BY <1>8, <1>9

-----------------------------------------------------------------------------
(* In the loops over the sensors there is a test they belong to. *)
InTest == phase \in {"before", "after"} => at \in Test

(* _value_before of s was read before the current test, or its reading failed. *)
Accounted(s) ==
    \/ baseline[s] = at
    \/ <<s, "before", at>> \in failed /\ (s \in Quiet => baseline[s] = Zeros)

(* The sensors that were read before the test have their baseline of it. *)
Fresh ==
    \A k \in 1 .. Len(Sensors) :
        phase = "after" \/ (phase = "before" /\ k < next) => Accounted(Sensors[k])

(* The inductive invariant. *)
IInv == TypeOK /\ InTest /\ Fresh /\ DeltaSpansItsTest

(* The loops end, or go on with a test. *)
LEMMA FollowingIsTest ==
    ASSUME MeasurementAssumption, at \in Test
    PROVE  /\ Following \in Test \cup {<<VmNum + 1, 1, 1>>}
           /\ NextVM \in Test \cup {<<VmNum + 1, 1, 1>>}
           /\ Following[1] = at[1] => Following \in Test
<1>1. PICK v \in VMs, x \in Xs, r \in 1 .. Retries : at = <<v, x, r>>
  BY DEF Test
<1>2. v \in 1 .. VmNum /\ x \in 1 .. XNum /\ VmNum \in Nat /\ XNum \in Nat \ {0} /\ Retries \in Nat \ {0}
  BY DEF MeasurementAssumption, VMs, Xs
<1>3. NextVM = <<v + 1, 1, 1>>
  BY <1>1 DEF NextVM
<1>4. 1 \in Xs /\ 1 \in 1 .. Retries
  BY <1>2 DEF Xs
<1>5. NextVM \in Test \cup {<<VmNum + 1, 1, 1>>}
  <2>1. CASE v = VmNum
    BY <2>1, <1>3
  <2>2. CASE v # VmNum
    <3>1. v + 1 \in VMs
      BY <2>2, <1>2 DEF VMs
    <3> QED BY <3>1, <1>3, <1>4 DEF Test
  <2> QED BY <2>1, <2>2
<1>6. CASE r < Retries
  <2>1. Following = <<v, x, r + 1>>
    BY <1>1, <1>6 DEF Following
  <2>2. r + 1 \in 1 .. Retries
    BY <1>2, <1>6
  <2> QED BY <2>1, <2>2, <1>5 DEF Test
<1>7. CASE ~(r < Retries) /\ x < XNum
  <2>1. Following = <<v, x + 1, 1>>
    BY <1>1, <1>7 DEF Following
  <2>2. x + 1 \in Xs
    BY <1>2, <1>7 DEF Xs
  <2> QED BY <2>1, <2>2, <1>4, <1>5 DEF Test
<1>8. CASE ~(r < Retries) /\ ~(x < XNum)
  <2>1. Following = NextVM
    BY <1>1, <1>8 DEF Following
  <2>2. Following[1] # at[1]
    BY <2>1, <1>1, <1>2, <1>3
  <2> QED BY <2>1, <2>2, <1>5
<1> QED BY <1>6, <1>7, <1>8

(* A session begins without samples, so all of them are accounted for. *)
LEMMA InitIInv == ASSUME MeasurementAssumption PROVE Init => IInv
<1> SUFFICES ASSUME Init PROVE IInv
  OBVIOUS
<1> USE DEF MeasurementAssumption
<1>1. at \in Test \cup {<<VmNum + 1, 1, 1>>}
  <2>1. CASE VmNum = 0
    BY <2>1 DEF Init
  <2>2. CASE VmNum # 0
    BY <2>2 DEF Init, Test, VMs, Xs
  <2> QED BY <2>1, <2>2
<1>2. Len(Sensors) \in Nat
  OBVIOUS
<1>3. data \in [Graph -> Cells(Seq(Sample))]
  BY DEF Init, Cells
<1>4. ratio \in [Ratios -> Cells(Seq(Sample \X Sample))]
  BY DEF Init, Cells
<1>5. next \in 1 .. Len(Sensors) + 1
  BY <1>2 DEF Init
<1>6. baseline \in [SensorSet -> Reading]
  BY DEF Init, Reading
<1>10. failed \subseteq SensorSet \X {"before", "after"} \X Test /\ cut \subseteq VMs
  BY DEF Init
<1>11. rounds \in 0 .. MaxRounds /\ phase \in {"between", "before", "after", "posted", "aborted"}
  BY DEF Init
<1>7. TypeOK
  BY <1>1, <1>3, <1>4, <1>5, <1>6, <1>10, <1>11 DEF TypeOK
<1>8. InTest /\ Fresh
  BY DEF InTest, Fresh, Init
<1>9. DeltaSpansItsTest
  <2> SUFFICES ASSUME NEW s \in SensorSet, NEW x \in Xs, NEW v \in VMs
               PROVE  Len(data[s][x][v]) = 0
    BY DEF DeltaSpansItsTest
  <2>1. data[s][x][v] = <<>>
    BY DEF Init, Graph
  <2> QED BY <2>1
<1> QED BY <1>7, <1>8, <1>9 DEF IInv

(* zip() makes pairs of the samples of two cells. *)
LEMMA ZipType ==
    ASSUME NEW S, NEW s \in Seq(S), NEW t \in Seq(S)
    PROVE  Zip(s, t) \in Seq(S \X S)
<1> DEFINE n == IF Len(s) <= Len(t) THEN Len(s) ELSE Len(t)
<1>1. n \in Nat /\ n <= Len(s) /\ n <= Len(t)
  OBVIOUS
<1>2. \A k \in 1 .. n : s[k] \in S /\ t[k] \in S
  BY <1>1
<1> HIDE DEF n
<1>3. [k \in 1 .. n |-> <<s[k], t[k]>>] \in [1 .. n -> S \X S]
  BY <1>2
<1>4. [k \in 1 .. n |-> <<s[k], t[k]>>] \in Seq(S \X S)
  BY <1>1, <1>3
<1>5. Zip(s, t) = [k \in 1 .. n |-> <<s[k], t[k]>>]
  BY DEF Zip, n
<1> QED BY <1>4, <1>5

(* create_graph adds pairs of samples to the ratios. *)
LEMMA RatioType ==
    ASSUME MeasurementAssumption, data \in Data,
           ratio \in [Ratios -> Cells(Seq(Sample \X Sample))], CreateGraphs
    PROVE  ratio' \in [Ratios -> Cells(Seq(Sample \X Sample))]
<1> DEFINE Cell(r, x, v) ==
             IF Reached(r, x, v) THEN CalcData(r, x, v) ELSE ratio[r][x][v]
<1>1. ASSUME NEW r \in Ratios, NEW x \in Xs, NEW v \in VMs
      PROVE  Cell(r, x, v) \in Seq(Sample \X Sample)
  <2>1. r[1] \in Graph /\ r[2] \in Graph
    BY DEF MeasurementAssumption
  <2>2. data[r[1]][x][v] \in Seq(Sample) /\ data[r[2]][x][v] \in Seq(Sample)
    BY <2>1 DEF Data, Cells
  <2>3. ratio[r][x][v] \in Seq(Sample \X Sample)
    BY DEF Cells
  <2>4. Zip(data[r[1]][x][v], data[r[2]][x][v]) \in Seq(Sample \X Sample)
    BY <2>2, ZipType
  <2>5. CalcData(r, x, v) \in Seq(Sample \X Sample)
    BY <2>3, <2>4 DEF CalcData
  <2> QED BY <2>3, <2>5
<1>2. ratio' = [r \in Ratios |-> [x \in Xs |-> [v \in VMs |-> Cell(r, x, v)]]]
  BY DEF CreateGraphs
<1> HIDE DEF Cell
<1> QED BY <1>1, <1>2 DEF Cells

-----------------------------------------------------------------------------
(* More failed readings account for at least the same samples. *)
LEMMA SpansMonotone ==
    ASSUME NEW F, NEW H, F \subseteq H, NEW s, NEW d, Spans(s, d, F)
    PROVE  Spans(s, d, H)
BY DEF Spans

(* The steps that record no sample of a sensor. *)
LEMMA SpansKept ==
    ASSUME DeltaSpansItsTest, failed \subseteq failed',
           \A s \in SensorSet, x \in Xs, v \in VMs : data'[s][x][v] = data[s][x][v]
    PROVE  DeltaSpansItsTest'
<1> SUFFICES ASSUME NEW s \in SensorSet, NEW x \in Xs, NEW v \in VMs,
                    NEW k \in 1 .. Len(data'[s][x][v])
             PROVE  Spans(s, data'[s][x][v][k], failed')
  BY DEF DeltaSpansItsTest
<1>1. data'[s][x][v] = data[s][x][v]
  OBVIOUS
<1>2. Spans(s, data[s][x][v][k], failed)
  BY <1>1 DEF DeltaSpansItsTest
<1> QED BY <1>1, <1>2, SpansMonotone

(* The two steps that record one: the sample is accounted for. *)
LEMMA SpansPreserved ==
    ASSUME TypeOK, DeltaSpansItsTest, at \in Test, failed \subseteq failed',
           NEW s \in SensorSet, NEW e \in Sample, Record(s, e), Spans(s, e, failed')
    PROVE  DeltaSpansItsTest'
<1> SUFFICES ASSUME NEW h \in SensorSet, NEW x \in Xs, NEW v \in VMs,
                    NEW k \in 1 .. Len(data'[h][x][v])
             PROVE  Spans(h, data'[h][x][v][k], failed')
  BY DEF DeltaSpansItsTest
<1>1. data \in Data /\ s \in Graph /\ h \in Graph
  BY DEF TypeOK, Data, Graph
<1>2. data'[h][x][v] = IF h = s /\ x = at[2] /\ v = at[1]
                       THEN Append(data[h][x][v], e) ELSE data[h][x][v]
  BY <1>1, RecordEffect
<1>3. data[h][x][v] \in Seq(Sample)
  BY <1>1 DEF Data, Cells
<1>4. \A j \in 1 .. Len(data[h][x][v]) : Spans(h, data[h][x][v][j], failed')
  BY SpansMonotone DEF DeltaSpansItsTest
<1>5. CASE h = s /\ x = at[2] /\ v = at[1]
  <2>1. data'[h][x][v] = Append(data[h][x][v], e)
    BY <1>2, <1>5
  <2>2. CASE k = Len(data[h][x][v]) + 1
    <3>1. data'[h][x][v][k] = e
      BY <2>1, <2>2, <1>3
    <3> QED BY <3>1, <1>5
  <2>3. CASE k # Len(data[h][x][v]) + 1
    <3>1. k \in 1 .. Len(data[h][x][v]) /\ data'[h][x][v][k] = data[h][x][v][k]
      BY <2>1, <2>3, <1>3
    <3> QED BY <3>1, <1>4
  <2> QED BY <2>2, <2>3
<1>6. CASE ~(h = s /\ x = at[2] /\ v = at[1])
  BY <1>2, <1>4, <1>6
<1> QED BY <1>5, <1>6

(* Every step of the loops keeps the inductive invariant. *)
LEMMA StepIInv ==
    ASSUME MeasurementAssumption, IInv, [Next]_vars
    PROVE  IInv'
<1>0. /\ TypeOK /\ InTest /\ Fresh /\ DeltaSpansItsTest
      /\ data \in Data
  BY DEF IInv, TypeOK, Data
<1>l. /\ Sensors \in Seq(SensorSet) /\ Len(Sensors) \in Nat
      /\ \A j, k \in 1 .. Len(Sensors) : Sensors[j] = Sensors[k] => j = k
      /\ \A k \in 1 .. Len(Sensors) : Sensors[k] \in SensorSet
      /\ Netperf \notin SensorSet /\ VmNum \in Nat
  BY DEF MeasurementAssumption
<1>1. CASE BeginVM
  <2>1. at \in Test
    BY <1>0, <1>1, <1>l DEF BeginVM, TypeOK, Test, VMs
  <2>a. next' \in 1 .. Len(Sensors) + 1
    BY <1>1, <1>l DEF BeginVM
  <2>2. TypeOK'
    BY <1>0, <1>1, <2>a DEF BeginVM, TypeOK
  <2>3. InTest' /\ Fresh'
    BY <2>1, <1>1 DEF BeginVM, InTest, Fresh
  <2>4. DeltaSpansItsTest'
    BY <1>0, <1>1, SpansKept DEF BeginVM
  <2> QED BY <2>2, <2>3, <2>4 DEF IInv
<1>2. CASE Abort
  <2>1. TypeOK'
    BY <1>0, <1>2 DEF Abort, TypeOK
  <2>2. InTest' /\ Fresh'
    BY <1>2 DEF Abort, InTest, Fresh
  <2>3. DeltaSpansItsTest'
    BY <1>0, <1>2, SpansKept DEF Abort
  <2> QED BY <2>1, <2>2, <2>3 DEF IInv
<1>3. ASSUME NEW s \in SensorSet, ReadBefore(s) PROVE IInv'
  <2> USE <1>3 DEF ReadBefore, Turn
  <2>1. at \in Test
    BY <1>0, <1>l DEF InTest
  <2>2. TypeOK'
    <3>1. baseline' \in [SensorSet -> Reading]
      BY <1>0, <2>1 DEF TypeOK, Reading
    <3>2. next' \in 1 .. Len(Sensors) + 1
      BY <1>0, <1>l DEF TypeOK
    <3> QED BY <1>0, <3>1, <3>2 DEF TypeOK
  <2>3. InTest'
    BY <1>0, <1>l DEF InTest
  <2>4. Fresh'
    <3> SUFFICES ASSUME NEW k \in 1 .. Len(Sensors), k < next + 1
                 PROVE  Accounted(Sensors[k])'
      BY DEF Fresh
    <3>1. Sensors[k] \in SensorSet
      BY DEF SensorSet
    <3>2. CASE k = next
      BY <3>1, <3>2, <1>0, <1>l DEF Accounted, TypeOK
    <3>3. CASE k # next
      <4>1. Sensors[k] # s
        BY <3>3, <1>0, <1>l DEF TypeOK
      <4>2. Accounted(Sensors[k])
        BY <3>3, <1>0, <1>l DEF Fresh, TypeOK
      <4> QED BY <4>1, <4>2, <3>1, <1>0, <1>l DEF Accounted, TypeOK
    <3> QED BY <3>2, <3>3
  <2>5. DeltaSpansItsTest'
    BY <1>0, SpansKept
  <2> QED BY <2>2, <2>3, <2>4, <2>5 DEF IInv
<1>4. ASSUME NEW s \in SensorSet, ReadBeforeFails(s) PROVE IInv'
  <2> USE <1>4 DEF ReadBeforeFails, Turn, Fails
  <2>1. at \in Test
    BY <1>0, <1>l DEF InTest
  <2>2. TypeOK'
    <3>1. BaselineAfterFailed(s) \in Reading
      BY <1>0, <1>l DEF TypeOK, Reading, BaselineAfterFailed
    <3>2. baseline' \in [SensorSet -> Reading]
      BY <1>0, <3>1 DEF TypeOK
    <3>3. next' \in 1 .. Len(Sensors) + 1
      BY <1>0, <1>l DEF TypeOK
    <3>4. failed' \subseteq SensorSet \X {"before", "after"} \X Test
      BY <1>0, <2>1 DEF TypeOK
    <3> QED BY <1>0, <3>2, <3>3, <3>4 DEF TypeOK
  <2>3. InTest'
    BY <1>0, <1>l DEF InTest
  <2>4. Fresh'
    <3> SUFFICES ASSUME NEW k \in 1 .. Len(Sensors), k < next + 1
                 PROVE  Accounted(Sensors[k])'
      BY DEF Fresh
    <3>1. Sensors[k] \in SensorSet
      BY DEF SensorSet
    <3>2. CASE k = next
      BY <3>1, <3>2, <1>0, <1>l DEF Accounted, TypeOK, BaselineAfterFailed
    <3>3. CASE k # next
      <4>1. Sensors[k] # s
        BY <3>3, <1>0, <1>l DEF TypeOK
      <4>2. Accounted(Sensors[k])
        BY <3>3, <1>0, <1>l DEF Fresh, TypeOK
      <4> QED BY <4>1, <4>2, <3>1, <1>0, <1>l DEF Accounted, TypeOK
    <3> QED BY <3>2, <3>3
  <2>5. DeltaSpansItsTest'
    BY <1>0, SpansKept
  <2> QED BY <2>2, <2>3, <2>4, <2>5 DEF IInv
<1>5. CASE TestFunc
  <2> USE <1>5 DEF TestFunc
  <2> DEFINE e == [test |-> at, from |-> at, to |-> at]
  <2>1. at \in Test /\ e \in Sample /\ Netperf \in Graph
    BY <1>0, <1>l DEF InTest, Sample, Reading, Graph
  <2>2. /\ data' \in Data
        /\ \A h \in Graph, x \in Xs, v \in VMs :
             data'[h][x][v] = IF h = Netperf /\ x = at[2] /\ v = at[1]
                              THEN Append(data[h][x][v], e) ELSE data[h][x][v]
    BY <1>0, <2>1, RecordEffect
  <2>a. next' \in 1 .. Len(Sensors) + 1
    BY <1>0, <1>l DEF TypeOK
  <2>3. TypeOK'
    BY <1>0, <2>2, <2>a DEF TypeOK, Data
  <2>4. InTest'
    BY <2>1 DEF InTest
  <2>5. Fresh'
    <3> SUFFICES ASSUME NEW k \in 1 .. Len(Sensors)
                 PROVE  Accounted(Sensors[k])'
      BY DEF Fresh
    <3>1. Accounted(Sensors[k])
      BY <1>0, <1>l DEF Fresh
    <3> QED BY <3>1 DEF Accounted
  <2>6. DeltaSpansItsTest'
    <3>1. \A s \in SensorSet, x \in Xs, v \in VMs : data'[s][x][v] = data[s][x][v]
      BY <2>2 DEF Graph
    <3> QED BY <1>0, <3>1, SpansKept
  <2> QED BY <2>3, <2>4, <2>5, <2>6 DEF IInv
<1>6. ASSUME NEW s \in SensorSet, ReadAfter(s) PROVE IInv'
  <2> USE <1>6 DEF ReadAfter, Turn
  <2> DEFINE e == [test |-> at, from |-> baseline[s], to |-> at]
  <2>1. at \in Test /\ e \in Sample /\ s \in Graph
    BY <1>0, <1>l DEF InTest, TypeOK, Sample, Reading, Graph
  <2>2. data' \in Data
    BY <1>0, <2>1, RecordEffect
  <2>a. next' \in 1 .. Len(Sensors) + 1
    BY <1>0, <1>l DEF TypeOK
  <2>3. TypeOK'
    BY <1>0, <2>2, <2>a DEF TypeOK, Data
  <2>4. InTest'
    BY <1>0, <1>l DEF InTest
  <2>5. Fresh'
    BY <1>0, <1>l DEF Fresh, Accounted
  <2>6. Accounted(s)
    BY <1>0, <1>l DEF Fresh, TypeOK
  <2>7. Spans(s, e, failed')
    BY <2>6 DEF Accounted, Spans
  <2>8. DeltaSpansItsTest'
    BY <1>0, <2>1, <2>7, SpansPreserved
  <2> QED BY <2>3, <2>4, <2>5, <2>8 DEF IInv
<1>7. ASSUME NEW s \in SensorSet, ReadAfterFails(s) PROVE IInv'
  <2> USE <1>7 DEF ReadAfterFails, Turn, Fails
  <2> DEFINE e == [test |-> at, from |-> baseline[s], to |-> Zeros]
  <2>1. at \in Test /\ e \in Sample /\ s \in Graph
    BY <1>0, <1>l DEF InTest, TypeOK, Sample, Reading, Graph
  <2>2. data' \in Data
    BY <1>0, <2>1, RecordEffect
  <2>3. TypeOK'
    <3>1. failed' \subseteq SensorSet \X {"before", "after"} \X Test
      BY <1>0, <2>1 DEF TypeOK
    <3>2. next' \in 1 .. Len(Sensors) + 1
      BY <1>0, <1>l DEF TypeOK
    <3> QED BY <1>0, <2>2, <3>1, <3>2 DEF TypeOK, Data
  <2>4. InTest'
    BY <1>0, <1>l DEF InTest
  <2>5. Fresh'
    BY <1>0, <1>l DEF Fresh, Accounted
  <2>6. Accounted(s)
    BY <1>0, <1>l DEF Fresh, TypeOK
  <2>7. Spans(s, e, failed')
    BY <2>6 DEF Accounted, Spans
  <2>8. DeltaSpansItsTest'
    <3>1. CASE s \in Quiet
      BY <1>0, <2>1, <2>7, <3>1, SpansPreserved
    <3>2. CASE s \notin Quiet
      BY <1>0, <3>2, SpansKept
    <3> QED BY <3>1, <3>2
  <2> QED BY <2>3, <2>4, <2>5, <2>8 DEF IInv
<1>8. CASE NextTest
  <2> USE <1>8 DEF NextTest
  <2>1. at \in Test
    BY <1>0, <1>l DEF InTest
  <2>a. next' \in 1 .. Len(Sensors) + 1
    BY <1>l
  <2>b. /\ at' \in Test \cup {<<VmNum + 1, 1, 1>>}
        /\ phase' \in {"before", "between"}
        /\ phase' = "before" => at' \in Test
    BY <2>1, FollowingIsTest
  <2>2. TypeOK' /\ InTest'
    BY <1>0, <2>a, <2>b DEF TypeOK, InTest
  <2>3. Fresh'
    BY DEF Fresh
  <2>4. DeltaSpansItsTest'
    BY <1>0, SpansKept
  <2> QED BY <2>2, <2>3, <2>4 DEF IInv
<1>9. CASE CutShort
  <2> USE <1>9 DEF CutShort, LoopsLeft
  <2>1. at \in Test
    BY <1>0, <1>l DEF InTest
  <2>2. at[1] \in VMs
    BY <2>1 DEF Test
  <2>a. next' \in 1 .. Len(Sensors) + 1
    BY <1>l
  <2>b. at' \in Test \cup {<<VmNum + 1, 1, 1>>} /\ phase' = "between"
    BY <2>1, FollowingIsTest
  <2>3. TypeOK' /\ InTest'
    BY <1>0, <2>2, <2>a, <2>b DEF TypeOK, InTest
  <2>4. Fresh'
    BY DEF Fresh
  <2>5. DeltaSpansItsTest'
    BY <1>0, SpansKept
  <2> QED BY <2>3, <2>4, <2>5 DEF IInv
<1>10. CASE CreateGraphs
  <2>1. ratio' \in [Ratios -> Cells(Seq(Sample \X Sample))]
    BY <1>0, <1>10, RatioType DEF TypeOK
  <2>2. rounds' \in 0 .. MaxRounds
    BY <1>0, <1>10 DEF CreateGraphs, TypeOK
  <2>3. TypeOK'
    BY <1>0, <1>10, <2>1, <2>2 DEF CreateGraphs, TypeOK
  <2>4. InTest' /\ Fresh'
    BY <1>10 DEF CreateGraphs, InTest, Fresh
  <2>5. DeltaSpansItsTest'
    BY <1>0, <1>10, SpansKept DEF CreateGraphs
  <2> QED BY <2>3, <2>4, <2>5 DEF IInv
<1>11. CASE UNCHANGED vars
  <2>1. TypeOK'
    BY <1>0, <1>11 DEF vars, TypeOK
  <2>2. InTest' /\ Fresh'
    BY <1>0, <1>11 DEF vars, InTest, Fresh, Accounted
  <2>3. DeltaSpansItsTest'
    BY <1>0, <1>11, SpansKept DEF vars
  <2> QED BY <2>1, <2>2, <2>3 DEF IInv
<1> QED BY <1>1, <1>2, <1>3, <1>4, <1>5, <1>6, <1>7, <1>8, <1>9, <1>10, <1>11 DEF Next

-----------------------------------------------------------------------------
(* IInv is inductive: TypeOK, DeltaSpansItsTest and what they rest on. *)
THEOREM Invariance == Spec => []IInv
<1>1. Init => IInv
  BY MeasurementAssumption, InitIInv
<1>2. IInv /\ [Next]_vars => IInv'
  BY MeasurementAssumption, StepIInv
<1> QED BY <1>1, <1>2, PTL DEF Spec

(* Every variable keeps its type: the loops of run_vm never leave the tests. *)
THEOREM TypeCorrect == Spec => []TypeOK
<1>1. IInv => TypeOK
  BY DEF IInv
<1> QED BY <1>1, Invariance, PTL

(***************************************************************************)
(* SensorBeforeAfter: what a sample is the difference of is read around    *)
(* its own test, unless a failed reading accounts for it.                  *)
(***************************************************************************)
THEOREM DeltasSpan == Spec => []DeltaSpansItsTest
<1>1. IInv => DeltaSpansItsTest
  BY DEF IInv
<1> QED BY <1>1, Invariance, PTL

-----------------------------------------------------------------------------
(* The sample of the current test is in, or its failure has been noted. *)
Done(g) == phase = "after" /\ (g = Netperf \/ \E k \in 1 .. next - 1 : g = Sensors[k])

(* How many repetitions of x and v the loops are through with, seen from g. *)
Repetitions(g, x, v) ==
    IF v < at[1] \/ (v = at[1] /\ x < at[2]) THEN Retries
    ELSE IF v = at[1] /\ x = at[2] THEN (IF Done(g) THEN at[3] ELSE at[3] - 1)
    ELSE 0

(* The loops that were left are those of earlier VMs. *)
CutBehind == \A v \in cut : v < at[1]

(* A reading after a test can only have failed if its turn has come. *)
GapsBehind ==
    \A g \in SensorSet, t \in Test :
        <<g, "after", t>> \in failed => t[3] <= Repetitions(g, t[2], t[1])

(* Every repetition has left a sample, or a failed reading to show for it. *)
Lost(g, x, v) == IF g \in Quiet THEN 0 ELSE Cardinality(Gap(g, x, v))
CellsCounted ==
    \A g \in Graph, x \in Xs, v \in VMs \ cut :
        Len(data[g][x][v]) = Repetitions(g, x, v) - Lost(g, x, v)

(* Where no reading failed, the k-th sample is that of the k-th repetition. *)
CellsOrdered ==
    \A g \in Graph, x \in Xs, v \in VMs : Gapless(g, x, v) =>
        \A k \in 1 .. Len(data[g][x][v]) : data[g][x][v][k].test = <<v, x, k>>

(* The inductive invariant for what the loops leave in the cells. *)
CellsInv == CutBehind /\ GapsBehind /\ CellsCounted /\ CellsOrdered /\ RatioPairsAligned

-----------------------------------------------------------------------------
(* The constants, one by one. *)
LEMMA Loops ==
    /\ VmNum \in Nat /\ XNum \in Nat \ {0} /\ Retries \in Nat \ {0}
    /\ Len(Sensors) \in Nat
    /\ \A j, k \in 1 .. Len(Sensors) : Sensors[j] = Sensors[k] => j = k
    /\ \A k \in 1 .. Len(Sensors) : Sensors[k] \in SensorSet
    /\ Netperf \notin SensorSet
    /\ \A r \in Ratios : r[1] \in Graph /\ r[2] \in Graph
BY MeasurementAssumption DEF SensorSet

(* The position in the loops. *)
LEMMA Place ==
    ASSUME TypeOK
    PROVE  /\ at[1] \in Nat /\ at[1] >= 1 /\ at[2] \in Xs /\ at[3] \in 1 .. Retries
           /\ next \in 1 .. Len(Sensors) + 1
           /\ at \in Test => at[1] \in VMs /\ at = <<at[1], at[2], at[3]>>
           /\ \A g \in Graph, x \in Xs, v \in VMs : data[g][x][v] \in Seq(Sample)
<1>1. 1 \in Xs /\ 1 \in 1 .. Retries /\ VmNum + 1 \in Nat /\ VmNum + 1 >= 1
  BY Loops DEF Xs
<1>2. at \in Test \cup {<<VmNum + 1, 1, 1>>} /\ next \in 1 .. Len(Sensors) + 1
  BY DEF TypeOK
<1>c. \A g \in Graph, x \in Xs, v \in VMs : data[g][x][v] \in Seq(Sample)
  BY DEF TypeOK, Cells
<1>3. CASE at = <<VmNum + 1, 1, 1>> /\ at \notin Test
  BY <1>1, <1>2, <1>3, <1>c
<1>4. CASE at \in Test
  <2>1. /\ at[1] \in VMs /\ at[2] \in Xs /\ at[3] \in 1 .. Retries
        /\ at = <<at[1], at[2], at[3]>>
    BY <1>4 DEF Test
  <2>2. at[1] \in Nat /\ at[1] >= 1
    BY <2>1, Loops DEF VMs
  <2> QED
    BY <1>2, <1>c, <2>1, <2>2
<1> QED
  BY <1>2, <1>3, <1>4

(* A test is named by its VM, its x and its repetition. *)
LEMMA TestFields ==
    ASSUME NEW t \in Test
    PROVE  t[1] \in VMs /\ t[2] \in Xs /\ t[3] \in 1 .. Retries /\ t = <<t[1], t[2], t[3]>>
BY DEF Test

(* The repetitions of a cell are finitely many, so the lost ones can be counted. *)
LEMMA GapFinite ==
    ASSUME NEW g, NEW x \in Xs, NEW v \in VMs
    PROVE  IsFiniteSet(Gap(g, x, v)) /\ Cardinality(Gap(g, x, v)) \in Nat
<1> DEFINE f == [r \in 1 .. Retries |-> <<v, x, r>>]
           T == {<<v, x, r>> : r \in 1 .. Retries}
<1>1. IsFiniteSet(1 .. Retries)
  BY Loops, FS_Interval
<1>2. f \in Surjection(1 .. Retries, T)
  BY DEF Surjection
<1>3. IsFiniteSet(T)
  BY <1>1, <1>2, FS_Surjection
<1>4. Gap(g, x, v) \subseteq T
  BY TestFields DEF Gap
<1>5. IsFiniteSet(Gap(g, x, v))
  BY <1>3, <1>4, FS_Subset
<1> QED
  BY <1>5, FS_CardinalityType

(* The sensor whose turn it is after a test is the only one that gets done. *)
LEMMA DoneInTurn ==
    ASSUME TypeOK, NEW s \in SensorSet, Turn("after", s)
    PROVE  ~Done(s) /\ \A h \in Graph : Done(h)' <=> Done(h) \/ h = s
<1>1. /\ phase = "after" /\ phase' = "after" /\ next' = next + 1
      /\ next \in 1 .. Len(Sensors) /\ s = Sensors[next]
  BY Place, Loops DEF Turn
<1>2. \A k \in 1 .. next - 1 : Sensors[k] # s
  BY <1>1, Loops
<1>3. ~Done(s)
  BY <1>1, <1>2, Loops DEF Done
<1>4. 1 .. next' - 1 = (1 .. next - 1) \cup {next}
  BY <1>1
<1> QED
  BY <1>1, <1>3, <1>4 DEF Done

(* While the loops stay at a test, only what gets done counts. *)
LEMMA RepetitionsInTest ==
    ASSUME TypeOK, at \in Test, at' = at, NEW s \in Graph, ~Done(s),
           \A h \in Graph : Done(h)' <=> Done(h) \/ h = s
    PROVE  /\ Repetitions(s, at[2], at[1]) = at[3] - 1
           /\ \A h \in Graph, x \in Xs, v \in VMs : Repetitions(h, x, v)' =
                 IF h = s /\ x = at[2] /\ v = at[1] THEN at[3] ELSE Repetitions(h, x, v)
<1>1. at[1] \in Nat /\ at[2] \in Nat /\ at[3] \in Nat /\ \A v \in VMs, x \in Xs : v \in Nat /\ x \in Nat
  BY Place, Loops DEF VMs, Xs
<1>2. Repetitions(s, at[2], at[1]) = at[3] - 1
  BY <1>1 DEF Repetitions
<1>3. ASSUME NEW h \in Graph, NEW x \in Xs, NEW v \in VMs
      PROVE  Repetitions(h, x, v)' =
                 IF h = s /\ x = at[2] /\ v = at[1] THEN at[3] ELSE Repetitions(h, x, v)
  <2>1. CASE h = s
    <3>1. Done(h)'
      BY <2>1
    <3> QED
      BY <1>1, <2>1, <3>1 DEF Repetitions
  <2>2. CASE h # s
    <3>1. Done(h)' <=> Done(h)
      BY <2>2
    <3> QED
      BY <1>1, <2>2, <3>1 DEF Repetitions
  <2> QED
    BY <2>1, <2>2
<1> QED
  BY <1>2, <1>3

(* In the loop before a test, and between VMs, nothing gets done. *)
LEMMA RepetitionsKept ==
    ASSUME at' = at, \A h \in Graph : Done(h)' <=> Done(h)
    PROVE  \A h \in Graph, x \in Xs, v \in VMs : Repetitions(h, x, v)' = Repetitions(h, x, v)
BY DEF Repetitions

(* Going on with the next test makes what was done a repetition. *)
LEMMA RepetitionsNext ==
    ASSUME TypeOK, at \in Test, NextTest
    PROVE  /\ \A h \in Graph, x \in Xs, v \in VMs : Repetitions(h, x, v)' = Repetitions(h, x, v)
           /\ at'[1] \in Nat /\ at'[1] >= at[1]
<1>1. /\ at[1] \in Nat /\ at[2] \in Nat /\ at[3] \in Nat /\ at[2] <= XNum /\ at[3] <= Retries
      /\ at = <<at[1], at[2], at[3]>> /\ XNum \in Nat /\ Retries \in Nat
      /\ \A v \in VMs, x \in Xs : v \in Nat /\ x \in Nat /\ x >= 1 /\ x <= XNum
  BY Place, Loops DEF VMs, Xs
<1>2. phase = "after" /\ next = Len(Sensors) + 1 /\ phase' # "after" /\ at' = Following
  BY DEF NextTest, AllRead
<1>3. \A h \in Graph : Done(h) /\ ~Done(h)'
  <2>1. 1 .. next - 1 = 1 .. Len(Sensors)
    BY <1>2, Loops
  <2> QED
    BY <1>2, <2>1 DEF Done, Graph, SensorSet
<1>4. CASE at[3] < Retries
  <2>1. at' = <<at[1], at[2], at[3] + 1>>
    BY <1>1, <1>2, <1>4 DEF Following
  <2> QED
    BY <1>1, <1>3, <2>1 DEF Repetitions
<1>5. CASE ~(at[3] < Retries) /\ at[2] < XNum
  <2>1. at' = <<at[1], at[2] + 1, 1>> /\ at[3] = Retries
    BY <1>1, <1>2, <1>5 DEF Following
  <2> QED
    BY <1>1, <1>3, <2>1 DEF Repetitions
<1>6. CASE ~(at[3] < Retries) /\ ~(at[2] < XNum)
  <2>1. at' = <<at[1] + 1, 1, 1>> /\ at[3] = Retries /\ at[2] = XNum
    BY <1>1, <1>2, <1>6 DEF Following, NextVM
  <2> QED
    BY <1>1, <1>3, <2>1 DEF Repetitions
<1> QED
  BY <1>4, <1>5, <1>6

-----------------------------------------------------------------------------
(* Failed readings are not forgotten, and neither are the gaps they leave. *)
LEMMA GapsStay ==
    ASSUME failed \subseteq failed', NEW g, NEW x, NEW v
    PROVE  Gap(g, x, v) \subseteq Gap(g, x, v)' /\ (Gapless(g, x, v)' => Gapless(g, x, v))
<1>1. Gap(g, x, v) \subseteq Gap(g, x, v)'
  BY DEF Gap
<1> QED
  BY <1>1 DEF Gapless

(* A cell without a gap has lost nothing. *)
LEMMA NothingLost ==
    ASSUME NEW g, NEW x, NEW v, Gapless(g, x, v)
    PROVE  Lost(g, x, v) = 0
BY FS_EmptySet DEF Gapless, Lost

(* The steps that record nothing, and after which as many repetitions are done. *)
LEMMA CellsKept ==
    ASSUME TypeOK, CellsInv, UNCHANGED <<data, cut>>,
           \A g \in Graph, t \in Test : <<g, "after", t>> \in failed' <=> <<g, "after", t>> \in failed,
           \A h \in Graph, x \in Xs, v \in VMs : Repetitions(h, x, v)' = Repetitions(h, x, v),
           at'[1] \in Nat, at'[1] >= at[1]
    PROVE  CutBehind' /\ GapsBehind' /\ CellsCounted' /\ CellsOrdered'
<1>1. CutBehind'
  <2>1. \A v \in cut : v \in Nat /\ v < at[1]
    BY Loops DEF CellsInv, CutBehind, TypeOK, VMs
  <2> QED
    BY <2>1, Place DEF CutBehind
<1>2. GapsBehind'
  BY TestFields DEF CellsInv, GapsBehind, Graph
<1>3. \A g \in Graph, x \in Xs, v \in VMs : Gap(g, x, v)' = Gap(g, x, v)
  BY DEF Gap
<1>4. CellsCounted'
  BY <1>3 DEF CellsInv, CellsCounted, Lost
<1>5. CellsOrdered'
  BY <1>3 DEF CellsInv, CellsOrdered, Gapless
<1> QED
  BY <1>1, <1>2, <1>4, <1>5

(* A sample of this test is recorded; a Quiet sensor's reading may have failed. *)
LEMMA CellRecorded ==
    ASSUME TypeOK, CellsInv, at \in Test, at' = at, cut' = cut,
           NEW s \in Graph, NEW e \in Sample, e.test = at, Record(s, e),
           ~Done(s), \A h \in Graph : Done(h)' <=> Done(h) \/ h = s,
           failed' = failed \/ (s \in Quiet /\ failed' = failed \cup {<<s, "after", at>>})
    PROVE  CutBehind' /\ GapsBehind' /\ CellsCounted' /\ CellsOrdered'
<1>a. /\ at[1] \in VMs /\ at[2] \in Xs /\ at[3] \in 1 .. Retries /\ at[1] \in Nat /\ at[3] \in Nat
      /\ at = <<at[1], at[2], at[3]>> /\ Retries \in Nat
  BY Place, Loops
<1>r. /\ Repetitions(s, at[2], at[1]) = at[3] - 1
      /\ \A h \in Graph, x \in Xs, v \in VMs : Repetitions(h, x, v)' =
            IF h = s /\ x = at[2] /\ v = at[1] THEN at[3] ELSE Repetitions(h, x, v)
  BY RepetitionsInTest
<1>d. /\ data \in Data /\ data' \in Data
      /\ \A h \in Graph, x \in Xs, v \in VMs :
            data'[h][x][v] = IF h = s /\ x = at[2] /\ v = at[1]
                             THEN Append(data[h][x][v], e) ELSE data[h][x][v]
  <2>1. data \in Data
    BY DEF TypeOK, Data
  <2> QED
    BY <2>1, RecordEffect
<1>1. CutBehind'
  BY DEF CellsInv, CutBehind
<1>2. GapsBehind'
  <2> SUFFICES ASSUME NEW g \in SensorSet, NEW t \in Test, <<g, "after", t>> \in failed'
               PROVE  t[3] <= Repetitions(g, t[2], t[1])'
    BY DEF GapsBehind
  <2>1. /\ t[1] \in VMs /\ t[2] \in Xs /\ t[3] \in Nat /\ g \in Graph
    BY TestFields, Loops DEF Graph
  <2>2. CASE <<g, "after", t>> \in failed
    <3>1. t[3] <= Repetitions(g, t[2], t[1])
      BY <2>2 DEF CellsInv, GapsBehind
    <3> QED
      BY <1>a, <1>r, <2>1, <3>1
  <2>3. CASE g = s /\ t = at
    BY <1>a, <1>r, <2>1, <2>3
  <2> QED
    BY <2>2, <2>3
<1>3. \A g \in Graph, x \in Xs, v \in VMs : Lost(g, x, v)' = Lost(g, x, v)
  <2> SUFFICES ASSUME NEW g \in Graph, NEW x \in Xs, NEW v \in VMs, g \notin Quiet
               PROVE  Gap(g, x, v)' = Gap(g, x, v)
    BY DEF Lost
  <2>1. \A t : <<g, "after", t>> \in failed' <=> <<g, "after", t>> \in failed
    OBVIOUS
  <2> QED
    BY <2>1 DEF Gap
<1>4. CellsCounted'
  <2> SUFFICES ASSUME NEW h \in Graph, NEW x \in Xs, NEW v \in VMs, v \notin cut
               PROVE  Len(data'[h][x][v]) = Repetitions(h, x, v)' - Lost(h, x, v)'
    BY DEF CellsCounted
  <2>1. Len(data[h][x][v]) = Repetitions(h, x, v) - Lost(h, x, v)
    BY DEF CellsInv, CellsCounted
  <2>2. Lost(h, x, v) \in Nat
    BY GapFinite DEF Lost
  <2>3. data[h][x][v] \in Seq(Sample)
    BY Place
  <2>4. CASE h = s /\ x = at[2] /\ v = at[1]
    <3>1. Len(data'[h][x][v]) = Len(data[h][x][v]) + 1
      <4>1. data'[h][x][v] = Append(data[h][x][v], e)
        BY <1>d, <2>4
      <4> QED
        BY <2>3, <4>1
    <3> QED
      BY <1>a, <1>r, <1>3, <2>1, <2>2, <2>4, <3>1
  <2>5. CASE ~(h = s /\ x = at[2] /\ v = at[1])
    BY <1>d, <1>r, <1>3, <2>1, <2>5
  <2> QED
    BY <2>4, <2>5
<1>5. CellsOrdered'
  <2> SUFFICES ASSUME NEW h \in Graph, NEW x \in Xs, NEW v \in VMs, Gapless(h, x, v)',
                      NEW k \in 1 .. Len(data'[h][x][v])
               PROVE  data'[h][x][v][k].test = <<v, x, k>>
    BY DEF CellsOrdered
  <2>1. failed \subseteq failed'
    OBVIOUS
  <2>2. Gapless(h, x, v)
    BY <2>1, GapsStay
  <2>3. \A j \in 1 .. Len(data[h][x][v]) : data[h][x][v][j].test = <<v, x, j>>
    BY <2>2 DEF CellsInv, CellsOrdered
  <2>4. CASE h = s /\ x = at[2] /\ v = at[1]
    <3>1. v \notin cut
      BY <1>a, <2>4 DEF CellsInv, CutBehind
    <3>2. Lost(h, x, v) = 0
      BY <2>2, NothingLost
    <3>3. Len(data[h][x][v]) = at[3] - 1
      BY <1>a, <1>r, <2>4, <3>1, <3>2 DEF CellsInv, CellsCounted
    <3>4. data[h][x][v] \in Seq(Sample) /\ data'[h][x][v] = Append(data[h][x][v], e)
      BY <1>d, <2>4, Place
    <3>5. k \in 1 .. at[3] /\ (k = at[3] => data'[h][x][v][k] = e)
      BY <1>a, <3>3, <3>4
    <3>6. k # at[3] => k \in 1 .. Len(data[h][x][v]) /\ data'[h][x][v][k] = data[h][x][v][k]
      BY <1>a, <3>3, <3>4, <3>5
    <3> QED
      BY <1>a, <2>3, <2>4, <3>5, <3>6
  <2>5. CASE ~(h = s /\ x = at[2] /\ v = at[1])
    <3>1. data'[h][x][v] = data[h][x][v]
      BY <1>d, <2>5
    <3> QED
      BY <2>3, <3>1
  <2> QED
    BY <2>4, <2>5
<1> QED
  BY <1>1, <1>2, <1>4, <1>5

(* A reading after the test fails, and the sample is lost. *)
LEMMA CellLost ==
    ASSUME TypeOK, CellsInv, at \in Test, at' = at, cut' = cut, data' = data,
           NEW s \in SensorSet, s \notin Quiet, failed' = failed \cup {<<s, "after", at>>},
           ~Done(s), \A h \in Graph : Done(h)' <=> Done(h) \/ h = s
    PROVE  CutBehind' /\ GapsBehind' /\ CellsCounted' /\ CellsOrdered'
<1>a. /\ at[1] \in VMs /\ at[2] \in Xs /\ at[3] \in 1 .. Retries /\ at[1] \in Nat /\ at[3] \in Nat
      /\ at = <<at[1], at[2], at[3]>> /\ Retries \in Nat /\ s \in Graph
  BY Place, Loops DEF Graph
<1>r. /\ Repetitions(s, at[2], at[1]) = at[3] - 1
      /\ \A h \in Graph, x \in Xs, v \in VMs : Repetitions(h, x, v)' =
            IF h = s /\ x = at[2] /\ v = at[1] THEN at[3] ELSE Repetitions(h, x, v)
  BY <1>a, RepetitionsInTest
<1>1. CutBehind'
  BY DEF CellsInv, CutBehind
<1>2. GapsBehind'
  <2> SUFFICES ASSUME NEW g \in SensorSet, NEW t \in Test, <<g, "after", t>> \in failed'
               PROVE  t[3] <= Repetitions(g, t[2], t[1])'
    BY DEF GapsBehind
  <2>1. /\ t[1] \in VMs /\ t[2] \in Xs /\ t[3] \in Nat /\ g \in Graph
    BY TestFields, Loops DEF Graph
  <2>2. CASE <<g, "after", t>> \in failed
    <3>1. t[3] <= Repetitions(g, t[2], t[1])
      BY <2>2 DEF CellsInv, GapsBehind
    <3> QED
      BY <1>a, <1>r, <2>1, <3>1
  <2>3. CASE g = s /\ t = at
    BY <1>a, <1>r, <2>1, <2>3
  <2> QED
    BY <2>2, <2>3
<1>3. CellsCounted'
  <2> SUFFICES ASSUME NEW h \in Graph, NEW x \in Xs, NEW v \in VMs, v \notin cut
               PROVE  Len(data[h][x][v]) = Repetitions(h, x, v)' - Lost(h, x, v)'
    BY DEF CellsCounted
  <2>1. Len(data[h][x][v]) = Repetitions(h, x, v) - Lost(h, x, v)
    BY DEF CellsInv, CellsCounted
  <2>2. IsFiniteSet(Gap(h, x, v)) /\ Cardinality(Gap(h, x, v)) \in Nat
    BY GapFinite
  <2>4. CASE h = s /\ x = at[2] /\ v = at[1]
    <3>1. at \notin Gap(h, x, v)
      <4>1. ~(at[3] <= at[3] - 1)
        BY <1>a
      <4> QED
        BY <1>r, <2>4, <4>1 DEF Gap, CellsInv, GapsBehind
    <3>2. Gap(h, x, v)' = Gap(h, x, v) \cup {at}
      BY <2>4 DEF Gap
    <3>3. Cardinality(Gap(h, x, v)') = Cardinality(Gap(h, x, v)) + 1
      BY <2>2, <3>1, <3>2, FS_AddElement
    <3> QED
      BY <1>a, <1>r, <2>1, <2>2, <2>4, <3>3 DEF Lost
  <2>5. CASE ~(h = s /\ x = at[2] /\ v = at[1])
    <3>1. Gap(h, x, v)' = Gap(h, x, v)
      BY <2>5 DEF Gap
    <3> QED
      BY <1>r, <2>1, <2>5, <3>1 DEF Lost
  <2> QED
    BY <2>4, <2>5
<1>4. CellsOrdered'
  BY GapsStay DEF CellsInv, CellsOrdered
<1> QED
  BY <1>1, <1>2, <1>3, <1>4

(* The loops of a VM are left: its cells are as long as they are. *)
LEMMA CellsCut ==
    ASSUME TypeOK, CellsInv, at \in Test, CutShort
    PROVE  CutBehind' /\ GapsBehind' /\ CellsCounted' /\ CellsOrdered'
<1>a. /\ at[1] \in VMs /\ at[1] \in Nat /\ Retries \in Nat
      /\ \A v \in VMs : v \in Nat
      /\ \A x \in Xs : x \in Nat /\ x >= 1
  BY Place, Loops DEF VMs, Xs
<1>b. /\ at' = <<at[1] + 1, 1, 1>> /\ phase' = "between" /\ data' = data /\ failed' = failed
      /\ cut' = cut \cup {at[1]}
  BY DEF CutShort, LoopsLeft, NextVM
<1>c. \A h : ~Done(h)'
  BY <1>b DEF Done
<1>d. \A h \in Graph, x \in Xs, v \in VMs :
        Repetitions(h, x, v)' = IF v <= at[1] THEN Retries ELSE 0
  BY <1>a, <1>b, <1>c DEF Repetitions
<1>e. \A h \in Graph, x \in Xs, v \in VMs : v # at[1] =>
        Repetitions(h, x, v) = IF v <= at[1] THEN Retries ELSE 0
  BY <1>a DEF Repetitions
<1>1. CutBehind'
  <2>1. \A v \in cut : v \in Nat /\ v < at[1]
    <3>1. cut \subseteq VMs
      BY DEF TypeOK
    <3> QED
      BY <1>a, <3>1 DEF CellsInv, CutBehind
  <2> QED
    BY <1>a, <1>b, <2>1 DEF CutBehind
<1>2. GapsBehind'
  <2> SUFFICES ASSUME NEW g \in SensorSet, NEW t \in Test, <<g, "after", t>> \in failed
               PROVE  t[3] <= Repetitions(g, t[2], t[1])'
    BY <1>b DEF GapsBehind
  <2>1. t[1] \in VMs /\ t[2] \in Xs /\ t[3] \in 1 .. Retries /\ g \in Graph
    BY TestFields DEF Graph
  <2>2. t[3] <= Repetitions(g, t[2], t[1])
    BY DEF CellsInv, GapsBehind
  <2> QED
    BY <1>a, <1>d, <1>e, <2>1, <2>2
<1>3. \A g, x, v : Gap(g, x, v)' = Gap(g, x, v)
  BY <1>b DEF Gap
<1>4. CellsCounted'
  <2> SUFFICES ASSUME NEW h \in Graph, NEW x \in Xs, NEW v \in VMs, v \notin cut, v # at[1]
               PROVE  Len(data[h][x][v]) = Repetitions(h, x, v)' - Lost(h, x, v)'
    BY <1>b DEF CellsCounted
  <2>1. Len(data[h][x][v]) = Repetitions(h, x, v) - Lost(h, x, v)
    BY DEF CellsInv, CellsCounted
  <2>2. Lost(h, x, v)' = Lost(h, x, v)
    BY <1>3 DEF Lost
  <2> QED
    BY <1>d, <1>e, <2>1, <2>2
<1>5. CellsOrdered'
  BY <1>b, <1>3 DEF CellsInv, CellsOrdered, Gapless
<1> QED
  BY <1>1, <1>2, <1>4, <1>5

-----------------------------------------------------------------------------
(* zip() pairs the k-th with the k-th. *)
LEMMA ZipFacts ==
    ASSUME NEW S, NEW s \in Seq(S), NEW t \in Seq(S), NEW k \in 1 .. Len(Zip(s, t))
    PROVE  k \in 1 .. Len(s) /\ k \in 1 .. Len(t) /\ Zip(s, t)[k] = <<s[k], t[k]>>
<1> DEFINE n == IF Len(s) <= Len(t) THEN Len(s) ELSE Len(t)
<1>1. n \in Nat /\ n <= Len(s) /\ n <= Len(t)
  OBVIOUS
<1> HIDE DEF n
<1>2. Zip(s, t) = [j \in 1 .. n |-> <<s[j], t[j]>>]
  BY DEF Zip, n
<1>3. Zip(s, t) \in Seq(S \X S) /\ DOMAIN Zip(s, t) = 1 .. n
  BY <1>2, ZipType
<1>4. Len(Zip(s, t)) = n
  BY <1>1, <1>3
<1> QED
  BY <1>1, <1>2, <1>4

(* Ratios are computed of cells in the order of the repetitions. *)
LEMMA AlignedRound ==
    ASSUME TypeOK, CellsOrdered, RatioPairsAligned, CreateGraphs
    PROVE  RatioPairsAligned'
<1>0. /\ failed' = failed
      /\ ratio' = [r \in Ratios |-> [x \in Xs |-> [v \in VMs |->
                    IF Reached(r, x, v) THEN CalcData(r, x, v) ELSE ratio[r][x][v]]]]
  BY DEF CreateGraphs
<1> SUFFICES ASSUME NEW r \in Ratios, NEW x \in Xs, NEW v \in VMs,
                    Gapless(r[1], x, v)', Gapless(r[2], x, v)',
                    NEW k \in 1 .. Len(ratio'[r][x][v])
             PROVE  ratio'[r][x][v][k][1].test = ratio'[r][x][v][k][2].test
  BY DEF RatioPairsAligned
<1> DEFINE old == ratio[r][x][v]
           s == data[r[1]][x][v]
           t == data[r[2]][x][v]
<1>1. Gapless(r[1], x, v) /\ Gapless(r[2], x, v)
  BY <1>0, GapsStay
<1>2. ratio'[r][x][v] = old \/ ratio'[r][x][v] = old \o Zip(s, t)
  BY <1>0 DEF CalcData
<1>3. \A j \in 1 .. Len(old) : old[j][1].test = old[j][2].test
  BY <1>1 DEF RatioPairsAligned
<1>4. r[1] \in Graph /\ r[2] \in Graph
  BY Loops
<1>5. s \in Seq(Sample) /\ t \in Seq(Sample) /\ old \in Seq(Sample \X Sample)
  BY <1>4, Place DEF TypeOK, Cells
<1>6. Zip(s, t) \in Seq(Sample \X Sample)
  BY <1>5, ZipType
<1>7. \A j \in 1 .. Len(Zip(s, t)) : Zip(s, t)[j][1].test = Zip(s, t)[j][2].test
  <2> SUFFICES ASSUME NEW j \in 1 .. Len(Zip(s, t))
               PROVE  Zip(s, t)[j][1].test = Zip(s, t)[j][2].test
    OBVIOUS
  <2>1. j \in 1 .. Len(s) /\ j \in 1 .. Len(t) /\ Zip(s, t)[j] = <<s[j], t[j]>>
    BY <1>5, ZipFacts
  <2>2. s[j].test = <<v, x, j>> /\ t[j].test = <<v, x, j>>
    BY <1>1, <1>4, <2>1 DEF CellsOrdered
  <2>3. Zip(s, t)[j][1] = s[j] /\ Zip(s, t)[j][2] = t[j]
    BY <2>1
  <2> QED
    BY <2>2, <2>3, Zenon
<1>8. CASE ratio'[r][x][v] = old
  BY <1>3, <1>8
<1>9. CASE ratio'[r][x][v] = old \o Zip(s, t)
  <2> HIDE DEF old, s, t
  <2> DEFINE z == Zip(s, t)
  <2>1. z \in Seq(Sample \X Sample)
    BY <1>6
  <2>2. k \in 1 .. Len(old) + Len(z)
    BY <1>5, <1>9, <2>1
  <2>3. CASE k <= Len(old)
    <3>1. k \in 1 .. Len(old) /\ ratio'[r][x][v][k] = old[k]
      BY <1>5, <1>9, <2>1, <2>2, <2>3
    <3> QED
      BY <1>3, <3>1
  <2>4. CASE ~(k <= Len(old))
    <3>1. k - Len(old) \in 1 .. Len(z) /\ ratio'[r][x][v][k] = z[k - Len(old)]
      BY <1>5, <1>9, <2>1, <2>2, <2>4
    <3> QED
      BY <1>7, <3>1
  <2> QED
    BY <2>3, <2>4
<1> QED
  BY <1>2, <1>8, <1>9

(* All other steps leave the ratios alone, and no failed reading is forgotten. *)
LEMMA AlignedKept ==
    ASSUME RatioPairsAligned, failed \subseteq failed', ratio' = ratio
    PROVE  RatioPairsAligned'
BY GapsStay DEF RatioPairsAligned

-----------------------------------------------------------------------------
(* Before the first test nothing is recorded, lost or cut. *)
LEMMA InitCells == ASSUME Init PROVE CellsInv
<1>0. /\ at = <<1, 1, 1>> /\ phase = "between" /\ failed = {} /\ cut = {}
      /\ data = [g \in Graph |-> [x \in Xs |-> [v \in VMs |-> <<>>]]]
      /\ ratio = [r \in Ratios |-> [x \in Xs |-> [v \in VMs |-> <<>>]]]
  BY DEF Init
<1>1. \A v \in VMs : v \in Nat /\ v >= 1
  BY Loops DEF VMs
<1>2. \A x \in Xs : x \in Nat /\ x >= 1
  BY Loops DEF Xs
<1>3. \A g \in Graph, x \in Xs, v \in VMs : Repetitions(g, x, v) = 0
  BY <1>0, <1>1, <1>2 DEF Repetitions, Done
<1>4. \A g \in Graph, x \in Xs, v \in VMs : data[g][x][v] = <<>> /\ Len(data[g][x][v]) = 0
  BY <1>0
<1>5. \A g \in Graph, x \in Xs, v \in VMs : Lost(g, x, v) = 0
  <2>1. \A g, x, v : Gapless(g, x, v)
    BY <1>0 DEF Gapless, Gap
  <2> QED
    BY <2>1, NothingLost
<1>6. CutBehind /\ GapsBehind
  BY <1>0 DEF CutBehind, GapsBehind
<1>7. CellsCounted
  BY <1>3, <1>4, <1>5 DEF CellsCounted
<1>8. CellsOrdered
  BY <1>4 DEF CellsOrdered
<1>9. RatioPairsAligned
  <2>1. \A r \in Ratios, x \in Xs, v \in VMs : ratio[r][x][v] = <<>> /\ Len(ratio[r][x][v]) = 0
    BY <1>0
  <2> QED
    BY <2>1 DEF RatioPairsAligned
<1> QED
  BY <1>6, <1>7, <1>8, <1>9 DEF CellsInv

(* Every step keeps what the loops leave in the cells. *)
LEMMA StepCells ==
    ASSUME IInv, CellsInv, [Next]_vars
    PROVE  CellsInv'
<1>0. /\ TypeOK /\ InTest /\ CellsOrdered /\ RatioPairsAligned
      /\ at[1] \in Nat /\ at[1] >= at[1]
  <2>1. TypeOK
    BY DEF IInv
  <2> QED
    BY <2>1, Place DEF IInv, CellsInv
<1> DEFINE Four == CutBehind' /\ GapsBehind' /\ CellsCounted' /\ CellsOrdered'
<1>1. ASSUME UNCHANGED <<data, cut, at>>, \A h \in Graph : Done(h)' <=> Done(h),
             \A g \in Graph, t \in Test :
                 <<g, "after", t>> \in failed' <=> <<g, "after", t>> \in failed
      PROVE  Four
  BY <1>0, <1>1, RepetitionsKept, CellsKept
<1>2. CASE BeginVM \/ Abort \/ UNCHANGED vars
  <2>1. UNCHANGED <<data, cut, at, failed, ratio>>
    BY <1>2 DEF BeginVM, Abort, vars
  <2>2. \A h \in Graph : Done(h)' <=> Done(h)
    BY <1>2 DEF BeginVM, Abort, vars, Done
  <2>3. RatioPairsAligned'
    BY <1>0, <2>1, AlignedKept
  <2> QED
    BY <1>1, <2>1, <2>2, <2>3 DEF CellsInv
<1>3. CASE TestFunc
  <2>1. /\ at \in Test /\ UNCHANGED <<at, cut, failed, ratio>>
        /\ phase = "before" /\ phase' = "after" /\ next' = 1
    BY <1>0, <1>3 DEF TestFunc, InTest
  <2>2. Record(Netperf, [test |-> at, from |-> at, to |-> at])
    BY <1>3 DEF TestFunc
  <2>3. [test |-> at, from |-> at, to |-> at] \in Sample /\ Netperf \in Graph
    BY <2>1 DEF Sample, Reading, Graph
  <2>4. \A h : ~Done(h) /\ (Done(h)' <=> h = Netperf)
    <3>1. 1 .. next' - 1 = {}
      BY <2>1
    <3> QED
      BY <2>1, <3>1 DEF Done
  <2>5. Four
    BY <1>0, <2>1, <2>2, <2>3, <2>4, CellRecorded
  <2> QED
    BY <1>0, <2>1, <2>5, AlignedKept DEF CellsInv
<1>4. ASSUME NEW s \in SensorSet, ReadBefore(s) \/ ReadBeforeFails(s)
      PROVE  CellsInv'
  <2>1. /\ UNCHANGED <<data, cut, at, ratio, phase>> /\ phase = "before"
        /\ failed' = failed \/ failed' = failed \cup {<<s, "before", at>>}
    BY <1>4 DEF ReadBefore, ReadBeforeFails, Turn, Fails
  <2>2. \A h \in Graph : Done(h)' <=> Done(h)
    BY <2>1 DEF Done
  <2>3. \A g \in Graph, t \in Test :
            <<g, "after", t>> \in failed' <=> <<g, "after", t>> \in failed
    BY <2>1
  <2>4. RatioPairsAligned'
    BY <1>0, <2>1, AlignedKept
  <2> QED
    BY <1>1, <2>1, <2>2, <2>3, <2>4 DEF CellsInv
<1>5. ASSUME NEW s \in SensorSet, ReadAfter(s) \/ ReadAfterFails(s)
      PROVE  CellsInv'
  <2>1. /\ Turn("after", s) /\ UNCHANGED <<at, cut, ratio, phase>> /\ phase = "after"
        /\ failed' = failed \/ failed' = failed \cup {<<s, "after", at>>}
    BY <1>5 DEF ReadAfter, ReadAfterFails, Turn, Fails
  <2>2. /\ at \in Test /\ s \in Graph /\ baseline[s] \in Reading
        /\ at \in Reading /\ Zeros \in Reading
    BY <1>0, <2>1 DEF InTest, Graph, TypeOK, Reading
  <2>3. ~Done(s) /\ \A h \in Graph : Done(h)' <=> Done(h) \/ h = s
    BY <1>0, <2>1, DoneInTurn
  <2>4. RatioPairsAligned'
    BY <1>0, <2>1, AlignedKept
  <2>5. ASSUME NEW r \in Reading, Record(s, [test |-> at, from |-> baseline[s], to |-> r]),
               failed' = failed \/ (s \in Quiet /\ failed' = failed \cup {<<s, "after", at>>})
        PROVE  Four
    <3>1. [test |-> at, from |-> baseline[s], to |-> r] \in Sample
      BY <2>2 DEF Sample
    <3> QED
      BY <1>0, <2>1, <2>2, <2>3, <2>5, <3>1, CellRecorded
  <2>6. ASSUME s \notin Quiet, data' = data, failed' = failed \cup {<<s, "after", at>>}
        PROVE  Four
    BY <1>0, <2>1, <2>2, <2>3, <2>6, CellLost
  <2>7. \/ \E r \in Reading :
              /\ Record(s, [test |-> at, from |-> baseline[s], to |-> r])
              /\ \/ failed' = failed
                 \/ s \in Quiet /\ failed' = failed \cup {<<s, "after", at>>}
        \/ s \notin Quiet /\ data' = data /\ failed' = failed \cup {<<s, "after", at>>}
    <3>1. CASE ReadAfter(s)
      BY <2>2, <3>1 DEF ReadAfter
    <3>2. CASE ReadAfterFails(s) /\ s \in Quiet
      BY <2>2, <3>2 DEF ReadAfterFails, Fails
    <3>3. CASE ReadAfterFails(s) /\ s \notin Quiet
      BY <3>3 DEF ReadAfterFails, Fails
    <3> QED
      BY <1>5, <3>1, <3>2, <3>3
  <2>8. Four
    BY <2>5, <2>6, <2>7
  <2> QED
    BY <2>4, <2>8 DEF CellsInv
<1>6. CASE NextTest
  <2>1. at \in Test /\ UNCHANGED <<data, cut, failed, ratio>>
    BY <1>0, <1>6 DEF NextTest, InTest
  <2>2. Four
    BY <1>0, <1>6, <2>1, RepetitionsNext, CellsKept
  <2> QED
    BY <1>0, <2>1, <2>2, AlignedKept DEF CellsInv
<1>7. CASE CutShort
  <2>1. at \in Test /\ UNCHANGED <<failed, ratio>>
    BY <1>0, <1>7 DEF CutShort, InTest
  <2>2. Four
    BY <1>0, <1>7, <2>1, CellsCut
  <2> QED
    BY <1>0, <2>1, <2>2, AlignedKept DEF CellsInv
<1>8. CASE CreateGraphs
  <2>1. /\ UNCHANGED <<data, cut, at, failed>> /\ phase # "after" /\ phase' # "after"
    BY <1>8 DEF CreateGraphs
  <2>2. \A h \in Graph : Done(h)' <=> Done(h)
    BY <2>1 DEF Done
  <2>3. RatioPairsAligned'
    BY <1>0, <1>8, AlignedRound
  <2> QED
    BY <1>1, <2>1, <2>2, <2>3 DEF CellsInv
<1> QED
  BY <1>2, <1>3, <1>4, <1>5, <1>6, <1>7, <1>8 DEF Next

(* CellsInv is inductive relative to IInv. *)
THEOREM CellsInvariance == Spec => []CellsInv
<1>1. Init => CellsInv
  BY InitCells
<1>2. IInv /\ CellsInv /\ [Next]_vars => CellsInv'
  BY StepCells
<1> QED BY <1>1, <1>2, Invariance, PTL DEF Spec

(***************************************************************************)
(* Test._run_vm: a cell of a VM that got through its loops has a sample of *)
(* every repetition, except for those a failed reading is noted of.        *)
(***************************************************************************)
THEOREM GapsAreNoted == Spec => []NoSilentGap
<1>1. TypeOK /\ CellsInv => NoSilentGap
  <2> SUFFICES ASSUME TypeOK, CellsInv, NEW v \in VMs \ cut, v < at[1],
                      NEW x \in Xs, NEW g \in Graph
               PROVE  Len(data[g][x][v]) =
                         Retries - (IF g \in Quiet THEN 0 ELSE Cardinality(Gap(g, x, v)))
    BY DEF NoSilentGap
  <2>1. Repetitions(g, x, v) = Retries
    BY DEF Repetitions
  <2> QED
    BY <2>1 DEF CellsInv, CellsCounted, Lost
<1> QED BY <1>1, TypeCorrect, CellsInvariance, PTL

(***************************************************************************)
(* RatioGraph._calc_data: both numbers of a pair are of one test, where no *)
(* reading failed, however the loops of this or another VM ended.          *)
(***************************************************************************)
THEOREM RatiosAligned == Spec => []RatioPairsAligned
<1>1. CellsInv => RatioPairsAligned
  BY DEF CellsInv
<1> QED BY <1>1, CellsInvariance, PTL

-----------------------------------------------------------------------------
(* What is done in the current test is all that is recorded, and all that fails. *)
LEMMA OnlyThisTest ==
    ASSUME IInv, [Next]_vars, NEW v \in VMs, v < at[1]
    PROVE  \A g \in Graph, y \in Xs : data'[g][y][v] = data[g][y][v] /\ Gap(g, y, v)' = Gap(g, y, v)
<1> SUFFICES ASSUME NEW g \in Graph, NEW y \in Xs
             PROVE  data'[g][y][v] = data[g][y][v] /\ Gap(g, y, v)' = Gap(g, y, v)
  OBVIOUS
<1>0. TypeOK /\ InTest
  BY DEF IInv
<1>1. /\ TypeOK /\ InTest /\ data \in Data /\ at[1] \in Nat /\ v \in Nat /\ v # at[1]
      /\ baseline \in [SensorSet -> Reading]
  <2>1. data \in Data /\ baseline \in [SensorSet -> Reading]
    BY <1>0 DEF TypeOK, Data
  <2>2. at[1] \in Nat
    BY <1>0, Place
  <2>3. v \in Nat
    BY Loops DEF VMs
  <2> QED
    BY <1>0, <2>1, <2>2, <2>3
<1>2. failed' = failed \/ \E s, p : failed' = failed \cup {<<s, p, at>>}
  BY DEF Next, BeginVM, Abort, TestFunc, NextTest, CutShort, CreateGraphs, ReadBefore,
         ReadBeforeFails, ReadAfter, ReadAfterFails, Fails, vars
<1>3. \A t : t[1] = v => (<<g, "after", t>> \in failed' <=> <<g, "after", t>> \in failed)
  BY <1>1, <1>2
<1>4. Gap(g, y, v)' = Gap(g, y, v)
  BY <1>3 DEF Gap
<1>5. \/ data' = data
      \/ at \in Test /\ \E h \in Graph, e \in Sample : Record(h, e)
  <2>1. CASE TestFunc
    <3>1. at \in Test
      BY <1>1, <2>1 DEF TestFunc, InTest
    <3>2. Netperf \in Graph /\ [test |-> at, from |-> at, to |-> at] \in Sample
      BY <3>1 DEF Graph, Sample, Reading
    <3> QED
      BY <2>1, <3>1, <3>2 DEF TestFunc
  <2>2. ASSUME NEW s \in SensorSet, ReadAfter(s) \/ ReadAfterFails(s)
        PROVE  data' = data \/ (at \in Test /\ \E h \in Graph, e \in Sample : Record(h, e))
    <3>1. at \in Test
      BY <1>1, <2>2 DEF ReadAfter, ReadAfterFails, Turn, InTest
    <3>2. s \in Graph /\ \A r \in Reading : [test |-> at, from |-> baseline[s], to |-> r] \in Sample
      BY <1>1, <3>1 DEF Graph, Sample
    <3>3. at \in Reading /\ Zeros \in Reading
      BY <3>1 DEF Reading
    <3> QED
      BY <2>2, <3>1, <3>2, <3>3 DEF ReadAfter, ReadAfterFails
  <2>3. Next => \/ TestFunc \/ UNCHANGED data
                \/ \E s \in SensorSet : ReadAfter(s) \/ ReadAfterFails(s)
    BY DEF Next, BeginVM, Abort, NextTest, CutShort, CreateGraphs, ReadBefore, ReadBeforeFails
  <2>4. CASE UNCHANGED vars
    BY <2>4 DEF vars
  <2> QED
    BY <2>1, <2>2, <2>3, <2>4
<1>6. CASE at \in Test /\ \E h \in Graph, e \in Sample : Record(h, e)
  <2>1. PICK h \in Graph, e \in Sample : Record(h, e)
    BY <1>6
  <2>2. data'[g][y][v] = IF g = h /\ y = at[2] /\ v = at[1]
                         THEN Append(data[g][y][v], e) ELSE data[g][y][v]
    BY <1>1, <1>6, <2>1, RecordEffect
  <2> QED
    BY <1>1, <1>4, <2>2
<1> QED
  BY <1>4, <1>5, <1>6

(* In the VM that is being measured the answers are the repetitions done. *)
LEMMA AnsweredSoFar ==
    ASSUME TypeOK, CellsInv, NEW v \in VMs, v \notin cut, NEW g \in Graph, NEW x \in Xs
    PROVE  Answered(g, x, v) = Repetitions(g, x, v)
<1>1. Len(data[g][x][v]) = Repetitions(g, x, v) - Lost(g, x, v)
  BY DEF CellsInv, CellsCounted
<1>2. Lost(g, x, v) \in Nat /\ Repetitions(g, x, v) \in Int
  BY GapFinite, Place, Loops DEF Lost, Repetitions
<1>3. Answered(g, x, v) = Len(data[g][x][v]) + Lost(g, x, v)
  BY DEF Answered, Lost
<1> QED
  BY <1>1, <1>2, <1>3

(***************************************************************************)
(* TestBase.run_vm: wherever an exception leaves the loops, between two    *)
(* sensors or within a test, the series of the VM are complete up to one   *)
(* x, end there at lengths that differ by one at most, and stay so.        *)
(***************************************************************************)
THEOREM CutSeries == Spec => []CutLeavesAPrefix
<1>1. Init => CutLeavesAPrefix
  BY DEF Init, CutLeavesAPrefix
<1>2. IInv /\ CellsInv /\ CutLeavesAPrefix /\ [Next]_vars => CutLeavesAPrefix'
  <2> SUFFICES ASSUME IInv, CellsInv, CutLeavesAPrefix, [Next]_vars, NEW v \in cut'
               PROVE  \E x \in Xs, n \in 0 .. Retries :
                         /\ Answered(Netperf, x, v)' = n
                         /\ \A g \in Graph :
                               /\ Answered(g, x, v)' \in {n - 1, n}
                               /\ \A y \in Xs : /\ y < x => Answered(g, y, v)' = Retries
                                                /\ x < y => Answered(g, y, v)' = 0
    BY DEF CutLeavesAPrefix
  <2>1. TypeOK /\ cut \subseteq VMs /\ Netperf \in Graph /\ CutBehind
    BY DEF IInv, TypeOK, Graph, CellsInv
  <2>2. CASE v \in cut
    <3>1. v \in VMs /\ v < at[1]
      BY <2>1, <2>2 DEF CutBehind
    <3>2. \A g \in Graph, y \in Xs : Answered(g, y, v)' = Answered(g, y, v)
      BY <3>1, OnlyThisTest DEF Answered
    <3>3. PICK x \in Xs, n \in 0 .. Retries :
                 /\ Answered(Netperf, x, v) = n
                 /\ \A g \in Graph : /\ Answered(g, x, v) \in {n - 1, n}
                                     /\ \A y \in Xs : /\ y < x => Answered(g, y, v) = Retries
                                                      /\ x < y => Answered(g, y, v) = 0
      BY <2>2 DEF CutLeavesAPrefix
    <3> QED
      BY <2>1, <3>2, <3>3
  <2>3. CASE v \notin cut
    <3>1. CutShort /\ v = at[1]
      BY <2>3 DEF Next, BeginVM, Abort, TestFunc, NextTest, CutShort, CreateGraphs, ReadBefore,
                  ReadBeforeFails, ReadAfter, ReadAfterFails, Turn, vars
    <3>2. at \in Test /\ data' = data /\ failed' = failed
      BY <3>1 DEF CutShort, IInv, InTest
    <3>3. /\ v \in VMs /\ at[2] \in Xs /\ at[3] \in 1 .. Retries /\ Retries \in Nat
          /\ v \in Nat /\ \A y \in Xs : y \in Nat
      BY <2>1, <3>1, <3>2, Place, Loops DEF VMs, Xs
    <3>4. \A g \in Graph, y \in Xs : Answered(g, y, v)' = Answered(g, y, v)
      BY <3>2 DEF Answered, Gap
    <3>5. \A g \in Graph, y \in Xs : Answered(g, y, v)' = Repetitions(g, y, v)
      BY <2>1, <2>3, <3>3, <3>4, AnsweredSoFar
    <3> DEFINE n == IF Done(Netperf) THEN at[3] ELSE at[3] - 1
    <3>6. n \in 0 .. Retries /\ \A g \in Graph : Done(g) => Done(Netperf)
      BY <3>3 DEF Done
    <3>7. /\ Repetitions(Netperf, at[2], v) = n
          /\ \A g \in Graph :
                /\ Repetitions(g, at[2], v) \in {n - 1, n}
                /\ \A y \in Xs : /\ y < at[2] => Repetitions(g, y, v) = Retries
                                 /\ at[2] < y => Repetitions(g, y, v) = 0
      BY <3>1, <3>3, <3>6 DEF Repetitions
    <3> HIDE DEF n
    <3> QED
      BY <2>1, <3>3, <3>5, <3>6, <3>7
  <2> QED
    BY <2>2, <2>3
<1> QED BY <1>1, <1>2, Invariance, CellsInvariance, PTL DEF Spec

-----------------------------------------------------------------------------
(* Where in a list of pairs the pair p is. *)
Places(pairs, p) == {k \in 1 .. Len(pairs) : pairs[k] = p}

(* The samples of a cell are of later and later repetitions. *)
CellsIncreasing ==
    \A g \in Graph, x \in Xs, v \in VMs : \A k \in 1 .. Len(data[g][x][v]) :
        /\ data[g][x][v][k].test[3] <= Repetitions(g, x, v)
        /\ \A j \in 1 .. k - 1 : data[g][x][v][j].test[3] < data[g][x][v][k].test[3]

(* Before the graphs are created there are no pairs. *)
NoPairsYet ==
    phase # "posted" => \A r \in Ratios, x \in Xs, v \in VMs : ratio[r][x][v] = <<>>

(* The pairs are those zip() makes of the samples, all equally often. *)
PairsOfZip ==
    \A r \in Ratios, x \in Xs, v \in VMs : \E n \in Nat :
        LET z == Zip(data[r[1]][x][v], data[r[2]][x][v])
        IN  /\ \A k \in 1 .. Len(ratio[r][x][v]) : \E j \in 1 .. Len(z) : ratio[r][x][v][k] = z[j]
            /\ \A j \in 1 .. Len(z) : Cardinality(Places(ratio[r][x][v], z[j])) = n

(* The inductive invariant for how often a pair counts. *)
WeightInv == CellsIncreasing /\ NoPairsYet /\ PairsOfZip

-----------------------------------------------------------------------------
(* The loops never fall back: no step takes a repetition away. *)
LEMMA RepetitionsGrow ==
    ASSUME IInv, [Next]_vars, NEW h \in Graph, NEW x \in Xs, NEW v \in VMs
    PROVE  /\ Repetitions(h, x, v) \in Nat /\ Repetitions(h, x, v)' \in Nat
           /\ Repetitions(h, x, v) <= Repetitions(h, x, v)'
<1>0. TypeOK /\ InTest /\ v \in Nat /\ x \in Nat /\ x >= 1 /\ Retries \in Nat
  BY Loops DEF IInv, VMs, Xs
<1>1. /\ at[1] \in Nat /\ at[2] \in Nat /\ at[3] \in Nat /\ at[3] >= 1 /\ at[3] <= Retries
  BY <1>0, Place, Loops DEF Xs
<1>2. Repetitions(h, x, v) \in Nat
  BY <1>0, <1>1 DEF Repetitions
<1>3. ASSUME at' = at, Done(h) => Done(h)'
      PROVE  /\ Repetitions(h, x, v)' \in Nat
             /\ Repetitions(h, x, v) <= Repetitions(h, x, v)'
  BY <1>0, <1>1, <1>3 DEF Repetitions
<1>4. CASE BeginVM \/ Abort \/ TestFunc \/ CreateGraphs \/ UNCHANGED vars
  <2>1. at' = at
    BY <1>4 DEF BeginVM, Abort, TestFunc, CreateGraphs, vars
  <2>2. Done(h) => Done(h)'
    BY <1>4 DEF BeginVM, Abort, TestFunc, CreateGraphs, vars, Done
  <2> QED
    BY <1>2, <1>3, <2>1, <2>2
<1>5. ASSUME NEW s \in SensorSet, ReadBefore(s) \/ ReadBeforeFails(s)
      PROVE  /\ Repetitions(h, x, v)' \in Nat
             /\ Repetitions(h, x, v) <= Repetitions(h, x, v)'
  BY <1>3, <1>5 DEF ReadBefore, ReadBeforeFails, Turn, Done
<1>6. ASSUME NEW s \in SensorSet, ReadAfter(s) \/ ReadAfterFails(s)
      PROVE  /\ Repetitions(h, x, v)' \in Nat
             /\ Repetitions(h, x, v) <= Repetitions(h, x, v)'
  <2>1. Turn("after", s) /\ at' = at
    BY <1>6 DEF ReadAfter, ReadAfterFails, Turn
  <2> QED
    BY <1>0, <1>3, <2>1, DoneInTurn
<1>7. CASE NextTest
  <2>1. at \in Test
    BY <1>0, <1>7 DEF NextTest, InTest
  <2> QED
    BY <1>0, <1>2, <1>7, <2>1, RepetitionsNext
<1>8. CASE CutShort
  <2>1. at' = <<at[1] + 1, 1, 1>> /\ phase' = "between"
    BY <1>8 DEF CutShort, LoopsLeft, NextVM
  <2>2. ~Done(h)'
    BY <2>1 DEF Done
  <2> QED
    BY <1>0, <1>1, <2>1, <2>2 DEF Repetitions
<1> QED
  BY <1>2, <1>4, <1>5, <1>6, <1>7, <1>8 DEF Next

(* The repetition of a sample is a number. *)
LEMMA SampleRepetition ==
    ASSUME TypeOK, NEW g \in Graph, NEW x \in Xs, NEW v \in VMs
    PROVE  /\ data[g][x][v] \in Seq(Sample)
           /\ \A k \in 1 .. Len(data[g][x][v]) : data[g][x][v][k].test[3] \in Nat
<1>1. \A t \in Test : t[3] \in Nat
  BY TestFields, Loops
<1>2. data[g][x][v] \in Seq(Sample)
  BY Place
<1>3. \A k \in 1 .. Len(data[g][x][v]) : data[g][x][v][k].test \in Test
  <2>1. \A k \in 1 .. Len(data[g][x][v]) : data[g][x][v][k] \in Sample
    BY <1>2
  <2> QED
    BY <2>1 DEF Sample
<1> QED
  BY <1>1, <1>2, <1>3

(* A new sample is of a later repetition than those its cell has. *)
LEMMA IncreasingRecorded ==
    ASSUME IInv, CellsIncreasing, [Next]_vars, at \in Test, at' = at,
           NEW s \in Graph, NEW e \in Sample, e.test = at, Record(s, e),
           ~Done(s), \A h \in Graph : Done(h)' <=> Done(h) \/ h = s
    PROVE  CellsIncreasing'
<1>0. TypeOK /\ data \in Data
  BY DEF IInv, TypeOK, Data
<1>a. at[1] \in VMs /\ at[2] \in Xs /\ at[3] \in Nat
  BY <1>0, Place, Loops
<1>r. /\ Repetitions(s, at[2], at[1]) = at[3] - 1
      /\ Repetitions(s, at[2], at[1])' = at[3]
  BY <1>0, <1>a, RepetitionsInTest
<1>d. \A h \in Graph, x \in Xs, v \in VMs :
            data'[h][x][v] = IF h = s /\ x = at[2] /\ v = at[1]
                             THEN Append(data[h][x][v], e) ELSE data[h][x][v]
  BY <1>0, RecordEffect
<1> SUFFICES ASSUME NEW h \in Graph, NEW x \in Xs, NEW v \in VMs,
                    NEW k \in 1 .. Len(data'[h][x][v])
             PROVE  /\ data'[h][x][v][k].test[3] <= Repetitions(h, x, v)'
                    /\ \A j \in 1 .. k - 1 :
                         data'[h][x][v][j].test[3] < data'[h][x][v][k].test[3]
  BY DEF CellsIncreasing
<1> DEFINE old == data[h][x][v]
           new == data'[h][x][v]
           before == Repetitions(h, x, v)
           after == Repetitions(h, x, v)'
<1>1. old \in Seq(Sample) /\ \A j \in 1 .. Len(old) : old[j].test[3] \in Nat
  BY <1>0, SampleRepetition
<1>2. \A j \in 1 .. Len(old) :
        old[j].test[3] <= before /\ \A i \in 1 .. j - 1 : old[i].test[3] < old[j].test[3]
  BY DEF CellsIncreasing
<1>3. before \in Nat /\ after \in Nat /\ before <= after
  BY RepetitionsGrow
<1>4. CASE h = s /\ x = at[2] /\ v = at[1]
  <2>1. new = Append(old, e) /\ before = at[3] - 1 /\ after = at[3] /\ e.test[3] = at[3]
    BY <1>d, <1>r, <1>4
  <2> HIDE DEF old, new, before, after
  <2>2. /\ Len(old) \in Nat /\ Len(new) = Len(old) + 1
        /\ \A j \in 1 .. Len(old) : new[j] = old[j]
        /\ new[Len(old) + 1] = e
    BY <1>1, <2>1
  <2>3. \A j \in 1 .. Len(old) : new[j].test[3] \in Nat /\ new[j].test[3] < at[3]
    BY <1>1, <1>2, <1>a, <2>1, <2>2
  <2>4. k \in 1 .. Len(old) + 1
    BY <2>2 DEF new
  <2>5. CASE k \in 1 .. Len(old)
    <3>1. \A j \in 1 .. k - 1 : j \in 1 .. Len(old)
      BY <2>2, <2>5
    <3>2. new[k].test[3] <= after
      BY <1>a, <2>1, <2>3, <2>5
    <3>3. \A j \in 1 .. k - 1 : new[j].test[3] < new[k].test[3]
      BY <1>2, <2>2, <2>5, <3>1
    <3> QED
      BY <3>2, <3>3 DEF new, after
  <2>6. CASE k = Len(old) + 1
    <3>1. \A j \in 1 .. k - 1 : j \in 1 .. Len(old)
      BY <2>2, <2>6
    <3>2. new[k].test[3] = at[3]
      BY <2>1, <2>2, <2>6
    <3>3. new[k].test[3] <= after
      BY <1>a, <2>1, <3>2
    <3>4. \A j \in 1 .. k - 1 : new[j].test[3] < new[k].test[3]
      BY <2>3, <3>1, <3>2
    <3> QED
      BY <3>3, <3>4 DEF new, after
  <2> QED
    BY <2>2, <2>4, <2>5, <2>6
<1>5. CASE ~(h = s /\ x = at[2] /\ v = at[1])
  <2>1. new = old
    BY <1>d, <1>5
  <2> HIDE DEF old, before, after
  <2>2. k \in 1 .. Len(old) /\ old[k].test[3] \in Nat /\ old[k].test[3] <= before
    BY <1>1, <1>2, <2>1
  <2>3. old[k].test[3] <= after
    BY <1>3, <2>2
  <2> QED
    BY <1>2, <2>1, <2>2, <2>3 DEF after
<1> QED
  BY <1>4, <1>5

(* Steps that record nothing keep the order of the samples. *)
LEMMA IncreasingKept ==
    ASSUME IInv, CellsIncreasing, [Next]_vars, data' = data
    PROVE  CellsIncreasing'
<1> SUFFICES ASSUME NEW h \in Graph, NEW x \in Xs, NEW v \in VMs,
                    NEW k \in 1 .. Len(data[h][x][v])
             PROVE  data[h][x][v][k].test[3] <= Repetitions(h, x, v)'
  BY DEF CellsIncreasing
<1>2. data[h][x][v][k].test[3] \in Nat
  BY SampleRepetition DEF IInv
<1>3. data[h][x][v][k].test[3] <= Repetitions(h, x, v)
  BY DEF CellsIncreasing
<1> QED
  BY <1>2, <1>3, RepetitionsGrow

(* zip() of two cells never makes the same pair twice. *)
LEMMA PairsDistinct ==
    ASSUME TypeOK, CellsIncreasing, NEW g \in Graph, NEW h \in Graph, NEW x \in Xs, NEW v \in VMs,
           NEW j \in 1 .. Len(Zip(data[g][x][v], data[h][x][v])),
           NEW k \in 1 .. Len(Zip(data[g][x][v], data[h][x][v])),
           Zip(data[g][x][v], data[h][x][v])[j] = Zip(data[g][x][v], data[h][x][v])[k]
    PROVE  j = k
<1> DEFINE s == data[g][x][v]
           t == data[h][x][v]
<1>1. s \in Seq(Sample) /\ t \in Seq(Sample)
  BY Place
<1>2. /\ j \in 1 .. Len(s) /\ k \in 1 .. Len(s)
      /\ Zip(s, t)[j] = <<s[j], t[j]>> /\ Zip(s, t)[k] = <<s[k], t[k]>>
  BY <1>1, ZipFacts
<1>3. Zip(s, t)[j] = Zip(s, t)[k]
  OBVIOUS
<1>4. \A i \in 1 .. Len(s) : s[i].test[3] \in Nat
  BY SampleRepetition
<1>5. \A i \in 1 .. Len(s) : \A l \in 1 .. i - 1 : s[l].test[3] < s[i].test[3]
  BY DEF CellsIncreasing
<1> HIDE DEF s, t
<1>6. s[j] = s[k]
  BY <1>2, <1>3
<1>7. ~(j \in 1 .. k - 1) /\ ~(k \in 1 .. j - 1)
  BY <1>2, <1>4, <1>5, <1>6
<1> QED
  BY <1>2, <1>7

(* Adding a list of distinct pairs adds one place for each of them. *)
LEMMA PlacesAdded ==
    ASSUME NEW S, NEW s \in Seq(S), NEW z \in Seq(S), NEW j \in 1 .. Len(z),
           \A k \in 1 .. Len(z) : z[k] = z[j] => k = j
    PROVE  /\ Cardinality(Places(s, z[j])) \in Nat
           /\ Cardinality(Places(s \o z, z[j])) = Cardinality(Places(s, z[j])) + 1
<1>1. /\ s \o z \in Seq(S) /\ Len(s \o z) = Len(s) + Len(z) /\ Len(s) \in Nat /\ Len(z) \in Nat
      /\ \A k \in 1 .. Len(s) : (s \o z)[k] = s[k]
      /\ \A k \in Len(s) + 1 .. Len(s) + Len(z) : (s \o z)[k] = z[k - Len(s)]
  OBVIOUS
<1>2. IsFiniteSet(Places(s, z[j]))
  <2>1. IsFiniteSet(1 .. Len(s))
    BY <1>1, FS_Interval
  <2>2. Places(s, z[j]) \subseteq 1 .. Len(s)
    BY DEF Places
  <2> QED
    BY <2>1, <2>2, FS_Subset
<1>3. Places(s \o z, z[j]) = Places(s, z[j]) \cup {Len(s) + j}
  <2>1. ASSUME NEW k \in Places(s \o z, z[j])
        PROVE  k \in Places(s, z[j]) \cup {Len(s) + j}
    <3>1. k \in 1 .. Len(s) + Len(z) /\ (s \o z)[k] = z[j]
      BY <1>1, <2>1 DEF Places
    <3>2. CASE k \in 1 .. Len(s)
      BY <1>1, <3>1, <3>2 DEF Places
    <3>3. CASE k \in Len(s) + 1 .. Len(s) + Len(z)
      <4>1. k - Len(s) \in 1 .. Len(z) /\ z[k - Len(s)] = z[j]
        BY <1>1, <3>1, <3>3
      <4>2. k - Len(s) = j
        BY <4>1
      <4> QED
        BY <1>1, <3>3, <4>2
    <3> QED
      BY <1>1, <3>1, <3>2, <3>3
  <2>2. ASSUME NEW k \in Places(s, z[j])
        PROVE  k \in Places(s \o z, z[j])
    BY <1>1, <2>2 DEF Places
  <2>3. Len(s) + j \in Places(s \o z, z[j])
    <3>1. Len(s) + j \in Len(s) + 1 .. Len(s) + Len(z) /\ (Len(s) + j) - Len(s) = j
      BY <1>1
    <3>2. (s \o z)[Len(s) + j] = z[j]
      BY <1>1, <3>1
    <3> QED
      BY <1>1, <3>1, <3>2 DEF Places
  <2> QED
    BY <2>1, <2>2, <2>3
<1>4. Len(s) + j \notin Places(s, z[j])
  BY <1>1 DEF Places
<1> QED
  BY <1>2, <1>3, <1>4, FS_AddElement, FS_CardinalityType

(* An empty list of pairs is one of zip's pairs, none of them once. *)
LEMMA NoPlaces ==
    ASSUME NEW p
    PROVE  Len(<<>>) = 0 /\ Cardinality(Places(<<>>, p)) = 0
<1>1. Places(<<>>, p) = {}
  BY DEF Places
<1> QED
  BY <1>1, FS_EmptySet

(* What PairsOfZip says of one cell. *)
Weighed(pairs, z, n) ==
    /\ \A k \in 1 .. Len(pairs) : \E j \in 1 .. Len(z) : pairs[k] = z[j]
    /\ \A j \in 1 .. Len(z) : Cardinality(Places(pairs, z[j])) = n

(* Adding all pairs once more. *)
LEMMA WeighedMore ==
    ASSUME NEW S, NEW s \in Seq(S), NEW z \in Seq(S), NEW n \in Nat, Weighed(s, z, n),
           \A j, k \in 1 .. Len(z) : z[j] = z[k] => j = k
    PROVE  Weighed(s \o z, z, n + 1)
<1>1. /\ Len(s \o z) = Len(s) + Len(z) /\ Len(s) \in Nat /\ Len(z) \in Nat
      /\ \A k \in 1 .. Len(s) : (s \o z)[k] = s[k]
      /\ \A k \in Len(s) + 1 .. Len(s) + Len(z) : (s \o z)[k] = z[k - Len(s)]
  OBVIOUS
<1>2. ASSUME NEW k \in 1 .. Len(s \o z)
      PROVE  \E j \in 1 .. Len(z) : (s \o z)[k] = z[j]
  <2>1. CASE k \in 1 .. Len(s)
    BY <1>1, <2>1 DEF Weighed
  <2>2. CASE k \in Len(s) + 1 .. Len(s) + Len(z)
    <3>1. k - Len(s) \in 1 .. Len(z)
      BY <1>1, <2>2
    <3> QED
      BY <1>1, <2>2, <3>1
  <2> QED
    BY <1>1, <1>2, <2>1, <2>2
<1>3. ASSUME NEW j \in 1 .. Len(z)
      PROVE  Cardinality(Places(s \o z, z[j])) = n + 1
  <2>1. \A k \in 1 .. Len(z) : z[k] = z[j] => k = j
    OBVIOUS
  <2>2. Cardinality(Places(s \o z, z[j])) = Cardinality(Places(s, z[j])) + 1
    BY <2>1, PlacesAdded
  <2>3. Cardinality(Places(s, z[j])) = n
    BY DEF Weighed
  <2> QED
    BY <2>2, <2>3
<1> QED
  BY <1>2, <1>3 DEF Weighed

(* Creating the graphs adds all pairs of a cell, or none. *)
LEMMA WeightRound ==
    ASSUME TypeOK, CellsIncreasing, PairsOfZip, CreateGraphs
    PROVE  PairsOfZip'
<1>0. /\ data' = data
      /\ ratio' = [r \in Ratios |-> [x \in Xs |-> [v \in VMs |->
                    IF Reached(r, x, v) THEN CalcData(r, x, v) ELSE ratio[r][x][v]]]]
  BY DEF CreateGraphs
<1> SUFFICES ASSUME NEW r \in Ratios, NEW x \in Xs, NEW v \in VMs
             PROVE  \E n \in Nat :
                      Weighed(ratio'[r][x][v], Zip(data[r[1]][x][v], data[r[2]][x][v])', n)
  BY DEF PairsOfZip, Weighed
<1> DEFINE old == ratio[r][x][v]
           new == ratio'[r][x][v]
           z == Zip(data[r[1]][x][v], data[r[2]][x][v])
<1>1. PICK n \in Nat : Weighed(old, z, n)
  BY Zenon DEF PairsOfZip, Weighed
<1>2. new = old \/ new = old \o z
  BY <1>0 DEF CalcData
<1>3. r[1] \in Graph /\ r[2] \in Graph
  BY Loops
<1>4. old \in Seq(Sample \X Sample) /\ z \in Seq(Sample \X Sample)
  <2>1. data[r[1]][x][v] \in Seq(Sample) /\ data[r[2]][x][v] \in Seq(Sample)
    BY <1>3, Place
  <2>2. old \in Seq(Sample \X Sample)
    BY DEF TypeOK, Cells
  <2> QED
    BY <2>1, <2>2, ZipType
<1>5. \A j, k \in 1 .. Len(z) : z[j] = z[k] => j = k
  BY <1>3, PairsDistinct
<1> HIDE DEF old, new, z
<1>6. Weighed(old \o z, z, n + 1)
  BY <1>1, <1>4, <1>5, WeighedMore
<1>7. \E m \in Nat : Weighed(new, z, m)
  <2>1. n + 1 \in Nat
    OBVIOUS
  <2> QED
    BY <1>1, <1>2, <1>6, <2>1, Zenon
<1>8. Zip(data[r[1]][x][v], data[r[2]][x][v])' = z
  BY <1>0 DEF z
<1> QED
  BY <1>7, <1>8 DEF new

(* As long as there are no pairs, none weighs more than another. *)
LEMMA NoPairsWeigh ==
    ASSUME \A r \in Ratios, x \in Xs, v \in VMs : ratio[r][x][v] = <<>>
    PROVE  PairsOfZip
<1> SUFFICES ASSUME NEW r \in Ratios, NEW x \in Xs, NEW v \in VMs
             PROVE  Weighed(ratio[r][x][v], Zip(data[r[1]][x][v], data[r[2]][x][v]), 0)
  BY DEF PairsOfZip, Weighed
<1> QED
  BY NoPlaces DEF Weighed

(* Before the first test there are no samples and no pairs. *)
LEMMA InitWeight == ASSUME Init PROVE WeightInv
<1>1. /\ \A r \in Ratios, x \in Xs, v \in VMs : ratio[r][x][v] = <<>>
      /\ \A g \in Graph, x \in Xs, v \in VMs : data[g][x][v] = <<>> /\ Len(data[g][x][v]) = 0
  BY DEF Init
<1>2. CellsIncreasing
  BY <1>1 DEF CellsIncreasing
<1> QED
  BY <1>1, <1>2, NoPairsWeigh DEF WeightInv, NoPairsYet

(* Every step keeps the samples in order and the pairs equally often. *)
LEMMA StepWeight ==
    ASSUME IInv, WeightInv, [Next]_vars
    PROVE  WeightInv'
<1>0. /\ TypeOK /\ InTest /\ CellsIncreasing /\ NoPairsYet /\ PairsOfZip
  BY DEF IInv, WeightInv
<1>1. CellsIncreasing'
  <2>1. CASE data' = data
    BY <1>0, <2>1, IncreasingKept
  <2>2. CASE TestFunc
    <3>1. /\ at \in Test /\ at' = at /\ phase = "before" /\ phase' = "after" /\ next' = 1
          /\ Record(Netperf, [test |-> at, from |-> at, to |-> at])
      BY <1>0, <2>2 DEF TestFunc, InTest
    <3>2. [test |-> at, from |-> at, to |-> at] \in Sample /\ Netperf \in Graph
      BY <3>1 DEF Sample, Reading, Graph
    <3>3. \A h : ~Done(h) /\ (Done(h)' <=> h = Netperf)
      <4>1. 1 .. next' - 1 = {}
        BY <3>1
      <4> QED
        BY <3>1, <4>1 DEF Done
    <3> QED
      BY <1>0, <3>1, <3>2, <3>3, IncreasingRecorded
  <2>3. ASSUME NEW s \in SensorSet, NEW r \in Reading, Turn("after", s),
               Record(s, [test |-> at, from |-> baseline[s], to |-> r])
        PROVE  CellsIncreasing'
    <3>1. /\ at \in Test /\ at' = at /\ s \in Graph /\ baseline[s] \in Reading
      BY <1>0, <2>3 DEF InTest, Graph, TypeOK, Turn
    <3>2. ~Done(s) /\ \A h \in Graph : Done(h)' <=> Done(h) \/ h = s
      BY <1>0, <2>3, DoneInTurn
    <3>3. [test |-> at, from |-> baseline[s], to |-> r] \in Sample
      BY <3>1 DEF Sample
    <3> QED
      BY <1>0, <2>3, <3>1, <3>2, <3>3, IncreasingRecorded
  <2>4. \/ data' = data \/ TestFunc
        \/ \E s \in SensorSet, r \in Reading :
             Turn("after", s) /\ Record(s, [test |-> at, from |-> baseline[s], to |-> r])
    <3>1. ASSUME NEW s \in SensorSet, ReadAfter(s) \/ ReadAfterFails(s)
          PROVE  \/ data' = data
                 \/ \E r \in Reading :
                      Turn("after", s) /\ Record(s, [test |-> at, from |-> baseline[s], to |-> r])
      <4>1. Turn("after", s)
        BY <3>1 DEF ReadAfter, ReadAfterFails
      <4>2. at \in Reading /\ Zeros \in Reading
        BY <1>0, <4>1 DEF InTest, Turn, Reading
      <4> QED
        BY <3>1, <4>1, <4>2 DEF ReadAfter, ReadAfterFails
    <3> QED
      BY <3>1 DEF Next, BeginVM, Abort, NextTest, CutShort, CreateGraphs, ReadBefore,
                  ReadBeforeFails, vars
  <2> QED
    BY <2>1, <2>2, <2>3, <2>4
<1>2. CASE CreateGraphs
  <2>1. PairsOfZip' /\ phase' = "posted"
    BY <1>0, <1>2, WeightRound DEF CreateGraphs
  <2> QED
    BY <1>1, <2>1 DEF WeightInv, NoPairsYet
<1>3. CASE UNCHANGED vars
  BY <1>0, <1>1, <1>3 DEF WeightInv, NoPairsYet, PairsOfZip, vars
<1>4. CASE Next /\ ~CreateGraphs
  <2>1. phase # "posted" /\ phase' # "posted" /\ ratio' = ratio
    BY <1>4 DEF Next, BeginVM, Abort, TestFunc, NextTest, CutShort, ReadBefore, ReadBeforeFails,
                ReadAfter, ReadAfterFails, Turn, LoopsLeft
  <2>2. \A r \in Ratios, x \in Xs, v \in VMs : ratio'[r][x][v] = <<>>
    BY <1>0, <2>1 DEF NoPairsYet
  <2>3. PairsOfZip'
    <3> SUFFICES ASSUME NEW r \in Ratios, NEW x \in Xs, NEW v \in VMs
                 PROVE  Weighed(ratio'[r][x][v], Zip(data[r[1]][x][v], data[r[2]][x][v])', 0)
      BY DEF PairsOfZip, Weighed
    <3> QED
      BY <2>2, NoPlaces DEF Weighed
  <2> QED
    BY <1>1, <2>2, <2>3 DEF WeightInv, NoPairsYet
<1> QED
  BY <1>2, <1>3, <1>4

(***************************************************************************)
(* The graphs are created once for post_run and again for every subset of  *)
(* the VMs, each time adding to the same RatioGraph: the pairs of a cell   *)
(* nevertheless count equally often, as no sample comes in between.        *)
(***************************************************************************)
THEOREM PairsWeighEqually == Spec => []RatioWeighsPairsEqually
<1>1. Init => WeightInv
  BY InitWeight
<1>2. IInv /\ WeightInv /\ [Next]_vars => WeightInv'
  BY StepWeight
<1>3. WeightInv => RatioWeighsPairsEqually
  <2> SUFFICES ASSUME WeightInv, NEW r \in Ratios, NEW x \in Xs, NEW v \in VMs,
                      NEW j \in 1 .. Len(ratio[r][x][v]), NEW k \in 1 .. Len(ratio[r][x][v])
               PROVE  Cardinality(Places(ratio[r][x][v], ratio[r][x][v][j]))
                        = Cardinality(Places(ratio[r][x][v], ratio[r][x][v][k]))
    BY DEF RatioWeighsPairsEqually, Places
  <2> DEFINE pairs == ratio[r][x][v]
             z == Zip(data[r[1]][x][v], data[r[2]][x][v])
  <2>1. PICK n \in Nat : Weighed(pairs, z, n)
    BY Zenon DEF WeightInv, PairsOfZip, Weighed
  <2> HIDE DEF pairs, z
  <2>2. (\E i \in 1 .. Len(z) : pairs[j] = z[i]) /\ (\E i \in 1 .. Len(z) : pairs[k] = z[i])
    BY <2>1 DEF Weighed, pairs
  <2>3. Cardinality(Places(pairs, pairs[j])) = n /\ Cardinality(Places(pairs, pairs[k])) = n
    BY <2>1, <2>2 DEF Weighed
  <2> QED
    BY <2>3 DEF pairs
<1> QED BY <1>1, <1>2, <1>3, Invariance, PTL DEF Spec
=============================================================================
