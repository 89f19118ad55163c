----------------------------- MODULE Measurement -----------------------------
(***************************************************************************)
(* The measurements of one session: the three loops of TestBase.run_vm     *)
(* (utils/test_base.py), the sensors they call (utils/sensors.py,          *)
(* sensors/), the samples the graphs collect and the ratios derived from   *)
(* them (utils/graphs.py).  TestRun models what happens to the VM and the  *)
(* host meanwhile: all of the loops is its stage "test".                   *)
(*                                                                         *)
(* A test is one call of test_func, named by its position in the loops,    *)
(* <<vm, x, repetition>>.  A reading is named by the test it was taken     *)
(* for, and a sample by the readings it was computed from, so that what a  *)
(* sample is a measurement of can be told.                                 *)
(***************************************************************************)
EXTENDS Naturals, Sequences, FiniteSets

CONSTANTS
    VmNum,          \* the enabled VMs are run in the order 1 .. VmNum
    XNum,           \* the number of _x_categories
    Retries,        \* the repetitions of each test
    Sensors,        \* the SensorBeforeAfter among _sensors, in their order
    Quiet,          \* those of them that answer zeros instead of raising
    Netperf,        \* the graph test_func itself adds its result to
    Ratios,         \* RatioGraphs: pairs <<graph1, graph2>>
    MaxFaults,      \* bound: failed readings in a session
    MaxRounds       \* bound: calls of create_sensor_graphs

SensorSet == {Sensors[k] : k \in 1 .. Len(Sensors)}
Graph     == SensorSet \cup {Netperf}

ASSUME MeasurementAssumption ==
    /\ VmNum \in Nat /\ XNum \in Nat \ {0} /\ Retries \in Nat \ {0}
    /\ Sensors \in Seq(SensorSet)
    /\ \A j, k \in 1 .. Len(Sensors) : Sensors[j] = Sensors[k] => j = k
    /\ Quiet \subseteq SensorSet
    /\ Netperf \notin SensorSet
    /\ Ratios \subseteq Graph \X Graph
    /\ MaxFaults \in Nat /\ MaxRounds \in Nat

VARIABLES
    phase,          \* where run() is: between VMs, or in a loop over the sensors
    at,             \* the test being run
    next,           \* the position in the loop over the sensors
    baseline,       \* SensorBeforeAfter._value_before of each sensor
    data,           \* GraphBase.data: the samples of each graph, x and VM
    failed,         \* the readings that failed; all but those of Quiet are logged
    cut,            \* the VMs whose loops were left by an exception
    ratio,          \* the pairs a RatioGraph's data was computed from
    rounds          \* the calls of create_sensor_graphs so far

vars == <<phase, at, next, baseline, data, failed, cut, ratio, rounds>>

VMs  == 1 .. VmNum
Xs   == 1 .. XNum
Test == VMs \X Xs \X (1 .. Retries)

Never   == <<0, 0, 0>>      \* _value_before as the constructor left it
Zeros   == <<0, 0, 1>>      \* the dictionary of zeros of QemuBatchQmpSensor
Reading == Test \cup {Never, Zeros}
Sample  == [test : Test, from : Reading, to : Reading]

Cells(S) == [Xs -> [VMs -> S]]

TypeOK ==
    /\ phase \in {"between", "before", "after", "posted", "aborted"}
    /\ at \in Test \cup {<<VmNum + 1, 1, 1>>}
    /\ next \in 1 .. Len(Sensors) + 1
    /\ baseline \in [SensorSet -> Reading]
    /\ data \in [Graph -> Cells(Seq(Sample))]
    /\ failed \subseteq SensorSet \X {"before", "after"} \X Test
    /\ cut \subseteq VMs
    /\ ratio \in [Ratios -> Cells(Seq(Sample \X Sample))]
    /\ rounds \in 0 .. MaxRounds

Init ==
    /\ phase = "between"
    /\ at = <<1, 1, 1>>
    /\ next = 1
    /\ baseline = [s \in SensorSet |-> Never]
    /\ data = [g \in Graph |-> [x \in Xs |-> [v \in VMs |-> <<>>]]]
    /\ failed = {}
    /\ cut = {}
    /\ ratio = [r \in Ratios |-> [x \in Xs |-> [v \in VMs |-> <<>>]]]
    /\ rounds = 0

-----------------------------------------------------------------------------
AddData(series, sample) == Append(series, sample)

(* graph.add_data(vm_name, x_value, ...) in the current test. *)
Record(g, sample) ==
    data' = [data EXCEPT ![g][at[2]][at[1]] = AddData(@, sample)]

(* setup() and run() of the next VM have succeeded. *)
BeginVM ==
    /\ phase = "between"
    /\ at[1] <= VmNum
    /\ phase' = "before"
    /\ next' = 1
    /\ UNCHANGED <<at, baseline, data, failed, cut, ratio, rounds>>

(* setup(), run() or teardown() raises: run() is left, post_run not reached. *)
Abort ==
    /\ phase = "between"
    /\ phase' = "aborted"
    /\ UNCHANGED <<at, next, baseline, data, failed, cut, ratio, rounds>>

(* The sensor whose turn it is, in the loop p. *)
Turn(p, s) ==
    /\ phase = p
    /\ next <= Len(Sensors)
    /\ s = Sensors[next]
    /\ next' = next + 1
    /\ UNCHANGED <<phase, at, cut, ratio, rounds>>

Fails(s, p) ==
    /\ Cardinality(failed) < MaxFaults
    /\ failed' = failed \cup {<<s, p, at>>}

ReadBefore(s) ==
    /\ Turn("before", s)
    /\ baseline' = [baseline EXCEPT ![s] = at]
    /\ UNCHANGED <<data, failed>>

(* test_before raises, and _value_before stays as it is; a Quiet sensor    *)
(* catches the exception itself and reads zeros.                           *)
BaselineKept(s)        == baseline[s]   \* mutant: a Quiet one keeps its value too
BaselineAfterFailed(s) == IF s \in Quiet THEN Zeros ELSE baseline[s]

ReadBeforeFails(s) ==
    /\ Turn("before", s)
    /\ Fails(s, "before")
    /\ baseline' = [baseline EXCEPT ![s] = BaselineAfterFailed(s)]
    /\ UNCHANGED data

(* test_func: netperf succeeds and its result is recorded. *)
TestFunc ==
    /\ phase = "before"
    /\ next = Len(Sensors) + 1
    /\ Record(Netperf, [test |-> at, from |-> at, to |-> at])
    /\ phase' = "after"
    /\ next' = 1
    /\ UNCHANGED <<at, baseline, failed, cut, ratio, rounds>>

ReadAfter(s) ==
    /\ Turn("after", s)
    /\ Record(s, [test |-> at, from |-> baseline[s], to |-> at])
    /\ UNCHANGED <<baseline, failed>>

(* test_after raises before add_data, in _get_value or in _delta. *)
ReadAfterFails(s) ==
    /\ Turn("after", s)
    /\ Fails(s, "after")
    /\ IF s \in Quiet
       THEN Record(s, [test |-> at, from |-> baseline[s], to |-> Zeros])
       ELSE UNCHANGED data
    /\ UNCHANGED baseline

NextVM == <<at[1] + 1, 1, 1>>

FollowingOneMore ==                 \* mutant: range(self._retries + 1)
    IF at[3] <= Retries THEN [at EXCEPT ![3] = @ + 1]
    ELSE IF at[2] < XNum THEN <<at[1], at[2] + 1, 1>>
    ELSE NextVM

Following ==
    IF at[3] < Retries THEN [at EXCEPT ![3] = @ + 1]
    ELSE IF at[2] < XNum THEN <<at[1], at[2] + 1, 1>>
    ELSE NextVM

AllReadOrLast == next >= Len(Sensors)       \* mutant: the last sensor is skipped
AllRead       == next = Len(Sensors) + 1

(* The next repetition, the next x, or the end of the try block. *)
NextTest ==
    /\ phase = "after"
    /\ AllRead
    /\ at' = Following
    /\ next' = 1
    /\ phase' = IF Following[1] = at[1] THEN "before" ELSE "between"
    /\ UNCHANGED <<baseline, data, failed, cut, ratio, rounds>>

LoopsContinue ==                    \* mutant: a test that raises is only logged
    IF phase = "before" THEN [phase |-> "after", at |-> at]
    ELSE [phase |-> "between", at |-> NextVM]

(* test_func raises or Ctrl-C arrives outside the sensors' own try blocks: *)
(* the loops of this VM end and run() goes on with the next one.           *)
LoopsLeft == [phase |-> "between", at |-> NextVM]

CutShort ==
    /\ phase \in {"before", "after"}
    /\ phase' = LoopsLeft.phase
    /\ at' = LoopsLeft.at
    /\ next' = 1
    /\ cut' = cut \cup {at[1]}
    /\ UNCHANGED <<baseline, data, failed, ratio, rounds>>

-----------------------------------------------------------------------------
(* create_sensor_graphs *)

Zip(s, t) == [k \in 1 .. (IF Len(s) <= Len(t) THEN Len(s) ELSE Len(t)) |-> <<s[k], t[k]>>]

(* graph1.data has a key for the cell only if it has a sample for it. *)
HasKey(g, x, v) == data[g][x][v] # <<>>

(* The order of graph1.data's keys: each x where its first sample came, and *)
(* within it the VMs in the order they were run.                           *)
XBefore(g, x, y) ==
    \E v \in VMs :
        /\ HasKey(g, x, v)
        /\ \A w \in 1 .. v - 1 : ~HasKey(g, y, w)
        /\ HasKey(g, y, v) => x < y

Precedes(g, x, v, y, w) == IF x = y THEN v < w ELSE XBefore(g, x, y)

(* _calc_data stops with a KeyError at the first cell graph2 has no key for. *)
Reached(r, x, v) ==
    /\ HasKey(r[1], x, v)
    /\ \A y \in Xs, w \in VMs :
        HasKey(r[1], y, w) /\ ~HasKey(r[2], y, w) => Precedes(r[1], x, v, y, w)

CalcDataResumed(r, x, v) ==         \* mutant: goes on at the last pair, not after it
    LET s == Zip(data[r[1]][x][v], data[r[2]][x][v])
        n == Len(ratio[r][x][v])
    IN  IF n = 0 THEN s ELSE ratio[r][x][v] \o SubSeq(s, n, Len(s))

CalcData(r, x, v) == ratio[r][x][v] \o Zip(data[r[1]][x][v], data[r[2]][x][v])

(* post_run, and again for every subset of the VMs a script compares: the  *)
(* pairs are added to the data of the RatioGraph each time.                *)
CreateGraphs ==
    /\ phase \in {"between", "posted"}
    /\ at[1] = VmNum + 1
    /\ rounds < MaxRounds
    /\ phase' = "posted"
    /\ rounds' = rounds + 1
    /\ ratio' = [r \in Ratios |-> [x \in Xs |-> [v \in VMs |->
                    IF Reached(r, x, v) THEN CalcData(r, x, v) ELSE ratio[r][x][v]]]]
    /\ UNCHANGED <<at, next, baseline, data, failed, cut>>

Next ==
    \/ BeginVM \/ Abort \/ TestFunc \/ NextTest \/ CutShort \/ CreateGraphs
    \/ \E s \in SensorSet :
        ReadBefore(s) \/ ReadBeforeFails(s) \/ ReadAfter(s) \/ ReadAfterFails(s)

Spec == Init /\ [][Next]_vars

-----------------------------------------------------------------------------
Gap(g, x, v)   == {t \in Test : t[1] = v /\ t[2] = x /\ <<g, "after", t>> \in failed}
Gapless(g, x, v) == g \in Quiet \/ Gap(g, x, v) = {}

(***************************************************************************)
(* A sample is the difference between a reading right before and one right *)
(* after its test, unless a failed reading accounts for it; a Quiet sensor *)
(* never uses a reading of an earlier test, only zeros.                    *)
(***************************************************************************)
Spans(s, d, F) ==
    /\ d.from # d.test => <<s, "before", d.test>> \in F
    /\ d.to # d.test => <<s, "after", d.test>> \in F
    /\ s \in Quiet => d.from \in {d.test, Zeros}

DeltaSpansItsTest ==
    \A s \in SensorSet, x \in Xs, v \in VMs :
        \A k \in 1 .. Len(data[s][x][v]) : Spans(s, data[s][x][v][k], failed)

(***************************************************************************)
(* A RatioGraph divides values of one test: as long as neither graph       *)
(* misses a sample because of a failed reading, an interrupted or failed   *)
(* test does not shift the samples of one graph against the other's.       *)
(***************************************************************************)
RatioPairsAligned ==
    \A r \in Ratios, x \in Xs, v \in VMs :
        Gapless(r[1], x, v) /\ Gapless(r[2], x, v) =>
            \A k \in 1 .. Len(ratio[r][x][v]) :
                ratio[r][x][v][k][1].test = ratio[r][x][v][k][2].test

(***************************************************************************)
(* However often the graphs are created, every pair of a cell counts       *)
(* equally often, so a mean that was published once does not change.       *)
(***************************************************************************)
RatioWeighsPairsEqually ==
    \A r \in Ratios, x \in Xs, v \in VMs :
        LET pairs == ratio[r][x][v]
            Times(p) == Cardinality({k \in 1 .. Len(pairs) : pairs[k] = p})
        IN  \A j, k \in 1 .. Len(pairs) : Times(pairs[j]) = Times(pairs[k])

(***************************************************************************)
(* Every repetition of a VM whose loops were not left early has a sample   *)
(* in every graph, or a failed reading to show for it.                     *)
(***************************************************************************)
NoSilentGap ==
    \A v \in VMs \ cut : v < at[1] =>
        \A x \in Xs, g \in Graph :
            Len(data[g][x][v]) =
                Retries - (IF g \in Quiet THEN 0 ELSE Cardinality(Gap(g, x, v)))

(* The repetitions of which g has a sample, or a failed reading to show for it. *)
Answered(g, x, v) == Len(data[g][x][v]) + (IF g \in Quiet THEN 0 ELSE Cardinality(Gap(g, x, v)))

(***************************************************************************)
(* What a VM has whose loops were left early: every repetition up to some  *)
(* x and none of a later one, and of that x every graph as many as netperf *)
(* or one less.  So the series of different graphs, which are zipped, get  *)
(* different lengths by one sample at most, and for one x only.            *)
(***************************************************************************)
CutLeavesAPrefix ==
    \A v \in cut : \E x \in Xs, n \in 0 .. Retries :
        /\ Answered(Netperf, x, v) = n
        /\ \A g \in Graph : /\ Answered(g, x, v) \in {n - 1, n}
                            /\ \A y \in Xs : /\ y < x => Answered(g, y, v) = Retries
                                             /\ x < y => Answered(g, y, v) = 0
=============================================================================
