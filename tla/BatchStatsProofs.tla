-------------------------- MODULE BatchStatsProofs --------------------------
(***************************************************************************)
(* Proofs about BatchStats, for traces of any length over any kinds.       *)
(***************************************************************************)
EXTENDS BatchStats, FiniteSetTheorems, TLAPS

(* What the parsers of pairs remember and count are positions up to the event at hand. *)
LEMMA PairTypes ==
    ASSUME TypeOK, NEW p \in Pairs, NEW k
    PROVE  PairNext(p, k) \in 0 .. Len(trace) + 1 /\ PairCount(p, k) \in Interval
<1>1. Len(trace) \in Nat
  BY DEF TypeOK
<1>2. last[p] \in 0 .. Len(trace)
  BY DEF TypeOK
<1> QED
  BY <1>1, <1>2 DEF PairNext, PairCount, Here, Interval

(* The same for the parsers of gaps. *)
LEMMA GapTypes ==
    ASSUME TypeOK, NEW p \in Gaps, NEW k
    PROVE  /\ GapNext(p, k) \in [start : 0 .. Len(trace) + 1, end : 0 .. Len(trace) + 1]
           /\ GapCount(p, k) \in Interval
<1>1. Len(trace) \in Nat
  BY DEF TypeOK
<1>2. gap[p] \in [start : 0 .. Len(trace), end : 0 .. Len(trace)]
  BY DEF TypeOK
<1>3. [gap[p] EXCEPT !.end = Here] \in [start : 0 .. Len(trace) + 1, end : 0 .. Len(trace) + 1]
  BY <1>1, <1>2 DEF Here
<1>4. gap[p] \in [start : 0 .. Len(trace) + 1, end : 0 .. Len(trace) + 1]
  BY <1>1, <1>2
<1>5. /\ [start |-> Here, end |-> 0] \in [start : 0 .. Len(trace) + 1, end : 0 .. Len(trace) + 1]
      /\ [start |-> 0, end |-> 0] \in [start : 0 .. Len(trace) + 1, end : 0 .. Len(trace) + 1]
  BY <1>1 DEF Here
<1>6. GapCount(p, k) \in Interval
  BY <1>1, <1>2 DEF GapCount, Here, Interval
<1> QED
  BY <1>3, <1>4, <1>5, <1>6 DEF GapNext

(* The same for the parsers of series. *)
LEMMA SeriesTypes ==
    ASSUME TypeOK, NEW p \in Funcs, NEW k
    PROVE  SeriesNext(p, k) \in Interval /\ SeriesCount(p, k) \in Interval
<1>1. Here \in Nat /\ series[p] \in Seq(Nat)
  BY DEF TypeOK, Here, Interval
<1>2. Append(series[p], Here) \in Seq(Nat) /\ <<Here>> \in Seq(Nat) /\ <<>> \in Seq(Nat)
  BY <1>1
<1> QED
  BY <1>1, <1>2 DEF SeriesNext, SeriesCount, Interval

(* The same for the parsers that nest and for the batches. *)
LEMMA NestedTypes ==
    ASSUME TypeOK, NEW k
    PROVE  /\ HwNext(k) \in [entry : 0 .. Len(trace) + 1, exit : 0 .. Len(trace) + 1]
           /\ DeepNext(k) \in [writev : 0 .. Len(trace) + 1, iovec : 0 .. Len(trace) + 1]
           /\ HwCount(k) \in Interval
           /\ DeepCount(k) \in Interval
           /\ BatchCount(k) \in Interval
<1>1. Len(trace) \in Nat
  BY DEF TypeOK
<1>2. /\ hw \in [entry : 0 .. Len(trace), exit : 0 .. Len(trace)]
      /\ deep \in [writev : 0 .. Len(trace), iovec : 0 .. Len(trace)]
      /\ boundary \in 0 .. Len(trace)
  BY DEF TypeOK
<1>3. HwNext(k) \in [entry : 0 .. Len(trace) + 1, exit : 0 .. Len(trace) + 1]
  BY <1>1, <1>2 DEF HwNext, Here
<1>4. DeepNext(k) \in [writev : 0 .. Len(trace) + 1, iovec : 0 .. Len(trace) + 1]
  BY <1>1, <1>2 DEF DeepNext, Here
<1> QED
  BY <1>1, <1>2, <1>3, <1>4 DEF HwCount, DeepCount, BatchCount, Here, Interval

(* Whatever a parser counts is a sequence of positions. *)
LEMMA CountedType ==
    ASSUME TypeOK, NEW s \in Stats, NEW k
    PROVE  Counted(s, k) \in Interval
<1>1. CASE s \in Pairs
  BY <1>1, PairTypes DEF Counted
<1>2. CASE s \in Gaps /\ s \notin Pairs
  BY <1>2, GapTypes DEF Counted
<1>3. CASE s \in Funcs /\ s \notin Pairs \cup Gaps
  BY <1>3, SeriesTypes DEF Counted
<1>4. CASE s \notin Pairs \cup Gaps \cup Funcs
  BY <1>4, NestedTypes DEF Counted
<1> QED
  BY <1>1, <1>2, <1>3, <1>4

(* A batch holds such sequences, also with what the next event adds. *)
LEMMA BatchWithType ==
    ASSUME TypeOK, NEW k
    PROVE  BatchWith(k) \in [Stats -> Seq(Interval)]
<1>1. ASSUME NEW s \in Stats
      PROVE  (IF Counted(s, k) = <<>> THEN batch[s] ELSE Append(batch[s], Counted(s, k)))
                 \in Seq(Interval)
  <2>1. Counted(s, k) \in Interval
    BY CountedType
  <2>2. batch[s] \in Seq(Interval)
    BY DEF TypeOK
  <2>3. Append(batch[s], Counted(s, k)) \in Seq(Interval)
    BY <2>1, <2>2
  <2> QED
    BY <2>2, <2>3
<1> QED
  BY <1>1 DEF BatchWith

(* The part of TypeOK that Handle is about. *)
LEMMA HandleType ==
    ASSUME TypeOK, NEW k, Handle(k), Len(trace') = Len(trace) + 1
    PROVE  /\ last' \in [Pairs -> 0 .. Len(trace')]
           /\ gap' \in [Gaps -> [start : 0 .. Len(trace'), end : 0 .. Len(trace')]]
           /\ series' \in [Funcs -> Interval]
           /\ hw' \in [entry : 0 .. Len(trace'), exit : 0 .. Len(trace')]
           /\ deep' \in [writev : 0 .. Len(trace'), iovec : 0 .. Len(trace')]
           /\ boundary' \in 0 .. Len(trace')
           /\ ignoreHalt' \in BOOLEAN
           /\ eventNum' \in 0 .. Len(trace')
           /\ perBatch' \in Seq(1 .. Len(trace'))
<1>1. Len(trace) \in Nat
  BY DEF TypeOK
<1>2. last' \in [Pairs -> 0 .. Len(trace')]
  BY PairTypes DEF Handle
<1>3. gap' \in [Gaps -> [start : 0 .. Len(trace'), end : 0 .. Len(trace')]]
  BY GapTypes DEF Handle
<1>4. series' \in [Funcs -> Interval]
  BY SeriesTypes DEF Handle
<1>5. /\ hw' \in [entry : 0 .. Len(trace'), exit : 0 .. Len(trace')]
      /\ deep' \in [writev : 0 .. Len(trace'), iovec : 0 .. Len(trace')]
  BY NestedTypes DEF Handle
<1>6. boundary' \in 0 .. Len(trace') /\ eventNum' \in 0 .. Len(trace')
  BY <1>1 DEF TypeOK, Handle, Here
<1>7. ignoreHalt' \in BOOLEAN
  BY DEF TypeOK, Handle
<1>8. perBatch' \in Seq(1 .. Len(trace'))
  <2>1. perBatch \in Seq(1 .. Len(trace)) /\ eventNum \in 0 .. Len(trace)
    BY DEF TypeOK
  <2>2. perBatch \in Seq(1 .. Len(trace')) /\ eventNum + 1 \in 1 .. Len(trace')
    BY <1>1, <2>1
  <2>3. Append(perBatch, eventNum + 1) \in Seq(1 .. Len(trace'))
    BY <2>2
  <2> QED
    BY <2>2, <2>3 DEF Handle
<1> QED
  BY <1>2, <1>3, <1>4, <1>5, <1>6, <1>7, <1>8

(* The trace grows by one event of its alphabet. *)
LEMMA NextEventType ==
    ASSUME TypeOK, NEW k \in alphabet, NextEvent(k)
    PROVE  /\ alphabet' \in Alphabets
           /\ trace' \in Seq(alphabet')
           /\ Len(trace) \in Nat
           /\ Len(trace') = Len(trace) + 1
           /\ Len(trace') <= MaxTrace
<1>1. trace \in Seq(alphabet) /\ alphabet \in Alphabets /\ MaxTrace \in Nat
  BY BatchAssumption DEF TypeOK
<1> QED
  BY <1>1 DEF NextEvent

(* What no step but the parsers' handlers changes keeps its type as the    *)
(* trace grows.                                                            *)
LEMMA Grows ==
    ASSUME TypeOK, Len(trace') = Len(trace) + 1
    PROVE  /\ last \in [Pairs -> 0 .. Len(trace')]
           /\ gap \in [Gaps -> [start : 0 .. Len(trace'), end : 0 .. Len(trace')]]
           /\ hw \in [entry : 0 .. Len(trace'), exit : 0 .. Len(trace')]
           /\ deep \in [writev : 0 .. Len(trace'), iovec : 0 .. Len(trace')]
           /\ boundary \in 0 .. Len(trace')
           /\ eventNum \in 0 .. Len(trace')
           /\ skipped \in 0 .. Len(trace')
           /\ skipped + 1 \in 0 .. Len(trace')
           /\ perBatch \in Seq(1 .. Len(trace'))
<1>1. Len(trace) \in Nat
  BY DEF TypeOK
<1>2. gap \in [Gaps -> [start : 0 .. Len(trace'), end : 0 .. Len(trace')]]
  BY <1>1 DEF TypeOK
<1>3. last \in [Pairs -> 0 .. Len(trace')]
  BY <1>1 DEF TypeOK
<1>4. perBatch \in Seq(1 .. Len(trace'))
  BY <1>1 DEF TypeOK
<1> QED
  BY <1>1, <1>2, <1>3, <1>4 DEF TypeOK

(* parse_events begins with well-typed parsers. *)
LEMMA InitType == Init => TypeOK
<1> SUFFICES ASSUME Init PROVE TypeOK
  OBVIOUS
<1>1. /\ alphabet \in Alphabets /\ trace \in Seq(alphabet)
      /\ Len(trace) = 0 /\ 0 <= MaxTrace /\ phase = "parsing"
  BY BatchAssumption DEF Init
<1>2. /\ last \in [Pairs -> 0 .. Len(trace)]
      /\ gap \in [Gaps -> [start : 0 .. Len(trace), end : 0 .. Len(trace)]]
  BY <1>1 DEF Init
<1>3. /\ hw \in [entry : 0 .. Len(trace), exit : 0 .. Len(trace)]
      /\ deep \in [writev : 0 .. Len(trace), iovec : 0 .. Len(trace)]
  BY <1>1 DEF Init
<1>4. boundary \in 0 .. Len(trace) /\ eventNum \in 0 .. Len(trace) /\ skipped \in 0 .. Len(trace)
  BY <1>1 DEF Init
<1>5. ignoreHalt \in BOOLEAN /\ invalid \in BOOLEAN
  BY Zenon DEF Init
<1>6. /\ series \in [Funcs -> Interval]
      /\ batch \in [Stats -> Seq(Interval)] /\ kept \in [Stats -> Seq(Interval)]
      /\ perBatch \in Seq(1 .. Len(trace))
  BY DEF Init, Interval
<1> QED
  BY <1>1, <1>2, <1>3, <1>4, <1>5, <1>6 DEF TypeOK

(* Every event, and the end of the trace, keeps the types. *)
LEMMA NextType == TypeOK /\ [Next]_vars => TypeOK'
<1> SUFFICES ASSUME TypeOK, [Next]_vars PROVE TypeOK'
  OBVIOUS
<1>1. ASSUME NEW k \in alphabet, Skip(k) PROVE TypeOK'
  <2>1. NextEvent(k)
    BY <1>1 DEF Skip
  <2> QED
    BY <1>1, <2>1, NextEventType, Grows DEF Skip, parsers, results, TypeOK
<1>2. ASSUME NEW k \in alphabet, InBatch(k) PROVE TypeOK'
  <2>1. NextEvent(k) /\ Handle(k)
    BY <1>2 DEF InBatch
  <2>2. batch' \in [Stats -> Seq(Interval)]
    BY <1>2, BatchWithType DEF InBatch
  <2>3. invalid' \in BOOLEAN
    BY <1>2 DEF InBatch, Disturbs, TypeOK
  <2> QED
    BY <1>2, <2>1, <2>2, <2>3, NextEventType, HandleType, Grows DEF InBatch, TypeOK
<1>3. ASSUME NEW k \in alphabet, FinishBatch(k) PROVE TypeOK'
  <2>1. NextEvent(k) /\ Handle(k)
    BY <1>3 DEF FinishBatch
  <2>2. \A s \in Stats : kept[s] \o BatchWith(k)[s] \in Seq(Interval)
    <3> TAKE s \in Stats
    <3>1. kept[s] \in Seq(Interval) /\ BatchWith(k)[s] \in Seq(Interval)
      BY BatchWithType DEF TypeOK
    <3> QED
      BY <3>1
  <2>3. kept' \in [Stats -> Seq(Interval)] /\ batch' \in [Stats -> Seq(Interval)]
    BY <1>3, <2>2 DEF FinishBatch
  <2> QED
    BY <1>3, <2>1, <2>3, NextEventType, HandleType, Grows DEF FinishBatch, TypeOK
<1>4. ASSUME NEW k \in alphabet, ResetBatch(k) PROVE TypeOK'
  <2>1. NextEvent(k) /\ Handle(k)
    BY <1>4 DEF ResetBatch
  <2>2. batch' \in [Stats -> Seq(Interval)]
    BY <1>4 DEF ResetBatch
  <2> QED
    BY <1>4, <2>1, <2>2, NextEventType, HandleType, Grows DEF ResetBatch, TypeOK
<1>5. ASSUME NEW k \in alphabet, Raise(k) PROVE TypeOK'
  <2>1. NextEvent(k)
    BY <1>5 DEF Raise
  <2> QED
    BY <1>5, <2>1, NextEventType, Grows DEF Raise, parsers, results, TypeOK
<1>6. ASSUME NEW typ \in {"e1000", "virtio"}, Output(typ) PROVE TypeOK'
  BY <1>6 DEF Output, parsers, results, TypeOK
<1>7. CASE UNCHANGED vars
  BY <1>7 DEF vars, parsers, results, TypeOK
<1> QED
  BY <1>1, <1>2, <1>3, <1>4, <1>5, <1>6, <1>7 DEF Next

(* Whatever events a trace holds, in any order and with any missing, every *)
(* parser remembers positions of the trace only, counts sequences of them, *)
(* and no counter exceeds the events seen.                                 *)
THEOREM TypeCorrect == Spec => []TypeOK
BY InitType, NextType, PTL DEF Spec

-----------------------------------------------------------------------------
(* None of the kinds K, or only the kinds A, have been seen between i and j. *)
Unseen(K, i, j) == \A n \in SeenBetween(i, j) : trace[n] \notin K
Only(A, i, j)   == \A n \in SeenBetween(i, j) : trace[n] \in A

(* What each parser remembers, read off the trace: the opening event that  *)
(* is still open,                                                          *)
PairMemory ==
    \A p \in Pairs, i \in Positions :
        trace[i] \in Opens[p] /\ Unseen(Opens[p] \cup Closes[p] \cup Drops[p], i, Here)
            <=> last[p] = i

(* whether a call on the tap has begun, and where it has ended;            *)
Begun(p, i) == \E n \in 1 .. i : trace[n] = GapStart[p] /\ Only(GuestKinds \cup {GapEnd[p]}, n, i)
GapMemory ==
    \A p \in Gaps :
        /\ gap[p].start # 0 <=>
              \E n \in Positions : trace[n] = GapStart[p] /\ Only(GuestKinds \cup {GapEnd[p]}, n, Here)
        /\ \A i \in Positions : trace[i] = GapEnd[p] /\ Only(GuestKinds, i, Here) /\ Begun(p, i)
              <=> gap[p].end = i
        /\ gap[p].start = 0 => gap[p].end = 0

(* the calls since a function was entered, in their order;                 *)
Marks(p) == {FuncStart[p], FuncEnd[p]}
SinceEntry(p, j) ==
    {i \in 1 .. j - 1 : /\ trace[i] \in Marks(p) \cup Inner[p] /\ trace[i] # FuncEnd[p]
                        /\ Unseen(Marks(p), i, j)}
SeriesMemory ==
    \A p \in Funcs :
        /\ Range(series[p]) = SinceEntry(p, Here)
        /\ \A a, b \in 1 .. Len(series[p]) : a < b => series[p][a] < series[p][b]

(* the last entry, and whether there was an exit, since the last packet;   *)
HwMemory ==
    /\ \A i \in Positions :
          trace[i] = "kvm_entry" /\ Unseen({"kvm_entry", "net_exit_after"}, i, Here) <=> hw.entry = i
    /\ hw.exit # 0 <=> \E i \in Positions : trace[i] \in Exits /\ Unseen({"net_exit_after"}, i, Here)

(* whether a writev is open, and the last import of an iovec inside one;   *)
NoImport(i, j) == \A n \in SeenBetween(i, j) : trace[n] = "import_iovec" => ~InWritev(n)
DeepMemory ==
    /\ deep.writev # 0 <=>
          \E i \in Positions : trace[i] \in Opens["host_writev"] /\ Unseen({"sys_writev_end"}, i, Here)
    /\ \A i \in Positions :
          trace[i] = "import_iovec" /\ InWritev(i) /\ NoImport(i, Here) <=> deep.iovec = i

(* the last end of a batch, and whether a halt can still be one.           *)
BatchMemory ==
    /\ ignoreHalt <=> \E n \in Positions : trace[n] = "exit_kick"
    /\ \A i \in Positions : IsEnd(i) /\ (\A n \in SeenBetween(i, Here) : ~IsEnd(n)) <=> boundary = i

Memory == PairMemory /\ GapMemory /\ SeriesMemory /\ HwMemory /\ DeepMemory /\ BatchMemory

-----------------------------------------------------------------------------
(* The events of a function's call differ in kind. *)
LEMMA FuncKinds ==
    ASSUME NEW p \in Funcs
    PROVE  /\ FuncStart[p] # FuncEnd[p] /\ FuncStart[p] \notin Inner[p] /\ FuncEnd[p] \notin Inner[p]
           /\ Filtered(FuncStart[p])
<1>1. p \in {"guest_recv_func", "guest_tcp_ack"}
  BY DEF Funcs, FuncStart
<1> QED
  BY <1>1 DEF FuncStart, FuncEnd, Inner, Filtered

(* A number is odd if its successor is even. *)
LEMMA OddEven ==
    ASSUME NEW n \in Nat
    PROVE  (n + 1) % 2 = 0 <=> n % 2 = 1
OBVIOUS

(* The parity the parser looks at tells whole and torn calls from others:  *)
(* a call has at most one entry and one exit.                              *)
LEMMA EvenIsWholeOrTorn ==
    ASSUME TypeOK, NEW p \in Funcs, NEW j \in Positions
    PROVE  Cardinality(Call(p, j)) % 2 = 0 <=> WholeCall(p, j) \/ TornCall(p, j)
<1> DEFINE A == EntryOf(p, j)
           B == InnerOf(p, j)
<1>1. j \in Nat /\ 1 <= j
  BY DEF TypeOK, Positions
<1>2. A \subseteq 1 .. j - 1 /\ B \subseteq 1 .. j - 1 /\ IsFiniteSet(1 .. j - 1)
  BY <1>1, FS_Interval DEF EntryOf, InnerOf
<1>3. IsFiniteSet(A) /\ IsFiniteSet(B)
  BY <1>2, FS_Subset
<1>4. A \cap B = {}
  BY FuncKinds DEF EntryOf, InnerOf
<1>5. j \notin A /\ j \notin B
  BY <1>1, <1>2
<1>6. ASSUME NEW a \in A, NEW b \in A
      PROVE  a = b
  <2>1. /\ a \in 1 .. j - 1 /\ trace[a] = FuncStart[p] /\ SinceMark(p, a, j)
        /\ b \in 1 .. j - 1 /\ trace[b] = FuncStart[p] /\ SinceMark(p, b, j)
    BY <1>6 DEF EntryOf
  <2>2. ~(a < b) /\ ~(b < a)
    BY <1>1, <2>1, FuncKinds DEF SinceMark, SeenBetween
  <2> QED
    BY <1>1, <2>1, <2>2
<1>7. Cardinality(B) \in Nat /\ IsFiniteSet(B \cup {j}) /\ Cardinality(B \cup {j}) = Cardinality(B) + 1
  BY <1>3, <1>5, FS_CardinalityType, FS_AddElement
<1>8. CASE A = {}
  <2>1. Call(p, j) = B \cup {j}
    BY <1>8 DEF Call
  <2>2. (Cardinality(B) + 1) % 2 = 0 <=> Cardinality(B) % 2 = 1
    BY <1>7, OddEven
  <2> QED
    BY <1>7, <1>8, <2>1, <2>2 DEF WholeCall, TornCall
<1>9. CASE A # {}
  <2>1. PICK a \in A : TRUE
    BY <1>9
  <2>2. A = {a} /\ a \notin B \cup {j}
    BY <1>4, <1>5, <1>6, <2>1
  <2>3. Call(p, j) = (B \cup {j}) \cup {a}
    BY <2>2 DEF Call
  <2>4. Cardinality(Call(p, j)) = Cardinality(B) + 2
    <3>1. Cardinality(Call(p, j)) = Cardinality(B \cup {j}) + 1
      BY <1>7, <2>2, <2>3, FS_AddElement
    <3> QED
      BY <1>7, <3>1
  <2>5. (Cardinality(B) + 2) % 2 = 0 <=> Cardinality(B) % 2 = 0
    BY <1>7
  <2> QED
    BY <1>9, <2>4, <2>5 DEF WholeCall, TornCall
<1> QED
  BY <1>8, <1>9

(* The event sets that s has to count at the event j. *)
Due(s, j) ==
    IF s \in Funcs
    THEN IF trace[j] = FuncEnd[s] /\ Cardinality(Call(s, j)) % 2 = 0 THEN {Call(s, j)} ELSE {}
    ELSE {{i, j} : i \in {n \in 1 .. j - 1 : IsInterval(s, n, j)}}

(* The event j belongs to the batch that is not closed yet. *)
InOpenBatch(j) == \A n \in j .. Len(trace) : ~IsEnd(n)

(* The event sets of the intervals xs, which end at events of J, are those *)
(* in E, in the order of their last events; an interval of the parsers     *)
(* that count pairs is a pair.                                             *)
AtEnd(x) == x[Len(x)]
Holds(s, xs, J, E) ==
    /\ {Range(x) : x \in Range(xs)} = E
    /\ \A a \in 1 .. Len(xs) :
          /\ xs[a] # <<>> /\ AtEnd(xs[a]) \in J
          /\ s \notin Funcs => Len(xs[a]) = 2 /\ xs[a][1] < xs[a][2]
    /\ \A a, b \in 1 .. Len(xs) : a < b => AtEnd(xs[a]) < AtEnd(xs[b])

DueIn(s, J) == UNION {Due(s, j) : j \in J}
CleanOnes == {j \in Positions : InCleanBatch(j)}
OpenOnes  == {j \in Positions : InOpenBatch(j)}

KeptHolds  == \A s \in Stats : Holds(s, kept[s], CleanOnes, DueIn(s, CleanOnes))
BatchHolds == \A s \in Stats : Holds(s, batch[s], OpenOnes, DueIn(s, OpenOnes))

(* Something disturbed the batch that is not closed yet. *)
InvalidIfDisturbed == invalid <=> \E d \in Positions : Disturbs(trace[d]) /\ InOpenBatch(d)

ReadOff == phase = "parsing" => Memory /\ BatchHolds /\ InvalidIfDisturbed

-----------------------------------------------------------------------------
(* Reading the next event, k, at the position h. *)
Reads(k, h) == TypeOK /\ k \in alphabet /\ NextEvent(k) /\ h = Here

(* The trace grows by k at h and is the same everywhere else. *)
LEMMA TraceGrows ==
    ASSUME NEW k, NEW h, Reads(k, h)
    PROVE  /\ h \in Nat /\ h >= 1 /\ Here = h /\ Here' = h + 1
           /\ Positions = 1 .. h - 1 /\ Positions' = 1 .. h
           /\ trace'[h] = k
           /\ \A i \in 1 .. h - 1 : trace'[i] = trace[i]
<1>1. trace \in Seq(alphabet) /\ trace' = Append(trace, k) /\ k \in alphabet /\ h = Len(trace) + 1
  BY DEF Reads, TypeOK, NextEvent, Here
<1>2. Len(trace) \in Nat /\ Len(trace') = Len(trace) + 1
  BY <1>1
<1> QED
  BY <1>1, <1>2 DEF Here, Positions

(* What was seen between two positions: one more after the event is read. *)
LEMMA SeenGrows ==
    ASSUME NEW k, NEW h, Reads(k, h)
    PROVE  /\ \A i, j \in 1 .. h : SeenBetween(i, j)' = SeenBetween(i, j)
           /\ \A i \in 1 .. h - 1 : \A n : n \in SeenBetween(i, h + 1)' <=>
                 n \in SeenBetween(i, h) \/ (n = h /\ Filtered(k))
           /\ SeenBetween(h, h + 1)' = {}
           /\ \A i, j \in 1 .. h : SeenBetween(i, j) \subseteq 1 .. h - 1
<1>1. /\ h \in Nat /\ h >= 1 /\ trace'[h] = k /\ \A i \in 1 .. h - 1 : trace'[i] = trace[i]
  BY TraceGrows
<1>2. \A i, j \in 1 .. h : SeenBetween(i, j) \subseteq 1 .. h - 1
  BY <1>1 DEF SeenBetween
<1>3. ASSUME NEW i \in 1 .. h, NEW j \in 1 .. h
      PROVE  SeenBetween(i, j)' = SeenBetween(i, j)
  <2>1. \A n \in i + 1 .. j - 1 : n \in 1 .. h - 1
    BY <1>1
  <2>2. \A n \in i + 1 .. j - 1 : trace'[n] = trace[n]
    BY <1>1, <2>1
  <2> QED
    BY <2>2 DEF SeenBetween
<1>4. ASSUME NEW i \in 1 .. h - 1, NEW n
      PROVE  n \in SeenBetween(i, h + 1)' <=> n \in SeenBetween(i, h) \/ (n = h /\ Filtered(k))
  <2>1. n \in i + 1 .. (h + 1) - 1 <=> n \in i + 1 .. h - 1 \/ n = h
    BY <1>1
  <2>2. n \in i + 1 .. h - 1 => trace'[n] = trace[n] /\ n # h
    BY <1>1
  <2> QED
    BY <1>1, <2>1, <2>2 DEF SeenBetween
<1>5. SeenBetween(h, h + 1)' = {}
  BY <1>1 DEF SeenBetween
<1> QED
  BY <1>2, <1>3, <1>4, <1>5

(* So a kind stays unseen unless k is of it. *)
LEMMA UnseenGrows ==
    ASSUME NEW k, NEW h, Reads(k, h), NEW K
    PROVE  /\ \A i \in 1 .. h - 1 :
                 Unseen(K, i, h + 1)' <=> Unseen(K, i, h) /\ (Filtered(k) => k \notin K)
           /\ Unseen(K, h, h + 1)'
           /\ \A i, j \in 1 .. h : Unseen(K, i, j)' <=> Unseen(K, i, j)
<1>1. /\ h \in Nat /\ h >= 1 /\ trace'[h] = k /\ \A i \in 1 .. h - 1 : trace'[i] = trace[i]
  BY TraceGrows
<1>2. \A i, j \in 1 .. h : \A n \in SeenBetween(i, j) : trace'[n] = trace[n]
  BY <1>1, SeenGrows
<1>3. ASSUME NEW i \in 1 .. h, NEW j \in 1 .. h
      PROVE  Unseen(K, i, j)' <=> Unseen(K, i, j)
  BY <1>2, SeenGrows DEF Unseen
<1>4. ASSUME NEW i \in 1 .. h - 1
      PROVE  Unseen(K, i, h + 1)' <=> Unseen(K, i, h) /\ (Filtered(k) => k \notin K)
  <2>1. i \in 1 .. h /\ h \in 1 .. h
    BY <1>1
  <2>2. \A n \in SeenBetween(i, h) : trace'[n] = trace[n]
    BY <1>2, <2>1
  <2>3. \A n : n \in SeenBetween(i, h + 1)' <=> n \in SeenBetween(i, h) \/ (n = h /\ Filtered(k))
    BY SeenGrows
  <2> QED
    BY <1>1, <2>2, <2>3, Zenon DEF Unseen
<1>5. Unseen(K, h, h + 1)'
  BY SeenGrows DEF Unseen
<1> QED
  BY <1>3, <1>4, <1>5

(* And only certain kinds are seen unless k is another. *)
LEMMA OnlyGrows ==
    ASSUME NEW k, NEW h, Reads(k, h), NEW A
    PROVE  /\ \A i \in 1 .. h - 1 :
                 Only(A, i, h + 1)' <=> Only(A, i, h) /\ (Filtered(k) => k \in A)
           /\ Only(A, h, h + 1)'
           /\ \A i, j \in 1 .. h : Only(A, i, j)' <=> Only(A, i, j)
<1>1. /\ h \in Nat /\ h >= 1 /\ trace'[h] = k /\ \A i \in 1 .. h - 1 : trace'[i] = trace[i]
  BY TraceGrows
<1>2. \A i, j \in 1 .. h : \A n \in SeenBetween(i, j) : trace'[n] = trace[n]
  BY <1>1, SeenGrows
<1>3. ASSUME NEW i \in 1 .. h, NEW j \in 1 .. h
      PROVE  Only(A, i, j)' <=> Only(A, i, j)
  BY <1>2, SeenGrows DEF Only
<1>4. ASSUME NEW i \in 1 .. h - 1
      PROVE  Only(A, i, h + 1)' <=> Only(A, i, h) /\ (Filtered(k) => k \in A)
  <2>1. i \in 1 .. h /\ h \in 1 .. h
    BY <1>1
  <2>2. \A n \in SeenBetween(i, h) : trace'[n] = trace[n]
    BY <1>2, <2>1
  <2>3. \A n : n \in SeenBetween(i, h + 1)' <=> n \in SeenBetween(i, h) \/ (n = h /\ Filtered(k))
    BY SeenGrows
  <2> QED
    BY <1>1, <2>2, <2>3, Zenon DEF Only
<1>5. Only(A, h, h + 1)'
  BY SeenGrows DEF Only
<1> QED
  BY <1>3, <1>4, <1>5

(* The ends of batches stay, and k is one if BatchStats.handle_event says so. *)
LEMMA EndGrows ==
    ASSUME NEW k, NEW h, Reads(k, h)
    PROVE  /\ \A i \in 1 .. h - 1 : IsEnd(i)' <=> IsEnd(i)
           /\ IsEnd(h)' => k \in {"exit_kick", "exit_hlt"}
           /\ (ignoreHalt <=> \E n \in Positions : trace[n] = "exit_kick")
                  => (IsEnd(h)' <=> EndsBatch(k))
<1>1. /\ h \in Nat /\ h >= 1 /\ trace'[h] = k /\ \A i \in 1 .. h - 1 : trace'[i] = trace[i]
      /\ Positions = 1 .. h - 1
  BY TraceGrows
<1>2. ASSUME NEW i \in 1 .. h - 1
      PROVE  IsEnd(i)' <=> IsEnd(i)
  <2>1. \A n \in 1 .. i - 1 : n \in 1 .. h - 1
    BY <1>1
  <2> QED
    BY <1>1, <2>1 DEF IsEnd
<1>3. IsEnd(h)' => k \in {"exit_kick", "exit_hlt"}
  BY <1>1 DEF IsEnd
<1>4. ASSUME ignoreHalt <=> \E n \in Positions : trace[n] = "exit_kick"
      PROVE  IsEnd(h)' <=> EndsBatch(k)
  BY <1>1, <1>4 DEF IsEnd, EndsBatch
<1> QED
  BY <1>2, <1>3, <1>4

-----------------------------------------------------------------------------
(* No event opens and closes a pair at once, and one that is dropped opens none. *)
LEMMA PairKinds ==
    ASSUME NEW p \in Pairs
    PROVE  Opens[p] \cap Closes[p] = {} /\ "elsewhere" \notin Opens[p]
<1>1. p \in {"guest_sendrecv_netperf", "host_netserver", "guest_netperf", "host_sched_overhead",
             "guest_xmit", "host_writev", "host_read_packets", "guest_interrupt_handler",
             "host_ioctl_interrupt", "exits", "HW_exit"}
  BY DEF Pairs, Opens
<1>2. CASE p = "host_sched_overhead"
  BY <1>2 DEF Opens, Closes, Switches
<1>3. CASE p \in {"guest_sendrecv_netperf", "host_netserver", "guest_netperf", "guest_xmit",
                  "host_writev", "host_read_packets", "guest_interrupt_handler",
                  "host_ioctl_interrupt"}
  BY <1>3 DEF Opens, Closes
<1>4. CASE p \in {"exits", "HW_exit"}
  BY <1>4 DEF Opens, Closes, Exits
<1> QED
  BY <1>1, <1>2, <1>3, <1>4

(* Reading an event: the parsers handle it, or it is none they look at. *)
Taken(k, h) ==
    /\ Reads(k, h)
    /\ \/ Filtered(k) /\ Handle(k)
       \/ ~Filtered(k) /\ UNCHANGED parsers

(* The pair parsers. *)
LEMMA PairMemoryStep ==
    ASSUME NEW k, NEW h, Taken(k, h), PairMemory
    PROVE  PairMemory'
<1>0. Reads(k, h) /\ TypeOK
  BY DEF Taken, Reads
<1>1. /\ h \in Nat /\ h >= 1 /\ Here = h /\ Here' = h + 1 /\ trace'[h] = k
      /\ Positions = 1 .. h - 1 /\ Positions' = 1 .. h
      /\ \A i \in 1 .. h - 1 : trace'[i] = trace[i]
  BY <1>0, TraceGrows
<1> SUFFICES ASSUME NEW p \in Pairs, NEW i \in 1 .. h
             PROVE  (trace'[i] \in Opens[p]
                       /\ Unseen(Opens[p] \cup Closes[p] \cup Drops[p], i, h + 1)')
                    <=> last'[p] = i
  BY <1>1 DEF PairMemory
<1> DEFINE K == Opens[p] \cup Closes[p] \cup Drops[p]
<1>2. last[p] \in 0 .. h - 1
  BY <1>0, <1>1 DEF TypeOK, Positions
<1>3. /\ i \in 1 .. h - 1 =>
            (Unseen(K, i, h + 1)' <=> Unseen(K, i, h) /\ (Filtered(k) => k \notin K))
      /\ Unseen(K, h, h + 1)'
  BY <1>0, UnseenGrows
<1>4. i \in 1 .. h - 1 => (trace[i] \in Opens[p] /\ Unseen(K, i, h) <=> last[p] = i)
  BY <1>1 DEF PairMemory
<1>5. CASE Filtered(k) /\ Handle(k)
  <2>1. last'[p] = IF k \in Opens[p] THEN h ELSE IF k \in Closes[p] \cup Drops[p] THEN 0 ELSE last[p]
    BY <1>1, <1>5 DEF Handle, PairNext
  <2> HIDE DEF K
  <2>2. k \in K <=> k \in Opens[p] \/ k \in Closes[p] \cup Drops[p]
    BY DEF K
  <2>3. CASE i = h
    BY <1>1, <1>2, <1>3, <2>1, <2>3 DEF K
  <2>4. CASE i \in 1 .. h - 1
    BY <1>1, <1>2, <1>3, <1>4, <1>5, <2>1, <2>2, <2>4 DEF K
  <2> QED
    BY <1>1, <2>3, <2>4
<1>6. CASE ~Filtered(k) /\ UNCHANGED parsers
  <2>1. last' = last /\ k \notin Opens[p]
    BY <1>6, PairKinds DEF parsers, Filtered
  <2>2. CASE i = h
    BY <1>1, <1>2, <2>1, <2>2
  <2>3. CASE i \in 1 .. h - 1
    BY <1>1, <1>3, <1>4, <1>6, <2>1, <2>3
  <2> QED
    BY <1>1, <2>2, <2>3
<1> QED
  BY <1>5, <1>6 DEF Taken

(* The gap parsers. *)
LEMMA GapMemoryStep ==
    ASSUME NEW k, NEW h, Taken(k, h), GapMemory
    PROVE  GapMemory'
<1>0. Reads(k, h) /\ TypeOK
  BY DEF Taken, Reads
<1>1. /\ h \in Nat /\ h >= 1 /\ Here = h /\ Here' = h + 1 /\ trace'[h] = k
      /\ Positions = 1 .. h - 1 /\ Positions' = 1 .. h
      /\ \A i \in 1 .. h - 1 : trace'[i] = trace[i]
  BY <1>0, TraceGrows
<1> SUFFICES ASSUME NEW p \in Gaps
             PROVE  /\ gap'[p].start # 0 <=> \E n \in 1 .. h :
                          trace'[n] = GapStart[p] /\ Only(GuestKinds \cup {GapEnd[p]}, n, h + 1)'
                    /\ \A i \in 1 .. h :
                          trace'[i] = GapEnd[p] /\ Only(GuestKinds, i, h + 1)' /\ Begun(p, i)'
                            <=> gap'[p].end = i
                    /\ gap'[p].start = 0 => gap'[p].end = 0
  BY <1>1 DEF GapMemory
<1> DEFINE A == GuestKinds \cup {GapEnd[p]}
           OpenAt(n) == trace[n] = GapStart[p] /\ Only(A, n, h)
           ClosedAt(i) == trace[i] = GapEnd[p] /\ Only(GuestKinds, i, h) /\ Begun(p, i)
<1>a. /\ GapStart[p] \notin GuestKinds /\ GapEnd[p] \notin GuestKinds /\ GapStart[p] # GapEnd[p]
      /\ "elsewhere" \notin GuestKinds /\ GapStart[p] # "elsewhere" /\ GapEnd[p] # "elsewhere"
  <2>1. p \in {"host_delta_read", "host_delta_writev"}
    BY DEF Gaps, GapStart
  <2> QED
    BY <2>1 DEF GapStart, GapEnd, GuestKinds
<1>2. gap[p].start \in 0 .. h - 1 /\ gap[p].end \in 0 .. h - 1
  BY <1>0, <1>1 DEF TypeOK, Positions
<1>3. /\ gap[p].start # 0 <=> \E n \in 1 .. h - 1 : OpenAt(n)
      /\ \A i \in 1 .. h - 1 : ClosedAt(i) <=> gap[p].end = i
      /\ gap[p].start = 0 => gap[p].end = 0
  BY <1>1 DEF GapMemory
<1>4. /\ \A n \in 1 .. h - 1 : Only(A, n, h + 1)' <=> Only(A, n, h) /\ (Filtered(k) => k \in A)
      /\ Only(A, h, h + 1)'
      /\ \A n, i \in 1 .. h : Only(A, n, i)' <=> Only(A, n, i)
  BY <1>0, OnlyGrows
<1>5. /\ \A i \in 1 .. h - 1 :
            Only(GuestKinds, i, h + 1)' <=> Only(GuestKinds, i, h) /\ (Filtered(k) => k \in GuestKinds)
      /\ Only(GuestKinds, h, h + 1)'
  BY <1>0, OnlyGrows
<1>6. \A i \in 1 .. h - 1 : Begun(p, i)' <=> Begun(p, i)
  <2> SUFFICES ASSUME NEW i \in 1 .. h - 1
               PROVE  Begun(p, i)' <=> Begun(p, i)
    OBVIOUS
  <2>1. \A n \in 1 .. i : n \in 1 .. h /\ i \in 1 .. h /\ trace'[n] = trace[n]
    BY <1>1
  <2> QED
    BY <1>4, <2>1 DEF Begun
<1>7. k # GapStart[p] => (Begun(p, h)' <=> \E n \in 1 .. h - 1 : OpenAt(n))
  <2>1. \A n \in 1 .. h : n = h \/ n \in 1 .. h - 1
    BY <1>1
  <2>2. h \in 1 .. h /\ \A n \in 1 .. h - 1 : n \in 1 .. h
    BY <1>1
  <2> QED
    BY <1>1, <1>4, <2>1, <2>2 DEF Begun
<1> HIDE DEF A, OpenAt, ClosedAt
<1>8. ASSUME gap'[p].start # 0 <=> \E n \in 1 .. h : trace'[n] = GapStart[p] /\ Only(A, n, h + 1)',
             \A i \in 1 .. h : trace'[i] = GapEnd[p] /\ Only(GuestKinds, i, h + 1)' /\ Begun(p, i)'
                                 <=> gap'[p].end = i,
             gap'[p].start = 0 => gap'[p].end = 0
      PROVE  /\ gap'[p].start # 0 <=> \E n \in 1 .. h :
                   trace'[n] = GapStart[p] /\ Only(GuestKinds \cup {GapEnd[p]}, n, h + 1)'
             /\ \A i \in 1 .. h :
                   trace'[i] = GapEnd[p] /\ Only(GuestKinds, i, h + 1)' /\ Begun(p, i)'
                     <=> gap'[p].end = i
             /\ gap'[p].start = 0 => gap'[p].end = 0
  BY <1>8, Zenon DEF A
<1>b. \A n \in 1 .. h : n = h \/ n \in 1 .. h - 1
  BY <1>1
<1>c. h \in 1 .. h /\ (\A n \in 1 .. h - 1 : n \in 1 .. h /\ n # h) /\ h # 0
  BY <1>1
<1>d. \A n \in 1 .. h - 1 : OpenAt(n) <=> trace[n] = GapStart[p] /\ Only(A, n, h)
  BY DEF OpenAt
<1>e. \A i \in 1 .. h - 1 :
        ClosedAt(i) <=> trace[i] = GapEnd[p] /\ Only(GuestKinds, i, h) /\ Begun(p, i)
  BY DEF ClosedAt
<1>f. k \in A <=> k \in GuestKinds \/ k = GapEnd[p]
  BY DEF A
<1>9. CASE k \in GuestKinds \/ ~Filtered(k)
  <2>1. gap'[p] = gap[p]
    BY <1>9 DEF Taken, Handle, GapNext, parsers
  <2>2. k # GapStart[p] /\ k # GapEnd[p]
    BY <1>9, <1>a DEF Filtered
  <2>3. \A i \in 1 .. h : (Filtered(k) => k \in A /\ k \in GuestKinds)
    BY <1>9, <1>f
  <2>4. gap'[p].start # 0 <=> \E n \in 1 .. h : trace'[n] = GapStart[p] /\ Only(A, n, h + 1)'
    BY <1>1, <1>3, <1>4, <1>b, <1>c, <1>d, <2>1, <2>2, <2>3
  <2>5. \A i \in 1 .. h : trace'[i] = GapEnd[p] /\ Only(GuestKinds, i, h + 1)' /\ Begun(p, i)'
                            <=> gap'[p].end = i
    BY <1>1, <1>2, <1>3, <1>5, <1>6, <1>b, <1>c, <1>e, <2>1, <2>2, <2>3
  <2> QED
    BY <1>3, <1>8, <2>1, <2>4, <2>5
<1>10. CASE Filtered(k) /\ k = GapStart[p]
  <2>1. gap'[p] = [start |-> h, end |-> 0]
    BY <1>1, <1>10, <1>a DEF Taken, Handle, GapNext
  <2>2. gap'[p].start = h /\ gap'[p].end = 0 /\ k \notin GuestKinds /\ k # GapEnd[p]
    BY <1>10, <1>a, <2>1
  <2>3. \E n \in 1 .. h : trace'[n] = GapStart[p] /\ Only(A, n, h + 1)'
    BY <1>1, <1>4, <1>10, <1>c
  <2>4. \A i \in 1 .. h : ~(trace'[i] = GapEnd[p] /\ Only(GuestKinds, i, h + 1)') /\ i # 0
    BY <1>1, <1>5, <1>10, <1>b, <2>2
  <2> QED
    BY <1>8, <1>c, <2>2, <2>3, <2>4
<1>11. CASE Filtered(k) /\ k \notin GuestKinds /\ k # GapStart[p] /\ k # GapEnd[p]
  <2>1. gap'[p] = [start |-> 0, end |-> 0]
    BY <1>1, <1>11 DEF Taken, Handle, GapNext
  <2>2. gap'[p].start = 0 /\ gap'[p].end = 0 /\ k \notin A
    BY <1>11, <1>f, <2>1
  <2>3. ~\E n \in 1 .. h : trace'[n] = GapStart[p] /\ Only(A, n, h + 1)'
    BY <1>1, <1>4, <1>11, <1>b, <2>2
  <2>4. \A i \in 1 .. h : ~(trace'[i] = GapEnd[p] /\ Only(GuestKinds, i, h + 1)') /\ i # 0
    BY <1>1, <1>5, <1>11, <1>b
  <2> QED
    BY <1>8, <2>2, <2>3, <2>4
<1>12. CASE Filtered(k) /\ k = GapEnd[p]
  <2>0. k \notin GuestKinds /\ k # GapStart[p]
    BY <1>12, <1>a
  <2>1. gap'[p] = IF gap[p].start # 0 THEN [gap[p] EXCEPT !.end = h] ELSE gap[p]
    BY <1>1, <1>12, <2>0 DEF Taken, Handle, GapNext
  <2>2. gap'[p].start = gap[p].start /\ gap'[p].end = IF gap[p].start # 0 THEN h ELSE 0
    <3>1. gap[p] \in [start : 0 .. Len(trace), end : 0 .. Len(trace)]
      BY <1>0 DEF TypeOK
    <3> QED
      BY <1>3, <2>1, <3>1
  <2>3. gap'[p].start # 0 <=> \E n \in 1 .. h : trace'[n] = GapStart[p] /\ Only(A, n, h + 1)'
    BY <1>1, <1>3, <1>4, <1>12, <1>b, <1>c, <1>d, <1>f, <2>0, <2>2
  <2>4. \A i \in 1 .. h - 1 : ~Only(GuestKinds, i, h + 1)'
    BY <1>5, <1>12, <2>0
  <2>5. Begun(p, h)' <=> gap[p].start # 0
    BY <1>3, <1>7, <2>0
  <2>6. \A i \in 1 .. h : trace'[i] = GapEnd[p] /\ Only(GuestKinds, i, h + 1)' /\ Begun(p, i)'
                            <=> gap'[p].end = i
    BY <1>1, <1>5, <1>12, <1>b, <1>c, <2>2, <2>4, <2>5
  <2> QED
    BY <1>8, <1>c, <2>2, <2>3, <2>6
<1> QED
  BY <1>9, <1>10, <1>11, <1>12

(* What a list holds after an element is appended. *)
LEMMA RangeAppend ==
    ASSUME NEW S, NEW s \in Seq(S), NEW e
    PROVE  Range(Append(s, e)) = Range(s) \cup {e}
<1>1. /\ DOMAIN s = 1 .. Len(s) /\ DOMAIN Append(s, e) = 1 .. Len(s) + 1
      /\ \A i \in 1 .. Len(s) : Append(s, e)[i] = s[i]
      /\ Append(s, e)[Len(s) + 1] = e /\ Len(s) \in Nat
  OBVIOUS
<1>2. \A i : i \in 1 .. Len(s) + 1 <=> i \in 1 .. Len(s) \/ i = Len(s) + 1
  BY <1>1
<1> QED
  BY <1>1, <1>2 DEF Range

(* The series parsers. *)
LEMMA SeriesMemoryStep ==
    ASSUME NEW k, NEW h, Taken(k, h), SeriesMemory
    PROVE  SeriesMemory'
<1>0. Reads(k, h) /\ TypeOK
  BY DEF Taken, Reads
<1>1. /\ h \in Nat /\ h >= 1 /\ Here = h /\ Here' = h + 1 /\ trace'[h] = k
      /\ \A i \in 1 .. h - 1 : trace'[i] = trace[i]
  BY <1>0, TraceGrows
<1> SUFFICES ASSUME NEW p \in Funcs
             PROVE  /\ Range(series'[p]) = SinceEntry(p, h + 1)'
                    /\ \A a, b \in 1 .. Len(series'[p]) : a < b => series'[p][a] < series'[p][b]
  BY <1>1 DEF SeriesMemory
<1>2. /\ FuncStart[p] # FuncEnd[p] /\ FuncStart[p] \notin Inner[p] /\ FuncEnd[p] \notin Inner[p]
      /\ "elsewhere" \notin Marks(p) \cup Inner[p]
  <2>1. p \in {"guest_recv_func", "guest_tcp_ack"}
    BY DEF Funcs, FuncStart
  <2> QED
    BY <2>1 DEF FuncStart, FuncEnd, Inner, Marks
<1>3. /\ \A i \in 1 .. h - 1 :
            Unseen(Marks(p), i, h + 1)' <=> Unseen(Marks(p), i, h) /\ (Filtered(k) => k \notin Marks(p))
      /\ Unseen(Marks(p), h, h + 1)'
  <2>1. Marks(p)' = Marks(p)
    BY DEF Marks
  <2> QED
    BY <1>0, UnseenGrows
<1>4. \A i : i \in 1 .. (h + 1) - 1 <=> i \in 1 .. h - 1 \/ i = h
  BY <1>1
<1>5. \A i : i \in SinceEntry(p, h + 1)' <=>
            \/ i \in SinceEntry(p, h) /\ (Filtered(k) => k \notin Marks(p))
            \/ i = h /\ k \in Marks(p) \cup Inner[p] /\ k # FuncEnd[p]
  <2>1. \A i \in 1 .. h - 1 : i # h
    BY <1>1
  <2> QED
    BY <1>1, <1>3, <1>4, <2>1 DEF SinceEntry
<1>6. /\ series[p] \in Seq(Nat) /\ Range(series[p]) = SinceEntry(p, h)
      /\ \A a, b \in 1 .. Len(series[p]) : a < b => series[p][a] < series[p][b]
  BY <1>0, <1>1 DEF TypeOK, Interval, SeriesMemory
<1>7. CASE Filtered(k) /\ k = FuncStart[p]
  <2>1. series'[p] = <<h>>
    BY <1>1, <1>7 DEF Taken, Handle, SeriesNext
  <2>2. Range(<<h>>) = {h} /\ Len(<<h>>) = 1
    BY DEF Range
  <2>3. SinceEntry(p, h + 1)' = {h}
    BY <1>2, <1>5, <1>7 DEF Marks
  <2> QED
    BY <2>1, <2>2, <2>3
<1>8. CASE Filtered(k) /\ k \in Inner[p]
  <2>1. k \notin Marks(p) /\ k # FuncEnd[p]
    BY <1>2, <1>8 DEF Marks
  <2>2. series'[p] = Append(series[p], h)
    BY <1>1, <1>2, <1>8 DEF Taken, Handle, SeriesNext
  <2>3. Range(series'[p]) = Range(series[p]) \cup {h}
    BY <1>6, <2>2, RangeAppend
  <2>4. SinceEntry(p, h + 1)' = SinceEntry(p, h) \cup {h}
    BY <1>5, <1>8, <2>1
  <2>5. \A a \in 1 .. Len(series[p]) : series[p][a] \in 1 .. h - 1
    <3>1. \A a \in 1 .. Len(series[p]) : series[p][a] \in Range(series[p])
      BY <1>6 DEF Range
    <3> QED
      BY <1>6, <3>1 DEF SinceEntry
  <2>6. ASSUME NEW a \in 1 .. Len(series'[p]), NEW b \in 1 .. Len(series'[p]), a < b
        PROVE  series'[p][a] < series'[p][b]
    <3> DEFINE s == series[p]
    <3>1. s \in Seq(Nat) /\ series'[p] = Append(s, h)
      BY <1>6, <2>2
    <3>2. /\ \A c, d \in 1 .. Len(s) : c < d => s[c] < s[d]
          /\ \A c \in 1 .. Len(s) : s[c] \in Nat /\ s[c] < h
      BY <1>1, <1>6, <2>5
    <3> HIDE DEF s
    <3>3. /\ a \in 1 .. Len(s) /\ series'[p][a] = s[a]
          /\ b \in 1 .. Len(s) \/ b = Len(s) + 1
      BY <3>1, <2>6
    <3>4. /\ b \in 1 .. Len(s) => series'[p][b] = s[b]
          /\ b = Len(s) + 1 => series'[p][b] = h
      BY <3>1
    <3> QED
      BY <2>6, <3>2, <3>3, <3>4
  <2> QED
    BY <1>6, <2>3, <2>4, <2>6
<1>9. CASE Filtered(k) /\ k = FuncEnd[p]
  <2>1. series'[p] = <<>>
    BY <1>1, <1>2, <1>9 DEF Taken, Handle, SeriesNext
  <2>2. Range(<<>>) = {} /\ Len(<<>>) = 0
    BY DEF Range
  <2>3. SinceEntry(p, h + 1)' = {}
    BY <1>2, <1>5, <1>9 DEF Marks
  <2> QED
    BY <2>1, <2>2, <2>3
<1>10. CASE ~Filtered(k) \/ k \notin Marks(p) \cup Inner[p]
  <2>1. series'[p] = series[p]
    BY <1>10 DEF Taken, Handle, SeriesNext, Marks, parsers
  <2>2. SinceEntry(p, h + 1)' = SinceEntry(p, h)
    BY <1>2, <1>5, <1>10 DEF Filtered
  <2> QED
    BY <1>6, <2>1, <2>2
<1> QED
  BY <1>7, <1>8, <1>9, <1>10 DEF Marks

(* The parser of hardware entries. *)
LEMMA HwMemoryStep ==
    ASSUME NEW k, NEW h, Taken(k, h), HwMemory
    PROVE  HwMemory'
<1>0. Reads(k, h) /\ TypeOK
  BY DEF Taken, Reads
<1>1. /\ h \in Nat /\ h >= 1 /\ Here = h /\ Here' = h + 1 /\ trace'[h] = k
      /\ Positions = 1 .. h - 1 /\ Positions' = 1 .. h
      /\ \A i \in 1 .. h - 1 : trace'[i] = trace[i]
  BY <1>0, TraceGrows
<1> DEFINE K == {"kvm_entry", "net_exit_after"}
           N == {"net_exit_after"}
<1>2. /\ \A i \in 1 .. h - 1 : Unseen(K, i, h + 1)' <=> Unseen(K, i, h) /\ (Filtered(k) => k \notin K)
      /\ Unseen(K, h, h + 1)'
  BY <1>0, UnseenGrows
<1>3. /\ \A i \in 1 .. h - 1 : Unseen(N, i, h + 1)' <=> Unseen(N, i, h) /\ (Filtered(k) => k \notin N)
      /\ Unseen(N, h, h + 1)'
  BY <1>0, UnseenGrows
<1>4. /\ \A i \in 1 .. h - 1 : trace[i] = "kvm_entry" /\ Unseen(K, i, h) <=> hw.entry = i
      /\ hw.exit # 0 <=> \E i \in 1 .. h - 1 : trace[i] \in Exits /\ Unseen(N, i, h)
  BY <1>1 DEF HwMemory
<1>5. hw \in [entry : 0 .. h - 1, exit : 0 .. h - 1]
  BY <1>0, <1>1 DEF TypeOK, Positions
<1>6. hw.entry \in 0 .. h - 1 /\ hw.exit \in 0 .. h - 1
  BY <1>5
<1>7. /\ \A i \in 1 .. h : i = h \/ i \in 1 .. h - 1
      /\ h \in 1 .. h /\ h # 0 /\ \A i \in 1 .. h - 1 : i \in 1 .. h /\ i # h
  BY <1>1
<1>8. "kvm_entry" \notin Exits /\ "net_exit_after" \notin Exits /\ "elsewhere" \notin Exits
  BY DEF Exits
<1>9. /\ hw'.entry = IF ~Filtered(k) THEN hw.entry ELSE IF k = "kvm_entry" THEN h
                     ELSE IF k = "net_exit_after" THEN 0 ELSE hw.entry
      /\ hw'.exit = IF ~Filtered(k) THEN hw.exit ELSE IF k \in Exits THEN h
                    ELSE IF k = "net_exit_after" THEN 0 ELSE hw.exit
  BY <1>1, <1>5, <1>8 DEF Taken, Handle, HwNext, parsers
<1>10. \A i \in 1 .. h : trace'[i] = "kvm_entry" /\ Unseen(K, i, h + 1)' <=> hw'.entry = i
  BY <1>1, <1>2, <1>4, <1>6, <1>7, <1>9 DEF Filtered
<1>11. hw'.exit # 0 <=> \E i \in 1 .. h : trace'[i] \in Exits /\ Unseen(N, i, h + 1)'
  BY <1>1, <1>3, <1>4, <1>6, <1>7, <1>8, <1>9 DEF Filtered
<1> QED
  BY <1>1, <1>10, <1>11 DEF HwMemory

(* Being inside a writev is settled by what came before. *)
LEMMA InWritevGrows ==
    ASSUME NEW k, NEW h, Reads(k, h)
    PROVE  /\ \A i \in 1 .. h - 1 : InWritev(i)' <=> InWritev(i)
           /\ InWritev(h)' <=>
                 \/ k \in Opens["host_writev"]
                 \/ \E i \in 1 .. h - 1 : trace[i] \in Opens["host_writev"] /\ Unseen({"sys_writev_end"}, i, h)
<1>1. /\ h \in Nat /\ h >= 1 /\ trace'[h] = k
      /\ \A i \in 1 .. h - 1 : trace'[i] = trace[i]
  BY TraceGrows
<1> DEFINE E == {"sys_writev_end"}
<1>2. \A i, j \in 1 .. h : Unseen(E, i, j)' <=> Unseen(E, i, j)
  BY UnseenGrows
<1>3. \A i : InWritev(i) <=> \E w \in 1 .. i : trace[w] \in Opens["host_writev"] /\ Unseen(E, w, i)
  BY DEF InWritev, Unseen
<1>4. \A i : InWritev(i)' <=> \E w \in 1 .. i : trace'[w] \in Opens["host_writev"] /\ Unseen(E, w, i)'
  BY DEF InWritev, Unseen
<1>5. ASSUME NEW i \in 1 .. h - 1
      PROVE  InWritev(i)' <=> InWritev(i)
  <2>1. \A w \in 1 .. i : w \in 1 .. h - 1 /\ w \in 1 .. h /\ i \in 1 .. h
    BY <1>1
  <2> HIDE DEF E
  <2> QED
    BY <1>1, <1>2, <1>3, <1>4, <2>1
<1>6. /\ \A i \in 1 .. h : i = h \/ i \in 1 .. h - 1
      /\ h \in 1 .. h /\ \A i \in 1 .. h - 1 : i \in 1 .. h
  BY <1>1
<1>7. Unseen(E, h, h)'
  BY <1>1 DEF Unseen, SeenBetween
<1>8. InWritev(h)' <=> \/ k \in Opens["host_writev"]
                       \/ \E i \in 1 .. h - 1 : trace[i] \in Opens["host_writev"] /\ Unseen(E, i, h)
  <2> HIDE DEF E
  <2> QED
    BY <1>1, <1>2, <1>4, <1>6, <1>7
<1> QED
  BY <1>5, <1>8

(* The parser of what happens inside a writev. *)
LEMMA DeepMemoryStep ==
    ASSUME NEW k, NEW h, Taken(k, h), DeepMemory
    PROVE  DeepMemory'
<1>0. Reads(k, h) /\ TypeOK
  BY DEF Taken, Reads
<1>1. /\ h \in Nat /\ h >= 1 /\ Here = h /\ Here' = h + 1 /\ trace'[h] = k
      /\ Positions = 1 .. h - 1 /\ Positions' = 1 .. h
      /\ \A i \in 1 .. h - 1 : trace'[i] = trace[i]
  BY <1>0, TraceGrows
<1> DEFINE E == {"sys_writev_end"}
           Opening == Opens["host_writev"]
<1>2. /\ \A i \in 1 .. h - 1 : Unseen(E, i, h + 1)' <=> Unseen(E, i, h) /\ (Filtered(k) => k \notin E)
      /\ Unseen(E, h, h + 1)'
  BY <1>0, UnseenGrows
<1>3. /\ deep.writev # 0 <=> \E i \in 1 .. h - 1 : trace[i] \in Opening /\ Unseen(E, i, h)
      /\ \A i \in 1 .. h - 1 :
            trace[i] = "import_iovec" /\ InWritev(i) /\ NoImport(i, h) <=> deep.iovec = i
  BY <1>1 DEF DeepMemory
<1>4. deep \in [writev : 0 .. h - 1, iovec : 0 .. h - 1]
  BY <1>0, <1>1 DEF TypeOK, Positions
<1>5. deep.writev \in 0 .. h - 1 /\ deep.iovec \in 0 .. h - 1
  BY <1>4
<1>6. /\ \A i \in 1 .. h : i = h \/ i \in 1 .. h - 1
      /\ h \in 1 .. h /\ h # 0 /\ \A i \in 1 .. h - 1 : i \in 1 .. h /\ i # h
  BY <1>1
<1>7. /\ "sys_writev_end" \notin Opening /\ "import_iovec" \notin Opening /\ "elsewhere" \notin Opening
  BY DEF Opens
<1>8. /\ deep'.writev = IF ~Filtered(k) THEN deep.writev ELSE IF k \in Opening THEN h
                        ELSE IF k = "sys_writev_end" THEN 0 ELSE deep.writev
      /\ deep'.iovec = IF Filtered(k) /\ k = "import_iovec" /\ deep.writev # 0 THEN h ELSE deep.iovec
  BY <1>1, <1>4, <1>7 DEF Taken, Handle, DeepNext, parsers
<1>9. /\ \A i \in 1 .. h - 1 : InWritev(i)' <=> InWritev(i)
      /\ InWritev(h)' <=> k \in Opening \/ deep.writev # 0
  BY <1>0, <1>3, InWritevGrows
<1>10. /\ \A i \in 1 .. h - 1 : NoImport(i, h + 1)' <=>
             NoImport(i, h) /\ (Filtered(k) /\ k = "import_iovec" => ~InWritev(h)')
       /\ NoImport(h, h + 1)'
  <2>1. NoImport(h, h + 1)'
    BY <1>0, SeenGrows DEF NoImport
  <2>2. ASSUME NEW i \in 1 .. h - 1
        PROVE  NoImport(i, h + 1)' <=>
                 NoImport(i, h) /\ (Filtered(k) /\ k = "import_iovec" => ~InWritev(h)')
    <3>1. \A n : n \in SeenBetween(i, h + 1)' <=> n \in SeenBetween(i, h) \/ (n = h /\ Filtered(k))
      BY <1>0, SeenGrows
    <3>2. SeenBetween(i, h) \subseteq 1 .. h - 1
      BY <1>0, <1>6, SeenGrows
    <3>3. NoImport(i, h + 1)' <=>
            \A n \in SeenBetween(i, h + 1)' : trace'[n] = "import_iovec" => ~InWritev(n)'
      BY DEF NoImport
    <3>4. NoImport(i, h) <=> \A n \in SeenBetween(i, h) : trace[n] = "import_iovec" => ~InWritev(n)
      BY DEF NoImport
    <3> QED
      BY <1>1, <1>9, <3>1, <3>2, <3>3, <3>4
  <2> QED
    BY <2>1, <2>2
<1> HIDE DEF Opening
<1>11. deep'.writev # 0 <=> \E i \in 1 .. h : trace'[i] \in Opening /\ Unseen(E, i, h + 1)'
  BY <1>1, <1>2, <1>3, <1>5, <1>6, <1>7, <1>8 DEF Filtered
<1>12. \A i \in 1 .. h : trace'[i] = "import_iovec" /\ InWritev(i)' /\ NoImport(i, h + 1)'
                           <=> deep'.iovec = i
  BY <1>1, <1>3, <1>5, <1>6, <1>7, <1>8, <1>9, <1>10 DEF Filtered
<1> QED
  BY <1>1, <1>11, <1>12 DEF DeepMemory, Opening

(* The parser of batches. *)
LEMMA BatchMemoryStep ==
    ASSUME NEW k, NEW h, Taken(k, h), BatchMemory
    PROVE  BatchMemory'
<1>0. Reads(k, h) /\ TypeOK
  BY DEF Taken, Reads
<1>1. /\ h \in Nat /\ h >= 1 /\ Here = h /\ Here' = h + 1 /\ trace'[h] = k
      /\ Positions = 1 .. h - 1 /\ Positions' = 1 .. h
      /\ \A i \in 1 .. h - 1 : trace'[i] = trace[i]
  BY <1>0, TraceGrows
<1> DEFINE Quiet(i) == \A n \in SeenBetween(i, h) : ~IsEnd(n)
<1>2. /\ ignoreHalt <=> \E n \in 1 .. h - 1 : trace[n] = "exit_kick"
      /\ \A i \in 1 .. h - 1 : IsEnd(i) /\ Quiet(i) <=> boundary = i
  BY <1>1 DEF BatchMemory
<1>3. boundary \in 0 .. h - 1
  BY <1>0, <1>1 DEF TypeOK, Positions
<1>4. /\ \A i \in 1 .. h : i = h \/ i \in 1 .. h - 1
      /\ h \in 1 .. h /\ h # 0 /\ \A i \in 1 .. h - 1 : i \in 1 .. h /\ i # h
  BY <1>1
<1>5. /\ \A i \in 1 .. h - 1 : IsEnd(i)' <=> IsEnd(i)
      /\ IsEnd(h)' <=> EndsBatch(k)
  BY <1>0, <1>1, <1>2, EndGrows
<1>6. EndsBatch(k) => Filtered(k)
  BY DEF EndsBatch, Filtered
<1>7. /\ ignoreHalt' <=> ignoreHalt \/ k = "exit_kick"
      /\ boundary' = IF EndsBatch(k) THEN h ELSE boundary
  <2>1. CASE Filtered(k) /\ Handle(k)
    <3>1. ignoreHalt' = (ignoreHalt \/ k = "exit_kick")
      BY <2>1 DEF Handle
    <3>2. boundary' = IF EndsBatch(k) THEN h ELSE boundary
      BY <1>1, <2>1 DEF Handle
    <3> QED
      BY <3>1, <3>2, Zenon
  <2>2. CASE ~Filtered(k) /\ UNCHANGED parsers
    <3>1. ignoreHalt' = ignoreHalt /\ boundary' = boundary
      BY <2>2 DEF parsers
    <3>2. k # "exit_kick" /\ ~EndsBatch(k)
      BY <1>6, <2>2 DEF Filtered
    <3> QED
      BY <3>1, <3>2, Zenon
  <2> QED
    BY <2>1, <2>2 DEF Taken
<1>8. \A i \in 1 .. h - 1 :
        (\A n \in SeenBetween(i, h + 1)' : ~IsEnd(n)') <=> Quiet(i) /\ ~EndsBatch(k)
  <2> SUFFICES ASSUME NEW i \in 1 .. h - 1
               PROVE  (\A n \in SeenBetween(i, h + 1)' : ~IsEnd(n)') <=> Quiet(i) /\ ~EndsBatch(k)
    OBVIOUS
  <2>1. \A n : n \in SeenBetween(i, h + 1)' <=> n \in SeenBetween(i, h) \/ (n = h /\ Filtered(k))
    BY <1>0, SeenGrows
  <2>2. SeenBetween(i, h) \subseteq 1 .. h - 1
    BY <1>0, <1>4, SeenGrows
  <2> QED
    BY <1>5, <1>6, <2>1, <2>2
<1>9. SeenBetween(h, h + 1)' = {}
  BY <1>0, SeenGrows
<1> HIDE DEF Quiet
<1>10. \A i \in 1 .. h : IsEnd(i)' /\ (\A n \in SeenBetween(i, h + 1)' : ~IsEnd(n)') <=> boundary' = i
  BY <1>2, <1>3, <1>4, <1>5, <1>7, <1>8, <1>9
<1>11. ignoreHalt' <=> \E n \in 1 .. h : trace'[n] = "exit_kick"
  BY <1>1, <1>2, <1>4, <1>7
<1> QED
  BY <1>1, <1>10, <1>11 DEF BatchMemory

(* Reading an event, all parsers remember what is to be remembered. *)
LEMMA MemoryStep ==
    ASSUME NEW k, NEW h, Taken(k, h), Memory
    PROVE  Memory'
BY PairMemoryStep, GapMemoryStep, SeriesMemoryStep, HwMemoryStep, DeepMemoryStep, BatchMemoryStep
   DEF Memory

-----------------------------------------------------------------------------
(* A list without repetitions has as many elements as it is long. *)
LEMMA CountOnce ==
    ASSUME NEW n \in Nat, NEW T, NEW f \in [1 .. n -> T],
           \A t \in T : \E a \in 1 .. n : f[a] = t,
           \A a, b \in 1 .. n : f[a] = f[b] => a = b
    PROVE  IsFiniteSet(T) /\ Cardinality(T) = n
<1>1. IsFiniteSet(1 .. n) /\ Cardinality(1 .. n) = n
  BY FS_Interval
<1>2. f \in Bijection(1 .. n, T)
  BY DEF Bijection, Injection, Surjection, IsInjective
<1> QED
  BY <1>1, <1>2, FS_Bijection DEF ExistsBijection

(* A sorted list of positions has no repetitions. *)
LEMMA CountSorted ==
    ASSUME NEW s \in Seq(Nat), \A a, b \in 1 .. Len(s) : a < b => s[a] < s[b]
    PROVE  IsFiniteSet(Range(s)) /\ Cardinality(Range(s)) = Len(s)
<1>1. Len(s) \in Nat /\ s \in [1 .. Len(s) -> Range(s)] /\ \A a \in 1 .. Len(s) : s[a] \in Nat
  BY DEF Range
<1>2. \A t \in Range(s) : \E a \in 1 .. Len(s) : s[a] = t
  BY DEF Range
<1>3. \A a, b \in 1 .. Len(s) : s[a] = s[b] => a = b
  <2> SUFFICES ASSUME NEW a \in 1 .. Len(s), NEW b \in 1 .. Len(s), s[a] = s[b]
               PROVE  a = b
    OBVIOUS
  <2>1. ~(a < b) /\ ~(b < a)
    BY <1>1
  <2> QED
    BY <2>1
<1> QED
  BY <1>1, <1>2, <1>3, CountOnce

(* The parsers of pairs count <<i, h>> if it is a pair. *)
LEMMA PairDue ==
    ASSUME NEW k, NEW h, Reads(k, h), PairMemory, Filtered(k), NEW p \in Pairs
    PROVE  /\ \A i \in 1 .. h - 1 : IsPair(p, i, h)' <=> PairCount(p, k) = <<i, h>>
           /\ PairCount(p, k) # <<>> => \E i \in 1 .. h - 1 : PairCount(p, k) = <<i, h>>
<1>0. TypeOK
  BY DEF Reads
<1>1. /\ h \in Nat /\ h >= 1 /\ Here = h /\ trace'[h] = k /\ Positions = 1 .. h - 1
      /\ \A i \in 1 .. h - 1 : trace'[i] = trace[i] /\ i \in 1 .. h
      /\ h \in 1 .. h
  BY TraceGrows
<1> DEFINE K == Opens[p] \cup Closes[p] \cup Drops[p]
<1>2. last[p] \in 0 .. h - 1
  BY <1>0, <1>1 DEF TypeOK, Positions
<1>3. \A i \in 1 .. h - 1 : Unseen(K, i, h)' <=> Unseen(K, i, h)
  BY <1>1, UnseenGrows
<1>4. \A i \in 1 .. h - 1 : trace[i] \in Opens[p] /\ Unseen(K, i, h) <=> last[p] = i
  BY <1>1 DEF PairMemory
<1>5. \A i \in 1 .. h - 1 : IsPair(p, i, h)' <=> k \in Closes[p] /\ last[p] = i
  <2> SUFFICES ASSUME NEW i \in 1 .. h - 1
               PROVE  IsPair(p, i, h)' <=> k \in Closes[p] /\ last[p] = i
    OBVIOUS
  <2>1. IsPair(p, i, h)' <=>
          trace'[i] \in Opens[p] /\ trace'[h] \in Closes[p] /\ Filtered(trace'[h]) /\ Unseen(K, i, h)'
    BY DEF IsPair, Unseen
  <2> HIDE DEF K
  <2> QED
    BY <1>1, <1>3, <1>4, <2>1
<1>6. PairCount(p, k) = IF k \in Closes[p] /\ last[p] # 0 THEN <<last[p], h>> ELSE <<>>
  BY <1>1, PairKinds DEF PairCount
<1>7. \A i \in 1 .. h - 1 : i # 0 /\ <<i, h>> # <<>> /\ (<<last[p], h>> = <<i, h>> <=> last[p] = i)
  BY <1>1
<1>8. last[p] # 0 => last[p] \in 1 .. h - 1
  BY <1>2
<1> HIDE DEF K
<1>9. ASSUME NEW i \in 1 .. h - 1
      PROVE  IsPair(p, i, h)' <=> PairCount(p, k) = <<i, h>>
  BY <1>5, <1>6, <1>7
<1> QED
  BY <1>6, <1>8, <1>9

(* The parsers of gaps count <<i, h>> if it is a gap. *)
LEMMA GapDue ==
    ASSUME NEW k, NEW h, Reads(k, h), GapMemory, NEW p \in Gaps
    PROVE  /\ \A i \in 1 .. h - 1 : IsGap(p, i, h)' <=> GapCount(p, k) = <<i, h>>
           /\ GapCount(p, k) # <<>> => \E i \in 1 .. h - 1 : GapCount(p, k) = <<i, h>>
<1>0. TypeOK
  BY DEF Reads
<1>1. /\ h \in Nat /\ h >= 1 /\ Here = h /\ trace'[h] = k /\ Positions = 1 .. h - 1
      /\ \A i \in 1 .. h - 1 : trace'[i] = trace[i] /\ i \in 1 .. h
      /\ h \in 1 .. h
  BY TraceGrows
<1> DEFINE A == GuestKinds \cup {GapEnd[p]}
<1>2. gap[p].start \in 0 .. h - 1 /\ gap[p].end \in 0 .. h - 1
  BY <1>0, <1>1 DEF TypeOK, Positions
<1>3. \A i \in 1 .. h - 1 : Only(GuestKinds, i, h)' <=> Only(GuestKinds, i, h)
  BY <1>1, OnlyGrows
<1>4. \A i \in 1 .. h - 1 : Begun(p, i)' <=> Begun(p, i)
  <2> SUFFICES ASSUME NEW i \in 1 .. h - 1
               PROVE  Begun(p, i)' <=> Begun(p, i)
    OBVIOUS
  <2>1. \A n \in 1 .. i : n \in 1 .. h /\ i \in 1 .. h /\ trace'[n] = trace[n]
    BY <1>1
  <2>2. \A n, j \in 1 .. h : Only(A, n, j)' <=> Only(A, n, j)
    BY OnlyGrows
  <2> QED
    BY <2>1, <2>2 DEF Begun
<1>5. /\ \A i \in 1 .. h - 1 : trace[i] = GapEnd[p] /\ Only(GuestKinds, i, h) /\ Begun(p, i)
            <=> gap[p].end = i
      /\ gap[p].start = 0 => gap[p].end = 0
  BY <1>1 DEF GapMemory
<1>6. \A i \in 1 .. h - 1 : IsGap(p, i, h)' <=> k = GapStart[p] /\ gap[p].end = i
  <2> SUFFICES ASSUME NEW i \in 1 .. h - 1
               PROVE  IsGap(p, i, h)' <=> k = GapStart[p] /\ gap[p].end = i
    OBVIOUS
  <2>1. IsGap(p, i, h)' <=>
          trace'[i] = GapEnd[p] /\ trace'[h] = GapStart[p] /\ Only(GuestKinds, i, h)' /\ Begun(p, i)'
    BY DEF IsGap, Only, Begun
  <2> QED
    BY <1>1, <1>3, <1>4, <1>5, <2>1
<1>7. GapCount(p, k) = IF k = GapStart[p] /\ gap[p].end # 0 THEN <<gap[p].end, h>> ELSE <<>>
  BY <1>1, <1>5 DEF GapCount
<1>8. \A i \in 1 .. h - 1 :
        i # 0 /\ <<i, h>> # <<>> /\ (<<gap[p].end, h>> = <<i, h>> <=> gap[p].end = i)
  BY <1>1
<1>9. gap[p].end # 0 => gap[p].end \in 1 .. h - 1
  BY <1>2
<1>10. ASSUME NEW i \in 1 .. h - 1
       PROVE  IsGap(p, i, h)' <=> GapCount(p, k) = <<i, h>>
  BY <1>6, <1>7, <1>8
<1> QED
  BY <1>7, <1>9, <1>10

(* The parser of hardware entries counts <<i, h>> if i is the entry before packet h. *)
LEMMA HwDue ==
    ASSUME NEW k, NEW h, Reads(k, h), HwMemory
    PROVE  /\ \A i \in 1 .. h - 1 : IsEntry(i, h)' <=> HwCount(k) = <<i, h>>
           /\ HwCount(k) # <<>> => \E i \in 1 .. h - 1 : HwCount(k) = <<i, h>>
<1>0. TypeOK
  BY DEF Reads
<1>1. /\ h \in Nat /\ h >= 1 /\ Here = h /\ trace'[h] = k /\ Positions = 1 .. h - 1
      /\ \A i \in 1 .. h - 1 : trace'[i] = trace[i] /\ i \in 1 .. h /\ i # h
      /\ h \in 1 .. h /\ \A i \in 1 .. h : i = h \/ i \in 1 .. h - 1
  BY TraceGrows
<1> DEFINE K == {"kvm_entry", "net_exit_after"}
           N == {"net_exit_after"}
<1>2. hw.entry \in 0 .. h - 1 /\ hw.exit \in 0 .. h - 1
  BY <1>0, <1>1 DEF TypeOK, Positions
<1>3. \A i \in 1 .. h - 1 : Unseen(K, i, h)' <=> Unseen(K, i, h)
  BY <1>1, UnseenGrows
<1>4. \A i \in 1 .. h - 1 : Unseen(N, i, h)' <=> Unseen(N, i, h)
  BY <1>1, UnseenGrows
<1>5. /\ \A i \in 1 .. h - 1 : trace[i] = "kvm_entry" /\ Unseen(K, i, h) <=> hw.entry = i
      /\ hw.exit # 0 <=> \E x \in 1 .. h - 1 : trace[x] \in Exits /\ Unseen(N, x, h)
  BY <1>1 DEF HwMemory
<1>6. ASSUME NEW i \in 1 .. h - 1
      PROVE  IsEntry(i, h)' <=> k = "net_exit_after" /\ hw.entry = i /\ hw.exit # 0
  <2>1. IsEntry(i, h)' <=>
          /\ trace'[i] = "kvm_entry" /\ trace'[h] = "net_exit_after" /\ Unseen(K, i, h)'
          /\ \E x \in 1 .. h : trace'[x] \in Exits /\ Unseen(N, x, h)'
    BY DEF IsEntry, Unseen
  <2>2. "net_exit_after" \notin Exits
    BY DEF Exits
  <2> HIDE DEF K, N
  <2> QED
    BY <1>1, <1>3, <1>4, <1>5, <2>1, <2>2
<1>7. HwCount(k) = IF k = "net_exit_after" /\ hw.entry # 0 /\ hw.exit # 0 THEN <<hw.entry, h>> ELSE <<>>
  BY <1>1 DEF HwCount
<1>8. \A i \in 1 .. h - 1 :
        i # 0 /\ <<i, h>> # <<>> /\ (<<hw.entry, h>> = <<i, h>> <=> hw.entry = i)
  BY <1>1
<1>9. hw.entry # 0 => hw.entry \in 1 .. h - 1
  BY <1>2
<1>10. ASSUME NEW i \in 1 .. h - 1
       PROVE  IsEntry(i, h)' <=> HwCount(k) = <<i, h>>
  BY <1>6, <1>7, <1>8
<1> QED
  BY <1>7, <1>9, <1>10

(* An import between the last start within a writev, whichever that was,   *)
(* and an end within one.                                                  *)
ImportsAre ==
    \A i, j \in Nat \ {0} : i < j =>
        (IsImport(i, j) <=> /\ trace[i] = "import_iovec" /\ InWritev(i)
                            /\ trace[j] = "import_iovec_end" /\ InWritev(j) /\ NoImport(i, j))

(* These are the imports from their own start and the stale ones.          *)
LEMMA ImportIs == ImportsAre
<1> SUFFICES ASSUME NEW i \in Nat \ {0}, NEW j \in Nat \ {0}, i < j
             PROVE  IsImport(i, j) <=> /\ trace[i] = "import_iovec" /\ InWritev(i)
                                       /\ trace[j] = "import_iovec_end" /\ InWritev(j) /\ NoImport(i, j)
  BY DEF ImportsAre
<1> DEFINE E == Opens["host_writev"] \cup {"sys_writev_end"}
<1>1. "import_iovec_end" \notin E /\ "import_iovec" \notin E /\ "sys_writev_end" \notin Opens["host_writev"]
  BY DEF Opens
<1>2. i \in Nat /\ j \in Nat /\ 1 <= i /\ i < j
  OBVIOUS
<1>3. \A n \in SeenBetween(i, j) : n \in Nat /\ i < n /\ n < j
  BY <1>2 DEF SeenBetween
<1>4. ASSUME IsOwnImport(i, j)
      PROVE  InWritev(i) /\ NoImport(i, j)
  <2>1. \A n \in SeenBetween(i, j) : trace[n] \notin E \cup {"import_iovec"}
    BY <1>4 DEF IsOwnImport
  <2>2. PICK w \in 1 .. j : /\ trace[w] \in Opens["host_writev"]
                            /\ \A n \in SeenBetween(w, j) : trace[n] # "sys_writev_end"
    BY <1>4 DEF IsOwnImport, InWritev
  <2>3. w # i /\ w # j
    BY <1>1, <1>4, <2>2 DEF IsOwnImport
  <2>4. Filtered(trace[w])
    BY <2>2 DEF Opens, Filtered
  <2>5. w < i
    <3> SUFFICES ASSUME i < w PROVE FALSE
      BY <1>2, <2>3
    <3>1. w \in SeenBetween(i, j)
      BY <1>2, <2>3, <2>4 DEF SeenBetween
    <3> QED
      BY <2>1, <2>2, <3>1
  <2>6. SeenBetween(w, i) \subseteq SeenBetween(w, j)
    BY <1>2, <2>5 DEF SeenBetween
  <2>7. InWritev(i)
    BY <1>2, <2>2, <2>5, <2>6 DEF InWritev
  <2> QED
    BY <2>1, <2>7 DEF NoImport
<1>5. ASSUME InWritev(i), NoImport(i, j), \A n \in SeenBetween(i, j) : trace[n] \notin E,
             trace[i] = "import_iovec", NEW n \in SeenBetween(i, j)
      PROVE  trace[n] # "import_iovec"
  <2>1. PICK w \in 1 .. i : /\ trace[w] \in Opens["host_writev"]
                            /\ \A m \in SeenBetween(w, i) : trace[m] # "sys_writev_end"
    BY <1>5 DEF InWritev
  <2>2. w # i /\ w \in 1 .. n
    BY <1>1, <1>2, <1>3, <1>5, <2>1
  <2>3. ASSUME NEW m \in SeenBetween(w, n)
        PROVE  trace[m] # "sys_writev_end"
    <3>1. m \in Nat /\ w < m /\ m < n /\ Filtered(trace[m]) /\ n \in Nat /\ n < j
      BY <1>3, <1>5, <2>2, <2>3 DEF SeenBetween
    <3>2. CASE m < i
      <4>1. m \in SeenBetween(w, i)
        BY <1>2, <3>1, <3>2 DEF SeenBetween
      <4> QED
        BY <2>1, <4>1
    <3>3. CASE m = i
      BY <1>5, <3>3
    <3>4. CASE m > i
      <4>1. m \in SeenBetween(i, j)
        BY <1>2, <3>1, <3>4 DEF SeenBetween
      <4> QED
        BY <1>5, <4>1
    <3> QED
      BY <1>2, <3>1, <3>2, <3>3, <3>4
  <2>4. InWritev(n)
    BY <2>1, <2>2, <2>3 DEF InWritev
  <2> QED
    BY <1>5, <2>4 DEF NoImport
<1>6. CASE \E n \in SeenBetween(i, j) : trace[n] \in E
  <2>1. ~IsOwnImport(i, j)
    BY <1>6 DEF IsOwnImport
  <2> QED
    BY <1>6, <2>1 DEF IsImport, IsStaleImport, NoImport
<1>7. CASE \A n \in SeenBetween(i, j) : trace[n] \notin E
  <2>1. ~IsStaleImport(i, j)
    BY <1>7 DEF IsStaleImport
  <2>2. IsOwnImport(i, j) => InWritev(i) /\ NoImport(i, j)
    BY <1>4
  <2>3. IsOwnImport(i, j) <=>
          /\ trace[i] = "import_iovec" /\ trace[j] = "import_iovec_end" /\ InWritev(j)
          /\ \A n \in SeenBetween(i, j) : trace[n] # "import_iovec"
    BY <1>7 DEF IsOwnImport
  <2>4. trace[i] = "import_iovec" /\ InWritev(i) /\ NoImport(i, j) =>
          \A n \in SeenBetween(i, j) : trace[n] # "import_iovec"
    BY <1>5, <1>7
  <2> QED
    BY <2>1, <2>2, <2>3, <2>4 DEF IsImport
<1> QED
  BY <1>6, <1>7

(* The parser of writevs counts <<i, h>> if it is an import of one. *)
LEMMA DeepDue ==
    ASSUME NEW k, NEW h, Reads(k, h), DeepMemory, ~HandlerRaises(k)
    PROVE  /\ \A i \in 1 .. h - 1 : IsImport(i, h)' <=> DeepCount(k) = <<i, h>>
           /\ DeepCount(k) # <<>> => \E i \in 1 .. h - 1 : DeepCount(k) = <<i, h>>
<1>0. TypeOK
  BY DEF Reads
<1>1. /\ h \in Nat /\ h >= 1 /\ Here = h /\ trace'[h] = k /\ Positions = 1 .. h - 1
      /\ \A i \in 1 .. h - 1 : trace'[i] = trace[i] /\ i \in 1 .. h
      /\ h \in 1 .. h
  BY TraceGrows
<1>2. deep.iovec \in 0 .. h - 1
  BY <1>0, <1>1 DEF TypeOK, Positions
<1>3. /\ deep.writev # 0 <=>
           \E i \in 1 .. h - 1 : trace[i] \in Opens["host_writev"] /\ Unseen({"sys_writev_end"}, i, h)
      /\ \A i \in 1 .. h - 1 :
            trace[i] = "import_iovec" /\ InWritev(i) /\ NoImport(i, h) <=> deep.iovec = i
  BY <1>1 DEF DeepMemory
<1>4. /\ \A i \in 1 .. h - 1 : InWritev(i)' <=> InWritev(i)
      /\ InWritev(h)' <=> k \in Opens["host_writev"] \/ deep.writev # 0
  BY <1>3, InWritevGrows
<1>5. \A i \in 1 .. h - 1 : NoImport(i, h)' <=> NoImport(i, h)
  <2> SUFFICES ASSUME NEW i \in 1 .. h - 1
               PROVE  NoImport(i, h)' <=> NoImport(i, h)
    OBVIOUS
  <2>1. SeenBetween(i, h)' = SeenBetween(i, h) /\ SeenBetween(i, h) \subseteq 1 .. h - 1
    BY <1>1, SeenGrows
  <2>2. NoImport(i, h)' <=> \A n \in SeenBetween(i, h)' : trace'[n] = "import_iovec" => ~InWritev(n)'
    BY DEF NoImport
  <2> QED
    BY <1>1, <1>4, <2>1, <2>2 DEF NoImport
<1>6. ASSUME NEW i \in 1 .. h - 1
      PROVE  IsImport(i, h)' <=> k = "import_iovec_end" /\ deep.writev # 0 /\ deep.iovec = i
  <2>1. IsImport(i, h)' <=>
          /\ trace'[i] = "import_iovec" /\ InWritev(i)'
          /\ trace'[h] = "import_iovec_end" /\ InWritev(h)' /\ NoImport(i, h)'
    <3>1. ImportsAre'
      BY ImportIs, PTL
    <3>2. i \in Nat \ {0} /\ h \in Nat \ {0} /\ i < h
      BY <1>1
    <3> QED
      BY <3>1, <3>2 DEF ImportsAre
  <2>2. "import_iovec_end" \notin Opens["host_writev"]
    BY DEF Opens
  <2> QED
    BY <1>1, <1>3, <1>4, <1>5, <2>1, <2>2
<1>7. DeepCount(k) = IF k = "import_iovec_end" /\ deep.writev # 0 /\ deep.iovec # 0
                     THEN <<deep.iovec, h>> ELSE <<>>
  BY <1>1 DEF DeepCount, HandlerRaises
<1>8. \A i \in 1 .. h - 1 :
        i # 0 /\ <<i, h>> # <<>> /\ (<<deep.iovec, h>> = <<i, h>> <=> deep.iovec = i)
  BY <1>1
<1>9. deep.iovec # 0 => deep.iovec \in 1 .. h - 1
  BY <1>2
<1>10. ASSUME NEW i \in 1 .. h - 1
       PROVE  IsImport(i, h)' <=> DeepCount(k) = <<i, h>>
  BY <1>6, <1>7, <1>8
<1> QED
  BY <1>7, <1>9, <1>10

(* The parser of batches counts <<i, h>> if both are ends of batches in a row. *)
LEMMA BatchDue ==
    ASSUME NEW k, NEW h, Reads(k, h), BatchMemory
    PROVE  /\ \A i \in 1 .. h - 1 : IsBatch(i, h)' <=> BatchCount(k) = <<i, h>>
           /\ BatchCount(k) # <<>> => \E i \in 1 .. h - 1 : BatchCount(k) = <<i, h>>
<1>0. TypeOK
  BY DEF Reads
<1>1. /\ h \in Nat /\ h >= 1 /\ Here = h /\ Positions = 1 .. h - 1
      /\ \A i \in 1 .. h - 1 : i \in 1 .. h
      /\ h \in 1 .. h
  BY TraceGrows
<1>2. boundary \in 0 .. h - 1
  BY <1>0, <1>1 DEF TypeOK, Positions
<1>3. /\ \A i \in 1 .. h - 1 : IsEnd(i)' <=> IsEnd(i)
      /\ IsEnd(h)' <=> EndsBatch(k)
  BY EndGrows DEF BatchMemory
<1>4. \A i \in 1 .. h - 1 : IsEnd(i) /\ (\A n \in SeenBetween(i, h) : ~IsEnd(n)) <=> boundary = i
  BY <1>1 DEF BatchMemory
<1>5. ASSUME NEW i \in 1 .. h - 1
      PROVE  IsBatch(i, h)' <=> EndsBatch(k) /\ boundary = i
  <2>1. SeenBetween(i, h)' = SeenBetween(i, h) /\ SeenBetween(i, h) \subseteq 1 .. h - 1
    BY <1>1, SeenGrows
  <2>2. IsBatch(i, h)' <=> IsEnd(i)' /\ IsEnd(h)' /\ \A n \in SeenBetween(i, h)' : ~IsEnd(n)'
    BY DEF IsBatch
  <2> QED
    BY <1>3, <1>4, <2>1, <2>2
<1>6. BatchCount(k) = IF EndsBatch(k) /\ boundary # 0 THEN <<boundary, h>> ELSE <<>>
  BY <1>1 DEF BatchCount
<1>7. \A i \in 1 .. h - 1 :
        i # 0 /\ <<i, h>> # <<>> /\ (<<boundary, h>> = <<i, h>> <=> boundary = i)
  BY <1>1
<1>8. boundary # 0 => boundary \in 1 .. h - 1
  BY <1>2
<1>9. ASSUME NEW i \in 1 .. h - 1
      PROVE  IsBatch(i, h)' <=> BatchCount(k) = <<i, h>>
  BY <1>5, <1>6, <1>7
<1> QED
  BY <1>6, <1>8, <1>9

-----------------------------------------------------------------------------
(* Every statistic is of one sort of parser. *)
LEMMA StatSorts ==
    ASSUME NEW s \in Stats
    PROVE  \/ s \in Pairs /\ s \notin Gaps \cup Funcs /\ s \notin {"HW_entry", "writev_import_iovec", "total_batch_time"}
           \/ s \in Gaps /\ s \notin Pairs \cup Funcs /\ s \notin {"HW_entry", "writev_import_iovec", "total_batch_time"}
           \/ s \in Funcs /\ s \notin Pairs \cup Gaps /\ s \notin {"HW_entry", "writev_import_iovec", "total_batch_time"}
           \/ s \in {"HW_entry", "writev_import_iovec", "total_batch_time"} /\ s \notin Pairs \cup Gaps \cup Funcs
<1>1. /\ Gaps = {"host_delta_read", "host_delta_writev"}
      /\ Funcs = {"guest_recv_func", "guest_tcp_ack"}
      /\ Pairs = {"guest_sendrecv_netperf", "host_netserver", "guest_netperf", "host_sched_overhead",
             "guest_xmit", "host_writev", "host_read_packets", "guest_interrupt_handler",
             "host_ioctl_interrupt", "exits", "HW_exit"}
  BY DEF Pairs, Opens, Gaps, GapStart, Funcs, FuncStart
<1>2. s \in Pairs \cup Gaps \cup Funcs \cup {"HW_entry", "writev_import_iovec", "total_batch_time"}
  BY DEF Stats
<1>3. CASE s \in Pairs
  BY <1>1, <1>3
<1>4. CASE s \in Gaps
  BY <1>1, <1>4
<1>5. CASE s \in Funcs
  BY <1>1, <1>5
<1>6. CASE s \in {"HW_entry", "writev_import_iovec", "total_batch_time"}
  BY <1>1, <1>6
<1> QED
  BY <1>2, <1>3, <1>4, <1>5, <1>6

(* What c, counted at the event h, has to do with the event sets D due there. *)
CountsDue(s, c, h, D) ==
    /\ c = <<>> => D = {}
    /\ c # <<>> => /\ D = {Range(c)} /\ AtEnd(c) = h
                   /\ s \notin Funcs => Len(c) = 2 /\ c[1] < c[2]

(* A parser that counts <<i, h>> for exactly the intervals of i and h does so. *)
LEMMA PairCounts ==
    ASSUME NEW s \in Stats \ Funcs, NEW c, NEW h \in Nat, NEW I \in SUBSET (1 .. h - 1),
           \A i \in 1 .. h - 1 : i \in I <=> c = <<i, h>>,
           c # <<>> => \E i \in 1 .. h - 1 : c = <<i, h>>
    PROVE  CountsDue(s, c, h, {{i, h} : i \in I})
<1>1. CASE c = <<>>
  <2>1. \A i \in 1 .. h - 1 : <<i, h>> # <<>>
    OBVIOUS
  <2>2. I = {}
    BY <1>1, <2>1
  <2> QED
    BY <1>1, <2>2 DEF CountsDue
<1>2. CASE c # <<>>
  <2>1. PICK i \in 1 .. h - 1 : c = <<i, h>>
    BY <1>2
  <2>2. \A j \in 1 .. h - 1 : <<j, h>> = <<i, h>> <=> j = i
    OBVIOUS
  <2>3. I = {i}
    BY <2>1, <2>2
  <2>4. Len(c) = 2 /\ c[1] = i /\ c[2] = h /\ i < h
    BY <2>1
  <2>5. Range(c) = {i, h}
    <3>1. DOMAIN c = {1, 2}
      BY <2>1
    <3> QED
      BY <2>4, <3>1 DEF Range
  <2>6. {{j, h} : j \in I} = {Range(c)}
    BY <2>3, <2>5
  <2>7. AtEnd(c) = h
    BY <2>4 DEF AtEnd
  <2> QED
    BY <1>2, <2>4, <2>6, <2>7 DEF CountsDue
<1> QED
  BY <1>1, <1>2

(* What is due at an event that is read. *)
LEMMA DueThere ==
    ASSUME NEW k, NEW h, Reads(k, h), NEW s \in Stats \ Funcs
    PROVE  Due(s, h)' = {{i, h} : i \in {n \in 1 .. h - 1 : IsInterval(s, n, h)'}}
BY DEF Due

(* What the parsers count at an event is what is due there. *)
LEMMA CountedIsDue ==
    ASSUME NEW k, NEW h, Reads(k, h), Memory, Filtered(k), ~HandlerRaises(k), NEW s \in Stats
    PROVE  CountsDue(s, Counted(s, k), h, Due(s, h)')
<1>1. h \in Nat /\ h >= 1 /\ Here = h /\ trace'[h] = k
  BY TraceGrows
<1> DEFINE I == {n \in 1 .. h - 1 : IsInterval(s, n, h)'}
<1>2. ASSUME s \notin Funcs,
             \A i \in 1 .. h - 1 : IsInterval(s, i, h)' <=> Counted(s, k) = <<i, h>>,
             Counted(s, k) # <<>> => \E i \in 1 .. h - 1 : Counted(s, k) = <<i, h>>
      PROVE  CountsDue(s, Counted(s, k), h, Due(s, h)')
  <2>1. /\ I \in SUBSET (1 .. h - 1) /\ s \in Stats \ Funcs
        /\ \A i \in 1 .. h - 1 : i \in I <=> Counted(s, k) = <<i, h>>
    BY <1>2
  <2>2. Due(s, h)' = {{i, h} : i \in I}
    BY <1>2, DueThere
  <2> HIDE DEF I
  <2>3. CountsDue(s, Counted(s, k), h, {{i, h} : i \in I})
    BY <1>1, <1>2, <2>1, PairCounts
  <2> QED
    BY <2>2, <2>3
<1>3. CASE s \in Pairs
  <2>1. s \notin Funcs /\ Counted(s, k) = PairCount(s, k)
    BY <1>3, StatSorts DEF Counted
  <2>2. \A i : IsInterval(s, i, h)' <=> IsPair(s, i, h)'
    BY <1>3, StatSorts DEF IsInterval
  <2> QED
    BY <1>2, <1>3, <2>1, <2>2, PairDue DEF Memory
<1>4. CASE s \in Gaps
  <2>1. s \notin Funcs /\ s \notin Pairs /\ Counted(s, k) = GapCount(s, k)
    BY <1>4, StatSorts DEF Counted
  <2>2. \A i : IsInterval(s, i, h)' <=> IsGap(s, i, h)'
    BY <1>4, StatSorts DEF IsInterval
  <2> QED
    BY <1>2, <1>4, <2>1, <2>2, GapDue DEF Memory
<1>5. CASE s = "HW_entry"
  <2>1. s \notin Funcs /\ s \notin Pairs /\ s \notin Gaps /\ Counted(s, k) = HwCount(k)
    BY <1>5, StatSorts DEF Counted
  <2>2. \A i : IsInterval(s, i, h)' <=> IsEntry(i, h)'
    BY <1>5, <2>1 DEF IsInterval
  <2> QED
    BY <1>2, <1>5, <2>1, <2>2, HwDue DEF Memory
<1>6. CASE s = "writev_import_iovec"
  <2>1. s \notin Funcs /\ s \notin Pairs /\ s \notin Gaps /\ Counted(s, k) = DeepCount(k)
    BY <1>6, StatSorts DEF Counted
  <2>2. \A i : IsInterval(s, i, h)' <=> IsImport(i, h)'
    BY <1>6, <2>1 DEF IsInterval
  <2> QED
    BY <1>2, <1>6, <2>1, <2>2, DeepDue DEF Memory
<1>7. CASE s = "total_batch_time"
  <2>1. s \notin Funcs /\ s \notin Pairs /\ s \notin Gaps /\ Counted(s, k) = BatchCount(k)
    BY <1>7, StatSorts DEF Counted
  <2>2. \A i : IsInterval(s, i, h)' <=> IsBatch(i, h)'
    BY <1>7, <2>1 DEF IsInterval
  <2> QED
    BY <1>2, <1>7, <2>1, <2>2, BatchDue DEF Memory
<1>8. CASE s \in Funcs
  <2>1. s \notin Pairs /\ s \notin Gaps /\ Counted(s, k) = SeriesCount(s, k)
    BY <1>8, StatSorts DEF Counted
  <2>2. /\ series[s] \in Seq(Nat) /\ Range(series[s]) = SinceEntry(s, h)
        /\ \A a, b \in 1 .. Len(series[s]) : a < b => series[s][a] < series[s][b]
    BY <1>1, <1>8 DEF Reads, TypeOK, Interval, Memory, SeriesMemory
  <2>3. IsFiniteSet(SinceEntry(s, h)) /\ Cardinality(SinceEntry(s, h)) = Len(series[s])
    BY <2>2, CountSorted
  <2>4. Call(s, h)' = SinceEntry(s, h) \cup {h}
    <3>1. \A i \in 1 .. h - 1 : trace'[i] = trace[i] /\ i \in 1 .. h /\ h \in 1 .. h
      BY <1>1, TraceGrows
    <3>2. \A i \in 1 .. h - 1 : Unseen(Marks(s), i, h)' <=> Unseen(Marks(s), i, h)
      <4>1. Marks(s)' = Marks(s)
        BY DEF Marks
      <4> QED
        BY <3>1, UnseenGrows
    <3>3. Call(s, h)' = SinceEntry(s, h)' \cup {h}
      <4>1. FuncStart[s] # FuncEnd[s] /\ FuncEnd[s] \notin Inner[s]
        BY <1>8, FuncKinds
      <4> QED
        BY <4>1 DEF Call, EntryOf, InnerOf, SinceMark, SinceEntry, Unseen, Marks
    <3>4. SinceEntry(s, h)' = SinceEntry(s, h)
      BY <3>1, <3>2 DEF SinceEntry
    <3> QED
      BY <3>3, <3>4
  <2>5. h \notin SinceEntry(s, h)
    BY <1>1 DEF SinceEntry
  <2>6. Cardinality(Call(s, h)') = Len(series[s]) + 1
    BY <2>3, <2>4, <2>5, FS_AddElement
  <2>7. Due(s, h)' = IF k = FuncEnd[s] /\ (Len(series[s]) + 1) % 2 = 0
                     THEN {SinceEntry(s, h) \cup {h}} ELSE {}
    BY <1>1, <1>8, <2>4, <2>6 DEF Due
  <2>8. (Len(series[s]) + 1) % 2 = 0 <=> Len(series[s]) % 2 = 1
    <3>1. Len(series[s]) \in Nat
      BY <2>2
    <3> QED
      BY <3>1, OddEven
  <2>9. Counted(s, k) = IF k = FuncEnd[s] /\ Len(series[s]) % 2 = 1 THEN Append(series[s], h) ELSE <<>>
    BY <1>1, <2>1 DEF SeriesCount
  <2>10. /\ Append(series[s], h) # <<>> /\ AtEnd(Append(series[s], h)) = h
         /\ Range(Append(series[s], h)) = SinceEntry(s, h) \cup {h}
    <3>1. series[s] \in Seq(Nat) /\ h \in Nat
      BY <1>1, <2>2
    <3>2. Append(series[s], h) # <<>> /\ AtEnd(Append(series[s], h)) = h
      BY <3>1 DEF AtEnd
    <3>3. Range(Append(series[s], h)) = Range(series[s]) \cup {h}
      BY <3>1, RangeAppend
    <3> QED
      BY <2>2, <3>2, <3>3
  <2> QED
    BY <1>8, <2>7, <2>8, <2>9, <2>10 DEF CountsDue
<1> QED
  BY <1>3, <1>4, <1>5, <1>6, <1>7, <1>8, StatSorts

-----------------------------------------------------------------------------
(* Nothing is due at an event that no parser looks at. *)
LEMMA NothingDue ==
    ASSUME NEW k, NEW h, Reads(k, h), ~Filtered(k), NEW s \in Stats
    PROVE  Due(s, h)' = {}
<1>1. h \in Nat /\ h >= 1 /\ trace'[h] = k /\ k = "elsewhere" /\ Filtered(k) = FALSE
  BY TraceGrows DEF Filtered
<1>2. CASE s \in Funcs
  <2>1. FuncEnd[s] # "elsewhere"
    <3>1. s \in {"guest_recv_func", "guest_tcp_ack"}
      BY <1>2 DEF Funcs, FuncStart
    <3> QED
      BY <3>1 DEF FuncEnd
  <2> QED
    BY <1>1, <1>2, <2>1 DEF Due
<1>3. CASE s \notin Funcs
  <2>1. \A i : ~IsInterval(s, i, h)'
    <3>1. CASE s \in Pairs
      BY <1>1, <3>1, StatSorts DEF IsInterval, IsPair
    <3>2. CASE s \in Gaps
      <4>1. GapStart[s] # "elsewhere"
        <5>1. s \in {"host_delta_read", "host_delta_writev"}
          BY <3>2 DEF Gaps, GapStart
        <5> QED
          BY <5>1 DEF GapStart
      <4> QED
        BY <1>1, <3>2, <4>1, StatSorts DEF IsInterval, IsGap
    <3>3. CASE s = "HW_entry"
      BY <1>1, <3>3, StatSorts DEF IsInterval, IsEntry
    <3>4. CASE s = "writev_import_iovec"
      BY <1>1, <3>4, StatSorts DEF IsInterval, IsImport, IsOwnImport, IsStaleImport
    <3>5. CASE s = "total_batch_time"
      BY <1>1, <3>5, StatSorts DEF IsInterval, IsBatch, IsEnd
    <3> QED
      BY <1>3, <3>1, <3>2, <3>3, <3>4, <3>5, StatSorts
  <2> QED
    BY <1>3, <2>1, DueThere
<1> QED
  BY <1>2, <1>3

(* What is due at earlier events stays the same. *)
LEMMA DueStays ==
    ASSUME NEW k, NEW h, Reads(k, h), NEW s \in Stats, NEW j \in 1 .. h - 1
    PROVE  Due(s, j)' = Due(s, j)
<1>1. /\ h \in Nat /\ j \in 1 .. h /\ j \in Nat
      /\ \A i \in 1 .. h - 1 : trace'[i] = trace[i]
      /\ \A i \in 1 .. j : i \in 1 .. h - 1 /\ i \in 1 .. h
      /\ \A i \in 1 .. j - 1 : i \in 1 .. j
  BY TraceGrows
<1>2. \A i \in 1 .. j : SeenBetween(i, j)' = SeenBetween(i, j) /\ SeenBetween(i, j) \subseteq 1 .. h - 1
  BY <1>1, SeenGrows
<1>3. \A i \in 1 .. j : trace'[i] = trace[i] /\ \A n \in SeenBetween(i, j) : trace'[n] = trace[n]
  BY <1>1, <1>2
<1>4. CASE s \in Funcs
  <2>1. Call(s, j)' = Call(s, j)
    BY <1>1, <1>2, <1>3 DEF Call, EntryOf, InnerOf, SinceMark
  <2>2. trace'[j] = trace[j]
    BY <1>1
  <2> QED
    BY <1>4, <2>1, <2>2 DEF Due
<1>5. CASE s \notin Funcs
  <2>1. ASSUME NEW i \in 1 .. j - 1
        PROVE  IsInterval(s, i, j)' <=> IsInterval(s, i, j)
    <3>1. /\ i \in 1 .. j /\ j \in 1 .. j /\ i \in 1 .. h /\ i \in 1 .. h - 1
          /\ trace'[i] = trace[i] /\ trace'[j] = trace[j]
          /\ SeenBetween(i, j)' = SeenBetween(i, j)
          /\ \A n \in SeenBetween(i, j) : trace'[n] = trace[n]
      BY <1>1, <1>2, <1>3
    <3>2. CASE s \in Pairs
      <4>1. IsPair(s, i, j)' <=> IsPair(s, i, j)
        BY <3>1 DEF IsPair
      <4>2. (IsInterval(s, i, j) <=> IsPair(s, i, j)) /\ (IsInterval(s, i, j)' <=> IsPair(s, i, j)')
        BY <3>2, StatSorts DEF IsInterval
      <4> QED
        BY <4>1, <4>2
    <3>3. CASE s \in Gaps
      <4>1. Begun(s, i)' <=> Begun(s, i)
        <5>1. \A n \in 1 .. i : n \in 1 .. h /\ trace'[n] = trace[n]
          BY <1>1, <3>1
        <5>2. \A n, m \in 1 .. h : Only(GuestKinds \cup {GapEnd[s]}, n, m)'
                                     <=> Only(GuestKinds \cup {GapEnd[s]}, n, m)
          BY OnlyGrows
        <5> QED
          BY <3>1, <5>1, <5>2 DEF Begun
      <4>2. /\ IsGap(s, i, j) <=> /\ trace[i] = GapEnd[s] /\ trace[j] = GapStart[s]
                                  /\ Only(GuestKinds, i, j) /\ Begun(s, i)
            /\ IsGap(s, i, j)' <=> /\ trace'[i] = GapEnd[s] /\ trace'[j] = GapStart[s]
                                   /\ Only(GuestKinds, i, j)' /\ Begun(s, i)'
        BY DEF IsGap, Only, Begun
      <4>3. Only(GuestKinds, i, j)' <=> Only(GuestKinds, i, j)
        BY <3>1 DEF Only
      <4>4. (IsInterval(s, i, j) <=> IsGap(s, i, j)) /\ (IsInterval(s, i, j)' <=> IsGap(s, i, j)')
        BY <3>3, StatSorts DEF IsInterval
      <4> QED
        BY <3>1, <4>1, <4>2, <4>3, <4>4
    <3>4. CASE s = "HW_entry"
      <4>1. IsEntry(i, j)' <=> IsEntry(i, j)
        BY <1>2, <1>3, <3>1 DEF IsEntry
      <4>2. (IsInterval(s, i, j) <=> IsEntry(i, j)) /\ (IsInterval(s, i, j)' <=> IsEntry(i, j)')
        BY <3>4, StatSorts DEF IsInterval
      <4> QED
        BY <4>1, <4>2
    <3>5. CASE s = "writev_import_iovec"
      <4>1. \A n \in 1 .. h - 1 : InWritev(n)' <=> InWritev(n)
        BY InWritevGrows
      <4>2. \A n \in SeenBetween(i, j) : n \in 1 .. h - 1
        BY <1>2, <3>1
      <4>3. IsImport(i, j)' <=> IsImport(i, j)
        BY <3>1, <4>1, <4>2 DEF IsImport, IsOwnImport, IsStaleImport
      <4>4. (IsInterval(s, i, j) <=> IsImport(i, j)) /\ (IsInterval(s, i, j)' <=> IsImport(i, j)')
        BY <3>5, StatSorts DEF IsInterval
      <4> QED
        BY <4>3, <4>4
    <3>6. CASE s = "total_batch_time"
      <4>1. \A n \in 1 .. h - 1 : IsEnd(n)' <=> IsEnd(n)
        BY EndGrows
      <4>2. \A n \in SeenBetween(i, j) : n \in 1 .. h - 1
        BY <1>2, <3>1
      <4>3. IsBatch(i, j)' <=> IsBatch(i, j)
        BY <3>1, <4>1, <4>2 DEF IsBatch
      <4>4. (IsInterval(s, i, j) <=> IsBatch(i, j)) /\ (IsInterval(s, i, j)' <=> IsBatch(i, j)')
        BY <3>6, StatSorts DEF IsInterval
      <4> QED
        BY <4>3, <4>4
    <3> QED
      BY <1>5, <3>2, <3>3, <3>4, <3>5, <3>6, StatSorts
  <2> DEFINE I == {n \in 1 .. j - 1 : IsInterval(s, n, j)}
             J == {n \in 1 .. j - 1 : IsInterval(s, n, j)'}
  <2>2. I = J
    BY <2>1
  <2>3. Due(s, j) = {{i, j} : i \in I} /\ Due(s, j)' = {{i, j} : i \in J}
    BY <1>5 DEF Due
  <2> QED
    BY <2>2, <2>3
<1> QED
  BY <1>4, <1>5

(* The batch that is open, with the event k, is not a clean one. *)
Disturbed(k) == Disturbs(k) \/ \E d \in Positions : Disturbs(trace[d]) /\ InOpenBatch(d)

(* An event is in an open batch until the end; then that batch is clean or not. *)
LEMMA BatchesGrow ==
    ASSUME NEW k, NEW h, Reads(k, h)
    PROVE  /\ \A j \in 1 .. h - 1 :
                 InCleanBatch(j)' <=> InCleanBatch(j) \/ (IsEnd(h)' /\ InOpenBatch(j) /\ ~Disturbed(k))
           /\ InCleanBatch(h)' <=> IsEnd(h)' /\ ~Disturbed(k)
           /\ \A j \in 1 .. h - 1 : InOpenBatch(j)' <=> InOpenBatch(j) /\ ~IsEnd(h)'
           /\ InOpenBatch(h)' <=> ~IsEnd(h)'
<1>1. /\ h \in Nat /\ h >= 1 /\ trace'[h] = k /\ Positions = 1 .. h - 1
      /\ Len(trace) = h - 1 /\ Len(trace') = h
      /\ \A i \in 1 .. h - 1 : trace'[i] = trace[i]
  <2>1. trace \in Seq(alphabet) /\ trace' = Append(trace, k) /\ Here = Len(trace) + 1
    BY DEF Reads, TypeOK, NextEvent, Here
  <2> QED
    BY <2>1, TraceGrows
<1>2. \A i \in 1 .. h - 1 : IsEnd(i)' <=> IsEnd(i)
  BY EndGrows
<1>3. \A j \in 1 .. h - 1 : InOpenBatch(j) <=> \A n \in j .. h - 1 : ~IsEnd(n)
  BY <1>1 DEF InOpenBatch
<1>4. \A j \in 1 .. h : InOpenBatch(j)' <=> \A n \in j .. h : ~IsEnd(n)'
  BY <1>1 DEF InOpenBatch
<1>5. \A j \in 1 .. h : \A n : n \in j .. h <=> n \in j .. h - 1 \/ n = h
  BY <1>1
<1>6. \A j \in 1 .. h - 1 : \A n \in j .. h - 1 : n \in 1 .. h - 1
  BY <1>1
<1>7. ASSUME NEW j \in 1 .. h - 1
      PROVE  InOpenBatch(j)' <=> InOpenBatch(j) /\ ~IsEnd(h)'
  <2>1. j \in 1 .. h
    BY <1>1
  <2> QED
    BY <1>2, <1>3, <1>4, <1>5, <1>6, <2>1
<1>8. InOpenBatch(h)' <=> ~IsEnd(h)'
  <2>1. h \in 1 .. h /\ \A n : n \notin h .. h - 1
    BY <1>1
  <2> QED
    BY <1>4, <1>5, <2>1
<1> DEFINE Closed(j, b) == /\ IsEnd(b) /\ \A n \in j .. b - 1 : ~IsEnd(n)
                           /\ \A d \in 1 .. b : Disturbs(trace[d]) => \E n \in d .. b - 1 : IsEnd(n)
           ClosedThen(j, b) ==
               /\ IsEnd(b)' /\ \A n \in j .. b - 1 : ~IsEnd(n)'
               /\ \A d \in 1 .. b : Disturbs(trace'[d]) => \E n \in d .. b - 1 : IsEnd(n)'
<1>9. \A j : InCleanBatch(j) <=> \E b \in j .. h - 1 : Closed(j, b)
  BY <1>1 DEF InCleanBatch
<1>10. \A j : InCleanBatch(j)' <=> \E b \in j .. h : ClosedThen(j, b)
  BY <1>1 DEF InCleanBatch
<1>11. ASSUME NEW j \in 1 .. h - 1, NEW b \in j .. h - 1
       PROVE  ClosedThen(j, b) <=> Closed(j, b)
  <2>1. /\ b \in 1 .. h - 1
        /\ \A n \in j .. b - 1 : n \in 1 .. h - 1
        /\ \A d \in 1 .. b : d \in 1 .. h - 1 /\ \A n \in d .. b - 1 : n \in 1 .. h - 1
    BY <1>1
  <2> QED
    BY <1>1, <1>2, <2>1
<1>12. (\A d \in 1 .. h : Disturbs(trace'[d]) => \E n \in d .. h - 1 : IsEnd(n)') <=> ~Disturbed(k)
  <2>1. \A d : d \in 1 .. h <=> d \in 1 .. h - 1 \/ d = h
    BY <1>1
  <2>2. \A n : n \notin h .. h - 1
    BY <1>1
  <2>3. \A d \in 1 .. h - 1 : (\E n \in d .. h - 1 : IsEnd(n)') <=> ~InOpenBatch(d)
    BY <1>2, <1>3, <1>6
  <2> QED
    BY <1>1, <2>1, <2>2, <2>3 DEF Disturbed
<1>13. \A j \in 1 .. h - 1 : (\A n \in j .. h - 1 : ~IsEnd(n)') <=> InOpenBatch(j)
  BY <1>2, <1>3, <1>6
<1>14. \A j \in 1 .. h - 1 : ClosedThen(j, h) <=> IsEnd(h)' /\ InOpenBatch(j) /\ ~Disturbed(k)
  BY <1>12, <1>13
<1>15. ClosedThen(h, h) <=> IsEnd(h)' /\ ~Disturbed(k)
  <2>1. \A n : n \notin h .. h - 1
    BY <1>1
  <2> QED
    BY <1>12, <2>1
<1> HIDE DEF Closed, ClosedThen
<1>16. ASSUME NEW j \in 1 .. h - 1
       PROVE  InCleanBatch(j)' <=> InCleanBatch(j) \/ (IsEnd(h)' /\ InOpenBatch(j) /\ ~Disturbed(k))
  <2>1. \A b : b \in j .. h <=> b \in j .. h - 1 \/ b = h
    BY <1>1
  <2> QED
    BY <1>9, <1>10, <1>11, <1>14, <2>1
<1>17. InCleanBatch(h)' <=> IsEnd(h)' /\ ~Disturbed(k)
  <2>1. \A b : b \in h .. h <=> b = h
    BY <1>1
  <2> QED
    BY <1>10, <1>15, <2>1
<1> QED
  BY <1>7, <1>8, <1>16, <1>17

(* Of two events, that in a closed batch comes before that in the open one. *)
LEMMA CleanBeforeOpen ==
    ASSUME TypeOK, NEW i \in CleanOnes, NEW j \in OpenOnes
    PROVE  i < j
<1>1. i \in Positions /\ j \in Positions /\ Len(trace) \in Nat
  BY DEF CleanOnes, OpenOnes, TypeOK
<1>2. PICK b \in i .. Len(trace) : IsEnd(b)
  BY DEF CleanOnes, InCleanBatch
<1>3. b \notin j .. Len(trace)
  BY <1>2 DEF OpenOnes, InOpenBatch
<1> QED
  BY <1>1, <1>2, <1>3 DEF Positions

-----------------------------------------------------------------------------
(* A list of no intervals holds none. *)
LEMMA HoldsNone ==
    ASSUME NEW s, NEW J
    PROVE  Holds(s, <<>>, J, {})
<1>1. Len(<<>>) = 0 /\ Range(<<>>) = {}
  BY DEF Range
<1> QED
  BY <1>1 DEF Holds

(* The list that an event adds its interval to holds that of the event, too. *)
LEMMA HoldsMore ==
    ASSUME NEW s, NEW xs \in Seq(Interval), NEW h \in Nat, NEW J \in SUBSET (1 .. h - 1), NEW E,
           Holds(s, xs, J, E), NEW c \in Interval, NEW D, CountsDue(s, c, h, D)
    PROVE  Holds(s, IF c = <<>> THEN xs ELSE Append(xs, c), J \cup {h}, E \cup D)
<1>1. /\ {Range(x) : x \in Range(xs)} = E
      /\ \A a \in 1 .. Len(xs) :
          /\ xs[a] # <<>> /\ AtEnd(xs[a]) \in J
          /\ s \notin Funcs => Len(xs[a]) = 2 /\ xs[a][1] < xs[a][2]
      /\ \A a, b \in 1 .. Len(xs) : a < b => AtEnd(xs[a]) < AtEnd(xs[b])
  BY DEF Holds
<1>2. CASE c = <<>>
  <2>1. E \cup D = E
    BY <1>2 DEF CountsDue
  <2> QED
    BY <1>1, <1>2, <2>1 DEF Holds
<1>3. CASE c # <<>>
  <2> DEFINE ys == Append(xs, c)
  <2>1. /\ D = {Range(c)} /\ AtEnd(c) = h
        /\ s \notin Funcs => Len(c) = 2 /\ c[1] < c[2]
    BY <1>3 DEF CountsDue
  <2>2. /\ Len(ys) = Len(xs) + 1 /\ Len(xs) \in Nat
        /\ \A a \in 1 .. Len(xs) : ys[a] = xs[a]
        /\ ys[Len(xs) + 1] = c
    OBVIOUS
  <2>3. Range(ys) = Range(xs) \cup {c}
    BY RangeAppend
  <2>4. \A a : a \in 1 .. Len(ys) <=> a \in 1 .. Len(xs) \/ a = Len(xs) + 1
    BY <2>2
  <2> HIDE DEF ys
  <2>5. {Range(x) : x \in Range(ys)} = E \cup D
    BY <1>1, <2>1, <2>3
  <2>6. \A a \in 1 .. Len(ys) :
          /\ ys[a] # <<>> /\ AtEnd(ys[a]) \in J \cup {h}
          /\ s \notin Funcs => Len(ys[a]) = 2 /\ ys[a][1] < ys[a][2]
    BY <1>1, <1>3, <2>1, <2>2, <2>4
  <2>7. ASSUME NEW a \in 1 .. Len(ys), NEW b \in 1 .. Len(ys), a < b
        PROVE  AtEnd(ys[a]) < AtEnd(ys[b])
    <3>1. a \in 1 .. Len(xs) /\ ys[a] = xs[a]
      BY <2>2, <2>7
    <3>2. CASE b \in 1 .. Len(xs)
      BY <1>1, <2>2, <2>7, <3>1, <3>2
    <3>3. CASE b = Len(xs) + 1
      <4>1. AtEnd(xs[a]) \in 1 .. h - 1
        BY <1>1, <3>1
      <4> QED
        BY <2>1, <2>2, <3>1, <3>3, <4>1
    <3> QED
      BY <2>4, <3>2, <3>3
  <2>8. Holds(s, ys, J \cup {h}, E \cup D)
    BY <2>5, <2>6, <2>7 DEF Holds
  <2> QED
    BY <1>3, <2>8 DEF ys
<1> QED
  BY <1>2, <1>3

(* A list after one of earlier events holds what both held. *)
LEMMA HoldsBoth ==
    ASSUME NEW s, NEW xs \in Seq(Interval), NEW ys \in Seq(Interval),
           NEW J \in SUBSET Nat, NEW K \in SUBSET Nat, NEW E, NEW F,
           Holds(s, xs, J, E), Holds(s, ys, K, F), \A i \in J, j \in K : i < j
    PROVE  Holds(s, xs \o ys, J \cup K, E \cup F)
<1> DEFINE zs == xs \o ys
<1>1. /\ {Range(x) : x \in Range(xs)} = E
      /\ \A a \in 1 .. Len(xs) :
          /\ xs[a] # <<>> /\ AtEnd(xs[a]) \in J
          /\ s \notin Funcs => Len(xs[a]) = 2 /\ xs[a][1] < xs[a][2]
      /\ \A a, b \in 1 .. Len(xs) : a < b => AtEnd(xs[a]) < AtEnd(xs[b])
  BY DEF Holds
<1>2. /\ {Range(x) : x \in Range(ys)} = F
      /\ \A a \in 1 .. Len(ys) :
          /\ ys[a] # <<>> /\ AtEnd(ys[a]) \in K
          /\ s \notin Funcs => Len(ys[a]) = 2 /\ ys[a][1] < ys[a][2]
      /\ \A a, b \in 1 .. Len(ys) : a < b => AtEnd(ys[a]) < AtEnd(ys[b])
  BY DEF Holds
<1>3. /\ Len(zs) = Len(xs) + Len(ys) /\ Len(xs) \in Nat /\ Len(ys) \in Nat
      /\ zs \in Seq(Interval) /\ DOMAIN zs = 1 .. Len(zs) /\ DOMAIN xs = 1 .. Len(xs)
      /\ \A a \in 1 .. Len(xs) : zs[a] = xs[a]
      /\ \A a \in Len(xs) + 1 .. Len(xs) + Len(ys) : zs[a] = ys[a - Len(xs)]
  OBVIOUS
<1> HIDE DEF zs
<1>4. \A a : a \in 1 .. Len(zs) <=> a \in 1 .. Len(xs) \/ a \in Len(xs) + 1 .. Len(xs) + Len(ys)
  BY <1>3
<1>5. \A a \in Len(xs) + 1 .. Len(xs) + Len(ys) : a - Len(xs) \in 1 .. Len(ys)
  BY <1>3
<1>6. Range(zs) = Range(xs) \cup Range(ys)
  <2>1. \A x \in Range(zs) : x \in Range(xs) \/ x \in Range(ys)
    <3>1. \A a \in 1 .. Len(zs) : zs[a] \in Range(xs) \/ zs[a] \in Range(ys)
      <4>1. \A a \in 1 .. Len(xs) : xs[a] \in Range(xs)
        BY DEF Range
      <4>2. \A a \in 1 .. Len(ys) : ys[a] \in Range(ys)
        BY DEF Range
      <4> QED
        BY <1>3, <1>4, <1>5, <4>1, <4>2
    <3> QED
      BY <1>3, <3>1 DEF Range
  <2>2. \A x \in Range(xs) : x \in Range(zs)
    BY <1>3, <1>4 DEF Range
  <2>3. \A x \in Range(ys) : x \in Range(zs)
    <3> SUFFICES ASSUME NEW b \in 1 .. Len(ys)
                 PROVE  ys[b] \in Range(zs)
      BY DEF Range
    <3>1. b + Len(xs) \in Len(xs) + 1 .. Len(xs) + Len(ys) /\ (b + Len(xs)) - Len(xs) = b
      BY <1>3
    <3>2. b + Len(xs) \in DOMAIN zs /\ zs[b + Len(xs)] = ys[b]
      BY <1>3, <1>4, <3>1
    <3> QED
      BY <3>2 DEF Range
  <2> QED
    BY <2>1, <2>2, <2>3
<1>7. {Range(x) : x \in Range(zs)} = E \cup F
  BY <1>1, <1>2, <1>6
<1>8. \A a \in 1 .. Len(zs) :
          /\ zs[a] # <<>> /\ AtEnd(zs[a]) \in J \cup K
          /\ s \notin Funcs => Len(zs[a]) = 2 /\ zs[a][1] < zs[a][2]
  <2> SUFFICES ASSUME NEW a \in 1 .. Len(zs)
               PROVE  /\ zs[a] # <<>> /\ AtEnd(zs[a]) \in J \cup K
                      /\ s \notin Funcs => Len(zs[a]) = 2 /\ zs[a][1] < zs[a][2]
    OBVIOUS
  <2>1. CASE a \in 1 .. Len(xs)
    BY <1>1, <1>3, <2>1
  <2>2. CASE a \in Len(xs) + 1 .. Len(xs) + Len(ys)
    <3> DEFINE b == a - Len(xs)
    <3>1. b \in 1 .. Len(ys) /\ zs[a] = ys[b]
      BY <1>3, <1>5, <2>2
    <3> HIDE DEF b
    <3> QED
      BY <1>2, <3>1
  <2> QED
    BY <1>4, <2>1, <2>2
<1>9. ASSUME NEW a \in 1 .. Len(zs), NEW b \in 1 .. Len(zs), a < b
      PROVE  AtEnd(zs[a]) < AtEnd(zs[b])
  <2>1. CASE a \in 1 .. Len(xs) /\ b \in 1 .. Len(xs)
    BY <1>1, <1>3, <1>9, <2>1
  <2>2. CASE a \in 1 .. Len(xs) /\ b \in Len(xs) + 1 .. Len(xs) + Len(ys)
    BY <1>1, <1>2, <1>3, <1>5, <2>2
  <2>3. CASE /\ a \in Len(xs) + 1 .. Len(xs) + Len(ys)
             /\ b \in Len(xs) + 1 .. Len(xs) + Len(ys)
    <3>1. a - Len(xs) \in 1 .. Len(ys) /\ b - Len(xs) \in 1 .. Len(ys) /\ a - Len(xs) < b - Len(xs)
      BY <1>3, <1>9, <2>3
    <3> QED
      BY <1>2, <1>3, <2>3, <3>1
  <2> QED
    BY <1>3, <1>4, <1>9, <2>1, <2>2, <2>3
<1>10. Holds(s, zs, J \cup K, E \cup F)
  BY <1>7, <1>8, <1>9 DEF Holds
<1> QED
  BY <1>10 DEF zs

(* What is due grows by what is due at the new event. *)
LEMMA DueInGrows ==
    ASSUME NEW k, NEW h, Reads(k, h), NEW s \in Stats, NEW J \in SUBSET (1 .. h - 1)
    PROVE  /\ UNION {Due(s, j)' : j \in J} = DueIn(s, J)
           /\ UNION {Due(s, j)' : j \in J \cup {h}} = DueIn(s, J) \cup Due(s, h)'
<1>1. \A j \in J : Due(s, j)' = Due(s, j)
  BY DueStays
<1>2. UNION {Due(s, j)' : j \in J} = DueIn(s, J)
  BY <1>1 DEF DueIn
<1>3. UNION {Due(s, j)' : j \in J \cup {h}} = (UNION {Due(s, j)' : j \in J}) \cup Due(s, h)'
  OBVIOUS
<1> QED
  BY <1>2, <1>3

(* The events of closed clean batches and of the open one. *)
LEMMA OnesGrow ==
    ASSUME NEW k, NEW h, Reads(k, h)
    PROVE  /\ CleanOnes \in SUBSET (1 .. h - 1) /\ OpenOnes \in SUBSET (1 .. h - 1)
           /\ ~IsEnd(h)' => CleanOnes' = CleanOnes /\ OpenOnes' = OpenOnes \cup {h}
           /\ IsEnd(h)' => OpenOnes' = {}
           /\ IsEnd(h)' /\ Disturbed(k) => CleanOnes' = CleanOnes
           /\ IsEnd(h)' /\ ~Disturbed(k) => CleanOnes' = CleanOnes \cup (OpenOnes \cup {h})
<1>1. /\ Positions = 1 .. h - 1 /\ Positions' = 1 .. h
      /\ \A j : j \in 1 .. h <=> j \in 1 .. h - 1 \/ j = h
  BY TraceGrows
<1>2. /\ \A j : j \in CleanOnes <=> j \in 1 .. h - 1 /\ InCleanBatch(j)
      /\ \A j : j \in OpenOnes <=> j \in 1 .. h - 1 /\ InOpenBatch(j)
      /\ \A j : j \in CleanOnes' <=> j \in 1 .. h /\ InCleanBatch(j)'
      /\ \A j : j \in OpenOnes' <=> j \in 1 .. h /\ InOpenBatch(j)'
  BY <1>1 DEF CleanOnes, OpenOnes
<1> QED
  BY <1>1, <1>2, BatchesGrow

-----------------------------------------------------------------------------
(* A CSV file was begun only if no row of it divides by zero. *)
CsvDivides == phase \in {"e1000", "virtio"} => Divides(phase)

(* The inductive invariant. *)
BInv == TypeOK /\ KeptHolds /\ ReadOff /\ CsvDivides

(* An empty trace, and nothing remembered of it. *)
LEMMA InitBInv == ASSUME Init PROVE BInv
<1>0. /\ trace = <<>> /\ phase = "parsing" /\ boundary = 0 /\ ignoreHalt = FALSE /\ invalid = FALSE
      /\ last = [p \in Pairs |-> 0] /\ gap = [p \in Gaps |-> [start |-> 0, end |-> 0]]
      /\ series = [p \in Funcs |-> <<>>] /\ hw = [entry |-> 0, exit |-> 0]
      /\ deep = [writev |-> 0, iovec |-> 0]
      /\ batch = [s \in Stats |-> <<>>] /\ kept = [s \in Stats |-> <<>>]
  BY DEF Init
<1>1. Positions = {} /\ Here = 1 /\ Len(trace) = 0
  BY <1>0 DEF Positions, Here
<1>2. TypeOK
  BY InitType
<1>3. CleanOnes = {} /\ OpenOnes = {}
  BY <1>1 DEF CleanOnes, OpenOnes
<1>4. KeptHolds /\ BatchHolds
  <2>1. \A s \in Stats : kept[s] = <<>> /\ batch[s] = <<>>
    BY <1>0
  <2>2. \A s : DueIn(s, {}) = {}
    BY DEF DueIn
  <2> QED
    BY <1>3, <2>1, <2>2, HoldsNone DEF KeptHolds, BatchHolds
<1>5. PairMemory
  BY <1>1 DEF PairMemory
<1>6. GapMemory
  <2>1. \A p \in Gaps : gap[p].start = 0 /\ gap[p].end = 0
    BY <1>0
  <2> QED
    BY <1>1, <2>1 DEF GapMemory
<1>7. SeriesMemory
  <2>1. \A p \in Funcs : series[p] = <<>>
    BY <1>0
  <2>2. Range(<<>>) = {} /\ Len(<<>>) = 0
    BY DEF Range
  <2>3. \A p : SinceEntry(p, Here) = {}
    BY <1>1 DEF SinceEntry
  <2> QED
    BY <2>1, <2>2, <2>3 DEF SeriesMemory
<1>8. HwMemory
  BY <1>0, <1>1 DEF HwMemory
<1>9. DeepMemory
  BY <1>0, <1>1 DEF DeepMemory
<1>10. BatchMemory
  BY <1>0, <1>1 DEF BatchMemory
<1>11. InvalidIfDisturbed
  BY <1>0, <1>1 DEF InvalidIfDisturbed
<1>12. CsvDivides
  BY <1>0 DEF CsvDivides
<1> QED
  BY <1>2, <1>4, <1>5, <1>6, <1>7, <1>8, <1>9, <1>10, <1>11, <1>12
     DEF BInv, ReadOff, Memory

(* An event inside the open batch: what it counts joins what that batch has. *)
LEMMA OpenStep ==
    ASSUME NEW k, NEW h, Reads(k, h), NEW s \in Stats, NEW c \in Interval,
           BatchHolds, CountsDue(s, c, h, Due(s, h)')
    PROVE  Holds(s, IF c = <<>> THEN batch[s] ELSE Append(batch[s], c),
                 OpenOnes \cup {h}, DueIn(s, OpenOnes) \cup Due(s, h)')
<1>1. batch[s] \in Seq(Interval) /\ h \in Nat
  BY TraceGrows DEF Reads, TypeOK
<1>2. OpenOnes \in SUBSET (1 .. h - 1)
  BY OnesGrow
<1>3. Holds(s, batch[s], OpenOnes, DueIn(s, OpenOnes))
  BY DEF BatchHolds
<1> QED
  BY <1>1, <1>2, <1>3, HoldsMore

(* Every event but the end of a batch leaves what has been kept alone. *)
LEMMA KeptStay ==
    ASSUME NEW k, NEW h, Reads(k, h), KeptHolds, kept' = kept, CleanOnes' = CleanOnes
    PROVE  KeptHolds'
<1> SUFFICES ASSUME NEW s \in Stats
             PROVE  Holds(s, kept'[s], CleanOnes', DueIn(s, CleanOnes)')
  BY DEF KeptHolds, Holds
<1>1. CleanOnes \in SUBSET (1 .. h - 1)
  BY OnesGrow
<1>2. DueIn(s, CleanOnes)' = UNION {Due(s, j)' : j \in CleanOnes}
  BY DEF DueIn
<1>3. DueIn(s, CleanOnes)' = DueIn(s, CleanOnes)
  BY <1>1, <1>2, DueInGrows
<1>4. Holds(s, kept[s], CleanOnes, DueIn(s, CleanOnes))
  BY DEF KeptHolds
<1> QED
  BY <1>3, <1>4

(* An event that no parser looks at. *)
LEMMA SkipStep ==
    ASSUME TypeOK, KeptHolds, ReadOff, NEW k \in alphabet, Skip(k)
    PROVE  KeptHolds' /\ ReadOff'
<1> SUFFICES ASSUME NEW g, g = Here
             PROVE  KeptHolds' /\ ReadOff'
  OBVIOUS
<1>1. /\ Reads(k, g) /\ Taken(k, g) /\ Memory /\ BatchHolds /\ InvalidIfDisturbed
      /\ phase' = "parsing" /\ kept' = kept /\ batch' = batch /\ ~Filtered(k)
      /\ (invalid' <=> invalid)
  BY DEF Skip, NextEvent, Reads, Taken, ReadOff, parsers, results
<1>2. ~IsEnd(g)'
  BY <1>1, EndGrows DEF Filtered
<1>3. CleanOnes' = CleanOnes /\ OpenOnes' = OpenOnes \cup {g}
  BY <1>1, <1>2, OnesGrow
<1>4. KeptHolds'
  BY <1>1, <1>3, KeptStay
<1>5. BatchHolds'
  <2> SUFFICES ASSUME NEW s \in Stats
               PROVE  Holds(s, batch'[s], OpenOnes', DueIn(s, OpenOnes)')
    BY DEF BatchHolds, Holds
  <2>1. CountsDue(s, <<>>, g, Due(s, g)') /\ <<>> \in Interval
    BY <1>1, NothingDue DEF CountsDue, Interval
  <2>2. Holds(s, batch[s], OpenOnes \cup {g}, DueIn(s, OpenOnes) \cup Due(s, g)')
    BY <1>1, <2>1, OpenStep
  <2>3. DueIn(s, OpenOnes)' = DueIn(s, OpenOnes) \cup Due(s, g)'
    <3>1. DueIn(s, OpenOnes)' = UNION {Due(s, j)' : j \in OpenOnes \cup {g}}
      BY <1>3 DEF DueIn
    <3> QED
      BY <1>1, <3>1, OnesGrow, DueInGrows
  <2> QED
    BY <1>1, <1>3, <2>2, <2>3
<1>6. InvalidIfDisturbed'
  BY <1>1, <1>2, TraceGrows, BatchesGrow DEF InvalidIfDisturbed, Disturbs, Filtered
<1>7. Memory'
  BY <1>1, MemoryStep
<1> QED
  BY <1>1, <1>4, <1>5, <1>6, <1>7 DEF ReadOff

(* An event that is looked at: what it counts, and whether it disturbs. *)
LEMMA InBatchStep ==
    ASSUME TypeOK, KeptHolds, ReadOff, NEW k \in alphabet, InBatch(k)
    PROVE  KeptHolds' /\ ReadOff'
<1> SUFFICES ASSUME NEW g, g = Here
             PROVE  KeptHolds' /\ ReadOff'
  OBVIOUS
<1>1. /\ Reads(k, g) /\ Taken(k, g) /\ Memory /\ BatchHolds /\ InvalidIfDisturbed
      /\ phase' = "parsing" /\ kept' = kept /\ batch' = BatchWith(k)
      /\ Filtered(k) /\ ~HandlerRaises(k) /\ ~EndsBatch(k)
  BY DEF InBatch, NextEvent, Reads, Taken, ReadOff
<1>a. invalid' <=> invalid \/ Disturbs(k)
  BY Zenon DEF InBatch
<1>2. ~IsEnd(g)'
  BY <1>1, EndGrows DEF Memory, BatchMemory
<1>3. CleanOnes' = CleanOnes /\ OpenOnes' = OpenOnes \cup {g}
  BY <1>1, <1>2, OnesGrow
<1>4. KeptHolds'
  BY <1>1, <1>3, KeptStay
<1>5. BatchHolds'
  <2> SUFFICES ASSUME NEW s \in Stats
               PROVE  Holds(s, batch'[s], OpenOnes', DueIn(s, OpenOnes)')
    BY DEF BatchHolds, Holds
  <2>1. CountsDue(s, Counted(s, k), g, Due(s, g)') /\ Counted(s, k) \in Interval
    BY <1>1, CountedIsDue, CountedType
  <2>2. Holds(s, IF Counted(s, k) = <<>> THEN batch[s] ELSE Append(batch[s], Counted(s, k)),
              OpenOnes \cup {g}, DueIn(s, OpenOnes) \cup Due(s, g)')
    BY <1>1, <2>1, OpenStep
  <2>3. DueIn(s, OpenOnes)' = DueIn(s, OpenOnes) \cup Due(s, g)'
    <3>1. DueIn(s, OpenOnes)' = UNION {Due(s, j)' : j \in OpenOnes \cup {g}}
      BY <1>3 DEF DueIn
    <3> QED
      BY <1>1, <3>1, OnesGrow, DueInGrows
  <2>4. batch'[s] = IF Counted(s, k) = <<>> THEN batch[s] ELSE Append(batch[s], Counted(s, k))
    BY <1>1 DEF BatchWith
  <2> QED
    BY <1>3, <2>2, <2>3, <2>4
<1>6. InvalidIfDisturbed'
  <2>1. /\ Positions = 1 .. g - 1 /\ Positions' = 1 .. g /\ trace'[g] = k
        /\ \A i \in 1 .. g - 1 : trace'[i] = trace[i]
        /\ \A i : i \in 1 .. g <=> i \in 1 .. g - 1 \/ i = g
    BY <1>1, TraceGrows
  <2>2. /\ \A j \in 1 .. g - 1 : InOpenBatch(j)' <=> InOpenBatch(j)
        /\ InOpenBatch(g)'
    BY <1>1, <1>2, BatchesGrow
  <2>3. (\E d \in 1 .. g : Disturbs(trace'[d]) /\ InOpenBatch(d)')
          <=> Disturbs(k) \/ \E d \in 1 .. g - 1 : Disturbs(trace[d]) /\ InOpenBatch(d)
    BY <2>1, <2>2
  <2>4. invalid <=> \E d \in 1 .. g - 1 : Disturbs(trace[d]) /\ InOpenBatch(d)
    BY <1>1, <2>1 DEF InvalidIfDisturbed
  <2>5. invalid' <=> \E d \in 1 .. g : Disturbs(trace'[d]) /\ InOpenBatch(d)'
    BY <1>a, <2>3, <2>4, Zenon
  <2> QED
    BY <2>1, <2>5 DEF InvalidIfDisturbed
<1>7. Memory'
  BY <1>1, MemoryStep
<1> QED
  BY <1>1, <1>4, <1>5, <1>6, <1>7 DEF ReadOff

(* The end of a batch: it is kept or thrown away as a whole. *)
LEMMA EndStep ==
    ASSUME TypeOK, KeptHolds, ReadOff, NEW k \in alphabet, FinishBatch(k) \/ ResetBatch(k)
    PROVE  KeptHolds' /\ ReadOff'
<1> SUFFICES ASSUME NEW g, g = Here
             PROVE  KeptHolds' /\ ReadOff'
  OBVIOUS
<1>0. EndsBatch(k) => Filtered(k) /\ ~HandlerRaises(k) /\ ~Disturbs(k)
  BY DEF EndsBatch, Filtered, HandlerRaises, Disturbs
<1>1. /\ Reads(k, g) /\ Taken(k, g) /\ Memory /\ BatchHolds /\ InvalidIfDisturbed
      /\ phase' = "parsing" /\ batch' = [s \in Stats |-> <<>>] /\ EndsBatch(k)
      /\ Filtered(k) /\ ~HandlerRaises(k) /\ ~Disturbs(k)
  BY <1>0 DEF FinishBatch, ResetBatch, NextEvent, Reads, Taken, ReadOff
<1>2. IsEnd(g)'
  BY <1>1, EndGrows DEF Memory, BatchMemory
<1>3. OpenOnes' = {}
  BY <1>1, <1>2, OnesGrow
<1>4. BatchHolds'
  <2> SUFFICES ASSUME NEW s \in Stats
               PROVE  Holds(s, batch'[s], OpenOnes', DueIn(s, OpenOnes)')
    BY DEF BatchHolds, Holds
  <2>1. DueIn(s, OpenOnes)' = {} /\ batch'[s] = <<>>
    BY <1>1, <1>3 DEF DueIn
  <2> QED
    BY <2>1, HoldsNone
<1>5. Disturbed(k) <=> invalid
  BY <1>1 DEF Disturbed, InvalidIfDisturbed
<1>6. ~invalid'
  BY <1>1 DEF FinishBatch, ResetBatch
<1>7. InvalidIfDisturbed'
  <2>1. \A d \in Positions' : ~InOpenBatch(d)'
    BY <1>3 DEF OpenOnes
  <2> QED
    BY <1>6, <2>1 DEF InvalidIfDisturbed
<1>8. Memory'
  BY <1>1, MemoryStep
<1>9. CASE ResetBatch(k)
  <2>1. CleanOnes' = CleanOnes /\ kept' = kept
    <3>1. invalid /\ kept' = kept
      BY <1>1, <1>9 DEF ResetBatch
    <3> QED
      BY <1>1, <1>2, <1>5, <3>1, OnesGrow
  <2>2. KeptHolds'
    BY <1>1, <2>1, KeptStay
  <2> QED
    BY <1>1, <1>4, <1>7, <1>8, <2>2 DEF ReadOff
<1>10. CASE FinishBatch(k)
  <2>1. ~invalid /\ kept' = [s \in Stats |-> kept[s] \o BatchWith(k)[s]]
    BY <1>10 DEF FinishBatch
  <2>2. CleanOnes' = CleanOnes \cup (OpenOnes \cup {g})
    BY <1>1, <1>2, <1>5, <2>1, OnesGrow
  <2>3. KeptHolds'
    <3> SUFFICES ASSUME NEW s \in Stats
                 PROVE  Holds(s, kept'[s], CleanOnes', DueIn(s, CleanOnes)')
      BY DEF KeptHolds, Holds
    <3> DEFINE ys == IF Counted(s, k) = <<>> THEN batch[s] ELSE Append(batch[s], Counted(s, k))
    <3>1. CountsDue(s, Counted(s, k), g, Due(s, g)') /\ Counted(s, k) \in Interval
      BY <1>1, CountedIsDue, CountedType
    <3>2. Holds(s, ys, OpenOnes \cup {g}, DueIn(s, OpenOnes) \cup Due(s, g)')
      BY <1>1, <3>1, OpenStep
    <3>3. kept'[s] = kept[s] \o ys /\ ys = BatchWith(k)[s]
      BY <2>1 DEF BatchWith
    <3>4. kept[s] \in Seq(Interval) /\ ys \in Seq(Interval)
      <4>1. kept[s] \in Seq(Interval)
        BY DEF TypeOK
      <4>2. BatchWith(k)[s] \in Seq(Interval)
        BY BatchWithType
      <4> HIDE DEF ys
      <4> QED
        BY <3>3, <4>1, <4>2
    <3> HIDE DEF ys
    <3>5. /\ CleanOnes \in SUBSET (1 .. g - 1) /\ OpenOnes \in SUBSET (1 .. g - 1) /\ g \in Nat
      BY <1>1, OnesGrow, TraceGrows
    <3>6. /\ CleanOnes \in SUBSET Nat /\ OpenOnes \cup {g} \in SUBSET Nat
          /\ \A i \in CleanOnes : i < g
      BY <3>5
    <3>7. \A i \in CleanOnes, j \in OpenOnes \cup {g} : i < j
      BY <3>6, CleanBeforeOpen
    <3>8. Holds(s, kept[s], CleanOnes, DueIn(s, CleanOnes))
      BY DEF KeptHolds
    <3>9. Holds(s, kept'[s], CleanOnes', DueIn(s, CleanOnes) \cup (DueIn(s, OpenOnes) \cup Due(s, g)'))
      BY <2>2, <3>2, <3>3, <3>4, <3>6, <3>7, <3>8, HoldsBoth
    <3>10. DueIn(s, CleanOnes)' = DueIn(s, CleanOnes) \cup (DueIn(s, OpenOnes) \cup Due(s, g)')
      <4>1. DueIn(s, CleanOnes)' = UNION {Due(s, j)' : j \in CleanOnes \cup (OpenOnes \cup {g})}
        BY <2>2 DEF DueIn
      <4>2. UNION {Due(s, j)' : j \in CleanOnes \cup (OpenOnes \cup {g})}
              = (UNION {Due(s, j)' : j \in CleanOnes}) \cup (UNION {Due(s, j)' : j \in OpenOnes \cup {g}})
        OBVIOUS
      <4>3. UNION {Due(s, j)' : j \in CleanOnes} = DueIn(s, CleanOnes)
        BY <1>1, <3>5, DueInGrows
      <4>4. UNION {Due(s, j)' : j \in OpenOnes \cup {g}} = DueIn(s, OpenOnes) \cup Due(s, g)'
        BY <1>1, <3>5, DueInGrows
      <4> QED
        BY <4>1, <4>2, <4>3, <4>4
    <3> QED
      BY <3>9, <3>10
  <2> QED
    BY <1>1, <1>4, <1>7, <1>8, <2>3 DEF ReadOff
<1> QED
  BY <1>9, <1>10

(* A handler raises: what has been kept is output no more, but still what it was. *)
LEMMA RaiseStep ==
    ASSUME TypeOK, KeptHolds, NEW k \in alphabet, Raise(k)
    PROVE  KeptHolds' /\ ReadOff'
<1> SUFFICES ASSUME NEW g, g = Here
             PROVE  KeptHolds' /\ ReadOff'
  OBVIOUS
<1>1. Reads(k, g) /\ phase' = "raised" /\ kept' = kept /\ k = "import_iovec_end"
  BY DEF Raise, NextEvent, Reads, results, HandlerRaises
<1>2. ~IsEnd(g)'
  BY <1>1, EndGrows
<1>3. CleanOnes' = CleanOnes
  BY <1>1, <1>2, OnesGrow
<1> QED
  BY <1>1, <1>3, KeptStay DEF ReadOff

(* What was due stays due while the trace is the same. *)
LEMMA TraceKept ==
    ASSUME trace' = trace
    PROVE  /\ \A s \in Stats : DueIn(s, OpenOnes)' = DueIn(s, OpenOnes)
           /\ kept' = kept /\ KeptHolds => KeptHolds'
<1>1. \A i, j : SeenBetween(i, j)' = SeenBetween(i, j)
  BY DEF SeenBetween
<1>2. \A i : /\ IsEnd(i)' <=> IsEnd(i)
             /\ InWritev(i)' <=> InWritev(i)
  BY <1>1 DEF IsEnd, InWritev
<1>3. \A s, i, j : IsInterval(s, i, j)' = IsInterval(s, i, j)
  <2>1. \A p, i, j : IsPair(p, i, j)' = IsPair(p, i, j) /\ IsGap(p, i, j)' = IsGap(p, i, j)
    BY <1>1 DEF IsPair, IsGap
  <2>2. \A i, j : IsEntry(i, j)' = IsEntry(i, j)
    BY <1>1 DEF IsEntry
  <2>3. \A i, j : IsImport(i, j)' = IsImport(i, j) /\ IsBatch(i, j)' = IsBatch(i, j)
    BY <1>1, <1>2 DEF IsImport, IsOwnImport, IsStaleImport, IsBatch
  <2> QED
    BY <2>1, <2>2, <2>3 DEF IsInterval
<1>4. \A p, j : Call(p, j)' = Call(p, j)
  BY <1>1 DEF Call, EntryOf, InnerOf, SinceMark
<1>5. \A s, j : Due(s, j)' = Due(s, j)
  BY <1>3, <1>4 DEF Due
<1>6. OpenOnes' = OpenOnes /\ CleanOnes' = CleanOnes
  BY <1>2 DEF OpenOnes, CleanOnes, Positions, InOpenBatch, InCleanBatch
<1>7. \A s : DueIn(s, OpenOnes)' = DueIn(s, OpenOnes) /\ DueIn(s, CleanOnes)' = DueIn(s, CleanOnes)
  BY <1>5, <1>6 DEF DueIn
<1> QED
  BY <1>6, <1>7 DEF KeptHolds, Holds

(* At the end of the trace nothing is read and nothing kept changes. *)
LEMMA OutputStep ==
    ASSUME BInv, NEW typ \in {"e1000", "virtio"}, Output(typ)
    PROVE  KeptHolds' /\ ReadOff' /\ CsvDivides'
<1>1. trace' = trace /\ kept' = kept /\ phase' = IF Divides(typ) THEN typ ELSE "no_csv"
  BY DEF Output, results
<1>2. KeptHolds'
  BY <1>1, TraceKept DEF BInv
<1>3. ReadOff'
  BY <1>1 DEF ReadOff
<1>4. CsvDivides'
  BY <1>1 DEF CsvDivides, Divides
<1> QED
  BY <1>2, <1>3, <1>4

(* A step that changes nothing. *)
LEMMA StutterStep ==
    ASSUME BInv, UNCHANGED vars
    PROVE  KeptHolds' /\ ReadOff' /\ CsvDivides'
<1>1. /\ trace' = trace /\ kept' = kept /\ phase' = phase /\ batch' = batch
      /\ last' = last /\ gap' = gap /\ series' = series /\ hw' = hw /\ deep' = deep
      /\ boundary' = boundary /\ (ignoreHalt' = ignoreHalt) /\ (invalid' = invalid)
  BY DEF vars, parsers, results
<1>2. KeptHolds'
  BY <1>1, TraceKept DEF BInv
<1>3. CsvDivides'
  BY <1>1 DEF BInv, CsvDivides, Divides
<1>4. /\ PairMemory' = PairMemory /\ GapMemory' = GapMemory /\ SeriesMemory' = SeriesMemory
      /\ HwMemory' = HwMemory
  BY <1>1 DEF PairMemory, GapMemory, SeriesMemory, HwMemory, Positions, Here, Unseen, Only,
     Begun, SinceEntry, SeenBetween
<1>5. /\ DeepMemory' = DeepMemory /\ BatchMemory' = BatchMemory
  BY <1>1 DEF DeepMemory, BatchMemory, Positions, Here, Unseen, InWritev, NoImport,
     SeenBetween, IsEnd
<1>6. OpenOnes' = OpenOnes /\ InvalidIfDisturbed' = InvalidIfDisturbed
  BY <1>1 DEF OpenOnes, Positions, InOpenBatch, IsEnd, InvalidIfDisturbed
<1>7. BatchHolds' = BatchHolds
  <2>1. \A s \in Stats : DueIn(s, OpenOnes)' = DueIn(s, OpenOnes)
    BY <1>1, <1>6, TraceKept
  <2> QED
    BY <1>1, <1>6, <2>1 DEF BatchHolds, Holds
<1>8. ReadOff'
  BY <1>1, <1>4, <1>5, <1>6, <1>7 DEF BInv, ReadOff, Memory
<1> QED
  BY <1>2, <1>3, <1>8

(* Every step keeps the invariant. *)
LEMMA NextBInv == BInv /\ [Next]_vars => BInv'
<1> SUFFICES ASSUME BInv, [Next]_vars
             PROVE  BInv'
  OBVIOUS
<1>1. TypeOK /\ KeptHolds /\ ReadOff
  BY DEF BInv
<1>2. TypeOK'
  BY <1>1, NextType
<1>3. ASSUME NEW k \in alphabet, Skip(k) \/ InBatch(k) \/ FinishBatch(k) \/ ResetBatch(k) \/ Raise(k)
      PROVE  KeptHolds' /\ ReadOff' /\ CsvDivides'
  <2>1. KeptHolds' /\ ReadOff'
    BY <1>1, <1>3, SkipStep, InBatchStep, EndStep, RaiseStep
  <2>2. phase' \in {"parsing", "raised"}
    BY <1>3 DEF Skip, InBatch, FinishBatch, ResetBatch, Raise, NextEvent
  <2> QED
    BY <2>1, <2>2 DEF CsvDivides
<1>4. ASSUME NEW typ \in {"e1000", "virtio"}, Output(typ)
      PROVE  KeptHolds' /\ ReadOff' /\ CsvDivides'
  BY <1>4, OutputStep
<1>5. ASSUME UNCHANGED vars
      PROVE  KeptHolds' /\ ReadOff' /\ CsvDivides'
  BY <1>5, StutterStep
<1>6. KeptHolds' /\ ReadOff' /\ CsvDivides'
  BY <1>3, <1>4, <1>5 DEF Next
<1> QED
  BY <1>2, <1>6 DEF BInv

(* What every parser remembers can be read off the trace, and so can what  *)
(* the open batch and the kept ones hold.                                  *)
THEOREM Invariance == Spec => []BInv
<1>1. Init => BInv
  BY InitBInv
<1> QED
  BY <1>1, NextBInv, PTL DEF Spec

-----------------------------------------------------------------------------
(* The pairs that end in clean batches are those due at their events. *)
LEMMA CleanIsDue ==
    ASSUME NEW s \in Stats \ Funcs, Len(trace) \in Nat
    PROVE  Clean(s) = DueIn(s, CleanOnes)
<1>1. \A j : Due(s, j) = {{i, j} : i \in {n \in 1 .. j - 1 : IsInterval(s, n, j)}}
  BY DEF Due
<1>2. ASSUME NEW e \in Clean(s)
      PROVE  e \in DueIn(s, CleanOnes)
  <2>1. PICK y \in Positions \X Positions :
            /\ y[1] < y[2] /\ IsInterval(s, y[1], y[2]) /\ InCleanBatch(y[2])
            /\ e = {y[1], y[2]}
    BY <1>2 DEF Clean
  <2>2. y[1] \in 1 .. y[2] - 1 /\ y[2] \in CleanOnes
    BY <2>1 DEF Positions, CleanOnes
  <2>3. e \in Due(s, y[2])
    BY <1>1, <2>1, <2>2
  <2> QED
    BY <2>2, <2>3 DEF DueIn
<1>3. ASSUME NEW e \in DueIn(s, CleanOnes)
      PROVE  e \in Clean(s)
  <2>1. PICK j \in CleanOnes : e \in Due(s, j)
    BY <1>3 DEF DueIn
  <2>2. PICK i \in 1 .. j - 1 : IsInterval(s, i, j) /\ e = {i, j}
    BY <1>1, <2>1
  <2>3. j \in Positions /\ InCleanBatch(j) /\ i \in Positions /\ i < j
    BY <2>1, <2>2 DEF CleanOnes, Positions
  <2> DEFINE y == <<i, j>>
  <2>4. y \in Positions \X Positions /\ y[1] = i /\ y[2] = j
    BY <2>3
  <2> HIDE DEF y
  <2> QED
    BY <2>2, <2>3, <2>4 DEF Clean
<1> QED
  BY <1>2, <1>3

(* Pairs that are held are held once. *)
LEMMA HeldOnce ==
    ASSUME NEW s \in Stats \ Funcs, NEW xs \in Seq(Interval), NEW J, NEW E, Holds(s, xs, J, E)
    PROVE  Len(xs) = Cardinality(E)
<1> DEFINE f == [a \in 1 .. Len(xs) |-> Range(xs[a])]
<1>1. Len(xs) \in Nat /\ DOMAIN xs = 1 .. Len(xs)
  OBVIOUS
<1>2. \A a \in 1 .. Len(xs) : xs[a] \in Range(xs)
  BY <1>1 DEF Range
<1>3. f \in [1 .. Len(xs) -> E]
  BY <1>2 DEF Holds
<1>4. \A e \in E : \E a \in 1 .. Len(xs) : f[a] = e
  <2> TAKE e \in E
  <2>1. PICK x \in Range(xs) : e = Range(x)
    BY DEF Holds
  <2>2. PICK a \in 1 .. Len(xs) : x = xs[a]
    BY <1>1, <2>1 DEF Range
  <2> QED
    BY <2>1, <2>2
<1>5. \A a \in 1 .. Len(xs) :
          /\ xs[a][1] \in Nat /\ xs[a][2] \in Nat /\ xs[a][1] < xs[a][2]
          /\ AtEnd(xs[a]) = xs[a][2] /\ Range(xs[a]) = {xs[a][1], xs[a][2]}
  <2> SUFFICES ASSUME NEW x \in Seq(Nat), Len(x) = 2, x[1] < x[2]
               PROVE  /\ x[1] \in Nat /\ x[2] \in Nat
                      /\ AtEnd(x) = x[2] /\ Range(x) = {x[1], x[2]}
    BY DEF Holds, Interval
  <2>1. DOMAIN x = {1, 2}
    OBVIOUS
  <2> QED
    BY <2>1 DEF AtEnd, Range
<1>6. \A a, b \in 1 .. Len(xs) : a < b => f[a] # f[b]
  <2> SUFFICES ASSUME NEW a \in 1 .. Len(xs), NEW b \in 1 .. Len(xs), a < b
               PROVE  f[a] # f[b]
    OBVIOUS
  <2>1. xs[a][2] < xs[b][2]
    BY <1>5 DEF Holds
  <2>2. xs[b][2] \notin {xs[a][1], xs[a][2]}
    BY <1>5, <2>1
  <2> QED
    BY <1>5, <2>2
<1>7. \A a, b \in 1 .. Len(xs) : f[a] = f[b] => a = b
  <2> SUFFICES ASSUME NEW a \in 1 .. Len(xs), NEW b \in 1 .. Len(xs), f[a] = f[b]
               PROVE  a = b
    OBVIOUS
  <2>1. ~(a < b) /\ ~(b < a)
    BY <1>6
  <2> QED
    BY <2>1
<1> HIDE DEF f
<1> QED
  BY <1>1, <1>3, <1>4, <1>7, CountOnce

(* What a statistic holds is what was due at the events of clean batches. *)
LEMMA EventsAreDue ==
    ASSUME BInv, NEW s \in Stats
    PROVE  Events(s) = DueIn(s, CleanOnes)
BY DEF BInv, KeptHolds, Holds, Events

(* The same for pairs, and that each of them is held once. *)
LEMMA PairsAreClean ==
    ASSUME BInv, NEW s \in Stats \ Funcs
    PROVE  Events(s) = Clean(s) /\ Len(kept[s]) = Cardinality(Clean(s))
<1>1. Len(trace) \in Nat /\ kept[s] \in Seq(Interval)
  BY DEF BInv, TypeOK
<1>2. Clean(s) = DueIn(s, CleanOnes)
  BY <1>1, CleanIsDue
<1>3. Holds(s, kept[s], CleanOnes, DueIn(s, CleanOnes))
  BY DEF BInv, KeptHolds
<1>4. Len(kept[s]) = Cardinality(DueIn(s, CleanOnes))
  BY <1>1, <1>3, HeldOnce
<1> QED
  BY <1>2, <1>4, EventsAreDue

(* In every trace, whatever events it holds, is missing or repeats, every  *)
(* statistic of pairs and of whole batches holds exactly the pairs that    *)
(* end in a batch nothing disturbed, and each of them once.                *)
THEOREM PairsKept == Spec => []KeepsPairs
<1>1. BInv => KeepsPairs
  <2> SUFFICES ASSUME BInv, NEW s \in Pairs \cup {"total_batch_time"}
               PROVE  Events(s) = Clean(s) /\ Len(kept[s]) = Cardinality(Clean(s))
    BY DEF KeepsPairs
  <2>1. s \in Stats
    BY DEF Stats
  <2>2. s \notin Funcs
    BY <2>1, StatSorts
  <2> QED
    BY <2>1, <2>2, PairsAreClean
<1> QED
  BY <1>1, Invariance, PTL

(* The times between two calls on the tap are kept for exactly the calls   *)
(* that follow each other in clean batches with nothing of the host        *)
(* between them.                                                           *)
THEOREM GapsKept == Spec => []KeepsGaps
<1>1. BInv => KeepsGaps
  <2> SUFFICES ASSUME BInv, NEW s \in Gaps
               PROVE  Events(s) = Clean(s)
    BY DEF KeepsGaps
  <2>1. s \in Stats
    BY DEF Stats
  <2>2. s \notin Funcs
    BY <2>1, StatSorts
  <2> QED
    BY <2>1, <2>2, PairsAreClean
<1> QED
  BY <1>1, Invariance, PTL

(* Exactly the hardware entries after an exit and the imports of an iovec  *)
(* that end in a clean batch are kept; an import is measured from its own  *)
(* start or, where that was lost, from one left of an earlier writev.      *)
THEOREM NestedKept == Spec => []KeepsNested
<1>1. BInv => KeepsNested
  <2> SUFFICES ASSUME BInv, NEW s \in {"HW_entry", "writev_import_iovec"}
               PROVE  Events(s) = Clean(s)
    BY DEF KeepsNested
  <2>1. s \in Stats
    BY DEF Stats
  <2>2. s \notin Funcs
    BY <2>1, StatSorts
  <2> QED
    BY <2>1, <2>2, PairsAreClean
<1> QED
  BY <1>1, Invariance, PTL

(* The time in a guest function is kept for every whole call that ends in  *)
(* a clean batch, and otherwise only for what is left of a torn one.       *)
THEOREM SeriesKept == Spec => []KeepsSeries
<1>1. BInv => KeepsSeries
  <2> SUFFICES ASSUME BInv, NEW p \in Funcs
               PROVE  Events(p) = {Call(p, j) : j \in {n \in Positions :
                          /\ trace[n] = FuncEnd[p] /\ InCleanBatch(n)
                          /\ WholeCall(p, n) \/ TornCall(p, n)}}
    BY DEF KeepsSeries
  <2>1. Events(p) = DueIn(p, CleanOnes)
    BY EventsAreDue DEF Stats
  <2>2. \A j \in Positions : Due(p, j) =
            IF trace[j] = FuncEnd[p] /\ (WholeCall(p, j) \/ TornCall(p, j)) THEN {Call(p, j)} ELSE {}
    BY EvenIsWholeOrTorn DEF Due, BInv
  <2>3. \A e : e \in DueIn(p, CleanOnes) <=> \E j \in CleanOnes : e \in Due(p, j)
    BY DEF DueIn
  <2>4. \A e : e \in DueIn(p, CleanOnes) <=>
            \E j \in Positions : /\ InCleanBatch(j) /\ trace[j] = FuncEnd[p]
                                 /\ WholeCall(p, j) \/ TornCall(p, j)
                                 /\ e = Call(p, j)
    BY <2>2, <2>3 DEF CleanOnes
  <2> QED
    BY <2>1, <2>4
<1> QED
  BY <1>1, Invariance, PTL

(* A CSV file is written to its end only from a trace in which a clean     *)
(* batch follows another, with packets sent in clean batches and, for      *)
(* e1000, packets received in them.                                        *)
THEOREM CsvIsOfCleanBatches == Spec => []CsvFromCleanBatches
<1>1. BInv => CsvFromCleanBatches
  <2> SUFFICES ASSUME BInv, phase \in {"e1000", "virtio"}
               PROVE  /\ Clean("total_batch_time") # {} /\ Clean("guest_xmit") # {}
                      /\ phase = "e1000" =>
                             \E j \in Positions : trace[j] = "net_dev_recv_end" /\ InCleanBatch(j)
    BY DEF CsvFromCleanBatches
  <2>1. /\ kept["total_batch_time"] # <<>> /\ kept["guest_xmit"] # <<>>
        /\ phase = "e1000" => kept["guest_recv_func"] # <<>>
    BY DEF BInv, CsvDivides, Divides
  <2>2. \A s \in Stats : kept[s] # <<>> => Events(s) # {}
    <3> SUFFICES ASSUME NEW s \in Stats, kept[s] # <<>>
                 PROVE  Events(s) # {}
      OBVIOUS
    <3>1. kept[s] \in Seq(Interval)
      BY DEF BInv, TypeOK
    <3>2. 1 \in DOMAIN kept[s]
      BY <3>1
    <3>3. kept[s][1] \in Range(kept[s])
      BY <3>2 DEF Range
    <3>4. Range(kept[s][1]) \in Events(s)
      BY <3>3 DEF Events
    <3> QED
      BY <3>4
  <2>3. /\ {"total_batch_time", "guest_xmit", "guest_recv_func"} \subseteq Stats
        /\ "guest_recv_func" \in Funcs /\ FuncEnd["guest_recv_func"] = "net_dev_recv_end"
    BY DEF Stats, Pairs, Opens, Funcs, FuncStart, FuncEnd
  <2>4. Clean("total_batch_time") # {} /\ Clean("guest_xmit") # {}
    <3>1. "total_batch_time" \notin Funcs /\ "guest_xmit" \notin Funcs
      BY DEF Funcs, FuncStart
    <3> QED
      BY <2>1, <2>2, <2>3, <3>1, PairsAreClean
  <2>5. ASSUME phase = "e1000"
        PROVE  \E j \in Positions : trace[j] = "net_dev_recv_end" /\ InCleanBatch(j)
    <3>1. DueIn("guest_recv_func", CleanOnes) # {}
      BY <2>1, <2>2, <2>3, <2>5, EventsAreDue
    <3>2. PICK j \in CleanOnes : Due("guest_recv_func", j) # {}
      BY <3>1 DEF DueIn
    <3> QED
      BY <2>3, <3>2 DEF Due, CleanOnes
  <2> QED
    BY <2>4, <2>5
<1> QED
  BY <1>1, Invariance, PTL

-----------------------------------------------------------------------------
(* What events_per_batch holds is inductive with the invariant above, once *)
(* it is known that no boundary is remembered only before the first end.   *)
CountInv == /\ EventsAddUp
            /\ phase = "parsing" => (boundary = 0 <=> Ends = {})

CleanEnds == {e \in Ends : InCleanBatch(e)}

(* Sets of positions are finite. *)
LEMMA PositionsFinite ==
    ASSUME TypeOK, NEW S \in SUBSET Positions
    PROVE  IsFiniteSet(S) /\ Cardinality(S) \in Nat
<1>1. Len(trace) \in Nat
  BY DEF TypeOK
<1>2. IsFiniteSet(Positions)
  BY <1>1, FS_Interval DEF Positions
<1> QED
  BY <1>2, FS_Subset, FS_CardinalityType

(* With the event k, the positions seen, the ends and the clean ones grow. *)
LEMMA EndsGrow ==
    ASSUME NEW k, NEW h, Reads(k, h)
    PROVE  /\ Seen \in SUBSET (1 .. h - 1) /\ Ends \in SUBSET Seen
           /\ Seen' = IF Filtered(k) THEN Seen \cup {h} ELSE Seen
           /\ Ends' = IF IsEnd(h)' THEN Ends \cup {h} ELSE Ends
           /\ CleanEnds' = IF IsEnd(h)' /\ ~Disturbed(k) THEN CleanEnds \cup {h} ELSE CleanEnds
           /\ \A i, j \in Ends : (IsBatch(i, j)' <=> IsBatch(i, j)) /\ EventsOf(i, j)' = EventsOf(i, j)
<1>1. /\ Positions = 1 .. h - 1 /\ Positions' = 1 .. h /\ h \in Nat /\ h >= 1 /\ trace'[h] = k
      /\ \A i \in 1 .. h - 1 : trace'[i] = trace[i]
      /\ \A i : i \in 1 .. h <=> i \in 1 .. h - 1 \/ i = h
      /\ h \notin 1 .. h - 1 /\ Len(trace) = h - 1
  <2>1. Len(trace) \in Nat /\ h = Len(trace) + 1
    BY DEF Reads, TypeOK, Here
  <2> QED
    BY <2>1, TraceGrows
<1>2. \A i \in 1 .. h - 1 : IsEnd(i)' <=> IsEnd(i)
  BY EndGrows
<1>3. Seen \in SUBSET (1 .. h - 1)
  BY <1>1 DEF Seen
<1>4. Ends \in SUBSET Seen
  BY DEF Ends, Seen, IsEnd, Filtered
<1>5. Seen' = IF Filtered(k) THEN Seen \cup {h} ELSE Seen
  BY <1>1 DEF Seen
<1>6. Ends' = IF IsEnd(h)' THEN Ends \cup {h} ELSE Ends
  BY <1>1, <1>2 DEF Ends
<1>7. \A e \in Ends : InCleanBatch(e)' <=> InCleanBatch(e)
  <2> TAKE e \in Ends
  <2>1. e \in 1 .. h - 1 /\ IsEnd(e)
    BY <1>1 DEF Ends
  <2>2. ~InOpenBatch(e)
    BY <1>1, <2>1 DEF InOpenBatch
  <2> QED
    BY <2>1, <2>2, BatchesGrow
<1>8. InCleanBatch(h)' <=> IsEnd(h)' /\ ~Disturbed(k)
  BY BatchesGrow
<1>9. CleanEnds' = IF IsEnd(h)' /\ ~Disturbed(k) THEN CleanEnds \cup {h} ELSE CleanEnds
  BY <1>6, <1>7, <1>8 DEF CleanEnds
<1>10. ASSUME NEW i \in Ends, NEW j \in Ends
       PROVE  (IsBatch(i, j)' <=> IsBatch(i, j)) /\ EventsOf(i, j)' = EventsOf(i, j)
  <2>1. i \in 1 .. h - 1 /\ j \in 1 .. h - 1 /\ i \in 1 .. h /\ j \in 1 .. h
    BY <1>1, <1>3, <1>4
  <2>2. SeenBetween(i, j)' = SeenBetween(i, j) /\ SeenBetween(i, j) \subseteq 1 .. h - 1
    BY <2>1, SeenGrows
  <2>3. IsBatch(i, j)' <=> IsBatch(i, j)
    BY <1>2, <2>1, <2>2 DEF IsBatch
  <2>4. ~(h <= j)
    BY <1>1, <2>1
  <2>5. EventsOf(i, j)' = EventsOf(i, j)
    BY <1>5, <2>4 DEF EventsOf
  <2> QED
    BY <2>3, <2>5
<1> QED
  BY <1>3, <1>4, <1>5, <1>6, <1>9, <1>10

(* The ends up to one of them are as many as they were. *)
LEMMA RankStays ==
    ASSUME NEW k, NEW h, Reads(k, h), NEW i \in Ends
    PROVE  {e \in Ends' : e <= i} = {e \in Ends : e <= i}
<1>1. h \in Nat /\ i \in 1 .. h - 1
  BY TraceGrows, EndsGrow
<1>2. ~(h <= i)
  BY <1>1
<1> QED
  BY <1>2, EndsGrow

(* An event that ends no batch is counted for the open one, if it is seen. *)
LEMMA CountInside ==
    ASSUME NEW k, NEW h, Reads(k, h), EventsAddUp, phase = "parsing", ~IsEnd(h)',
           perBatch' = perBatch, skipped' = skipped,
           eventNum' = IF Filtered(k) THEN eventNum + 1 ELSE eventNum
    PROVE  EventsAddUp'
<1>1. /\ Seen \in SUBSET (1 .. h - 1) /\ Ends \in SUBSET Seen /\ Ends' = Ends
      /\ Seen' = IF Filtered(k) THEN Seen \cup {h} ELSE Seen
      /\ CleanEnds' = CleanEnds
      /\ \A i, j \in Ends : (IsBatch(i, j)' <=> IsBatch(i, j)) /\ EventsOf(i, j)' = EventsOf(i, j)
  BY EndsGrow
<1>2. h \in Nat /\ Positions = 1 .. h - 1 /\ TypeOK
  BY TraceGrows DEF Reads
<1>3. Since(Ends)' = IF Filtered(k) THEN Since(Ends) \cup {h} ELSE Since(Ends)
  <2>1. \A e \in Ends : e < h
    BY <1>1, <1>2
  <2> QED
    BY <1>1, <2>1 DEF Since
<1>4. Since(Ends) \in SUBSET Positions /\ h \notin Since(Ends)
  <2>1. h \notin 1 .. h - 1
    BY <1>2
  <2> QED
    BY <1>1, <1>2, <2>1 DEF Since
<1>5. Cardinality(Since(Ends))' =
          IF Filtered(k) THEN Cardinality(Since(Ends)) + 1 ELSE Cardinality(Since(Ends))
  <2>1. IsFiniteSet(Since(Ends))
    BY <1>2, <1>4, PositionsFinite
  <2> QED
    BY <1>3, <1>4, <2>1, FS_AddElement
<1>6. /\ Len(perBatch) = IF Ends = {} THEN 0 ELSE Cardinality(Ends) - 1
      /\ \A i, j \in Ends : i < j /\ IsBatch(i, j) =>
             perBatch[Cardinality({e \in Ends : e <= i})] = Cardinality(EventsOf(i, j))
      /\ eventNum = Cardinality(Since(Ends))
      /\ Cardinality(Ends) = skipped + Cardinality(CleanEnds)
  BY DEF EventsAddUp, CleanEnds
<1>7. /\ Len(perBatch') = IF Ends' = {} THEN 0 ELSE Cardinality(Ends') - 1
      /\ eventNum' = Cardinality(Since(Ends))'
      /\ Cardinality(Ends') = skipped' + Cardinality(CleanEnds')
  BY <1>1, <1>5, <1>6
<1>8. \A i, j \in Ends' : i < j /\ IsBatch(i, j)' =>
          perBatch'[Cardinality({e \in Ends' : e <= i})] = Cardinality(EventsOf(i, j)')
  BY <1>1, <1>6
<1> QED
  BY <1>7, <1>8 DEF EventsAddUp, CleanEnds

(* The boundary is the last end of a batch. *)
LEMMA BoundaryIsLast ==
    ASSUME TypeOK, BatchMemory, boundary = 0 <=> Ends = {}, boundary # 0
    PROVE  boundary \in Ends /\ \A e \in Ends : e <= boundary
<1>1. Len(trace) \in Nat /\ boundary \in Positions /\ Here = Len(trace) + 1
  BY DEF TypeOK, Positions, Here
<1>2. IsEnd(boundary) /\ \A n \in SeenBetween(boundary, Here) : ~IsEnd(n)
  BY <1>1 DEF BatchMemory
<1>3. ASSUME NEW e \in Ends, ~(e <= boundary)
      PROVE  FALSE
  <2>1. e \in Positions /\ IsEnd(e) /\ Filtered(trace[e])
    BY DEF Ends, IsEnd, Filtered
  <2>2. e \in SeenBetween(boundary, Here)
    BY <1>1, <1>3, <2>1 DEF SeenBetween, Positions
  <2> QED
    BY <1>2, <2>1, <2>2
<1> QED
  BY <1>1, <1>2, <1>3 DEF Ends

(* The end of a batch is counted for it, and the next one begins. *)
LEMMA CountEnd ==
    ASSUME NEW k, NEW h, Reads(k, h), CountInv, phase = "parsing", BatchMemory, IsEnd(h)', Filtered(k),
           eventNum' = 0,
           perBatch' = IF boundary # 0 THEN Append(perBatch, eventNum + 1) ELSE perBatch,
           skipped' = IF Disturbed(k) THEN skipped + 1 ELSE skipped
    PROVE  EventsAddUp'
<1>1. /\ Seen \in SUBSET (1 .. h - 1) /\ Ends \in SUBSET Seen /\ Ends' = Ends \cup {h}
      /\ Seen' = Seen \cup {h}
      /\ CleanEnds' = IF Disturbed(k) THEN CleanEnds ELSE CleanEnds \cup {h}
      /\ \A i, j \in Ends : (IsBatch(i, j)' <=> IsBatch(i, j)) /\ EventsOf(i, j)' = EventsOf(i, j)
  BY EndsGrow
<1>2. h \in Nat /\ Positions = 1 .. h - 1 /\ TypeOK /\ h \notin 1 .. h - 1
  BY TraceGrows DEF Reads
<1>3. /\ Len(perBatch) = IF Ends = {} THEN 0 ELSE Cardinality(Ends) - 1
      /\ \A i, j \in Ends : i < j /\ IsBatch(i, j) =>
             perBatch[Cardinality({e \in Ends : e <= i})] = Cardinality(EventsOf(i, j))
      /\ eventNum = Cardinality(Since(Ends))
      /\ Cardinality(Ends) = skipped + Cardinality(CleanEnds)
      /\ boundary = 0 <=> Ends = {}
  BY DEF CountInv, EventsAddUp, CleanEnds
<1>4. /\ IsFiniteSet(Ends) /\ IsFiniteSet(CleanEnds) /\ IsFiniteSet(Since(Ends))
      /\ Cardinality(Ends) \in Nat /\ Cardinality(CleanEnds) \in Nat
      /\ Ends \in SUBSET Positions /\ CleanEnds \in SUBSET Ends /\ Since(Ends) \in SUBSET Positions
  <2>1. Ends \in SUBSET Positions /\ CleanEnds \in SUBSET Ends /\ Since(Ends) \in SUBSET Positions
    BY <1>1, <1>2 DEF CleanEnds, Since
  <2> QED
    BY <1>2, <2>1, PositionsFinite
<1>5. /\ Cardinality(Ends') = Cardinality(Ends) + 1
      /\ Cardinality(CleanEnds') = IF Disturbed(k) THEN Cardinality(CleanEnds)
                                   ELSE Cardinality(CleanEnds) + 1
  <2>1. h \notin Ends /\ h \notin CleanEnds
    BY <1>2, <1>4
  <2> QED
    BY <1>1, <1>4, <2>1, FS_AddElement
<1>6. Cardinality(Ends') = skipped' + Cardinality(CleanEnds')
  <2>1. skipped \in Nat
    BY <1>2 DEF TypeOK
  <2> QED
    BY <1>3, <1>4, <1>5, <2>1
<1>7. eventNum' = Cardinality(Since(Ends))'
  <2>1. \A n \in Seen' : ~(h < n)
    BY <1>1, <1>2
  <2>2. Since(Ends)' = {}
    BY <1>1, <2>1 DEF Since
  <2> QED
    BY <2>2, FS_EmptySet
<1>8. perBatch \in Seq(1 .. Len(trace)) /\ eventNum \in Nat
  BY <1>2 DEF TypeOK
<1>9. Len(perBatch') = IF Ends' = {} THEN 0 ELSE Cardinality(Ends') - 1
  <2>1. CASE boundary = 0
    <3>1. Len(perBatch') = 0 /\ Cardinality(Ends) = 0
      BY <1>3, <2>1, FS_EmptySet
    <3> QED
      BY <1>1, <1>5, <3>1
  <2>2. CASE boundary # 0
    <3>1. Len(perBatch') = Len(perBatch) + 1 /\ Len(perBatch) = Cardinality(Ends) - 1
      BY <1>3, <1>8, <2>2
    <3> QED
      BY <1>1, <1>4, <1>5, <3>1
  <2> QED
    BY <2>1, <2>2
<1>10. ASSUME NEW i \in Ends, NEW j \in Ends, i < j, IsBatch(i, j)'
       PROVE  perBatch'[Cardinality({e \in Ends : e <= i})] = Cardinality(EventsOf(i, j)')
  <2> DEFINE E == {e \in Ends : e <= i}
             c == Cardinality(E)
  <2>1. i \in Nat /\ j \in Nat
    BY <1>2, <1>4
  <2>2. E \in SUBSET (Ends \ {j}) /\ i \in E
    BY <1>10, <2>1
  <2>3. IsFiniteSet(Ends \ {j}) /\ Cardinality(Ends \ {j}) = Cardinality(Ends) - 1
    BY <1>4, FS_RemoveElement
  <2>4. IsFiniteSet(E) /\ c \in Nat /\ c <= Cardinality(Ends) - 1
    BY <2>2, <2>3, FS_Subset, FS_CardinalityType
  <2>5. c # 0
    BY <2>2, <2>4, FS_EmptySet
  <2>6. Len(perBatch) = Cardinality(Ends) - 1
    BY <1>3, <2>2
  <2> HIDE DEF c
  <2>7. c \in 1 .. Len(perBatch)
    BY <2>4, <2>5, <2>6
  <2>8. perBatch'[c] = perBatch[c]
    BY <1>8, <2>7
  <2>9. perBatch[c] = Cardinality(EventsOf(i, j))
    BY <1>1, <1>3, <1>10 DEF c
  <2> QED
    BY <1>1, <2>8, <2>9 DEF c
<1>11. ASSUME NEW i \in Ends, IsBatch(i, h)'
       PROVE  perBatch'[Cardinality({e \in Ends : e <= i})] = Cardinality(EventsOf(i, h)')
  <2>1. boundary \in Ends /\ \A e \in Ends : e <= boundary
    BY <1>2, <1>3, <1>11, BoundaryIsLast
  <2>2. i \in Nat /\ boundary \in Nat /\ \A e \in Ends : e \in Nat /\ e < h
    BY <1>2, <1>4, <2>1
  <2>3. i = boundary
    <3> SUFFICES ASSUME NEW b, b = boundary, i < b
                 PROVE  FALSE
      BY <2>1, <2>2
    <3>1. b \in 1 .. h - 1 /\ i \in 1 .. h
      BY <1>2, <1>4, <2>1
    <3>2. IsEnd(b)' /\ Filtered(trace[b]) /\ h \in 1 .. h
      <4>1. IsEnd(b)
        BY <2>1 DEF Ends
      <4>2. IsEnd(b)'
        BY <3>1, <4>1, EndGrows
      <4>3. Filtered(trace[b])
        BY <4>1 DEF IsEnd, Filtered
      <4> QED
        BY <1>2, <3>1, <4>2, <4>3
    <3>3. b \in SeenBetween(i, h)
      BY <1>2, <2>2, <3>1, <3>2 DEF SeenBetween
    <3>4. b \in SeenBetween(i, h)'
      BY <3>1, <3>2, <3>3, SeenGrows
    <3>5. \A n \in SeenBetween(i, h)' : ~IsEnd(n)'
      BY <1>11 DEF IsBatch
    <3> QED
      BY <3>2, <3>4, <3>5
  <2>4. {e \in Ends : e <= i} = Ends
    BY <2>1, <2>3
  <2>5. EventsOf(i, h)' = Since(Ends) \cup {h}
    <3>1. \A n \in Seen : n \in Nat /\ n <= h
      BY <1>1, <1>2
    <3>2. \A n \in Seen : (\A e \in Ends : e < n) <=> i < n
      BY <2>1, <2>2, <2>3, <3>1
    <3>3. h <= h /\ i < h
      BY <1>2, <2>2
    <3> QED
      BY <1>1, <3>1, <3>2, <3>3 DEF EventsOf, Since
  <2>6. Cardinality(EventsOf(i, h)') = eventNum + 1
    <3>1. h \notin Since(Ends)
      BY <1>2, <1>4
    <3> QED
      BY <1>3, <1>4, <2>5, <3>1, FS_AddElement
  <2>7. Cardinality(Ends) = Len(perBatch) + 1 /\ Len(perBatch) \in Nat
    BY <1>3, <1>4, <1>8
  <2>8. boundary # 0
    BY <1>3
  <2>9. perBatch'[Len(perBatch) + 1] = eventNum + 1
    BY <1>8, <2>8
  <2> QED
    BY <2>4, <2>6, <2>7, <2>9
<1>12. ASSUME NEW i \in Ends', NEW j \in Ends', i < j, IsBatch(i, j)'
       PROVE  perBatch'[Cardinality({e \in Ends' : e <= i})] = Cardinality(EventsOf(i, j)')
  <2>1. \A e \in Ends' : e \in Nat /\ e <= h
    BY <1>1, <1>2, <1>4
  <2>2. i \in Ends
    BY <1>1, <1>12, <2>1
  <2>3. {e \in Ends' : e <= i} = {e \in Ends : e <= i}
    BY <2>2, RankStays
  <2>4. j \in Ends \/ j = h
    BY <1>1
  <2> QED
    BY <1>10, <1>11, <1>12, <2>2, <2>3, <2>4
<1> QED
  BY <1>6, <1>7, <1>9, <1>12 DEF EventsAddUp, CleanEnds

(* Every step keeps the count. *)
LEMMA NextCountInv == BInv /\ CountInv /\ [Next]_vars => CountInv'
<1> SUFFICES ASSUME BInv, CountInv, [Next]_vars
             PROVE  CountInv'
  OBVIOUS
<1>0. ASSUME NEW k \in alphabet, NextEvent(k)
      PROVE  Reads(k, Here) /\ phase = "parsing" /\ TypeOK /\ BatchMemory /\ InvalidIfDisturbed
  BY <1>0 DEF Reads, NextEvent, BInv, ReadOff, Memory
<1>1. ASSUME NEW k \in alphabet, Skip(k) \/ InBatch(k)
      PROVE  CountInv'
  <2> SUFFICES ASSUME NEW h, h = Here
               PROVE  CountInv'
    OBVIOUS
  <2>1. /\ NextEvent(k) /\ Reads(k, h) /\ phase = "parsing" /\ BatchMemory /\ TypeOK
        /\ perBatch' = perBatch /\ skipped' = skipped /\ boundary' = boundary
        /\ eventNum' = IF Filtered(k) THEN eventNum + 1 ELSE eventNum
        /\ ~Filtered(k) \/ ~EndsBatch(k)
    BY <1>0, <1>1 DEF Skip, InBatch, Handle, parsers, results
  <2>2. ~IsEnd(h)'
    <3>1. IsEnd(h)' => EndsBatch(k) /\ Filtered(k)
      BY <2>1, EndGrows DEF BatchMemory, Filtered
    <3> QED
      BY <2>1, <3>1
  <2>3. EventsAddUp'
    BY <2>1, <2>2, CountInside DEF CountInv
  <2>4. Ends' = Ends
    BY <2>1, <2>2, EndsGrow
  <2> QED
    BY <2>1, <2>3, <2>4 DEF CountInv
<1>2. ASSUME NEW k \in alphabet, FinishBatch(k) \/ ResetBatch(k)
      PROVE  CountInv'
  <2> SUFFICES ASSUME NEW h, h = Here
               PROVE  CountInv'
    OBVIOUS
  <2>1. /\ NextEvent(k) /\ Reads(k, h) /\ phase = "parsing" /\ BatchMemory /\ TypeOK
        /\ perBatch' = (IF boundary # 0 THEN Append(perBatch, eventNum + 1) ELSE perBatch)
        /\ boundary' = h /\ eventNum' = 0 /\ EndsBatch(k) /\ Filtered(k)
    BY <1>0, <1>2 DEF FinishBatch, ResetBatch, Handle, EndsBatch, Filtered
  <2>2. IsEnd(h)'
    BY <2>1, EndGrows DEF BatchMemory
  <2>3. skipped' = IF Disturbed(k) THEN skipped + 1 ELSE skipped
    <3>1. Disturbed(k) <=> invalid \/ Disturbs(k)
      BY <1>0, <2>1 DEF Disturbed, InvalidIfDisturbed
    <3> QED
      BY <1>2, <3>1 DEF FinishBatch, ResetBatch
  <2>4. EventsAddUp'
    BY <2>1, <2>2, <2>3, CountEnd
  <2>5. h \in Ends' /\ h # 0
    BY <2>1, <2>2, EndsGrow, TraceGrows
  <2> QED
    BY <2>1, <2>4, <2>5 DEF CountInv
<1>3. ASSUME NEW k \in alphabet, Raise(k)
      PROVE  CountInv'
  BY <1>3 DEF Raise, CountInv, EventsAddUp
<1>4. ASSUME trace' = trace, perBatch' = perBatch, eventNum' = eventNum, skipped' = skipped,
             boundary' = boundary, phase' = phase \/ (phase = "parsing" /\ phase' # "parsing")
      PROVE  CountInv'
  <2>1. /\ Positions' = Positions
        /\ \A i, j : SeenBetween(i, j)' = SeenBetween(i, j)
        /\ \A i : IsEnd(i)' = IsEnd(i)
    BY <1>4 DEF Positions, SeenBetween, IsEnd
  <2>2. /\ Seen' = Seen /\ Ends' = Ends
        /\ \A i, j : IsBatch(i, j)' = IsBatch(i, j)
        /\ \A i : InCleanBatch(i)' = InCleanBatch(i)
    BY <1>4, <2>1 DEF Seen, Ends, IsBatch, InCleanBatch
  <2>3. Since(Ends)' = Since(Ends) /\ \A i, j : EventsOf(i, j)' = EventsOf(i, j)
    BY <2>2 DEF Since, EventsOf
  <2>4. phase' # "raised" => phase # "raised"
    BY <1>4
  <2>5. EventsAddUp'
    BY <1>4, <2>2, <2>3, <2>4 DEF CountInv, EventsAddUp
  <2> QED
    BY <1>4, <2>2, <2>5 DEF CountInv
<1>5. ASSUME NEW typ \in {"e1000", "virtio"}, Output(typ)
      PROVE  CountInv'
  BY <1>4, <1>5 DEF Output, parsers, results
<1>6. ASSUME UNCHANGED vars
      PROVE  CountInv'
  BY <1>4, <1>6 DEF vars, parsers, results
<1> QED
  BY <1>1, <1>2, <1>3, <1>5, <1>6 DEF Next

(* For any trace, events_per_batch has for each closed batch the number of *)
(* its events, disturbing ones and the end included, and none for another; *)
(* and every end of a batch has kept it or skipped it.                     *)
THEOREM EventsCounted == Spec => []EventsAddUp
<1>1. Init => CountInv
  <2> SUFFICES ASSUME Init
               PROVE  CountInv
    OBVIOUS
  <2>1. trace = <<>> /\ perBatch = <<>> /\ eventNum = 0 /\ skipped = 0 /\ boundary = 0
    BY DEF Init
  <2>2. Positions = {}
    BY <2>1 DEF Positions
  <2>3. Ends = {} /\ Since(Ends) = {} /\ {e \in Ends : InCleanBatch(e)} = {}
    BY <2>2 DEF Ends, Since, Seen
  <2> QED
    BY <2>1, <2>3, FS_EmptySet DEF CountInv, EventsAddUp
<1>2. Spec => []CountInv
  BY <1>1, NextCountInv, Invariance, PTL DEF Spec
<1>3. CountInv => EventsAddUp
  BY DEF CountInv
<1> QED
  BY <1>2, <1>3, PTL
=============================================================================
