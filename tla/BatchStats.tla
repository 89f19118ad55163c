----------------------------- MODULE BatchStats -----------------------------
(***************************************************************************)
(* kernel_traces/latency_parser2.py: MainStats.parse_events runs over the  *)
(* merged trace once and feeds every event to all parsers.  A parser looks *)
(* for intervals (pairs or series of events) and keeps them apart until    *)
(* the batch they end in is closed by the next kick of the guest; a batch  *)
(* with an event that disturbs the measurement is thrown away.             *)
(*                                                                         *)
(* An event is its kind: what the parsers compare its name, source and     *)
(* info with.  An interval is the sequence of the positions of its events  *)
(* in the trace, so that durations are left out.  The note that            *)
(* translate_events leaves on an exit is part of its kind, "exit_kick".    *)
(***************************************************************************)
EXTENDS Naturals, Sequences, FiniteSets, Functions

CONSTANTS
    Alphabets,      \* sets of kinds of events; a trace is made of one of them
    MaxTrace        \* bound: events in the trace

-----------------------------------------------------------------------------
(* Kinds of events.  "elsewhere" is an event of a host CPU that filter_    *)
(* events drops, and "writev_other" writes to another file than the tap.   *)

Exits    == {"exit", "exit_hlt", "exit_kick", "exit_interrupt"}
Switches == {"switch_to_netserver", "switch_from_netserver", "switch"}

HostKinds == Exits \cup Switches \cup
    {"kvm_entry", "net_exit_before", "net_exit_after", "sys_fdatasync", "host_irq",
     "sys_writev", "sys_writev_other", "sys_writev_end",
     "sys_read", "sys_read_other", "sys_read_end", "ioctl_interrupt", "ioctl_other",
     "import_iovec", "import_iovec_end", "elsewhere"}

GuestKinds ==
    {"local_timer", "sys_sendto", "sys_recvfrom", "netperf_in", "netperf_out",
     "net_dev_start_xmit", "net_dev_xmit", "irq_handler_entry", "irq_handler_exit",
     "net_dev_recv_start", "napi_receive_start", "napi_receive_end",
     "net_dev_recv_end", "tcp_ack", "tcp_ack_end"}

Kinds == HostKinds \cup GuestKinds

ASSUME BatchAssumption ==
    /\ \A a \in Alphabets : a \subseteq Kinds
    /\ MaxTrace \in Nat

Filtered(k) == k # "elsewhere"
Disturbs(k) == k \in {"sys_fdatasync", "exit_interrupt", "local_timer", "host_irq"}

-----------------------------------------------------------------------------
(* The parsers.  A pair parser remembers the last opening event, counts it *)
(* with the next closing event and forgets it.                             *)

Opens ==
    [guest_sendrecv_netperf  |-> {"sys_sendto"},
     host_netserver          |-> {"switch_to_netserver"},
     guest_netperf           |-> {"netperf_in"},
     host_sched_overhead     |-> Switches,
     guest_xmit              |-> {"net_dev_start_xmit"},
     host_writev             |-> {"sys_writev", "sys_writev_other"},
     host_read_packets       |-> {"sys_read"},
     guest_interrupt_handler |-> {"irq_handler_entry"},
     host_ioctl_interrupt    |-> {"ioctl_interrupt"},
     exits                   |-> Exits,
     HW_exit                 |-> {"net_exit_before"}]

Pairs == DOMAIN Opens

Closes ==
    [guest_sendrecv_netperf  |-> {"sys_recvfrom"},
     host_netserver          |-> {"switch_from_netserver"},
     guest_netperf           |-> {"netperf_out"},
     host_sched_overhead     |-> HostKinds \ Switches,
     guest_xmit              |-> {"net_dev_xmit"},
     host_writev             |-> {"sys_writev_end"},
     host_read_packets       |-> {"sys_read_end"},
     guest_interrupt_handler |-> {"irq_handler_exit"},
     host_ioctl_interrupt    |-> {"ioctl_other"},
     exits                   |-> {"kvm_entry"},
     HW_exit                 |-> Exits]

(* Events that only make the parser forget.                                *)
Drops == [p \in Pairs |-> IF p = "host_read_packets" THEN {"sys_read_other"} ELSE {}]

(* A gap parser counts the time from the end of one call on the tap to the *)
(* start of the next, if no other event of the host comes between.         *)
GapStart == [host_delta_read |-> "sys_read",     host_delta_writev |-> "sys_writev"]
GapEnd   == [host_delta_read |-> "sys_read_end", host_delta_writev |-> "sys_writev_end"]
Gaps     == DOMAIN GapStart

(* A series parser counts the time between entry and exit of a function    *)
(* without the calls it makes, given by the events in Inner.               *)
FuncStart == [guest_recv_func |-> "net_dev_recv_start", guest_tcp_ack |-> "tcp_ack"]
FuncEnd   == [guest_recv_func |-> "net_dev_recv_end",   guest_tcp_ack |-> "tcp_ack_end"]
Inner     == [guest_recv_func |-> {"napi_receive_start", "napi_receive_end"},
              guest_tcp_ack   |-> {}]
Funcs     == DOMAIN FuncStart

Stats == Pairs \cup Gaps \cup Funcs \cup {"HW_entry", "writev_import_iovec", "total_batch_time"}

-----------------------------------------------------------------------------
VARIABLES
    alphabet,       \* the kinds of events of this trace
    trace,          \* the events parse_events has looked at
    phase,          \* "parsing", "raised", or how output_stats and the CSV ended
    last,           \* _last_event of the pair parsers, 0 for None
    gap,            \* _last_read_start and _last_read_end of the gap parsers
    series,         \* _last_event of the series parsers, a list
    hw,             \* _last_entry and _last_exit of HWExitStats
    deep,           \* _last_writev and _last_import_iovec of WritevDeep
    boundary,       \* _last_event of BatchStats: the last end of a batch
    ignoreHalt,     \* _ignore_halt
    eventNum,       \* _current_event_num
    invalid,        \* is_batch_invalid
    skipped,        \* skiped_batches
    batch,          \* _last_batch_events of every Stats
    kept,           \* _events of every Stats
    perBatch        \* _delta_time of the counter events_per_batch

parsers == <<last, gap, series, hw, deep, boundary, ignoreHalt, eventNum>>
results == <<invalid, skipped, batch, kept, perBatch>>
vars    == <<alphabet, trace, phase, parsers, results>>

Interval == Seq(Nat)

TypeOK ==
    /\ alphabet \in Alphabets
    /\ trace \in Seq(alphabet)
    /\ Len(trace) <= MaxTrace
    /\ phase \in {"parsing", "raised", "e1000", "virtio", "no_csv"}
    /\ last \in [Pairs -> 0 .. Len(trace)]
    /\ gap \in [Gaps -> [start : 0 .. Len(trace), end : 0 .. Len(trace)]]
    /\ series \in [Funcs -> Interval]
    /\ hw \in [entry : 0 .. Len(trace), exit : 0 .. Len(trace)]
    /\ deep \in [writev : 0 .. Len(trace), iovec : 0 .. Len(trace)]
    /\ boundary \in 0 .. Len(trace)
    /\ ignoreHalt \in BOOLEAN
    /\ eventNum \in 0 .. Len(trace)
    /\ invalid \in BOOLEAN
    /\ skipped \in 0 .. Len(trace)
    /\ batch \in [Stats -> Seq(Interval)]
    /\ kept \in [Stats -> Seq(Interval)]
    /\ perBatch \in Seq(1 .. Len(trace))

Init ==
    /\ alphabet \in Alphabets
    /\ trace = <<>>
    /\ phase = "parsing"
    /\ last = [p \in Pairs |-> 0]
    /\ gap = [p \in Gaps |-> [start |-> 0, end |-> 0]]
    /\ series = [p \in Funcs |-> <<>>]
    /\ hw = [entry |-> 0, exit |-> 0]
    /\ deep = [writev |-> 0, iovec |-> 0]
    /\ boundary = 0
    /\ ignoreHalt = FALSE
    /\ eventNum = 0
    /\ invalid = FALSE
    /\ skipped = 0
    /\ batch = [s \in Stats |-> <<>>]
    /\ kept = [s \in Stats |-> <<>>]
    /\ perBatch = <<>>

-----------------------------------------------------------------------------
(* What handle_event of each parser does with the next event, of kind k    *)
(* and at position i: its state after it, and the intervals it counts.     *)

Here == Len(trace) + 1

(* Mutant: the opening event is not forgotten when it has been counted.    *)
PairNextKept(p, k) == IF k \in Opens[p] THEN Here ELSE last[p]

PairNext(p, k) ==
    IF k \in Opens[p] THEN Here
    ELSE IF k \in Closes[p] \cup Drops[p] THEN 0 ELSE last[p]

PairCount(p, k) ==
    IF k \in Closes[p] /\ k \notin Opens[p] /\ last[p] # 0 THEN <<last[p], Here>> ELSE <<>>

(* Mutant: events other than the calls do not clear what is remembered.    *)
GapNextAnyway(p, k) ==
    IF k = GapStart[p] THEN [start |-> Here, end |-> 0]
    ELSE IF k = GapEnd[p] /\ gap[p].start # 0 THEN [gap[p] EXCEPT !.end = Here] ELSE gap[p]

GapNext(p, k) ==
    IF k \in GuestKinds THEN gap[p]
    ELSE IF k = GapStart[p] THEN [start |-> Here, end |-> 0]
    ELSE IF k # GapEnd[p] THEN [start |-> 0, end |-> 0]
    ELSE IF gap[p].start # 0 THEN [gap[p] EXCEPT !.end = Here] ELSE gap[p]

GapCount(p, k) ==
    IF k = GapStart[p] /\ gap[p].start # 0 /\ gap[p].end # 0 THEN <<gap[p].end, Here>> ELSE <<>>

SeriesNext(p, k) ==
    IF k = FuncStart[p] THEN <<Here>>
    ELSE IF k \in Inner[p] THEN Append(series[p], Here)
    ELSE IF k = FuncEnd[p] THEN <<>> ELSE series[p]

(* count_event_series: a list of odd length began before the trace did.    *)
SeriesCount(p, k) ==
    IF k = FuncEnd[p] /\ Len(series[p]) % 2 = 1 THEN Append(series[p], Here) ELSE <<>>

HwNext(k) ==
    IF k \in Exits THEN [hw EXCEPT !.exit = Here]
    ELSE IF k = "kvm_entry" THEN [hw EXCEPT !.entry = Here]
    ELSE IF k = "net_exit_after" THEN [entry |-> 0, exit |-> 0] ELSE hw

HwCount(k) ==
    IF k = "net_exit_after" /\ hw.entry # 0 /\ hw.exit # 0 THEN <<hw.entry, Here>> ELSE <<>>

(* Mutant: the end of a writev does not end what is counted inside it.     *)
DeepNextOpen(k) ==
    IF k \in Opens["host_writev"] THEN [deep EXCEPT !.writev = Here]
    ELSE IF k = "import_iovec" /\ deep.writev # 0 THEN [deep EXCEPT !.iovec = Here] ELSE deep

DeepNext(k) ==
    IF k \in Opens["host_writev"] THEN [deep EXCEPT !.writev = Here]
    ELSE IF k = "sys_writev_end" THEN [deep EXCEPT !.writev = 0]
    ELSE IF k = "import_iovec" /\ deep.writev # 0 THEN [deep EXCEPT !.iovec = Here] ELSE deep

DeepCount(k) ==
    IF k = "import_iovec_end" /\ deep.writev # 0 THEN <<deep.iovec, Here>> ELSE <<>>

(* Mutant: a halt ends a batch although the guest kicks.                   *)
EndsBatchOnHalt(k) == k \in {"exit_kick", "exit_hlt"}

(* BatchStats.handle_event: a halt ends a batch until the first kick.      *)
EndsBatch(k) == k = "exit_kick" \/ (k = "exit_hlt" /\ ~ignoreHalt)

BatchCount(k) == IF EndsBatch(k) /\ boundary # 0 THEN <<boundary, Here>> ELSE <<>>

Counted(s, k) ==
    IF s \in Pairs THEN PairCount(s, k)
    ELSE IF s \in Gaps THEN GapCount(s, k)
    ELSE IF s \in Funcs THEN SeriesCount(s, k)
    ELSE IF s = "HW_entry" THEN HwCount(k)
    ELSE IF s = "writev_import_iovec" THEN DeepCount(k) ELSE BatchCount(k)

(* WritevDeep counts from _last_import_iovec without looking at it.        *)
HandlerRaises(k) == k = "import_iovec_end" /\ deep.writev # 0 /\ deep.iovec = 0

(* Mutant: the event that ends a batch is counted for no batch.            *)
HandleEndUncounted(k) ==
    /\ last' = [p \in Pairs |-> PairNext(p, k)]
    /\ gap' = [p \in Gaps |-> GapNext(p, k)]
    /\ series' = [p \in Funcs |-> SeriesNext(p, k)]
    /\ hw' = HwNext(k)
    /\ deep' = DeepNext(k)
    /\ boundary' = IF EndsBatch(k) THEN Here ELSE boundary
    /\ ignoreHalt' = (ignoreHalt \/ k = "exit_kick")
    /\ eventNum' = IF EndsBatch(k) THEN 0 ELSE eventNum + 1
    /\ perBatch' = IF EndsBatch(k) /\ boundary # 0 THEN Append(perBatch, eventNum) ELSE perBatch

(* The handlers of all parsers, in the order of parse_events; their state  *)
(* is disjoint.  StatsCounter appends past the batch.                      *)
Handle(k) ==
    /\ last' = [p \in Pairs |-> PairNext(p, k)]
    /\ gap' = [p \in Gaps |-> GapNext(p, k)]
    /\ series' = [p \in Funcs |-> SeriesNext(p, k)]
    /\ hw' = HwNext(k)
    /\ deep' = DeepNext(k)
    /\ boundary' = IF EndsBatch(k) THEN Here ELSE boundary
    /\ ignoreHalt' = (ignoreHalt \/ k = "exit_kick")
    /\ eventNum' = IF EndsBatch(k) THEN 0 ELSE eventNum + 1
    /\ perBatch' = IF EndsBatch(k) /\ boundary # 0 THEN Append(perBatch, eventNum + 1)
                   ELSE perBatch

BatchWith(k) ==
    [s \in Stats |-> IF Counted(s, k) = <<>> THEN batch[s] ELSE Append(batch[s], Counted(s, k))]

-----------------------------------------------------------------------------
(* The loop of parse_events, one event at a time.                          *)

NextEvent(k) ==
    /\ phase = "parsing"
    /\ Len(trace) < MaxTrace
    /\ trace' = Append(trace, k)
    /\ UNCHANGED alphabet

Skip(k) ==
    /\ NextEvent(k)
    /\ ~Filtered(k)
    /\ UNCHANGED <<phase, parsers, results>>

(* Mutant: only the last event before the end can make a batch invalid.    *)
InBatchForgets(k) ==
    /\ NextEvent(k)
    /\ Filtered(k) /\ ~HandlerRaises(k) /\ ~EndsBatch(k)
    /\ Handle(k)
    /\ invalid' = Disturbs(k)
    /\ batch' = BatchWith(k)
    /\ UNCHANGED <<phase, skipped, kept>>

InBatch(k) ==
    /\ NextEvent(k)
    /\ Filtered(k) /\ ~HandlerRaises(k) /\ ~EndsBatch(k)
    /\ Handle(k)
    /\ invalid' = (invalid \/ Disturbs(k))
    /\ batch' = BatchWith(k)
    /\ UNCHANGED <<phase, skipped, kept>>

FinishBatch(k) ==
    /\ NextEvent(k)
    /\ EndsBatch(k) /\ ~invalid /\ ~Disturbs(k)
    /\ Handle(k)
    /\ kept' = [s \in Stats |-> kept[s] \o BatchWith(k)[s]]
    /\ batch' = [s \in Stats |-> <<>>]
    /\ UNCHANGED <<phase, invalid, skipped>>

(* Mutant: what a skipped batch counted is left to the next one.           *)
ResetBatchKept(k) ==
    /\ NextEvent(k)
    /\ EndsBatch(k) /\ (invalid \/ Disturbs(k))
    /\ Handle(k)
    /\ batch' = BatchWith(k)
    /\ skipped' = skipped + 1
    /\ invalid' = FALSE
    /\ UNCHANGED <<phase, kept>>

ResetBatch(k) ==
    /\ NextEvent(k)
    /\ EndsBatch(k) /\ (invalid \/ Disturbs(k))
    /\ Handle(k)
    /\ batch' = [s \in Stats |-> <<>>]
    /\ skipped' = skipped + 1
    /\ invalid' = FALSE
    /\ UNCHANGED <<phase, kept>>

(* AttributeError in the middle of the handlers: nothing is read any more. *)
Raise(k) ==
    /\ NextEvent(k)
    /\ HandlerRaises(k)
    /\ phase' = "raised"
    /\ UNCHANGED <<parsers, results>>

(* The trace is over: output_stats, then the CSV file of the VM's device.  *)
(* Its rows divide by the number of batches and of packets.                *)
Divides(typ) ==
    /\ kept["total_batch_time"] # <<>>
    /\ kept["guest_xmit"] # <<>>
    /\ typ = "e1000" => kept["guest_recv_func"] # <<>>

Output(typ) ==
    /\ phase = "parsing"
    /\ phase' = IF Divides(typ) THEN typ ELSE "no_csv"
    /\ UNCHANGED <<alphabet, trace, parsers, results>>

Next ==
    \/ \E k \in alphabet : Skip(k) \/ InBatch(k) \/ FinishBatch(k) \/ ResetBatch(k) \/ Raise(k)
    \/ \E typ \in {"e1000", "virtio"} : Output(typ)

Spec == Init /\ [][Next]_vars

-----------------------------------------------------------------------------
(* What the statistics should hold, read off the trace instead of the      *)
(* parsers' state.                                                         *)

Positions == 1 .. Len(trace)

SeenBetween(i, j) == {n \in i + 1 .. j - 1 : Filtered(trace[n])}

IsEnd(i) ==
    \/ trace[i] = "exit_kick"
    \/ trace[i] = "exit_hlt" /\ \A n \in 1 .. i - 1 : trace[n] # "exit_kick"

(* The batch that i belongs to was closed and nothing disturbed it.        *)
InCleanBatch(i) ==
    \E b \in i .. Len(trace) :
        /\ IsEnd(b)
        /\ \A n \in i .. b - 1 : ~IsEnd(n)
        /\ \A d \in 1 .. b : Disturbs(trace[d]) => \E n \in d .. b - 1 : IsEnd(n)

IsPair(p, i, j) ==
    /\ trace[i] \in Opens[p] /\ trace[j] \in Closes[p] /\ Filtered(trace[j])
    /\ \A n \in SeenBetween(i, j) : trace[n] \notin Opens[p] \cup Closes[p] \cup Drops[p]

IsBatch(i, j) == IsEnd(i) /\ IsEnd(j) /\ \A n \in SeenBetween(i, j) : ~IsEnd(n)

IsGap(p, i, j) ==
    /\ trace[i] = GapEnd[p] /\ trace[j] = GapStart[p]
    /\ \A n \in SeenBetween(i, j) : trace[n] \in GuestKinds
    /\ \E s \in 1 .. i : trace[s] = GapStart[p] /\
           \A n \in SeenBetween(s, i) : trace[n] \in GuestKinds \cup {GapEnd[p]}

IsEntry(i, j) ==
    /\ trace[i] = "kvm_entry" /\ trace[j] = "net_exit_after"
    /\ \A n \in SeenBetween(i, j) : trace[n] \notin {"kvm_entry", "net_exit_after"}
    /\ \E x \in 1 .. j : trace[x] \in Exits /\
           \A n \in SeenBetween(x, j) : trace[n] # "net_exit_after"

InWritev(i) ==
    \E w \in 1 .. i : trace[w] \in Opens["host_writev"] /\
        \A n \in SeenBetween(w, i) : trace[n] # "sys_writev_end"

(* An iovec import: from its own start in the same writev or, where that   *)
(* was not traced, from the last start within an earlier one, which the    *)
(* parser has not forgotten.                                               *)
IsOwnImport(i, j) ==
    /\ trace[i] = "import_iovec" /\ trace[j] = "import_iovec_end" /\ InWritev(j)
    /\ \A n \in SeenBetween(i, j) :
           trace[n] \notin Opens["host_writev"] \cup {"sys_writev_end", "import_iovec"}

IsStaleImport(i, j) ==
    /\ trace[i] = "import_iovec" /\ InWritev(i)
    /\ trace[j] = "import_iovec_end" /\ InWritev(j)
    /\ \E n \in SeenBetween(i, j) : trace[n] \in Opens["host_writev"] \cup {"sys_writev_end"}
    /\ \A n \in SeenBetween(i, j) : trace[n] = "import_iovec" => ~InWritev(n)

IsImport(i, j) == IsOwnImport(i, j) \/ IsStaleImport(i, j)

(* A call of a function that ends at j: its entry, where that was traced,  *)
(* the events of its inner calls, and its exit.                            *)
SinceMark(p, i, j) == \A n \in SeenBetween(i, j) : trace[n] \notin {FuncStart[p], FuncEnd[p]}
EntryOf(p, j) == {i \in 1 .. j - 1 : trace[i] = FuncStart[p] /\ SinceMark(p, i, j)}
InnerOf(p, j) == {i \in 1 .. j - 1 : trace[i] \in Inner[p] /\ SinceMark(p, i, j)}
Call(p, j)    == EntryOf(p, j) \cup InnerOf(p, j) \cup {j}

(* A whole call was traced from its entry, with both ends of every inner   *)
(* call.  A torn one lost its entry and starts in the middle of an inner   *)
(* call: the parser looks only at whether the list is even.                *)
WholeCall(p, j) == EntryOf(p, j) # {} /\ Cardinality(InnerOf(p, j)) % 2 = 0
TornCall(p, j)  == EntryOf(p, j) = {} /\ Cardinality(InnerOf(p, j)) % 2 = 1

Seen == {i \in Positions : Filtered(trace[i])}
Ends == {i \in Positions : IsEnd(i)}

(* The events of the batch from i to j, and those after all of E.          *)
EventsOf(i, j) == {n \in Seen : i < n /\ n <= j}
Since(E)       == {n \in Seen : \A e \in E : e < n}

Events(s) == {Range(x) : x \in Range(kept[s])}

IsInterval(s, i, j) ==
    CASE s \in Pairs               -> IsPair(s, i, j)
      [] s \in Gaps                -> IsGap(s, i, j)
      [] s = "HW_entry"            -> IsEntry(i, j)
      [] s = "writev_import_iovec" -> IsImport(i, j)
      [] s = "total_batch_time"    -> IsBatch(i, j)

(* The intervals of s, as sets of positions, that end in a clean batch.    *)
Clean(s) ==
    {{x[1], x[2]} : x \in {y \in Positions \X Positions :
        y[1] < y[2] /\ IsInterval(s, y[1], y[2]) /\ InCleanBatch(y[2])}}

-----------------------------------------------------------------------------
(* Properties.                                                             *)

(* Every statistic of pairs and of whole batches holds exactly the pairs   *)
(* of the trace that end in a batch nothing disturbed: none of a batch     *)
(* that was thrown away, none twice, and none is lost.                     *)
KeepsPairs ==
    \A s \in Pairs \cup {"total_batch_time"} :
        Events(s) = Clean(s) /\ Len(kept[s]) = Cardinality(Clean(s))

(* host_delta_read and host_delta_writev hold exactly the times between    *)
(* consecutive calls on the tap with nothing of the host in between.       *)
KeepsGaps == \A s \in Gaps : Events(s) = Clean(s)

(* The time in a guest function is kept for every whole call that ends in  *)
(* a clean batch, once for each exit.  The only other thing kept is what   *)
(* is left of a torn call: a call that lost its entry alone, or one end of *)
(* an inner call alone, adds nothing.                                      *)
KeepsSeries ==
    \A p \in Funcs :
        Events(p) = {Call(p, j) : j \in {n \in Positions :
            trace[n] = FuncEnd[p] /\ InCleanBatch(n) /\ (WholeCall(p, n) \/ TornCall(p, n))}}

(* The parsers that nest count the hardware entries after an exit and the  *)
(* imports of an iovec, those of clean batches and no others.  An import   *)
(* is measured from its own start, and from the start left of an earlier   *)
(* writev exactly when its own was not traced.                             *)
KeepsNested == \A s \in {"HW_entry", "writev_import_iovec"} : Events(s) = Clean(s)

(* events_per_batch lists for every batch but the open one how many events *)
(* it had, the disturbing ones and the end included: none is counted for   *)
(* two batches or for none.  A closed batch is either kept or skipped.     *)
EventsAddUp ==
    phase # "raised" =>
        /\ Len(perBatch) = IF Ends = {} THEN 0 ELSE Cardinality(Ends) - 1
        /\ \A i, j \in Ends : i < j /\ IsBatch(i, j) =>
               perBatch[Cardinality({e \in Ends : e <= i})] = Cardinality(EventsOf(i, j))
        /\ eventNum = Cardinality(Since(Ends))
        /\ Cardinality(Ends) = skipped + Cardinality({e \in Ends : InCleanBatch(e)})

(* A CSV file is written to its end only from a trace in which a whole     *)
(* clean batch follows another, with packets sent, and for e1000 received, *)
(* in clean batches.                                                       *)
CsvFromCleanBatches ==
    phase \in {"e1000", "virtio"} =>
        /\ Clean("total_batch_time") # {} /\ Clean("guest_xmit") # {}
        /\ phase = "e1000" =>
               \E j \in Positions : trace[j] = "net_dev_recv_end" /\ InCleanBatch(j)
=============================================================================
