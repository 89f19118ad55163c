----------------------------- MODULE TraceMerge -----------------------------
(***************************************************************************)
(* kernel_traces/trace_parser.py, class Traces, and the functions of       *)
(* kernel_traces/latency_parser.py that exits_stats calls.                 *)
(*                                                                         *)
(* Host and guest record events on clocks of their own.  The host's trace  *)
(* also holds the TSC offset KVM gave the guest, an unsigned number, from  *)
(* which the parser brings both on one time line.  recorded is what really *)
(* happened, in order; the parser sees the time stamps.                    *)
(*                                                                         *)
(* The names of the state machine carry the class's name, for              *)
(* LatencyParserProofs is about this module and about TestTimes.           *)
(***************************************************************************)
EXTENDS Integers, Sequences, FiniteSets, FiniteSetsExt

CONSTANTS
    HalfRange,      \* half the range of a TSC and of its offset (2^63 in the code)
    GuestStart,     \* what the guest's clock may start at
    HalfSecond,     \* host clock ticks in half a second
    Pause,          \* ticks from the begin marker to the first event of the test
    MaxBoots,       \* bound: how often the guest boots or resets before the test
    MaxEvents       \* bound: the length of recorded

ASSUME TracesAssumption ==
    /\ HalfRange \in Nat \ {0} /\ HalfSecond \in Nat \ {0} /\ {MaxBoots, MaxEvents} \subseteq Nat
    /\ GuestStart \subseteq 0 .. HalfRange - 1 /\ Pause \subseteq Nat \ {0}

TscRange == 2 * HalfRange

VARIABLES
    tsc,            \* the host's clock
    offset,         \* the TSC offset of the guest, as KVM writes it
    vcpu,           \* "off" before the guest has a clock, else who executes
    awaiting,       \* netperf has sent a request and no answer has come
    recorded        \* every recorded event, with its real time

tracesVars == <<tsc, offset, vcpu, awaiting, recorded>>

Exits == {"IO", "HLT"}
Notes == {<<"kvm_mmio", "KICK">>, <<"kvm_msr", "EOI">>}
NoNote == ""

TraceEvent ==
    [source : {"h", "g"}, event : {"kvm_write_tsc_offset", "tracing_mark_write", "kvm_exit",
                                   "kvm_mmio", "kvm_msr", "kvm_entry",
                                   "sys_sendto", "sys_recvfrom"},
     arg : Exits \cup {"KICK", "EOI", "netperf", "sshd", NoNote}, raw : 0 .. TscRange - 1,
     note : {NoNote}, timestamp : Nat, at : Nat]

TracesInit ==
    /\ tsc = 0
    /\ offset = 0
    /\ vcpu = "off"
    /\ awaiting = FALSE
    /\ recorded = <<>>

-----------------------------------------------------------------------------
Is(e, event) == e.event = event
Marks(s) == {i \in DOMAIN s : s[i].event = "tracing_mark_write"}
Testing == Cardinality(Marks(recorded)) = 1

Recorded(source, event, arg, ticks, newOffset) ==
    /\ Len(recorded) < MaxEvents
    /\ Cardinality(Marks(recorded)) < 2
    /\ tsc + ticks < HalfRange         \* bound: for 2^63 ticks no host is up
    /\ tsc' = tsc + ticks
    /\ offset' = newOffset
    /\ recorded' = Append(recorded, [source |-> source, event |-> event, arg |-> arg, raw |-> newOffset,
                           note |-> NoNote,
                           timestamp |-> IF source = "h" THEN tsc'
                                         ELSE (tsc' + newOffset) % TscRange,
                           at |-> tsc'])

(***************************************************************************)
(* The guest boots or resets: KVM sets its clock.  What the vCPU does      *)
(* before the test is left out; guest_traces begins after the last boot.   *)
(***************************************************************************)
Reset(start) ==
    /\ Marks(recorded) = {}
    /\ Len(recorded) < MaxBoots
    /\ Recorded("h", "kvm_write_tsc_offset", NoNote, 1, (start - tsc - 1) % TscRange)
    /\ vcpu' = "guest"
    /\ awaiting' = FALSE

Mark(ticks) ==
    /\ vcpu # "off"
    /\ Recorded("h", "tracing_mark_write", NoNote, ticks, offset)
    /\ UNCHANGED <<vcpu, awaiting>>

KvmExit(r, ticks) ==
    /\ Testing
    /\ vcpu = "guest"
    /\ Recorded("h", "kvm_exit", r, ticks, offset)
    /\ vcpu' = "host"
    /\ UNCHANGED awaiting

Emulate(note) ==
    /\ vcpu = "host"
    /\ recorded[Len(recorded)].event = "kvm_exit" /\ recorded[Len(recorded)].arg = "IO"
    /\ Recorded("h", note[1], note[2], 1, offset)
    /\ UNCHANGED <<vcpu, awaiting>>

KvmEntry(ticks) ==
    /\ vcpu = "host"
    /\ Recorded("h", "kvm_entry", NoNote, ticks, offset)
    /\ vcpu' = "guest"
    /\ UNCHANGED awaiting

(* netperf sends and waits for the answer; another process does as it likes. *)
GuestCall(event, proc, ticks) ==
    /\ Testing
    /\ vcpu = "guest"
    /\ proc = "netperf" => awaiting = (event = "sys_recvfrom")
    /\ Recorded("g", event, proc, ticks, offset)
    /\ awaiting' = IF proc = "netperf" THEN event = "sys_sendto" ELSE awaiting
    /\ UNCHANGED vcpu

(* A pause is possible at the beginning of the test only. *)
Ticks ==
    IF recorded # <<>> /\ Is(recorded[Len(recorded)], "tracing_mark_write") THEN Pause ELSE {1}

TracesNext ==
    \/ \E start \in GuestStart : Reset(start)
    \/ \E note \in Notes : Emulate(note)
    \/ \E ticks \in Ticks :
          \/ Mark(ticks)
          \/ \E r \in Exits : KvmExit(r, ticks)
          \/ KvmEntry(ticks)
          \/ \E event \in {"sys_sendto", "sys_recvfrom"}, proc \in {"netperf", "sshd"} :
                GuestCall(event, proc, ticks)

TracesSpec == TracesInit /\ [][TracesNext]_tracesVars

-----------------------------------------------------------------------------
(* The k-th member of a set of positions; s at the positions of a set, in order. *)
Kth(S, k)    == CHOOSE i \in S : Cardinality({j \in S : j <= i}) = k
Chosen(s, S) == [k \in 1 .. Cardinality(S) |-> s[Kth(S, k)]]

(* TraceFile.parse of both files. *)
Of(source)  == {i \in DOMAIN recorded : recorded[i].source = source}
HostEvents  == Chosen(recorded, Of("h"))
GuestEvents == Chosen(recorded, Of("g"))

(***************************************************************************)
(* parse_tsc: struct.unpack("q", struct.pack("Q", raw)) of the last        *)
(* kvm_write_tsc_offset.                                                   *)
(***************************************************************************)
Signed(raw)     == IF raw < HalfRange THEN raw ELSE raw - TscRange
Offsets(events) == {i \in DOMAIN events : Is(events[i], "kvm_write_tsc_offset")}
TscOffsetFirst  ==                              \* mutant: the first one wins
    LET events == HostEvents IN Signed(events[Min(Offsets(events))].raw)
TscOffset == LET events == HostEvents IN Signed(events[Max(Offsets(events))].raw)

(* update_guest_tsc *)
OnHostClock(events) ==
    LET tscOffset == TscOffset
    IN  [i \in DOMAIN events |-> [events[i] EXCEPT !.timestamp = @ - tscOffset]]

(* merge: a stable sort by time stamp. *)
StableSort(s) ==
    LET place == [i \in DOMAIN s |-> 1 + Cardinality({j \in DOMAIN s :
                     \/ s[j].timestamp < s[i].timestamp
                     \/ s[j].timestamp = s[i].timestamp /\ j < i})]
    IN  [k \in DOMAIN s |-> s[CHOOSE i \in DOMAIN s : place[i] = k]]
Merged == StableSort(OnHostClock(GuestEvents) \o HostEvents)

(***************************************************************************)
(* get_test_events: from the first to the last event that is strictly      *)
(* within the window.                                                      *)
(***************************************************************************)
InWindow(s, i) ==
    LET start == s[Min(Marks(s))].timestamp
        end   == s[Max(Marks(s))].timestamp
    IN  start + 3 * HalfSecond < s[i].timestamp /\ s[i].timestamp < end - HalfSecond

TestEvents ==
    LET merged == Merged
        inside == {i \in DOMAIN merged : InWindow(merged, i)}
    IN  SubSeq(merged, Min(inside), Max(inside))

(* The test is over; without an event in the window the code raises. *)
Parsed ==
    /\ Cardinality(Marks(recorded)) = 2
    /\ LET merged == Merged IN \E i \in DOMAIN merged : InWindow(merged, i)

TracesTypeOK ==
    /\ tsc \in Nat
    /\ offset \in 0 .. TscRange - 1
    /\ vcpu \in {"off", "guest", "host"}
    /\ awaiting \in BOOLEAN
    /\ recorded \in Seq(TraceEvent)
    /\ \A i \in DOMAIN recorded : recorded[i].at <= tsc /\ recorded[i].timestamp < TscRange

-----------------------------------------------------------------------------
(***************************************************************************)
(* exit_time: as it walks the events it also leaves the MMIO or MSR event  *)
(* an exit leads to as its note.  s.last is the position of last_exit.     *)
(***************************************************************************)
Unset == 0
ExitTimeStep(s, i) ==
    LET e == s.events[i]
    IN  IF Is(e, "kvm_exit") THEN [s EXCEPT !.last = i]
        ELSE IF s.last = Unset THEN s
        ELSE IF e.event \in {"kvm_mmio", "kvm_msr"} THEN [s EXCEPT !.events[s.last].note = e.arg]
        ELSE IF Is(e, "kvm_entry")
             THEN [events |-> s.events, last |-> Unset,
                   times |-> Append(s.times, e.timestamp - s.events[s.last].timestamp)]
        ELSE s
ExitTimes(events) ==
    LET state[i \in 0 .. Len(events)] ==
            IF i = 0 THEN [events |-> events, last |-> Unset, times |-> <<>>]
            ELSE ExitTimeStep(state[i - 1], i)
    IN  state[Len(events)]

(* latency_send_recv *)
SendRecvAnyone(s, e) ==                         \* mutant: whoever receives
    IF e.arg = "netperf" /\ Is(e, "sys_sendto") THEN [s EXCEPT !.last = e.timestamp]
    ELSE IF ~Is(e, "sys_recvfrom") \/ s.last = Unset THEN s
    ELSE [last |-> Unset, times |-> Append(s.times, e.timestamp - s.last)]
SendRecvStep(s, e) ==
    IF e.arg # "netperf" THEN s
    ELSE IF Is(e, "sys_sendto") THEN [s EXCEPT !.last = e.timestamp]
    ELSE IF s.last = Unset THEN s
    ELSE [last |-> Unset, times |-> Append(s.times, e.timestamp - s.last)]
LatencySendRecv(events) ==
    LET state[i \in 0 .. Len(events)] ==
            IF i = 0 THEN [last |-> Unset, times |-> <<>>]
            ELSE SendRecvStep(state[i - 1], events[i])
    IN  state[Len(events)].times

(* throughput_batch_time_kick *)
EndsBatch(e) == Is(e, "kvm_exit") /\ (e.arg = "HLT" \/ e.note = "KICK")
KickStep(s, e) ==
    IF ~EndsBatch(e) THEN s
    ELSE [last  |-> e.timestamp,
          times |-> IF s.last = Unset THEN s.times ELSE Append(s.times, e.timestamp - s.last)]
BatchTimeKick(events) ==
    LET state[i \in 0 .. Len(events)] ==
            IF i = 0 THEN [last |-> Unset, times |-> <<>>]
            ELSE KickStep(state[i - 1], events[i])
    IN  state[Len(events)].times

(* exits_stats: the kicks are found by the notes exit_time has left. *)
Kicks == BatchTimeKick(ExitTimes(TestEvents).events)

-----------------------------------------------------------------------------
(* What happened, by real time. *)
Begin == recorded[Min(Marks(recorded))].at
End   == recorded[Max(Marks(recorded))].at
InTest ==
    LET from == Begin + 3 * HalfSecond
        to   == End - HalfSecond
    IN  Chosen(recorded, {i \in DOMAIN recorded : from < recorded[i].at /\ recorded[i].at < to})
RealTimes(events) == [i \in DOMAIN events |-> events[i].at]

(* From each member of S but the last, the time to the next one. *)
Lasting(s, S) ==
    [i \in {i \in S : \E j \in S : i < j} |-> s[Min({j \in S : i < j})].at - s[i].at]
PairTimes(s, S, event) ==
    LET lasting == Lasting(s, S)
    IN  Chosen(lasting, {i \in DOMAIN lasting : Is(s[i], event)})

(***************************************************************************)
(* The merged trace lists the events of guest and host in the order in     *)
(* which they happened and dates them on the host's clock, however often   *)
(* the guest was reset before the test and whatever its clock shows; and   *)
(* get_test_events returns of them what happened from 1.5 s after the      *)
(* start of netperf to 0.5 s before its end, and nothing else.             *)
(***************************************************************************)
TestAsItHappened ==
    Parsed =>
        LET merged == Merged
        IN  /\ RealTimes(merged) = RealTimes(recorded)
            /\ \A i \in DOMAIN merged : merged[i].timestamp = merged[i].at
            /\ RealTimes(TestEvents) = RealTimes(InTest)

(***************************************************************************)
(* Each transaction lasts from a request of netperf to its own answer, and *)
(* each exit from its event to its own entry, both within the window.      *)
(* Batches are cut at every exit by which the guest kicks the device or    *)
(* halts, although what an exit was for is only told by the event after    *)
(* it.                                                                     *)
(***************************************************************************)
CutsBatch(s, i) ==
    /\ Is(s[i], "kvm_exit")
    /\ \/ s[i].arg = "HLT"
       \/ i < Len(s) /\ s[i + 1].arg = "KICK"
PairsBelongTogether ==
    Parsed =>
        LET s       == InTest
            netperf == {i \in DOMAIN s : s[i].arg = "netperf"}
            exits   == {i \in DOMAIN s : s[i].event \in {"kvm_exit", "kvm_entry"}}
            batches == Lasting(s, {i \in DOMAIN s : CutsBatch(s, i)})
        IN  /\ LatencySendRecv(TestEvents) = PairTimes(s, netperf, "sys_sendto")
            /\ ExitTimes(TestEvents).times = PairTimes(s, exits, "kvm_exit")
            /\ Kicks = Chosen(batches, DOMAIN batches)

(***************************************************************************)
(* The comments of get_test_events: "0.5 sec" at the start of the window   *)
(* and "1.5 sec" at its end.  The code adds and subtracts them the other   *)
(* way round.                                                              *)
(***************************************************************************)
WindowAsCommented ==
    Parsed =>
        LET from == Begin + HalfSecond
            to   == End - 3 * HalfSecond
        IN  RealTimes(TestEvents) = RealTimes(Chosen(recorded,
                {i \in DOMAIN recorded : from < recorded[i].at /\ recorded[i].at < to}))
=============================================================================
