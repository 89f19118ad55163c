------------------------------ MODULE TraceRun ------------------------------
(***************************************************************************)
(* traces/trace_performance.py: TracePerformance.run() and the ftrace of   *)
(* host and guest it drives through kernel_traces/kernel_trace.py.  stage  *)
(* names the statement executed next; the stages of the VM object (pc)     *)
(* nest in "setup", "run" and "teardown":                                  *)
(*                                                                         *)
(*   setup -> events -> buffer -> enable -> empty -> on          host      *)
(*   -> run -> guest -> gueston -> begin -> traced -> end                  *)
(*   -> hostoff -> guestoff -> untraced                          try       *)
(*   -> readguest -> readhost -> shrink -> maps -> teardown -> disable     *)
(*                                                               finally   *)
(*   -> merge -> stats -> idle                                             *)
(*                                                                         *)
(* One run() after the other, in one Python process (--batch) or several.  *)
(***************************************************************************)
EXTENDS QemuVM, Sequences

CONSTANTS
    MaxRecords,     \* bound: a guest resets its clock only in a buffer shorter than this
    MaxFaults       \* failures are counted up to this number

(* HostAfterRun tells no failure, one and two apart. *)
ASSUME TraceAssumption ==
    /\ MaxRecords \in Nat
    /\ MaxFaults \in Nat \ {0, 1}
    /\ Pid \cap {"begin", "end"} = {}

VARIABLES
    stage,          \* the statement run() executes next
    vm,             \* TracePerformance._vm
    raising,        \* an exception waits for the end of finally
    tracer,         \* which Trace objects exist, and _host_tracer._trace_on
    ftrace,         \* host: events enabled, tracing_on, big buffer, its content
    guestOn,        \* the QEMU whose guest records
    files,          \* the trace files in the directory
    outcome,        \* how the last run() ended, "none" after a boot
    faults          \* failures since the host was last known to be in order

traceVars == <<stage, vm, raising, tracer, ftrace, guestOn, files, outcome, faults>>
vars      == <<vmVars, traceVars>>

TryStages ==
    {"setup", "events", "buffer", "enable", "empty", "on", "run", "guest", "gueston",
     "begin", "traced", "end", "hostoff", "guestoff", "untraced"}
FinallyStages == {"readguest", "readhost", "shrink", "maps", "teardown", "disable"}

Record == Pid \cup {"begin", "end"}     \* kvm_write_tsc_offset of a QEMU, or a marker

TypeOK ==
    /\ VMTypeOK
    /\ stage \in TryStages \cup FinallyStages \cup {"merge", "stats", "idle"}
    /\ vm \in VM
    /\ raising \in BOOLEAN
    /\ tracer \in [host : BOOLEAN, guest : BOOLEAN, on : BOOLEAN]
    /\ ftrace \in [events : BOOLEAN, on : BOOLEAN, big : BOOLEAN, buf : Seq(Record)]
    /\ guestOn \in Pid \cup {NoPid}
    /\ files \in [guest : Pid \cup {NoPid}, host : Seq(Record), merged : BOOLEAN]
    /\ outcome \in {"none", "aborted", "finished"}
    /\ faults \in 0 .. MaxFaults
    /\ raising => stage \in FinallyStages

NoTracer   == [host |-> FALSE, guest |-> FALSE, on |-> FALSE]
BootFtrace == [events |-> FALSE, on |-> TRUE, big |-> FALSE, buf |-> <<>>]
NoFiles    == [guest |-> NoPid, host |-> <<>>, merged |-> FALSE]

Recording == ftrace.events /\ ftrace.on
OneMore   == IF faults < MaxFaults THEN faults + 1 ELSE faults

Init ==
    /\ HostBooted
    /\ FreshObjects
    /\ stage = "idle"
    /\ vm \in VM
    /\ raising = FALSE
    /\ tracer = NoTracer
    /\ ftrace = BootFtrace
    /\ guestOn = NoPid
    /\ files = NoFiles
    /\ outcome = "none"
    /\ faults = 0

At(from, to) == stage = from /\ stage' = to

(* runner: a new VM and a new TracePerformance; init_env empties the directory. *)
StartRun ==
    /\ At("idle", "setup")
    /\ vm' \in VM
    /\ pc' = [pc EXCEPT ![vm'] = "netserver"]
    /\ files' = NoFiles
    /\ faults' = IF taps = {} /\ ~Recording THEN 0 ELSE faults
    /\ UNCHANGED <<hostVars, tapDevice, pid, own, mon, raising, tracer, ftrace, guestOn, outcome>>

(* vm.setup(), then vm.run() once the host is traced. *)
SetupAndRun ==
    /\ \/ stage = "setup" /\ Setup(vm)
       \/ stage = "run" /\ Run(vm)
    /\ \/ pc'[vm] = "raised" /\ stage' = "readguest" /\ raising' = TRUE
       \/ pc'[vm] = "launch" /\ stage' = "events" /\ UNCHANGED raising
       \/ pc'[vm] = "test" /\ stage' = "guest" /\ UNCHANGED raising
       \/ pc'[vm] \notin {"raised", "launch", "test"} /\ UNCHANGED <<stage, raising>>
    /\ UNCHANGED <<vm, tracer, ftrace, guestOn, files, outcome, faults>>

-----------------------------------------------------------------------------
(* host_traces: commands for localRoot, one action each. *)
HostUnchanged == UNCHANGED <<vmVars, vm, raising, guestOn, files, outcome>>

(* Trace(...).setup(): from here on only this run decides what is recorded. *)
DisableEvents ==
    /\ At("events", "buffer")
    /\ ~tracer.host
    /\ tracer' = [tracer EXCEPT !.host = TRUE]
    /\ ftrace' = [ftrace EXCEPT !.events = FALSE]
    /\ faults' = 0
    /\ HostUnchanged

GrowBuffer ==
    /\ At("buffer", "enable")
    /\ ftrace' = [ftrace EXCEPT !.big = TRUE]
    /\ HostUnchanged /\ UNCHANGED <<tracer, faults>>

EnableEvents ==
    /\ At("enable", "empty")
    /\ ftrace' = [ftrace EXCEPT !.events = TRUE]
    /\ HostUnchanged /\ UNCHANGED <<tracer, faults>>

BufferEmptied == <<>>

EmptyTrace ==
    /\ At("empty", "on")
    /\ ftrace' = [ftrace EXCEPT !.buf = BufferEmptied]
    /\ HostUnchanged /\ UNCHANGED <<tracer, faults>>

TraceOn ==
    /\ At("on", "run")
    /\ ftrace' = [ftrace EXCEPT !.on = TRUE]
    /\ tracer' = [tracer EXCEPT !.on = TRUE]
    /\ HostUnchanged /\ UNCHANGED faults

(* guest_traces: the guest at the fixed address is set up over ssh, and traces. *)
GuestTracer ==
    /\ At("guest", "gueston")
    /\ Up # {}
    /\ ~tracer.guest
    /\ tracer' = [tracer EXCEPT !.guest = TRUE]
    /\ HostUnchanged /\ UNCHANGED <<ftrace, faults>>

GuestTraceOn ==
    /\ At("gueston", "begin")
    /\ guestOn' \in Up
    /\ UNCHANGED <<vmVars, vm, raising, tracer, ftrace, files, outcome, faults>>

-----------------------------------------------------------------------------
(* trace_marker writes only if trace_on was the last call; ftrace refuses a *)
(* marker while tracing_on is 0, and the write then raises.                 *)
WritesMarkerAlways == TRUE          \* mutant: _trace_on is not looked at
WritesMarker == tracer.on

MarkerAccepted == WritesMarker => ftrace.on
Marked(s) == IF WritesMarker THEN [ftrace EXCEPT !.buf = @ \o s] ELSE ftrace

(* run_netperf: a marker, netperf, a marker. *)
MarkBegin ==
    /\ At("begin", "traced")
    /\ MarkerAccepted
    /\ ftrace' = Marked(<<"begin">>)
    /\ HostUnchanged /\ UNCHANGED <<tracer, faults>>

TracedNetperf ==
    /\ At("traced", "end")
    /\ Up # {}
    /\ HostUnchanged /\ UNCHANGED <<tracer, ftrace, faults>>

MarkEnd ==
    /\ At("end", "hostoff")
    /\ MarkerAccepted
    /\ ftrace' = Marked(<<"end">>)
    /\ HostUnchanged /\ UNCHANGED <<tracer, faults>>

HostTraceOff ==
    /\ At("hostoff", "guestoff")
    /\ ftrace' = [ftrace EXCEPT !.on = FALSE]
    /\ tracer' = [tracer EXCEPT !.on = FALSE]
    /\ HostUnchanged /\ UNCHANGED faults

GuestStillOn  == guestOn            \* mutant: the host's tracing is switched off again
AfterGuestOff == NoPid

GuestTraceOff ==
    /\ At("guestoff", "untraced")
    /\ Up # {}
    /\ guestOn' = AfterGuestOff
    /\ UNCHANGED <<vmVars, vm, raising, tracer, ftrace, files, outcome, faults>>

(* "Test again without traces": three more runs of netperf. *)
UntracedNetperf ==
    /\ At("untraced", "readguest")
    /\ Up # {}
    /\ MarkerAccepted
    /\ ftrace' = Marked(<<"begin", "end">>)
    /\ HostUnchanged /\ UNCHANGED <<tracer, faults>>

CanReadMapsAssumed == TRUE          \* mutant: copy_maps swallows its exceptions
CanReadMaps == GetPid(vm) \in Live

(***************************************************************************)
(* What the next statement needs and lacks: a guest that answers ssh, a    *)
(* guest tracer to read, a pid, a marker ftrace takes.  A statement that   *)
(* can only fail is a consequence; any other failure is counted.           *)
(***************************************************************************)
CannotSucceed ==
    \/ stage \in {"guest", "gueston", "traced", "guestoff", "untraced", "readguest"} /\ Up = {}
    \/ stage \in {"begin", "end", "untraced"} /\ ~MarkerAccepted
    \/ stage = "readguest" /\ ~tracer.guest
    \/ stage = "maps" /\ ~CanReadMaps
    \/ stage \in {"setup", "run"} /\ MustRaise(vm)

Counted == IF CannotSucceed /\ (faults > 0 \/ Up # {}) THEN faults ELSE OneMore

(* Any statement of the try block raises, Ctrl-C included. *)
TryRaises ==
    /\ stage \in TryStages
    /\ stage' = "readguest"
    /\ raising' = TRUE
    /\ pc' = [pc EXCEPT ![vm] = "raised"]
    /\ faults' = Counted
    /\ UNCHANGED <<hostVars, tapDevice, pid, own, mon,
                   vm, tracer, ftrace, guestOn, files, outcome>>

-----------------------------------------------------------------------------
(* finally: the traces are read once, the host's from the buffer of cpu 2. *)
ReadGuest ==
    /\ At("readguest", "readhost")
    /\ tracer.guest
    /\ \E p \in Up : files' = [files EXCEPT !.guest = p]
    /\ UNCHANGED <<vmVars, vm, raising, tracer, ftrace, guestOn, outcome, faults>>

ReadHost ==
    /\ At("readhost", "shrink")
    /\ files' = [files EXCEPT !.host = ftrace.buf]
    /\ UNCHANGED <<vmVars, vm, raising, tracer, ftrace, guestOn, outcome, faults>>

ShrinkBuffer ==
    /\ At("shrink", "maps")
    /\ ftrace' = [ftrace EXCEPT !.big = FALSE]
    /\ HostUnchanged /\ UNCHANGED <<tracer, faults>>

(* Without a guest tracer, which the try block creates late, none of the   *)
(* three statements is reached.                                            *)
ReadRaises ==
    /\ stage \in {"readguest", "readhost", "shrink"}
    /\ stage' = "maps"
    /\ faults' = Counted
    /\ HostUnchanged /\ UNCHANGED <<tracer, ftrace>>

(* copy_maps reads /proc/<pid>/maps; what it raises skips the teardown.    *)
CopyMaps ==
    /\ At("maps", "teardown")
    /\ CanReadMaps
    /\ pid' = [pid EXCEPT ![vm] = GetPid(vm)]
    /\ pc' = [pc EXCEPT ![vm] = "shutdown"]
    /\ UNCHANGED <<hostVars, tapDevice, own, mon,
                   vm, raising, tracer, ftrace, guestOn, files, outcome, faults>>

TeardownVM ==
    /\ stage = "teardown"
    /\ Teardown(vm)
    /\ stage' = IF pc'[vm] = "idle" THEN "disable" ELSE "teardown"
    /\ UNCHANGED <<vm, raising, tracer, ftrace, guestOn, files, outcome, faults>>

(* The objects go when run() has returned or raised. *)
Ends(how) ==
    /\ stage' = "idle"
    /\ outcome' = how
    /\ raising' = FALSE
    /\ tracer' = NoTracer
    /\ ObjectsReset
    /\ UNCHANGED <<hostVars, vm, guestOn, files>>

FinallyRaises ==
    /\ \/ stage = "maps"
       \/ stage = "teardown" /\ pc[vm] \in TeardownStages \ {"shutdown"}
    /\ Ends("aborted")
    /\ faults' = Counted
    /\ UNCHANGED ftrace

(* disable_all_events, whose failure is ignored; then the exception, if there *)
(* is one, leaves run().                                                    *)
DisabledForgotten(done) == ftrace   \* mutant: the events stay enabled
Disabled(done) == IF done THEN [ftrace EXCEPT !.events = FALSE] ELSE ftrace

RaisesAgain == raising

DisableAllEvents ==
    /\ stage = "disable"
    /\ \E done \in BOOLEAN :
        /\ ftrace' = Disabled(done)
        /\ faults' = IF done THEN faults ELSE OneMore
    /\ IF RaisesAgain
       THEN Ends("aborted")
       ELSE /\ stage' = "merge"
            /\ UNCHANGED <<vmVars, vm, raising, tracer, guestOn, files, outcome>>

(* parse: the offset of the last kvm_write_tsc_offset; get_test_events: two markers. *)
Offsets(s) == {i \in DOMAIN s : s[i] \in Pid}
LastOffset(s) ==
    IF Offsets(s) = {} THEN NoPid
    ELSE s[CHOOSE i \in Offsets(s) : \A j \in Offsets(s) : j <= i]
Markers(s) == {i \in DOMAIN s : s[i] \in {"begin", "end"}}

ParsesAnyMarkers == files.guest # NoPid /\ Offsets(files.host) # {}    \* mutant: no count
Parses ==
    /\ files.guest # NoPid
    /\ Offsets(files.host) # {}
    /\ Cardinality(Markers(files.host)) = 2

MergeTraces ==
    /\ stage = "merge"
    /\ IF Parses
       THEN /\ stage' = "stats"
            /\ files' = [files EXCEPT !.merged = TRUE]
            /\ UNCHANGED <<vmVars, vm, raising, tracer, guestOn, outcome>>
       ELSE Ends("aborted")
    /\ UNCHANGED <<ftrace, faults>>

Stats == stage = "stats" /\ Ends("finished") /\ UNCHANGED <<ftrace, faults>>

MergeOrStatsRaises ==
    /\ stage \in {"merge", "stats"}
    /\ Ends("aborted")
    /\ faults' = OneMore
    /\ UNCHANGED ftrace

-----------------------------------------------------------------------------
(* The kernel records the clock offset each time a vCPU is given one: when *)
(* a QEMU comes up, and when its guest resets.                             *)
Recorded(p) == IF Recording THEN [ftrace EXCEPT !.buf = Append(@, p)] ELSE ftrace
RestUnchanged == UNCHANGED <<objVars, stage, vm, raising, tracer, files, outcome>>

Boots(p) ==
    /\ QemuStarts(p)
    /\ ftrace' = Recorded(p)
    /\ RestUnchanged /\ UNCHANGED <<guestOn, faults>>

GuestResets(p) ==
    /\ qemu[p] = "up"
    /\ Recording
    /\ Len(ftrace.buf) < MaxRecords
    /\ ftrace' = Recorded(p)
    /\ RestUnchanged /\ UNCHANGED <<hostVars, guestOn, faults>>

Ended(p) ==
    /\ QemuExits(p)
    /\ guestOn' = IF guestOn = p THEN NoPid ELSE guestOn
    /\ faults' = IF p = own[vm] /\ qemu[p] # "stopping" THEN OneMore ELSE faults
    /\ RestUnchanged /\ UNCHANGED ftrace

(* More events than the buffer of cpu 2 holds: the oldest are overwritten. *)
Overruns ==
    /\ Recording
    /\ ftrace.buf # <<>>
    /\ ftrace' = [ftrace EXCEPT !.buf = Tail(@)]
    /\ faults' = OneMore
    /\ RestUnchanged /\ UNCHANGED <<hostVars, guestOn>>

Reboot ==
    /\ HostReboots
    /\ ObjectsReset
    /\ stage' = "idle"
    /\ outcome' = "none"
    /\ raising' = FALSE
    /\ tracer' = NoTracer
    /\ ftrace' = BootFtrace
    /\ guestOn' = NoPid
    /\ faults' = OneMore
    /\ UNCHANGED <<vm, files>>

-----------------------------------------------------------------------------
HostTraces  == DisableEvents \/ GrowBuffer \/ EnableEvents \/ EmptyTrace \/ TraceOn
GuestTraces == GuestTracer \/ GuestTraceOn
Netperf     == MarkBegin \/ TracedNetperf \/ MarkEnd \/ UntracedNetperf
TryBlock    == SetupAndRun \/ HostTraces \/ GuestTraces \/ Netperf \/ HostTraceOff \/ GuestTraceOff
Finally     == ReadGuest \/ ReadHost \/ ShrinkBuffer \/ CopyMaps \/ TeardownVM \/ DisableAllEvents

Progress == TryBlock \/ Finally \/ MergeTraces \/ Stats
Fault    == TryRaises \/ ReadRaises \/ FinallyRaises \/ MergeOrStatsRaises \/ Overruns \/ Reboot
Guests   == \E p \in Pid : Boots(p) \/ GuestResets(p) \/ Ended(p)

Next == StartRun \/ Progress \/ Fault \/ Guests

Spec == Init /\ [][Next]_vars

(***************************************************************************)
(* As in TestRun: a sequential program goes on, a statement that can only  *)
(* fail does, and a QEMU that is starting or powering off gets there.      *)
(***************************************************************************)
Fairness ==
    /\ WF_vars(Progress)
    /\ WF_vars(CannotSucceed /\ (TryRaises \/ ReadRaises \/ FinallyRaises))
    /\ \A p \in Pid : WF_vars(qemu[p] # "up" /\ (Boots(p) \/ Ended(p)))

FairSpec == Spec /\ Fairness

-----------------------------------------------------------------------------
(***************************************************************************)
(* During the traced netperf of run() host and guest record, the guest     *)
(* under test is the QEMU this run launched, and the offset of its clock,  *)
(* without which the guest's trace is useless, is in the host's buffer,    *)
(* unless a failure was counted; "Test again without traces" measures the  *)
(* same QEMU with neither recording.                                       *)
(***************************************************************************)
RunsAsAnnounced ==
    /\ stage \in {"traced", "untraced"} => Live \subseteq {own[vm]}
    /\ stage = "traced" =>
        /\ Recording
        /\ faults = 0 => guestOn = own[vm] /\ LastOffset(ftrace.buf) = own[vm]
    /\ stage = "untraced" => ~Recording /\ guestOn = NoPid

(***************************************************************************)
(* What merge_traces writes is the trace of one test: one begin, then one  *)
(* end, the guest file of the QEMU of this run, shifted by its own offset, *)
(* whatever earlier runs left in the buffer and in the directory.          *)
(***************************************************************************)
MergesOwnTest ==
    files.merged /\ stage = "stats" =>
        /\ \E i, j \in DOMAIN files.host :
             /\ i < j /\ Markers(files.host) = {i, j}
             /\ files.host[i] = "begin" /\ files.host[j] = "end"
        /\ LastOffset(files.host) = own[vm]
        /\ files.guest = own[vm]

(* run() raises only if something failed, never for what it did itself. *)
NoFaultNoAbort == stage = "idle" /\ outcome = "aborted" => faults > 0

(***************************************************************************)
(* What a run leaves on the host.  If run() returned: no tap, no QEMU, the  *)
(* settings as a boot leaves them unless the command that should have      *)
(* restored one failed and was ignored, not recording, and, if nothing     *)
(* failed, with the events disabled and a small buffer.  If it raised: a   *)
(* host that still records only behind tap0, which stops the next run of   *)
(* any script, unless two things failed since recording began.             *)
(***************************************************************************)
HostAfterRun ==
    /\ stage = "idle" /\ outcome = "finished" =>
        /\ HostIsClean
        /\ ~Recording
        /\ faults = 0 => ~ftrace.events /\ ~ftrace.big
    /\ stage = "idle" /\ Recording /\ faults <= 1 => 0 \in taps

(***************************************************************************)
(* Every run() ends, unless teardown waits for a guest that ignores the    *)
(* poweroff: an exception raised before there is a pid does not reach      *)
(* teardown, whose delete_tun would retry for ever.                        *)
(***************************************************************************)
WaitsForGuest == pc[vm] = "deltun" /\ own[vm] \in Up
RunEnds == stage # "idle" ~> stage = "idle" \/ WaitsForGuest

-----------------------------------------------------------------------------
(* Tracing sessions keep the lease TestRun keeps, so both can share a host. *)
lease == IF stage = "idle" /\ outcome = "none" THEN "booted"
         ELSE IF 0 \notin taps THEN "free"
         ELSE IF stage # "idle" /\ tapDevice[vm] = 0 THEN "held" ELSE "lost"
occupied  == Live # {}
slipped   == "csum" \in slips
measuring == stage \in {"traced", "untraced"}

Lease == INSTANCE HostLease
         WITH lease <- lease, occupied <- occupied, altered <- csumOff,
              slipped <- slipped, measuring <- measuring

LeaseSpec == Lease!Spec
=============================================================================
