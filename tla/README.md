# Verification of the E1000/virtio benchmark harness

The repository is a Python harness that measures network performance of
virtual machines: a test script lists VM configurations, message sizes and
sensors; `utils/test_base.py` sets the host up for one VM after the other,
launches it, runs netperf between host and guest for every size a number of
times, reads sensors before and after each run, tears everything down and
draws graphs. A second family of scripts records kernel traces of host and
guest and attributes every moment to guest, kernel, KVM or QEMU.

What can go wrong is rarely visible in the result: a number is produced
either way. The questions this project asks are whether a number measures
what its label says (the right VM, the right host configuration, the right
test), and whether the harness can be left in a state in which it would not.

## 1. Inventory

| Component | State it keeps | Operations | What is hard | What makes it correct |
|---|---|---|---|---|
| Qemu VM lifecycle (`utils/vms.py`, `utils/machine.py`) | `tap_device`, `_pid`, `qmp`, `pidfile`; on the host: taps, kvm-intel, a sysctl, netserver, QEMU processes | `setup`, `run`, `teardown`, `get_pid`, `change_qemu_parameters` | every command can fail, some without anybody noticing; QEMU is launched without waiting; everything survives the Python process; all VMs share port 1235, tap0 and the guest address | the QEMU measured is the one launched; the host is configured for it; a leak stops the next run |
| Test harness (`utils/test_base.py`) | position in the loops over VMs, sizes, repetitions, sensors | `run`, `run_vm`, `create_testinfo`, `create_sensor_graphs`, `TestBase2VM.run` | exceptions at any point, some swallowed, some not; Ctrl-C is a normal way to stop a test | a session that ends normally leaves a clean host; every session ends |
| Sensors (`utils/sensors.py`, `sensors/`) | `_value_before` | `test_before`, `test_after` | a failed reading is logged or read as zeros, and the value of an earlier test stays | a sample is a difference over its own test |
| Graphs (`utils/graphs.py`) | `data`: samples per size and VM; the folder each graph writes to | `add_data`, `create_graph`, `_calc_data`, `_limit_data` | derived graphs pair samples by position, are computed again per comparison, and read each other's files | pairs belong to one test; repetition changes nothing; a folder holds its own pair |
| Result files (`utils/graphs.py`, `utils/test_base.py`) | `testinfo.json`, one JSON per graph | `dump_to_json`, `load_old_results`, `get_info` | sessions overwrite each other's files, disabled VMs load old ones | an old result stays the result it was |
| QMP client (`qemu/qmp.py`) | socket, event cache | `connect`, `command`, `close` | answers are matched by order alone; a swallowed Ctrl-C | a command gets its own answer |
| Tracing sessions (`kernel_traces/kernel_trace.py`, `traces/trace_performance.py`) | ftrace of host and guest, a QEMU | `run`, cleanup in `finally` | partial failure of the cleanup | tracing is off and the VM down afterwards |
| Trace parsing (`kernel_traces/trace_parser.py`) | events, TSC offset | merge, correct, cut to the test | lost events, clocks, markers | the merged trace is ordered and covers one test |
| Batch statistics (`kernel_traces/latency_parser2.py`) | parsers' last events, intervals of the current batch and kept ones | one handler per event and parser, `finish_batch`, `reset_batch` | event orders nobody foresaw; disturbed batches are discarded after they were counted | what is kept is what the undisturbed batches of the trace hold |
| Latency parser (`kernel_traces/latency_parser.py`) | an accounting automaton per task | one handler per event | the same; it sees one CPU, and of the switches only QEMU's | every interval of QEMU's threads is charged once |
| VMware, VirtualBox (`utils/vms.py`) | `virtualBox_count`, the kernel driver | `setup`, `teardown` | a counter shared by objects | the driver is loaded while it is used |
| Scripts (`test_*.py`, `tests/`, `traces/`), plotting | none of their own | `main` of `tests/seq/qemu_step_comparison.py`: one test, then its VMs in pairs | comparisons write into folders below the results | the complete results stay |

The harness calls the VM object; the VM object and the sensors run commands on
the host and, over ssh, in the guest; QEMU is reached through a pid file, a
signal and the QMP socket; sensors push samples into graphs; graphs read each
other's samples when they are drawn. There is one thread. What interleaves is
this thread with the processes it starts and leaves behind, with the user's
Ctrl-C, and with earlier and later sessions on the same host.

`PROJECT.json` lists the components with their status, and under `hazards`
each place in the code where one of these things bites.

## 2. Modules

| Module | Models | Composed of |
|---|---|---|
| `QemuHost` | the host as the harness relies on it (external) | |
| `QemuVM` | `Qemu.setup`, `run`, `teardown`, one action per host command | extends `QemuHost` |
| `TestRun` | `TestBase.run` / `run_vm` over any number of sessions, with faults and reboots | extends `QemuVM` |
| `HostLease` | what `TestRun` promises: an abstract lease on the host | refined by `TestRun` |
| `TwoVM` | `TestBase2VM.run` over pairs of VMs | extends `QemuVM` |
| `Measurement` | the loops of `run_vm`, sensors, graphs and ratios | |
| `Qmp` | one connection of the QMP client to a monitor | |
| `BatchStats` | `MainStats`: the event parsers and the batches they are kept or discarded by | |
| `Results` | `testinfo.json` and the graphs' JSON over sessions in one directory | |
| `Comparisons` | `create_sensor_graphs` for a test and for pairs of its VMs: folders, data files, plots | |
| `TraceRun` | `TracePerformance.run()` with the ftrace of host and guest | extends `QemuVM`; refines `HostLease` |
| `TraceMerge` | two traces with clocks of their own, merged and cut to the test, and the functions that walk the result | |
| `TestTimes` | the automaton that attributes the time of a CPU | |
| `MC*` | values of the constants for TLC | extend the above |
| `TestRunProofs`, `TraceRunProofs`, `MeasurementProofs`, `ResultsProofs`, `ComparisonsProofs`, `QmpProofs`, `BatchStatsProofs` | theorems, and the invariants they rest on | extend the module they are named after |
| `LatencyParserProofs` | the same for the two modules about `latency_parser.py` | extends `TestTimes` and `TraceMerge` |

### The VM and the host

`pc[v]` in `QemuVM` names the host command the VM object `v` executes next, in
the order of the code; a command is one action, and the exception it can raise
is another (`SetupOrRunRaises`, `TeardownRaises`), which leads to the stage
`"raised"` whose consequences the caller decides. Python fields keep their
names (`tapDevice` for `tap_device`, `pid` for `_pid`, `mon` for the process
behind `qmp`); `own` is the process that wrote the current pid file. The
checked and the unchecked commands of the code differ as they do there: the
sysctl writes of `ConfigureHost` and `ResetHostConfiguration`, whose exceptions
are swallowed, and `RestartNetserver`, `UnloadKvm`, `StopNetserver` and
`Shutdown`, whose results nobody looks at, may quietly achieve nothing;
`DeleteTun` waits until it succeeds, and `LoadKvm` runs its shell pipeline
without a shell. `slips` is a history variable: the settings whose last command
failed in this way (`Slips`) and has not been made good since (`Works`). `MustRaise` lists the cases in which a command cannot
succeed, and carries the fairness with which it then raises.

QEMU processes have four states: launched, up, powering off, gone. They come up
only with the tap free, the module loaded and the port unused; they may end at
any time. A QEMU holds its tap until it is gone, even if the tap's owner is
another Python process.

`TestRun` adds what decides everything about failures: `setup()` and `run()`
are called before the `try` of `run_vm`, so that what they raise ends the
session without a teardown, while the tests are inside it and `teardown()` is
in `finally`. A session is one Python process; its objects are forgotten when
it ends (`ObjectsReset`), the host is not. After an aborted session the user
may start another one at once, or reboot. One session runs at a time; cleaning
the host by hand is not modelled, a reboot stands for it. The name of a disabled
VM in the list only loads results (`LoadOldVmData`); the files behind that are
in `Results`.

### The abstract lease

`HostLease` knows who has the host (`booted` before the first session, then
`free`, `held` or `lost`), whether processes of a run are on it (`occupied`),
whether its setting is altered, whether the last write of that setting slipped,
and whether a measurement is going on. Its steps say that the lease is taken
only from a host without such processes, and returned only so, with the setting
restored unless the write slipped; that nothing is measured without it; and
that a lease lost by an aborted run comes back only with a reboot: only
`Reboot` leaves `lost`, and it leads to `booted`, from where a session has to
begin. The slip is part of the promise because the code cannot promise more. In `TestRun` the lease is nothing but `tap0`: no code was
written to have a lock, yet the assertion in `create_tun` (`utils/vms.py:165`)
works as one. The refinement mapping is at the end of `TestRun`.

### Measurements

`Measurement` takes what `TestRun` calls the stage `"test"` apart. A test is
named by its position `<<vm, x, repetition>>`, a reading by the test it was
taken for, a sample by its readings; counters' values are left out, since the
properties only ask what a value is a measurement of. `ReadBeforeFails` and
`ReadAfterFails` stand for any exception in a sensor, Ctrl-C included: the bare
`except` of `run_vm` swallows it. `CutShort` is an exception anywhere else in
the `try` block, which ends the loops of one VM and not the session. `Abort` is
an exception outside it. `Quiet` sensors are those of `sensors/qemu_batch.py`,
which answer zeros. `Ratios` are `RatioGraph`s; `CreateGraphs` models
`_calc_data` with the order of the dictionary it iterates over and the
`KeyError` that ends it.

### QMP

`Qmp` models the two streams of a connection. `Send` is `cmd_obj` up to
`sendall`, `ReadEvent`, `ReadAnswer` and `ReadEnd` the three ways a line is
read, `Interrupt` Ctrl-C during the read, which the query-batch sensors
swallow. An answer is named by the call it answers. Lines are read whole: a
line cut in half by a signal is not modelled.

### Batch statistics

`BatchStats` reads a trace one event at a time (`NextEvent`): `Skip` is the
event filter, `InBatch` an event inside a batch, `FinishBatch` and `ResetBatch`
the two ways a batch ends, `Raise` the one handler that can raise. An event is
its kind, the outcome of the comparisons the parsers make; the note that
`translate_events` attaches to an exit is part of the kind. The handlers are
tables and a few operators: the eleven parsers of pairs differ in what opens,
closes and drops a pair (`Opens`, `Closes`, `Drops`), the two parsers of gaps
and the series parsers likewise. Of the many `TraceFunctionStats` one with
inner calls (it is `RecvStats` under another name) and one without are kept, of
the three nested pairs of `WritevDeep` one. An interval is the list of the
positions of its events: whether the right events were paired is the question,
durations follow from it. The statistics per exit reason are `exits` and
`HW_exit` split by the kind of the first event, and are not kept apart.

The second half of the module says what the statistics should hold without
looking at any parser: which pairs of positions are intervals (`IsInterval`),
which batches are clean (`InCleanBatch`). The properties compare the two. Two of
the parsers keep more than what is right, and the reference names it as such: an
import of an iovec measured from the start of an earlier writev
(`IsStaleImport`, beside `IsOwnImport`), and what is left of a call that lost
its entry in the middle of an inner call (`TornCall`, beside `WholeCall`).

### Result files and comparisons

`Results` follows one directory over several sessions. A sample is named by the
session that measured it, the info of a VM by the session that wrote it, so the
question is only who wrote what. A session may have any VMs disabled (`Start`);
`CreateTestinfo` is `pre_run`, `RunVM` and `LoadOldVmData` the two branches of
`run`, `CreateGraph` the dump of one graph in `post_run`. What the loops of a VM leave
in each cell is `taken`: all repetitions, or fewer of them after a reading that
failed or a cut, which may fall between two tests or between two sensors of one
test (`Takings`); `VMFails` is what `run_vm` does not catch;
`TestinfoTorn`, `CreateGraphFails` and `Killed` leave a file that was opened for
writing and not written. `HasOldInfo` is what `get_info` needs of a disabled VM;
for a `Qemu` (`Qemus`) it is never there. `harmed` records that anything went
wrong, for the properties that speak of the undisturbed case.

`Comparisons` is what `tests/seq/qemu_step_comparison.py` adds: after `post_run`
the same graphs are created once more for each pair of VMs, in a folder of
theirs. `create_graph` is four steps: `Create` (change the folder, limit the
data, calculate a ratio), `WriteTxt`, `DumpToJson`, `Plot`, which changes the
folder back. An exception at any of them is logged and the next graph follows,
with the folder as it is. Of the data the module only knows which cells have
samples. Ratios are calculated after the data was limited, yet into the same
lists: `Limited` uses the cells there were before. A `SameDataGraph` only plots,
from the data file of another graph.

### Tracing sessions

In `TraceRun` `stage` is the statement of `run()` that comes next, and the
stages of the VM object nest in three of them. Every statement can raise; the
`finally` block reads the traces inside a `try` of its own (`ReadRaises`), then
runs `copy_maps` and `teardown` unprotected (`FinallyRaises`). Tracing is four
facts about the host (events enabled, recording, a big buffer, the buffer's
content) and one about the guest. The buffer keeps only what decides the
outcome: the clock offset of each QEMU, and the markers. `trace_marker` looks
at a cached `_trace_on` (`tracer.on`), while ftrace refuses a marker when it
does not record (`MarkerAccepted`); both are modelled, since "Test again
without traces" depends on them. A QEMU that comes up or whose guest resets
records an offset when the host records at all (`Recorded`); a full buffer
loses its oldest records (`Overruns`). `faults` counts failures since recording
began or the host was last clean; a failure that could not be avoided after an
earlier one (`CannotSucceed`) is not counted again. At the end of the module
`TraceRun` refines `HostLease` as `TestRun` does: the two kinds of sessions
guard a shared host in the same way.

### From two traces to times

`TraceMerge` generates what really happens (`recorded`, in real order, with the
real time `at`) together with what ftrace writes of it: host events with the
host's TSC, guest events with the guest's, which is the host's plus an offset
modulo `TscRange`, twice `HalfRange`. The operators below are the parser: `TscOffset` and `OnHostClock`
undo the offset, `Merged` sorts, `TestEvents` cuts out the window.
`ExitTimes`, `LatencySendRecv` and `BatchTimeKick` are recursive functions, a
step per event as in the code; `ExitTimes` also leaves the notes by which `Kicks` recognises a
kick, as `exits_stats` calls them in this order. The reference definitions use
the real order and the real times only. The model takes the number of cycles in
half a second as a constant: the code reads the frequency of the CPU once per
process.

`TestTimes` has two halves. `running` and `actual` are CPU 2: one task runs,
and each task moves between guest, kernel and user as its events say; only the
vCPU enters the guest, and the idle task never leaves the kernel. What the
automaton does not see happens too: a switch between two tasks that are not
QEMU's, which the filter of `trace_performance.py:124` drops (`SwitchUnseen`),
and what such a task does on another CPU, which the drivers skip
(`Elsewhere`; `strayed` remembers it). QEMU's threads stay where `numactl -C`
puts them. A task of the host may have the pid that netperf has in the guest;
`start_transaction` then charges that task (`ChargedForNetperf`). The other
variables are the fields of the class `TestTimes`, which sees the events and
starts anywhere, not knowing any task's mode (`"init"`). The handlers' first
assertion, when it fails, ends the analysis (`Raises`). The time
stamps are a constant, `Time`, of which only the order is assumed; the run gives
the `n`-th event the time `3^n`, so that different sums of intervals are
different numbers. Both
drivers of the automaton are there: transactions cut by a request of netperf in
the guest, or by an exit with a kick or halt. The lower half says from the
events alone what ran when.

## 3. Runs

| Run | Asks | Answer |
|---|---|---|
| `lifecycle` | do faults, unnoticed failures, crashes, lost poweroffs, leaks and reboots, over any number of sessions, ever let a VM be measured on another VM's QEMU or host configuration? does `TestRun` implement `HostLease`? does every session end? | never another QEMU; another configuration only if the last command for that very setting failed unnoticed; yes; yes, unless a guest ignores the poweroff: `delete_tun` then waits for ever |
| `no_poll` | is a VM with `disable_kvm_poll` measured on a host that does not poll? | **violated**: `utils/vms.py:187` |
| `two_vm_tap` | does the assertion of `create_tun` hold when nothing fails and a pair of Qemu VMs is run? | **violated**: `utils/vms.py:165`, `utils/test_base.py:172` |
| `measurement` | do samples belong to their tests, ratios to one test, and is every gap accounted for, with failed readings and interrupts at any place? | yes, in the sense of the properties' statements |
| `qmp` | does a command get its own answer, and does every call end? | yes, but for an exact lag after each interrupted read |
| `batch_stats` | do the statistics hold exactly the intervals of the batches nothing disturbed? | yes, and besides them only what is left of torn calls and imports with a stale start |
| `trace_run` | is what is traced and merged always the session's own test, and what does a session leave behind, with failures at every statement, resets, crashes, overruns and reboots? does `TraceRun` implement `HostLease`? does every run end? | its own; nothing, something behind tap0, or a setting whose restoring command failed unnoticed; yes; yes, with the exception of `lifecycle` |
| `test_times` | is every interval of QEMU's threads charged once, to the right mode and transaction, and can a handler's assertion fail? | yes; only for a task that changed modes on another CPU |
| `trace_merge` | does the parser restore what happened, and pair and cut it rightly? | yes |
| `window_comment` | is the test cut out as the comments say? | **violated**: `trace_parser.py:160-161` |
| `results` | do old results stay what they were, over sessions with disabled VMs, failures and kills? | yes; that all of them can be loaded only as long as nothing failed |
| `comparisons` | does each folder hold its own pair, and do the complete results stay, with missing samples and failures at any file? | yes |

The findings, in a sentence each:

- `no_poll`: `"echo 0 | sudo tee ..."` is split and executed as one `echo`; the
  `-nopoll` configurations of the test scripts measure a host that polls.
- `two_vm_tap`: `TestBase2VM` sets up the second VM while the first holds tap0,
  so `create_tun`'s `assert self.tap_device == 'tap0'` always fails. The shipped
  `MainTest` of `test_qemu_regular_vm2vm.py` sets no `DIR`: without a directory
  on the command line it stops even earlier, at `utils/test_base.py:22`.
- `window_comment`: the window begins 1.5 s after the start of netperf and ends
  0.5 s before its end; the comments have the two numbers the other way round.
  `TestAsItHappened` has them as the code does.

Five more places where the code does something else than its comments or its
names say have no run of their own. For the first four a property that holds
states exactly what the code does there:

- `utils/sensors.py:54`: when `test_before` raises, `test_after` still
  subtracts, from a value of an earlier test, of another VM, or from the
  constructor's 0, though `_delta` documents "the value before the test".
  `DeltaSpansItsTest` allows it only where a failed reading accounts for it.
- `sensors/qemu_batch.py:17`: after Ctrl-C in a query-batch, all later answers
  on that connection are one command late. `AnswersLagByInterrupts` counts.
- `kernel_traces/latency_parser2.py:146`: `StatsCounter` records past the batch
  protocol, so `reset_batch` has nothing to drop and the events of skipped
  batches stay in `events_per_batch`. `EventsAddUp` counts them.
- `kernel_traces/latency_parser2.py:60`: `count_event_series` skips lists of odd
  length, "the first time it happens". A call traced from the middle of an inner
  call on leaves a list of even length and is counted, starts and ends the
  wrong way round. `KeepsSeries` names these calls (`TornCall`).
- `utils/vms.py:135`: `get_info` of a disabled `Qemu` copies keys nothing writes
  any more (lines 137-147 are commented out), so `pre_run` raises `KeyError`;
  `tests/seq/qemu_step_comparison.py:192-193` disables all of its VMs. `Results`
  has this for the VMs in `Qemus`; the run takes VMs of other classes.

### Properties worth explaining

- `MeasuresOwnQemu` holds only because of a chain: a QEMU that leaks keeps its
  tap open, so its tap is not deleted, so the next `tunctl` does not return
  tap0, so the assertion stops the run. `TapGuardsHost` is the middle of that
  chain, also for the sysctl of `QemuE1000Max`, which is written back before
  the tap is deleted and would leak unguarded in the other order.
- What this chain does not guard is a command that fails unnoticed
  (`utils/vms.py:364-374`, `utils/vms.py:191`, `utils/machine.py:25`). After a
  write-back that slips, checksums stay off behind a free tap0, and every VM
  that is not a `QemuE1000Max` is measured so until one of these writes the
  sysctl again. `MeasuresOwnConfiguration`, `TapGuardsHost`, `CleanFinish`,
  `HostAfterRun` and `LeaseSpec` therefore speak, setting by setting, of the
  last command for it: one that worked suffices, whatever failed before.
- `CleanFinish` is about `run()` returning, which after an aborted run it
  cannot do for lack of tap0. A session in which all VMs are disabled returns
  on any host, hence `RanBefore`.
- `CutLeavesAPrefix`: when an exception leaves the loops of a VM, its series are
  complete up to one size, differ by one sample at most there, and are empty
  after it; and no later step changes that.
- `NoSilentGap` and `RatioPairsAligned` together say when the mean of a ratio
  can be trusted: with no failed reading of either graph. With one, pairs do
  shift; nothing in the code marks the graph.
- `RatioWeighsPairsEqually`: a second `create_graph` adds the same pairs again.
  The mean survives because all pairs are added, which the property states.
- `AnswersLagByInterrupts` counts: between a call and the command whose answer
  it got lie exactly as many commands as reads were interrupted before it.
- `KeepsPairs` and its siblings are equalities of sets, so they exclude a lost
  interval as well as one too many. An interval is judged by the batch it ends
  in: one that began in a disturbed batch is kept, as the code does.

- `HostAfterRun`: `copy_maps` in `finally` is unprotected, and after an
  early exception it has no pid to read, so `teardown` is skipped. What keeps
  the host from tracing into other measurements is again tap0: with one failure
  a host that still records also has a tap left. With two (the disabling fails
  as well, or the tap is gone before) it may record behind a free tap0.
- `MergesOwnTest` rests on the count of markers: an exception between begin and
  end, an overrun that took `begin`, or an earlier run's markers in the buffer
  make `get_test_events` raise rather than merge. It does not hold because the
  buffer is clean: `finally` reads the buffer after a failed `EmptyTrace` too.
- `NoFaultNoAbort`: the three runs "without traces" write no marker only because
  `trace_off` resets `_trace_on`.
- `TimesPerTransaction` consists of exact sums: nothing of a QEMU thread is
  charged twice, nothing is lost, except what ran in a mode the window does not
  tell. It says nothing about the times of other tasks: a switch between two of
  them is not recorded, so `last_change` of the one that comes back is stale and
  an interval of somebody else is charged to it. Nor of a QEMU thread whose pid
  is netperf's in the guest, which every request charges with whatever has
  passed since.
- `FailsOnlyForStrayed`: a task that is not pinned and returns from a system call
  on another CPU comes back in a mode the automaton does not expect; its next
  call ends the analysis with an `AssertionError`. QEMU's threads cannot do that.
- `KeepsSeries` and `KeepsNested` say exactly what is kept, the unwanted part
  included: torn calls whose remains happen to be even in number, and imports
  that begin in an earlier writev because their own start is missing.
- `TestAsItHappened` fails if the first offset is taken instead of the last,
  or the unsigned number as it is; `PairsBelongTogether` if `exit_time` is
  not called before the batches are cut.
- `InfoMatchesResults` holds as long as nothing has failed. After a session
  that aborts, `testinfo.json` already describes machines whose results were
  never written (`utils/test_base.py:81`). Likewise, after a VM was cut short, a
  later session that disables it ends in a `KeyError` (`utils/graphs.py:139`). `OneSessionPerTest` and `OldResultsKept`
  hold whatever happens.
- `PublishedIfMeasured` says how far one missing cell reaches: a graph is
  missing for the pairs of its VM, but a `RatioGraph` whose second graph lacks a
  cell is missing for all pairs. `FoldersHoldTheirPair` holds because `mean`
  refuses the 0 that `_limit_data` puts for a missing cell, and because the
  JSON is written after the data file.
- `CompleteResultsKept` holds although a failed graph never gets its folder
  back: every call after `post_run` names a folder.

### Bounds

| Constant | Value | Why it is enough |
|---|---|---|
| `Pid` | 2 | one QEMU of the current run and one that leaked; `LiveIsOwn` shows there are never more while a VM runs. Symmetric in `no_poll` and `trace_run`; runs with a liveness property have no symmetry |
| `MaxTap` | 2 | a leaked tap0, a second tap left by the failed assertion, and one more; beyond that `CreateTun` raises |
| `VmList` | `<<m, d, q, m>>` | a VM that is run twice, one of each kind after the other in both orders, a disabled one between them |
| sessions, reboots, crashes | unbounded | the state space is finite without a bound |
| `MaxRecords`, `MaxFaults` (`trace_run`) | 2, 2 | a guest resets before the begin marker, or between the markers once the buffer has lost its first offset; the first failure that is not guarded is the second |
| `MaxTap` (`trace_run`) | 1 | one leaked tap0 stops the next run; `lifecycle` has more |
| `MaxTrace` (`test_times`) | 5 | an exit, a switch away and back, and an entry with the end of a transaction among them; unseen switches and what happens on other CPUs are not counted |
| `MaxEvents` (`trace_merge`) | 9 | two boots, two markers, and five events between: a pair outside and one inside the window, or two kicks with their notes |
| `HalfRange`, `GuestStart` | 32, {0, 9} | offsets on both sides of zero; the guard `tsc + ticks < HalfRange` of `Recorded` is a bound too: at some GHz a host is not up for 2^63 ticks |
| `HalfSecond`, `Pause` | 1, {3, 4} | events before, on and after the bounds of the window |
| `MaxBoots` | 2 | the first and the last offset differ |
| `VmNum`, `XNum`, `Retries`, `GraphNum` (`results`) | 2 each | a VM that is run and one that is loaded; one graph written and one not |
| `Takings` | 5 | everything, nothing, a cut between two tests, a cut between the sensors of one, one test lost for one sensor |
| `MaxSessions` | 3 (`results`), 2 (`comparisons`) | results that are loaded, dumped and loaded again; files of an earlier session |
| `VmNum`, `Pairs`, `XNum` (`comparisons`) | 3, 2, 1 | two pairs that share a VM; a VM outside the pair |
| `MaxLost`, `MaxFaults` (`comparisons`) | 2, 1 | one missing cell in each of two graphs, or two in one; one failure the data does not explain per session |
| `VmNum`, `XNum`, `Retries` (`measurement`) | 2 each | every loop iterates and nests |
| `MaxFaults` | 2 | a failed reading before and one after, in the same or in different tests |
| `MaxRounds` | 2 | graphs created once and again |
| `MaxCalls` | 5 | `qmp_capabilities` and two tests: the shortest skew that reaches another test |
| `MaxEvents` | 2 | events before and after an answer |
| `MaxTrace` | 6 | two ends of batches with a disturbing event, an open and a close among them, or a full series of a function between two ends, or sends and receives between two ends |
| `Alphabets` | 10 | parsers share nothing but the batches, so each alphabet holds the events of one or two of them, ends of batches and one event that disturbs |

`CHECK_DEADLOCK FALSE` is set where the system stops: after the last graphs
(`measurement`), after `close` (`qmp`), when the session is over
(`two_vm_tap`), at the end of the trace (`batch_stats`), at the length of the
trace (`test_times`, `trace_merge`, `window_comment`), after the last session of the bound
(`results`, `comparisons`). `TestRun` and `TraceRun` never stop
and are checked for deadlock.

### Fairness

`TestRun!FairSpec` assumes that the harness, a sequential program whose
commands return, goes on when it can; that a command which cannot succeed
raises; and that a QEMU that is starting or powering off gets there. Nothing is
assumed of faults, crashes, reboots, new sessions or a guest that is up, so
`SessionEnds` has its exception. `Qmp!FairSpec` assumes that a monitor answers
unless its QEMU ends and that a waiting client reads. `TraceRun!FairSpec` is
that of `TestRun` with the statements of `run()`: the program goes on, a
statement that cannot succeed raises, a QEMU gets up or off. The other modules
have no liveness property and no fairness.

## 4. Proofs

The theorems hold for every value of the constants under the modules' named
assumptions, which state their types and little more (`HostAssumption`,
`VMAssumption`, `TestAssumption`, `TraceAssumption`, `MeasurementAssumption`,
`ResultsAssumption`, `ComparisonsAssumption`, `QmpAssumption`,
`BatchAssumption`, `TimesAssumption`, `TracesAssumption`). Beyond types they say: the sensors of a
test, and the graphs of a list, are different objects; a `SameDataGraph` comes
after the graph whose data it plots, which the constructor takes as an argument;
time stamps are sorted, as `merge` leaves them, and tasks are finitely many
(`TimesAssumption`); the guest's clock starts in the lower half of its range
(`TracesAssumption`); at least two failures are
counted before the count stops (`TraceAssumption`), so that "at most one" can be
told. Bounds such as `MaxTrace` are arbitrary numbers. All theorems are safety
theorems; each invariant below was checked by TLC before it was proved.

| Module | Properties of the runs proved | Inductive invariant |
|---|---|---|
| `TestRunProofs` | all safety invariants of `lifecycle`, the refinement of `HostLease` | `IInv` |
| `TraceRunProofs` | all safety invariants of `trace_run`, the refinement of `HostLease` | `IInv` |
| `MeasurementProofs` | all of `measurement` | `IInv`, `CellsInv`, `WeightInv` |
| `ResultsProofs` | all of `results` | `IInv` |
| `ComparisonsProofs` | all of `comparisons` | `IInv` |
| `QmpProofs` | the invariants of `qmp` | `IInv` |
| `BatchStatsProofs` | all of `batch_stats` | `BInv`, `CountInv` |
| `LatencyParserProofs` | all of `test_times` | `IInv`, `CInv` |
| `LatencyParserProofs` | all of `trace_merge` | `ClockInv`, `ProtocolInv` |

`TypeOK` of `TraceRun`, `Results`, `Comparisons` and `TestTimes`, and
`TracesTypeOK`, are proved too; no run lists them. With this every safety
property that a passing run checks is a theorem.

- `TestRunProofs`. The invariants are not inductive: `IInv` adds that only the VM
  the loop is at has left `"idle"` (`ActiveIsCurrent`), that every QEMU has tap0
  open and tap0 exists (`LiveHaveTap`), that tap0 is the only tap of a VM that
  holds it (`TapZero`), that nothing runs before the launch and only the
  launched process after it (`LiveIsOwn`), that the pid cache is empty between
  shutdown and the next launch (`PidCache`), and at which stages the sysctl
  and netserver's core are settled, but for a command that slipped (`Sysctl`,
  `Netserver`). The refinement (`ImplementsLease`) maps each action to a step of
  the lease: the first session after a boot begins it, creating tap0 acquires
  it, deleting it releases it, an exception while it is held loses it, a reboot
  alone gets it back.
- `TraceRunProofs`. The same facts about the host at the statements of `run()`
  (`HostSafe`), and three about tracing. `TracerState` says where recording is
  on and that the cached `_trace_on` never claims more than ftrace does.
  `BufferAndFiles` follows the records: from the statement that empties the
  buffer on, it holds resets of the session's own QEMU and at most one begin
  before at most one end, however much an overrun takes; `MergesOwnTest` is what
  remains of this in the files once `readhost` is through. `NoFault` is the same
  with certainty: without a failure the offset and both markers *are* there, so
  no statement must raise. `Left` carries what survives between sessions; the
  disjunct `Returned /\ raising` is the one window in which a recording host has
  no tap, inside a `teardown` whose second failure would leave it so.
- `MeasurementProofs`. For `DeltaSpansItsTest`, `IInv` adds which baselines are
  accounted for at each point of the two loops over the sensors (`Fresh`). For
  `NoSilentGap` and `RatioPairsAligned`, `CellsInv` relates the samples of a cell
  to the position of the loops: `Repetitions` is how many tests of that cell are
  over, seen from one graph, and each of them has left a sample or a failed
  reading (`CellsCounted`); if none failed, the `k`-th sample is that of the
  `k`-th repetition (`CellsOrdered`). For `RatioWeighsPairsEqually`, the samples
  of a cell are of increasing repetitions, so `Zip` never makes a pair twice
  (`CellsIncreasing`), and each `create_graph` that computes a cell adds every
  pair of it once more (`PairsOfZip`); one that fails on the way to a cell
  leaves that cell as it was.
- `ResultsProofs`. `OneSessionPerTest` needs that a VM has no samples in memory
  before its turn (`Fresh`), and `OldResultsKept` that what was loaded is what
  the file still holds until it is replaced (`Kept`). `InfoMatchesResults` needs
  to be said for each stage of a session: between sessions the files match the
  info, during one the new info is ahead of them for the VMs that are run
  (`Between`, `Running`, `Writing`).
- `ComparisonsProofs`. A graph that is being written is in the folder of its
  call (`DirOfCall`), calculating a ratio again adds nothing (`Calculated`), and
  what is about to be written says what the data says (`TableFits`); then the
  folder of a pair holds that pair (`TxtOfPair`, `JsonOfPair`), plots show it
  (`PlotFits`), and a graph is published when its turn has come, not before
  (`NotYet`, `Published`).
- `QmpProofs`. For `AnswersLagByInterrupts` `IInv` adds that both streams hold the
  answers in the order of their commands (`InOrder`), that answered commands
  come before pending ones (`Numbered`), and that as long as anything can be
  read there is one pending answer per interrupted read and one for the call
  in progress (`PendingCount`); the lag is that count minus the one just read.
- `BatchStatsProofs`. The invariant says what each parser remembers as a function
  of the trace (`Memory`: the last opening event with nothing since that closes
  or drops it, and so on for gaps, series, nested pairs and ends of batches),
  that the open batch and the kept ones hold exactly what was due at their
  events, in the order of the last events (`BatchHolds`, `KeptHolds`, from which
  "none twice" follows), and that `is_batch_invalid` tells whether the open batch
  was disturbed (`InvalidIfDisturbed`). One lemma per family of parsers shows
  that it counts what is due (`CountedIsDue`; for series, that an even list is a whole call or a torn one, `EvenIsWholeOrTorn`), one that what was due at earlier
  events stays due as the trace grows (`DueStays`), one that a closed batch never
  changes its verdict (`BatchesGrow`). `CountInv` adds, for `EventsAddUp`, that
  a boundary is remembered from the first end on.
- `LatencyParserProofs`, about `TestTimes`. The mode the automaton believes a task
  to be in is the one it is in, or `"init"`, unless the task has strayed since
  its last event (`ModesTrue`), so an assertion fails only for such a task;
  `last_change` is the time of an event read, so no difference is negative
  (`IInv`). For `TimesPerTransaction`, `CInv` adds when a running thread of QEMU is the
  one the last event named and has that event's time in `last_change`
  (`RunsSince`); what others hold there is stale, and the lemmas about switches
  show that for a thread of QEMU it is overwritten before it is charged, since
  no switch to or from one goes unseen. `KnownMode` says
  which mode the window has told of a task. `last_exit` is the last exit of the
  window, and outside of the guest no entry has come after it (`ExitIsLast`,
  `EntriesBefore`), so no exit is credited twice. A row has been written per
  boundary (`Closings`), and each portion holds what the trace tells of it
  (`Charged`); each step then adds exactly one interval to one sum. Sums are over
  sets: that the recursive function behind `MapThenSumSet` exists, that it does
  not depend on the order (`SumTakes`) and that it grows by the term that is
  added (`SumGrows`) is shown by smallest counterexamples, since the library's
  induction theorems cannot be instantiated.
- `LatencyParserProofs`, about `TraceMerge`. `ClockInv` says that the last offset in
  the trace is the one in force (`OffsetRecorded`), that until the bound of the
  clock the guest's time stamps minus its signed value are the host's
  (`ClockKnown`), and that this holds of every event of the guest there is
  (`Dated`): before the begin marker there is none, after it no reset. Events
  are in order of strictly growing times (`Chronological`), so an event's place
  in the stable sort is its place in reality (`StableSortFacts`), and the window
  is an interval of positions. For `PairsBelongTogether`, `ProtocolInv` says that
  requests and answers of netperf come in turn, exits and entries too, whatever
  others do in between, that an MMIO or MSR event follows its exit at once, and
  what netperf and the vCPU do next. A window of such a trace is one too
  (`WindowProtocol`). Each walk of the parser is then shown to be in the state
  that the reference has for the part it has read: what is pending is the last
  position if it opens a pair, and the times are the reference's for that part,
  which grow by one when a position is added (`TimesGrow`). No assumption about
  where the window begins is needed: an answer, an entry or a note without its
  opening event leaves the walk as it is.

Model-checked only:

- Liveness (`SessionEnds`, `CallsReturn`, `RunEnds`), which is out of the
  prover's reach with fairness and `ENABLED`.
- The violated properties.

## 5. Not modelled

- What is done on the command line only: bridges, vhost, sidecore, CPU pinning
  of the guest, netperf's options. The ssh and shell helpers appear as commands
  that fail or not.
- Graphs derived from derived graphs: `Measurement` and `Comparisons` let a
  `RatioGraph` stand over graphs that sensors fill. The lists of
  `tests/seq/qemu_step_comparison.py` are so; `test_qemu_throughput.py:162` has
  a `FuncGraph` over a `RatioGraph`, whose `data` its own creation fills.
- Values: what a counter counts, throughput, statistics over samples and
  durations, the rows of the CSV files, plotting.
- Text: the regular expressions and the layout of trace files, symbols of
  addresses, event filters and kprobe definitions, quoting.
- Two Python processes on the host at the same time.
- `pull_event`, `get_events` and `accept` of the QMP client: nothing calls them.
- `PacketNumberSensor`, the error bar and matplotlib graphs: no list of sensors
  holds one. `GraphScatter` keeps points of its own, from pairs formed like
  those of `RatioGraph`.
- VMware and VirtualBox: they start and stop services and drivers of their own
  around the harness that `TestRun` models. VMware has no state beyond that;
  VirtualBox counts its VMs (`virtualBox_count`) in one sequential process.
- Several CPUs in one analysis: the parsers of exits read one, the host's second.
- The test scripts other than `tests/seq/qemu_step_comparison.py`: they are
  values of the constants.
- Top-level scripts under `traces/` that print one value.

## 6. Plan

What is left widens the model:

1. Merged traces with notes in `BatchStats`, with events of two CPUs: whether
   the note of another CPU's event turns an exit into a kick.
2. `TwoVM`: that the assertion is reached by every pair, as a theorem about all
   lists of VMs rather than one trace.
