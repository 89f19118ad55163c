----------------------------- MODULE TestTimes ------------------------------
(***************************************************************************)
(* kernel_traces/latency_parser.py: class TestTimes, the automaton that    *)
(* attributes the time of host CPU 2 to tasks and modes, transaction by    *)
(* transaction, and the two drivers that feed it a merged trace.           *)
(*                                                                         *)
(* The input is what a CPU can really do: tasks enter and leave the kernel *)
(* and the guest in turn, one runs at a time, and the window that is read  *)
(* starts anywhere.  The automaton sees only what is recorded of CPU 2: a  *)
(* switch if QEMU's threads leave or get the CPU (the filter of trace_     *)
(* performance.py:124), and of a task that is moved to another CPU nothing *)
(* until it is back (latency_parser.py:533, 570).  QEMU's threads are not  *)
(* moved: it is started under numactl -C.                                  *)
(***************************************************************************)
EXTENDS Naturals, Sequences, FiniteSets, FiniteSetsExt

CONSTANTS
    Task,           \* the tasks of CPU 2, named by their pid
    Idle,           \* pid 0, the idle task
    Qemu,           \* the threads of QEMU on CPU 2
    Vcpu,           \* the vCPU thread of QEMU
    NetperfPid,     \* netperf's pid in the guest, which a task may have, too
    Reason,         \* reasons of an exit
    Ending,         \* those with HLT, or with KICK in the note
    MaxTrace,       \* bound: the length of the window
    Time            \* the time stamps of its events, which are sorted by them

ASSUME TimesAssumption ==
    /\ IsFiniteSet(Task)
    /\ Idle \in Task /\ Vcpu \in Qemu
    /\ Qemu \subseteq Task \ {Idle}
    /\ Ending \subseteq Reason
    /\ MaxTrace \in Nat
    /\ Time \in [1 .. MaxTrace -> Nat]
    /\ \A i, j \in 1 .. MaxTrace : i <= j => Time[i] <= Time[j]

Measured == {"vm", "kernel", "user"}        \* MODE_ALL
Mode     == Measured \cup {"init"}
Driver   == {"latency", "throughput"}       \* the two *_split_to_time_portions

VARIABLES
    driver,
    log,            \* the events of the window, in the order of their time stamps
    running,        \* the CPU: the task that runs
    actual,         \* what each task really executes, on CPU 2 or elsewhere
    strayed,        \* history: has changed modes elsewhere since its last own event
    mode, lastChange, pidVcpu, pidIothread, lastExit,   \* fields of TestTimes
    current,        \* current_times, current_exits, current_switch, current_syscalls
    results,        \* results, exits_results, count_switch and count_syscalls
    raised          \* an assertion has failed

cpu    == <<driver, running, actual, strayed>>
parser == <<mode, lastChange, pidVcpu, pidIothread, lastExit>>
vars   == <<driver, log, running, actual, strayed, mode, lastChange, pidVcpu, pidIothread,
            lastExit, current, results, raised>>

NoExit == 0
Nothing ==
    [times    |-> [t \in Task |-> [m \in Mode |-> 0]],
     exits    |-> [r \in Reason |-> 0],
     switches |-> 0,
     syscalls |-> 0]

Portion == [times : [Task -> [Mode -> Nat]], exits : [Reason -> Nat],
            switches : Nat, syscalls : Nat]
Event   == [kind : {"exit", "entry", "enter", "ppoll", "return", "switch", "send"},
            pid : Task, arg : Reason \cup Task]

TypeOK ==
    /\ driver \in Driver
    /\ log \in Seq(Event)
    /\ running \in Task
    /\ actual \in [Task -> Measured]
    /\ strayed \subseteq Task \ (Qemu \cup {Idle})
    /\ mode \in [Task -> Mode]
    /\ lastChange \in [Task -> Nat]
    /\ pidVcpu \in {Idle, Vcpu}
    /\ pidIothread \in Task
    /\ lastExit \in 0 .. Len(log)
    /\ current \in Portion
    /\ results \in Seq(Portion)
    /\ raised \in BOOLEAN

Init ==
    /\ driver \in Driver
    /\ log = <<>>
    /\ running \in Task
    /\ actual \in [Task -> Measured]
    /\ \A t \in Task \ {Vcpu} : actual[t] # "vm"
    /\ actual[Idle] = "kernel"
    /\ strayed = {}
    /\ mode = [t \in Task |-> "init"]
    /\ lastChange = [t \in Task |-> 0]
    /\ pidVcpu = Idle
    /\ pidIothread = Idle
    /\ lastExit = NoExit
    /\ current = Nothing
    /\ results = <<>>
    /\ raised = FALSE

Now == Time[Len(log) + 1]

-----------------------------------------------------------------------------
(* The event is read; the CPU moves on with it. *)
Happens(kind, t, arg, next) ==
    /\ ~raised
    /\ Len(log) < MaxTrace
    /\ running = t
    /\ log' = Append(log, [kind |-> kind, pid |-> t, arg |-> arg])
    /\ actual' = [actual EXCEPT ![t] = next]
    /\ UNCHANGED driver

(* update_time *)
TimeSince(t) == Now - lastChange[t]
Updated(t)   == [current.times EXCEPT ![t][mode[t]] = @ + TimeSince(t)]

(* The assertion at the head of a handler fails. *)
Raises ==
    /\ raised' = TRUE
    /\ UNCHANGED <<strayed, mode, lastChange, pidVcpu, pidIothread, lastExit, current, results>>

Enters(t, m) ==
    /\ mode' = [mode EXCEPT ![t] = m]
    /\ lastChange' = [lastChange EXCEPT ![t] = Now]
    /\ strayed' = strayed \ {t}
    /\ UNCHANGED raised

(***************************************************************************)
(* start_transaction, at an exit that ends a batch of packets: the time up *)
(* to now belongs to the transaction that ends.                            *)
(***************************************************************************)
EndsTransaction(r) == driver = "throughput" /\ r \in Ending
Closed(t) == IF mode[t] = "init" THEN current ELSE [current EXCEPT !.times = Updated(t)]
Opened(t) ==
    IF mode[t] = "init" THEN [Nothing EXCEPT !.times[t]["init"] = TimeSince(t)] ELSE Nothing

(* event_exit *)
Exit(r) ==
    /\ actual[Vcpu] = "vm"
    /\ Happens("exit", Vcpu, r, "kernel")
    /\ UNCHANGED <<running, pidIothread>>
    /\ IF mode[Vcpu] \in {"init", "vm"}
       THEN /\ Enters(Vcpu, "kernel")
            /\ pidVcpu' = Vcpu
            /\ lastExit' = Len(log')
            /\ IF EndsTransaction(r)
               THEN results' = Append(results, Closed(Vcpu)) /\ current' = Opened(Vcpu)
               ELSE current' = [current EXCEPT !.times = Updated(Vcpu)] /\ UNCHANGED results
       ELSE Raises

(* event_enter: the exit is over; its reason is credited with its whole time. *)
ExitOver ==
    IF lastExit = NoExit THEN current.exits
    ELSE [current.exits EXCEPT ![log[lastExit].arg] = @ + Now - Time[lastExit]]

Entry ==
    /\ actual[Vcpu] = "kernel"
    /\ Happens("entry", Vcpu, Vcpu, "vm")
    /\ UNCHANGED running
    /\ IF mode[Vcpu] \in {"init", "kernel"}
       THEN /\ Enters(Vcpu, "vm")
            /\ pidVcpu' = Vcpu
            /\ current' = [current EXCEPT !.times = Updated(Vcpu), !.exits = ExitOver]
            /\ UNCHANGED <<pidIothread, lastExit, results>>
       ELSE Raises

(* event_syscall_enter: whoever calls ppoll is taken for the I/O thread. *)
SyscallEnter(t, kind) ==
    /\ kind \in {"enter", "ppoll"}
    /\ t # Idle
    /\ actual[t] = "user"
    /\ Happens(kind, t, t, "kernel")
    /\ UNCHANGED running
    /\ IF mode[t] \in {"init", "user"}
       THEN /\ Enters(t, "kernel")
            /\ pidIothread' = IF kind = "ppoll" THEN t ELSE pidIothread
            /\ current' = [current EXCEPT !.times = Updated(t), !.syscalls = @ + 1]
            /\ UNCHANGED <<pidVcpu, lastExit, results>>
       ELSE Raises

(* event_syscall_exit *)
AfterSyscallKernel == "kernel"      \* mutant: the mode is not reset
AfterSyscall == "user"

SyscallExit(t) ==
    /\ t # Idle
    /\ actual[t] = "kernel"
    /\ Happens("return", t, t, "user")
    /\ UNCHANGED running
    /\ IF mode[t] \in {"init", "kernel"}
       THEN /\ Enters(t, AfterSyscall)
            /\ current' = [current EXCEPT !.times = Updated(t)]
            /\ UNCHANGED <<pidVcpu, pidIothread, lastExit, results>>
       ELSE Raises

(***************************************************************************)
(* event_sched_switch: the task that leaves is charged, but only the one   *)
(* that comes gets a new last_change.  So a task that gets the CPU back    *)
(* unseen is charged again from where it had it the last time; this is the *)
(* lot of tasks that are not QEMU's.                                       *)
(***************************************************************************)
ChangeOnLeave(t, n) == [lastChange EXCEPT ![t] = Now]   \* mutant: the wrong task
ChangeOnSwitch(t, n) == [lastChange EXCEPT ![n] = Now]

SchedSwitch(t, n) ==
    /\ n # t
    /\ t \in Qemu \/ n \in Qemu
    /\ Happens("switch", t, n, actual[t])
    /\ running' = n
    /\ current' = [current EXCEPT !.times = Updated(t), !.switches = @ + 1]
    /\ lastChange' = ChangeOnSwitch(t, n)
    /\ UNCHANGED <<strayed, mode, pidVcpu, pidIothread, lastExit, results, raised>>

(* The filter of sched_switch drops a switch without QEMU.                 *)
SwitchUnseen(t, n) ==
    /\ ~raised
    /\ running = t /\ n \in Task \ {t}
    /\ t \notin Qemu /\ n \notin Qemu
    /\ running' = n
    /\ UNCHANGED <<driver, log, actual, strayed, parser, current, results, raised>>

(* On another CPU a task makes, or returns from, a system call.            *)
Elsewhere(t) ==
    /\ ~raised
    /\ t \in Task \ (Qemu \cup {Idle, running})
    /\ actual' = [actual EXCEPT ![t] = IF @ = "user" THEN "kernel" ELSE "user"]
    /\ strayed' = strayed \cup {t}
    /\ UNCHANGED <<driver, log, running, parser, current, results, raised>>

(***************************************************************************)
(* sys_sendto of netperf in the guest, a transaction of latency_split.     *)
(* The pid is one of the guest: if a task of the host with the same pid is *)
(* known, start_transaction charges it, whether it runs or not.            *)
(***************************************************************************)
ChargedForNetperf == NetperfPid \in Task /\ mode[NetperfPid] # "init"

Send ==
    /\ driver = "latency"
    /\ actual[Vcpu] = "vm"
    /\ Happens("send", Vcpu, Vcpu, "vm")
    /\ IF ChargedForNetperf
       THEN /\ results' = Append(results, Closed(NetperfPid))
            /\ lastChange' = [lastChange EXCEPT ![NetperfPid] = Now]
       ELSE results' = Append(results, current) /\ UNCHANGED lastChange
    /\ current' = Nothing
    /\ UNCHANGED <<running, strayed, mode, pidVcpu, pidIothread, lastExit, raised>>

Next ==
    \/ \E r \in Reason : Exit(r)
    \/ Entry
    \/ \E t \in Task : SyscallEnter(t, "enter") \/ SyscallEnter(t, "ppoll") \/ SyscallExit(t)
    \/ \E t, n \in Task : SchedSwitch(t, n) \/ SwitchUnseen(t, n)
    \/ \E t \in Task : Elsewhere(t)
    \/ Send

Spec == Init /\ [][Next]_vars

-----------------------------------------------------------------------------
(* What the trace says, without the automaton. *)
Host == {i \in DOMAIN log : log[i].kind # "send"}
Boundary == {i \in DOMAIN log :
                \/ log[i].kind = "send"
                \/ log[i].kind = "exit" /\ EndsTransaction(log[i].arg)}

(* The transaction what ends at position j belongs to. *)
Transaction(j) == 1 + Cardinality({b \in Boundary : b < j})

(* In a set of positions, each but the last with the next one. *)
Neighbours(S) == {<<i, Min({n \in S : i < n})>> : i \in {h \in S : \E n \in S : h < n}}

(* CPU 2 between two neighbouring events of the host. *)
Intervals == Neighbours(Host)
Length == [ij \in (1 .. MaxTrace) \X (1 .. MaxTrace) |-> Time[ij[2]] - Time[ij[1]]]
Runner(i)  == IF log[i].kind = "switch" THEN log[i].arg ELSE log[i].pid

(* What t executes after position i, if an event has told since the window began. *)
ModeChanges(t, i) ==
    {j \in Host : j <= i /\ log[j].pid = t /\ log[j].kind # "switch"}
ModeAfter(t, i) ==
    IF ModeChanges(t, i) = {} THEN "init"
    ELSE LET last == log[Max(ModeChanges(t, i))].kind
         IN  IF last = "entry" THEN "vm" ELSE IF last = "return" THEN "user" ELSE "kernel"

Spans(k, t, m) ==
    {ij \in Intervals : /\ Runner(ij[1]) = t
                        /\ ModeAfter(t, ij[1]) = m
                        /\ Transaction(ij[2]) = k}
TimeOf(k, t, m) == SumFunctionOnSet(Length, Spans(k, t, m))

(* An exit lasts from its event to the next entry, whoever runs meanwhile. *)
ExitsOf(k, r) ==
    LET H == Host
    IN  {ij \in H \X H :
            /\ log[ij[1]].kind = "exit" /\ log[ij[1]].arg = r
            /\ log[ij[2]].kind = "entry" /\ Transaction(ij[2]) = k
            /\ ij[1] < ij[2]
            /\ \A h \in H : ij[1] < h /\ h < ij[2] => log[h].kind \notin {"exit", "entry"}}

ExitTime(k, r) == SumFunctionOnSet(Length, ExitsOf(k, r))

CountOf(k, kinds) == Cardinality({i \in Host : log[i].kind \in kinds /\ Transaction(i) = k})

Portions == Append(results, current)

(* The tasks whose time is charged as it was spent: QEMU's, but for one    *)
(* that has the pid of netperf in the guest.                               *)
Tracked == Qemu \ {NetperfPid}

(***************************************************************************)
(* On a window of a trace without gaps, wherever it begins, and although   *)
(* the handlers know no task's first mode, an assertion of theirs fails    *)
(* for a task only that has entered or left the kernel on another CPU      *)
(* since its last system call on this one: never for a thread of QEMU.     *)
(***************************************************************************)
FailsOnlyForStrayed == raised => log[Len(log)].pid \in strayed \ Qemu

(***************************************************************************)
(* For every transaction, thread of QEMU and mode the automaton charges    *)
(* exactly the intervals in which that thread ran in that mode: none twice *)
(* over a switch, none while another task had the CPU, none in two         *)
(* transactions, whatever tasks come and go unseen in between.  Every exit *)
(* is charged once, with its whole time, to its reason in the transaction  *)
(* in which the guest goes on; recorded switches and system calls are      *)
(* counted in the transaction they happen in.                              *)
(***************************************************************************)
TimesPerTransaction ==
    ~raised =>
        \A k \in DOMAIN Portions :
            /\ \A t \in Tracked, m \in Measured : Portions[k].times[t][m] = TimeOf(k, t, m)
            /\ \A r \in Reason : Portions[k].exits[r] = ExitTime(k, r)
            /\ Portions[k].switches = CountOf(k, {"switch"})
            /\ Portions[k].syscalls = CountOf(k, {"enter", "ppoll"})
=============================================================================
