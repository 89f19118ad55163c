------------------------- MODULE LatencyParserProofs --------------------------
(***************************************************************************)
(* Proofs about kernel_traces/latency_parser.py, of its two models.        *)
(*                                                                         *)
(* TestTimes, for any tasks, reasons and sorted time stamps and for        *)
(* windows of any length: the type invariant (no interval is negative, no  *)
(* key unknown), that an assertion of the handlers fails only for a task   *)
(* that has been on another CPU, and that the intervals of QEMU's threads  *)
(* are each charged once, to their thread, mode and transaction.           *)
(*                                                                         *)
(* TraceMerge, for any clocks, any number of boots and traces of any       *)
(* length: the merged trace is what happened, and the latencies, exit      *)
(* times and batches that are read from it are the real ones.              *)
(***************************************************************************)
EXTENDS TestTimes, TraceMerge, FiniteSetTheorems, WellFoundedInduction, TLAPS

(* The window does not outgrow its bound. *)
Window == Len(log) <= MaxTrace

(* last_change of a task is 0 or the time of an event that has been read. *)
Seen == \A t \in Task : lastChange[t] = 0 \/ \E i \in 1 .. Len(log) : lastChange[t] = Time[i]

(* last_exit, if there is one, is an exit and has a reason. *)
ExitSeen == lastExit # NoExit => log[lastExit].kind = "exit" /\ log[lastExit].arg \in Reason

(***************************************************************************)
(* What the automaton takes a task to do is what the task does, or the     *)
(* window has not told yet, unless the task has been elsewhere.            *)
(***************************************************************************)
ModesTrue == \A t \in Task \ strayed : mode[t] \in {"init", actual[t]}

(* The inductive invariant. *)
IInv == TypeOK /\ Window /\ Seen /\ ExitSeen /\ ModesTrue /\ FailsOnlyForStrayed

-----------------------------------------------------------------------------
(* A portion stays one when counters and tables of counters are replaced. *)
LEMMA PortionUpdated ==
    ASSUME NEW p \in Portion, NEW T \in [Task -> [Mode -> Nat]]
    PROVE  /\ [p EXCEPT !.times = T] \in Portion
           /\ \A E \in [Reason -> Nat] : [p EXCEPT !.times = T, !.exits = E] \in Portion
           /\ \A n \in Nat : [p EXCEPT !.times = T, !.syscalls = n] \in Portion
           /\ \A n \in Nat : [p EXCEPT !.times = T, !.switches = n] \in Portion
BY DEF Portion

(* The parts of a portion. *)
LEMMA PortionFields ==
    ASSUME NEW p \in Portion
    PROVE  /\ p.times \in [Task -> [Mode -> Nat]] /\ p.exits \in [Reason -> Nat]
           /\ p.switches \in Nat /\ p.syscalls \in Nat
BY DEF Portion

(* A transaction begins as an empty portion. *)
LEMMA NothingPortion == Nothing \in Portion
<1>1. [t \in Task |-> [m \in Mode |-> 0]] \in [Task -> [Mode -> Nat]]
  OBVIOUS
<1>2. [r \in Reason |-> 0] \in [Reason -> Nat]
  OBVIOUS
<1> QED
  BY <1>1, <1>2 DEF Nothing, Portion

(* One task's time in one mode is replaced. *)
LEMMA TimesUpdated ==
    ASSUME NEW T \in [Task -> [Mode -> Nat]], NEW t \in Task, NEW m \in Mode, NEW n \in Nat
    PROVE  [T EXCEPT ![t][m] = n] \in [Task -> [Mode -> Nat]]
OBVIOUS

(* The time stamps, one by one. *)
LEMMA TimeSorted ==
    /\ MaxTrace \in Nat
    /\ \A i \in 1 .. MaxTrace : Time[i] \in Nat
    /\ \A i, j \in 1 .. MaxTrace : i <= j => Time[i] <= Time[j]
BY TimesAssumption

(***************************************************************************)
(* At an event within the window, the time stamp is known and no earlier   *)
(* than any last_change or than the last exit: no interval is negative.    *)
(***************************************************************************)
LEMMA NowIsLate ==
    ASSUME TypeOK, Seen, Len(log) < MaxTrace
    PROVE  /\ Now \in Nat
           /\ \A t \in Task : TimeSince(t) \in Nat
           /\ lastExit # NoExit => Time[lastExit] \in Nat /\ Time[lastExit] <= Now
<1>1. Len(log) \in Nat /\ MaxTrace \in Nat
  BY TimeSorted DEF TypeOK
<1>2. Len(log) + 1 \in 1 .. MaxTrace
  BY <1>1
<1>3. Now \in Nat
  BY <1>2, TimeSorted DEF Now
<1>4. ASSUME NEW i \in 1 .. Len(log)
      PROVE  Time[i] \in Nat /\ Time[i] <= Now
  <2>1. i \in 1 .. MaxTrace /\ i <= Len(log) + 1
    BY <1>1
  <2> QED
    BY <1>2, <2>1, TimeSorted DEF Now
<1>5. ASSUME NEW t \in Task
      PROVE  TimeSince(t) \in Nat
  <2>1. lastChange[t] = 0 \/ \E i \in 1 .. Len(log) : lastChange[t] = Time[i]
    BY DEF Seen
  <2>2. lastChange[t] \in Nat /\ lastChange[t] <= Now
    BY <1>3, <1>4, <2>1
  <2> QED
    BY <1>3, <2>2 DEF TimeSince
<1>6. ASSUME lastExit # NoExit
      PROVE  Time[lastExit] \in Nat /\ Time[lastExit] <= Now
  <2>1. lastExit \in 0 .. Len(log)
    BY DEF TypeOK
  <2>2. lastExit \in 1 .. Len(log)
    BY <1>1, <1>6, <2>1 DEF NoExit
  <2> QED
    BY <1>4, <2>2
<1> QED
  BY <1>3, <1>5, <1>6

(* update_time keeps the table of times. *)
LEMMA UpdatedTimes ==
    ASSUME TypeOK, Seen, Len(log) < MaxTrace, NEW t \in Task
    PROVE  Updated(t) \in [Task -> [Mode -> Nat]]
<1>1. current.times \in [Task -> [Mode -> Nat]]
  BY PortionFields DEF TypeOK
<1>2. mode[t] \in Mode /\ TimeSince(t) \in Nat
  BY NowIsLate DEF TypeOK
<1>3. current.times[t][mode[t]] + TimeSince(t) \in Nat
  BY <1>1, <1>2
<1>4. Updated(t) = [current.times EXCEPT ![t][mode[t]] = current.times[t][mode[t]] + TimeSince(t)]
  BY DEF Updated
<1> QED
  BY <1>1, <1>2, <1>3, <1>4, TimesUpdated

(* What an exit and an entry make of the portion. *)
LEMMA TransactionEnds ==
    ASSUME TypeOK, Seen, Len(log) < MaxTrace, NEW t \in Task
    PROVE  Closed(t) \in Portion /\ Opened(t) \in Portion
<1>1. current \in Portion
  BY DEF TypeOK
<1>2. [current EXCEPT !.times = Updated(t)] \in Portion
  <2>1. Updated(t) \in [Task -> [Mode -> Nat]]
    BY UpdatedTimes
  <2> QED
    BY <1>1, <2>1, PortionUpdated
<1>3. Closed(t) \in Portion
  BY <1>1, <1>2 DEF Closed
<1>4. [Nothing EXCEPT !.times[t]["init"] = TimeSince(t)] \in Portion
  <2>1. Nothing.times \in [Task -> [Mode -> Nat]]
    BY NothingPortion, PortionFields
  <2>2. "init" \in Mode /\ TimeSince(t) \in Nat
    BY NowIsLate DEF Mode
  <2>3. [Nothing.times EXCEPT ![t]["init"] = TimeSince(t)] \in [Task -> [Mode -> Nat]]
    BY <2>1, <2>2, TimesUpdated
  <2>4. [Nothing EXCEPT !.times[t]["init"] = TimeSince(t)]
            = [Nothing EXCEPT !.times = [Nothing.times EXCEPT ![t]["init"] = TimeSince(t)]]
    OBVIOUS
  <2>5. [Nothing EXCEPT !.times = [Nothing.times EXCEPT ![t]["init"] = TimeSince(t)]] \in Portion
    BY <2>3, NothingPortion, PortionUpdated
  <2> QED
    BY <2>4, <2>5
<1>5. Opened(t) \in Portion
  BY <1>4, NothingPortion DEF Opened
<1> QED
  BY <1>3, <1>5

(* The exit that is over is counted for its reason. *)
LEMMA ExitsCredited ==
    ASSUME TypeOK, Seen, ExitSeen, Len(log) < MaxTrace
    PROVE  ExitOver \in [Reason -> Nat]
<1>1. current.exits \in [Reason -> Nat]
  BY PortionFields DEF TypeOK
<1>2. CASE lastExit = NoExit
  BY <1>1, <1>2 DEF ExitOver
<1>3. CASE lastExit # NoExit
  <2>1. log[lastExit].arg \in Reason
    BY <1>3 DEF ExitSeen
  <2>2. Now \in Nat /\ Time[lastExit] \in Nat /\ Time[lastExit] <= Now
    BY <1>3, NowIsLate
  <2>3. current.exits[log[lastExit].arg] + Now - Time[lastExit] \in Nat
    BY <1>1, <2>1, <2>2
  <2>4. ExitOver = [current.exits EXCEPT ![log[lastExit].arg] =
                       current.exits[log[lastExit].arg] + Now - Time[lastExit]]
    BY <1>3 DEF ExitOver
  <2> QED
    BY <1>1, <2>1, <2>3, <2>4
<1> QED
  BY <1>2, <1>3

-----------------------------------------------------------------------------
(* The kinds of events, as Happens is called with them. *)
Kinds == {"exit", "entry", "enter", "ppoll", "return", "switch", "send"}

(* What every event does: it is the last of a window that is one longer. *)
LEMMA AnEvent ==
    ASSUME TypeOK, NEW kind \in Kinds, NEW t \in Task, NEW arg \in Reason \cup Task,
           NEW next \in Measured, Happens(kind, t, arg, next)
    PROVE  /\ ~raised /\ driver' = driver
           /\ Len(log) < MaxTrace /\ Len(log) \in Nat /\ MaxTrace \in Nat
           /\ log' \in Seq(Event) /\ Len(log') = Len(log) + 1
           /\ Len(log') <= MaxTrace
           /\ \A i \in 1 .. Len(log) : log'[i] = log[i]
           /\ log'[Len(log) + 1].kind = kind /\ log'[Len(log) + 1].arg = arg
           /\ log'[Len(log) + 1].pid = t
           /\ actual' \in [Task -> Measured] /\ actual'[t] = next
           /\ \A u \in Task : u # t => actual'[u] = actual[u]
<1> DEFINE e == [kind |-> kind, pid |-> t, arg |-> arg]
<1>1. ~raised /\ Len(log) < MaxTrace /\ log' = Append(log, e) /\ driver' = driver
  BY DEF Happens
<1>2. actual' = [actual EXCEPT ![t] = next] /\ actual \in [Task -> Measured]
  BY DEF Happens, TypeOK
<1>3. e \in Event /\ e.kind = kind /\ e.arg = arg /\ e.pid = t
  BY DEF Event, Kinds
<1>4. log \in Seq(Event)
  BY DEF TypeOK
<1> HIDE DEF e
<1>5. /\ log' \in Seq(Event) /\ Len(log') = Len(log) + 1 /\ Len(log) \in Nat
      /\ \A i \in 1 .. Len(log) : log'[i] = log[i]
      /\ log'[Len(log) + 1] = e
  BY <1>1, <1>3, <1>4
<1>6. /\ actual' \in [Task -> Measured] /\ actual'[t] = next
      /\ \A u \in Task : u # t => actual'[u] = actual[u]
  BY <1>2
<1> QED
  BY <1>1, <1>3, <1>5, <1>6, TimesAssumption

(* What the window tells of the last changes and the last exit goes on to hold. *)
LEMMA WindowGrows ==
    ASSUME TypeOK, Seen, ExitSeen, Len(log) \in Nat, Len(log') = Len(log) + 1,
           \A i \in 1 .. Len(log) : log'[i] = log[i],
           \A u \in Task : lastChange'[u] = lastChange[u] \/ lastChange'[u] = Now
    PROVE  /\ Seen'
           /\ lastExit' = lastExit => ExitSeen' /\ lastExit' \in 0 .. Len(log')
<1>1. ASSUME NEW u \in Task
      PROVE  lastChange'[u] = 0 \/ \E i \in 1 .. Len(log') : lastChange'[u] = Time[i]
  <2>1. CASE lastChange'[u] = Now
    <3>1. Len(log') \in 1 .. Len(log') /\ Now = Time[Len(log')]
      BY DEF Now
    <3> QED
      BY <2>1, <3>1
  <2>2. CASE lastChange'[u] = lastChange[u]
    <3>1. lastChange[u] = 0 \/ \E i \in 1 .. Len(log) : lastChange[u] = Time[i]
      BY DEF Seen
    <3>2. 1 .. Len(log) \subseteq 1 .. Len(log')
      OBVIOUS
    <3> QED
      BY <2>2, <3>1, <3>2
  <2> QED
    BY <2>1, <2>2
<1>2. Seen'
  BY <1>1 DEF Seen
<1>3. ASSUME lastExit' = lastExit
      PROVE  ExitSeen' /\ lastExit' \in 0 .. Len(log')
  <2>1. lastExit \in 0 .. Len(log)
    BY DEF TypeOK
  <2>2. lastExit # NoExit => lastExit \in 1 .. Len(log)
    BY <2>1 DEF NoExit
  <2>3. ExitSeen'
    BY <1>3, <2>2 DEF ExitSeen, NoExit
  <2> QED
    BY <1>3, <2>1, <2>3
<1> QED
  BY <1>2, <1>3

(***************************************************************************)
(* A handler that sets the mode of t to what t does from now on and its    *)
(* last_change to now keeps both true.                                     *)
(***************************************************************************)
LEMMA EntersTruly ==
    ASSUME TypeOK, ModesTrue, NEW t \in Task, NEW m \in Measured, Now \in Nat,
           Enters(t, m), actual'[t] = m,
           \A u \in Task : u # t => actual'[u] = actual[u]
    PROVE  /\ mode' \in [Task -> Mode] /\ ModesTrue'
           /\ lastChange' \in [Task -> Nat]
           /\ \A u \in Task : lastChange'[u] = lastChange[u] \/ lastChange'[u] = Now
           /\ raised' = raised /\ strayed' = strayed \ {t}
           /\ strayed' \subseteq Task \ (Qemu \cup {Idle})
<1>1. mode' = [mode EXCEPT ![t] = m] /\ lastChange' = [lastChange EXCEPT ![t] = Now]
      /\ raised' = raised /\ strayed' = strayed \ {t}
  BY DEF Enters
<1>2. mode \in [Task -> Mode] /\ lastChange \in [Task -> Nat] /\ m \in Mode
  BY DEF TypeOK, Mode
<1>3. mode' \in [Task -> Mode] /\ lastChange' \in [Task -> Nat]
  BY <1>1, <1>2
<1>4. \A u \in Task : mode'[u] = IF u = t THEN m ELSE mode[u]
  BY <1>1, <1>2
<1>5. ASSUME NEW u \in Task \ strayed'
      PROVE  mode'[u] \in {"init", actual'[u]}
  BY <1>1, <1>4 DEF ModesTrue
<1>6. ModesTrue'
  BY <1>5 DEF ModesTrue
<1>7. \A u \in Task : lastChange'[u] = lastChange[u] \/ lastChange'[u] = Now
  BY <1>1, <1>2
<1>8. strayed' \subseteq Task \ (Qemu \cup {Idle})
  BY <1>1 DEF TypeOK
<1> QED
  BY <1>1, <1>3, <1>6, <1>7, <1>8

(* The rest of the invariant, collected. *)
LEMMA Collected ==
    ASSUME driver' \in Driver, log' \in Seq(Event), Len(log') <= MaxTrace,
           running' \in Task, actual' \in [Task -> Measured], mode' \in [Task -> Mode],
           lastChange' \in [Task -> Nat], pidVcpu' \in {Idle, Vcpu}, pidIothread' \in Task,
           lastExit' \in 0 .. Len(log'), current' \in Portion, results' \in Seq(Portion),
           raised' = FALSE, strayed' \subseteq Task \ (Qemu \cup {Idle}),
           Seen', ExitSeen', ModesTrue'
    PROVE  IInv'
<1>1. raised' \in BOOLEAN /\ ~raised'
  OBVIOUS
<1>2. TypeOK'
  BY <1>1 DEF TypeOK
<1> QED
  BY <1>1, <1>2 DEF IInv, Window, FailsOnlyForStrayed

(* An assertion fails: nothing changes but the window, and the last event  *)
(* of the window is of a task that has been elsewhere.                     *)
LEMMA RaiseStep ==
    ASSUME IInv, NEW kind \in Kinds, NEW t \in strayed, NEW next \in Measured,
           Happens(kind, t, t, next), Raises, running' = running
    PROVE  IInv'
<1>1. TypeOK /\ Window /\ Seen /\ ExitSeen /\ ModesTrue /\ t \in Task \ (Qemu \cup {Idle})
  BY DEF IInv, TypeOK
<1>2. /\ driver' = driver /\ Len(log) \in Nat
      /\ log' \in Seq(Event) /\ Len(log') = Len(log) + 1
      /\ Len(log') <= MaxTrace
      /\ \A i \in 1 .. Len(log) : log'[i] = log[i]
      /\ log'[Len(log) + 1].pid = t
      /\ actual' \in [Task -> Measured]
      /\ \A u \in Task : u # t => actual'[u] = actual[u]
  BY <1>1, AnEvent
<1>3. /\ raised' = TRUE /\ strayed' = strayed /\ mode' = mode /\ lastChange' = lastChange
      /\ pidVcpu' = pidVcpu /\ pidIothread' = pidIothread /\ lastExit' = lastExit
      /\ current' = current /\ results' = results
  BY DEF Raises
<1>4. Seen' /\ ExitSeen' /\ lastExit' \in 0 .. Len(log')
  BY <1>1, <1>2, <1>3, WindowGrows
<1>5. ModesTrue'
  BY <1>2, <1>3, <1>1 DEF ModesTrue
<1>6. FailsOnlyForStrayed'
  BY <1>1, <1>2, <1>3 DEF FailsOnlyForStrayed
<1>7. TypeOK'
  BY <1>1, <1>2, <1>3, <1>4 DEF TypeOK
<1> QED
  BY <1>2, <1>4, <1>5, <1>6, <1>7 DEF IInv, Window

-----------------------------------------------------------------------------
(* event_exit: the guest is left only when it ran, so no assertion fails. *)
LEMMA ExitStep ==
    ASSUME IInv, NEW r \in Reason, Exit(r)
    PROVE  IInv'
<1>1. TypeOK /\ Window /\ Seen /\ ExitSeen /\ ModesTrue
  BY DEF IInv
<1>2. Vcpu \in Task /\ Happens("exit", Vcpu, r, "kernel") /\ actual[Vcpu] = "vm"
  BY TimesAssumption DEF Exit
<1>3. /\ ~raised /\ driver' = driver
      /\ Len(log) < MaxTrace /\ Len(log) \in Nat /\ MaxTrace \in Nat
      /\ log' \in Seq(Event) /\ Len(log') = Len(log) + 1
      /\ Len(log') <= MaxTrace
      /\ \A i \in 1 .. Len(log) : log'[i] = log[i]
      /\ log'[Len(log) + 1].kind = "exit" /\ log'[Len(log) + 1].arg = r
      /\ actual' \in [Task -> Measured] /\ actual'[Vcpu] = "kernel"
      /\ \A u \in Task : u # Vcpu => actual'[u] = actual[u]
  BY <1>1, <1>2, AnEvent DEF Kinds, Measured
<1>4. mode[Vcpu] \in {"init", "vm"}
  BY <1>1, <1>2, TimesAssumption DEF ModesTrue, TypeOK
<1>5. /\ Enters(Vcpu, "kernel") /\ pidVcpu' = Vcpu /\ lastExit' = Len(log')
      /\ running' = running /\ pidIothread' = pidIothread
      /\ \/ results' = Append(results, Closed(Vcpu)) /\ current' = Opened(Vcpu)
         \/ current' = [current EXCEPT !.times = Updated(Vcpu)] /\ results' = results
  BY <1>4 DEF Exit
<1>6. Now \in Nat
  BY <1>1, <1>3, NowIsLate
<1>7. /\ mode' \in [Task -> Mode] /\ ModesTrue' /\ lastChange' \in [Task -> Nat]
      /\ \A u \in Task : lastChange'[u] = lastChange[u] \/ lastChange'[u] = Now
      /\ raised' = raised /\ strayed' \subseteq Task \ (Qemu \cup {Idle})
  BY <1>1, <1>2, <1>3, <1>5, <1>6, EntersTruly DEF Measured
<1>8. Seen'
  BY <1>1, <1>3, <1>7, WindowGrows
<1>9. ExitSeen' /\ lastExit' \in 0 .. Len(log')
  BY <1>3, <1>5 DEF ExitSeen
<1>10. current' \in Portion /\ results' \in Seq(Portion)
  <2>1. Closed(Vcpu) \in Portion /\ Opened(Vcpu) \in Portion
    BY <1>1, <1>2, <1>3, TransactionEnds
  <2>2. [current EXCEPT !.times = Updated(Vcpu)] \in Portion
    <3>1. Updated(Vcpu) \in [Task -> [Mode -> Nat]] /\ current \in Portion
      BY <1>1, <1>2, <1>3, UpdatedTimes DEF TypeOK
    <3> QED
      BY <3>1, PortionUpdated
  <2>3. results \in Seq(Portion)
    BY <1>1 DEF TypeOK
  <2>4. CASE results' = Append(results, Closed(Vcpu)) /\ current' = Opened(Vcpu)
    <3>1. Append(results, Closed(Vcpu)) \in Seq(Portion)
      BY <2>1, <2>3
    <3> QED
      BY <2>1, <2>4, <3>1, Zenon
  <2>5. CASE current' = [current EXCEPT !.times = Updated(Vcpu)] /\ results' = results
    BY <2>2, <2>3, <2>5, Zenon
  <2> QED
    BY <1>5, <2>4, <2>5, Zenon
<1>11. raised' = FALSE
  BY <1>1, <1>3, <1>7 DEF TypeOK
<1>12. /\ driver' \in Driver /\ running' \in Task /\ pidIothread' \in Task
       /\ pidVcpu' \in {Idle, Vcpu}
  BY <1>1, <1>3, <1>5 DEF TypeOK
<1> QED
  BY <1>3, <1>7, <1>8, <1>9, <1>10, <1>11, <1>12, Collected

(* event_enter: the guest is entered only from the kernel. *)
LEMMA EntryStep ==
    ASSUME IInv, Entry
    PROVE  IInv'
<1>1. TypeOK /\ Window /\ Seen /\ ExitSeen /\ ModesTrue
  BY DEF IInv
<1>2. Vcpu \in Task /\ Happens("entry", Vcpu, Vcpu, "vm") /\ actual[Vcpu] = "kernel"
  BY TimesAssumption DEF Entry
<1>3. /\ ~raised /\ driver' = driver
      /\ Len(log) < MaxTrace /\ Len(log) \in Nat /\ MaxTrace \in Nat
      /\ log' \in Seq(Event) /\ Len(log') = Len(log) + 1
      /\ Len(log') <= MaxTrace
      /\ \A i \in 1 .. Len(log) : log'[i] = log[i]
      /\ actual' \in [Task -> Measured] /\ actual'[Vcpu] = "vm"
      /\ \A u \in Task : u # Vcpu => actual'[u] = actual[u]
  BY <1>1, <1>2, AnEvent DEF Kinds, Measured
<1>4. mode[Vcpu] \in {"init", "kernel"}
  BY <1>1, <1>2, TimesAssumption DEF ModesTrue, TypeOK
<1>5. /\ Enters(Vcpu, "vm") /\ pidVcpu' = Vcpu /\ lastExit' = lastExit
      /\ running' = running /\ pidIothread' = pidIothread /\ results' = results
      /\ current' = [current EXCEPT !.times = Updated(Vcpu), !.exits = ExitOver]
  BY <1>4 DEF Entry
<1>6. Now \in Nat
  BY <1>1, <1>3, NowIsLate
<1>7. /\ mode' \in [Task -> Mode] /\ ModesTrue' /\ lastChange' \in [Task -> Nat]
      /\ \A u \in Task : lastChange'[u] = lastChange[u] \/ lastChange'[u] = Now
      /\ raised' = raised /\ strayed' \subseteq Task \ (Qemu \cup {Idle})
  BY <1>1, <1>2, <1>3, <1>5, <1>6, EntersTruly DEF Measured
<1>8. Seen' /\ ExitSeen' /\ lastExit' \in 0 .. Len(log')
  BY <1>1, <1>3, <1>5, <1>7, WindowGrows
<1>9. current' \in Portion /\ results' \in Seq(Portion)
  <2>1. Updated(Vcpu) \in [Task -> [Mode -> Nat]] /\ current \in Portion
    BY <1>1, <1>2, <1>3, UpdatedTimes DEF TypeOK
  <2>2. ExitOver \in [Reason -> Nat]
    BY <1>1, <1>3, ExitsCredited
  <2>3. current' \in Portion
    BY <1>5, <2>1, <2>2, PortionUpdated
  <2> QED
    BY <1>1, <1>5, <2>3 DEF TypeOK
<1>10. raised' = FALSE
  BY <1>1, <1>3, <1>7 DEF TypeOK
<1>11. /\ driver' \in Driver /\ running' \in Task /\ pidIothread' \in Task
       /\ pidVcpu' \in {Idle, Vcpu}
  BY <1>1, <1>3, <1>5 DEF TypeOK
<1> QED
  BY <1>3, <1>7, <1>8, <1>9, <1>10, <1>11, Collected

(* event_syscall_enter: a system call begins in user mode. *)
LEMMA SyscallEnterRuns ==
    ASSUME IInv, NEW t \in Task, NEW kind \in {"enter", "ppoll"}, SyscallEnter(t, kind),
           mode[t] \in {"init", "user"}
    PROVE  IInv'
<1>1. TypeOK /\ Window /\ Seen /\ ExitSeen /\ ModesTrue
  BY DEF IInv
<1>2. Happens(kind, t, t, "kernel") /\ actual[t] = "user"
  BY DEF SyscallEnter
<1>3. /\ ~raised /\ driver' = driver
      /\ Len(log) < MaxTrace /\ Len(log) \in Nat /\ MaxTrace \in Nat
      /\ log' \in Seq(Event) /\ Len(log') = Len(log) + 1
      /\ Len(log') <= MaxTrace
      /\ \A i \in 1 .. Len(log) : log'[i] = log[i]
      /\ actual' \in [Task -> Measured] /\ actual'[t] = "kernel"
      /\ \A u \in Task : u # t => actual'[u] = actual[u]
  BY <1>1, <1>2, AnEvent DEF Kinds, Measured
<1>5. /\ Enters(t, "kernel") /\ pidVcpu' = pidVcpu /\ lastExit' = lastExit
      /\ running' = running /\ pidIothread' \in {t, pidIothread} /\ results' = results
      /\ current' = [current EXCEPT !.times = Updated(t), !.syscalls = current.syscalls + 1]
  BY DEF SyscallEnter
<1>6. Now \in Nat
  BY <1>1, <1>3, NowIsLate
<1>7. /\ mode' \in [Task -> Mode] /\ ModesTrue' /\ lastChange' \in [Task -> Nat]
      /\ \A u \in Task : lastChange'[u] = lastChange[u] \/ lastChange'[u] = Now
      /\ raised' = raised /\ strayed' \subseteq Task \ (Qemu \cup {Idle})
  BY <1>1, <1>2, <1>3, <1>5, <1>6, EntersTruly DEF Measured
<1>8. Seen' /\ ExitSeen' /\ lastExit' \in 0 .. Len(log')
  BY <1>1, <1>3, <1>5, <1>7, WindowGrows
<1>9. current' \in Portion /\ results' \in Seq(Portion)
  <2>1. Updated(t) \in [Task -> [Mode -> Nat]] /\ current \in Portion
    BY <1>1, <1>3, UpdatedTimes DEF TypeOK
  <2>2. current.syscalls + 1 \in Nat
    BY <2>1, PortionFields
  <2>3. current' \in Portion
    BY <1>5, <2>1, <2>2, PortionUpdated
  <2> QED
    BY <1>1, <1>5, <2>3 DEF TypeOK
<1>10. raised' = FALSE
  BY <1>1, <1>3, <1>7 DEF TypeOK
<1>11. /\ driver' \in Driver /\ running' \in Task /\ pidIothread' \in Task
       /\ pidVcpu' \in {Idle, Vcpu}
  BY <1>1, <1>3, <1>5 DEF TypeOK
<1> QED
  BY <1>3, <1>7, <1>8, <1>9, <1>10, <1>11, Collected

(* Only a task that has been elsewhere can be taken to be in the kernel already. *)
LEMMA SyscallEnterStep ==
    ASSUME IInv, NEW t \in Task, NEW kind \in {"enter", "ppoll"}, SyscallEnter(t, kind)
    PROVE  IInv'
<1>1. CASE mode[t] \in {"init", "user"}
  BY <1>1, SyscallEnterRuns
<1>2. CASE mode[t] \notin {"init", "user"}
  <2>1. Happens(kind, t, t, "kernel") /\ actual[t] = "user" /\ running' = running /\ Raises
    BY <1>2 DEF SyscallEnter
  <2>2. t \in strayed
    BY <1>2, <2>1 DEF IInv, ModesTrue
  <2>3. kind \in Kinds /\ "kernel" \in Measured
    BY DEF Kinds, Measured
  <2> QED
    BY <2>1, <2>2, <2>3, RaiseStep
<1> QED
  BY <1>1, <1>2

(* event_syscall_exit: it ends in the kernel. *)
LEMMA SyscallExitRuns ==
    ASSUME IInv, NEW t \in Task, SyscallExit(t), mode[t] \in {"init", "kernel"}
    PROVE  IInv'
<1>1. TypeOK /\ Window /\ Seen /\ ExitSeen /\ ModesTrue
  BY DEF IInv
<1>2. Happens("return", t, t, "user") /\ actual[t] = "kernel"
  BY DEF SyscallExit
<1>3. /\ ~raised /\ driver' = driver
      /\ Len(log) < MaxTrace /\ Len(log) \in Nat /\ MaxTrace \in Nat
      /\ log' \in Seq(Event) /\ Len(log') = Len(log) + 1
      /\ Len(log') <= MaxTrace
      /\ \A i \in 1 .. Len(log) : log'[i] = log[i]
      /\ actual' \in [Task -> Measured] /\ actual'[t] = "user"
      /\ \A u \in Task : u # t => actual'[u] = actual[u]
  BY <1>1, <1>2, AnEvent DEF Kinds, Measured
<1>5. /\ Enters(t, "user") /\ pidVcpu' = pidVcpu /\ lastExit' = lastExit
      /\ running' = running /\ pidIothread' = pidIothread /\ results' = results
      /\ current' = [current EXCEPT !.times = Updated(t)]
  BY DEF SyscallExit, AfterSyscall
<1>6. Now \in Nat
  BY <1>1, <1>3, NowIsLate
<1>7. /\ mode' \in [Task -> Mode] /\ ModesTrue' /\ lastChange' \in [Task -> Nat]
      /\ \A u \in Task : lastChange'[u] = lastChange[u] \/ lastChange'[u] = Now
      /\ raised' = raised /\ strayed' \subseteq Task \ (Qemu \cup {Idle})
  BY <1>1, <1>2, <1>3, <1>5, <1>6, EntersTruly DEF Measured
<1>8. Seen' /\ ExitSeen' /\ lastExit' \in 0 .. Len(log')
  BY <1>1, <1>3, <1>5, <1>7, WindowGrows
<1>9. current' \in Portion /\ results' \in Seq(Portion)
  <2>1. Updated(t) \in [Task -> [Mode -> Nat]] /\ current \in Portion
    BY <1>1, <1>3, UpdatedTimes DEF TypeOK
  <2>2. current' \in Portion
    BY <1>5, <2>1, PortionUpdated
  <2> QED
    BY <1>1, <1>5, <2>2 DEF TypeOK
<1>10. raised' = FALSE
  BY <1>1, <1>3, <1>7 DEF TypeOK
<1>11. /\ driver' \in Driver /\ running' \in Task /\ pidIothread' \in Task
       /\ pidVcpu' \in {Idle, Vcpu}
  BY <1>1, <1>3, <1>5 DEF TypeOK
<1> QED
  BY <1>3, <1>7, <1>8, <1>9, <1>10, <1>11, Collected

LEMMA SyscallExitStep ==
    ASSUME IInv, NEW t \in Task, SyscallExit(t)
    PROVE  IInv'
<1>1. CASE mode[t] \in {"init", "kernel"}
  BY <1>1, SyscallExitRuns
<1>2. CASE mode[t] \notin {"init", "kernel"}
  <2>1. Happens("return", t, t, "user") /\ actual[t] = "kernel" /\ running' = running /\ Raises
    BY <1>2 DEF SyscallExit
  <2>2. t \in strayed
    BY <1>2, <2>1 DEF IInv, ModesTrue
  <2>3. "return" \in Kinds /\ "user" \in Measured
    BY DEF Kinds, Measured
  <2> QED
    BY <2>1, <2>2, <2>3, RaiseStep
<1> QED
  BY <1>1, <1>2

(* event_sched_switch changes no mode: a task comes back as it left. *)
LEMMA SchedSwitchStep ==
    ASSUME IInv, NEW t \in Task, NEW n \in Task, SchedSwitch(t, n)
    PROVE  IInv'
<1>1. TypeOK /\ Window /\ Seen /\ ExitSeen /\ ModesTrue
  BY DEF IInv
<1>2. Happens("switch", t, n, actual[t]) /\ actual[t] \in Measured
  BY <1>1 DEF SchedSwitch, TypeOK
<1>3. /\ ~raised /\ driver' = driver
      /\ Len(log) < MaxTrace /\ Len(log) \in Nat /\ MaxTrace \in Nat
      /\ log' \in Seq(Event) /\ Len(log') = Len(log) + 1
      /\ Len(log') <= MaxTrace
      /\ \A i \in 1 .. Len(log) : log'[i] = log[i]
      /\ actual' \in [Task -> Measured] /\ actual'[t] = actual[t]
      /\ \A u \in Task : u # t => actual'[u] = actual[u]
  BY <1>1, <1>2, AnEvent DEF Kinds
<1>4. /\ running' = n /\ mode' = mode /\ pidVcpu' = pidVcpu /\ lastExit' = lastExit
      /\ strayed' = strayed
      /\ pidIothread' = pidIothread /\ results' = results /\ raised' = raised
      /\ lastChange' = [lastChange EXCEPT ![n] = Now]
      /\ current' = [current EXCEPT !.times = Updated(t), !.switches = current.switches + 1]
  BY DEF SchedSwitch, ChangeOnSwitch
<1>5. Now \in Nat
  BY <1>1, <1>3, NowIsLate
<1>6. mode' \in [Task -> Mode] /\ lastChange \in [Task -> Nat]
  BY <1>1, <1>4 DEF TypeOK
<1>7. /\ lastChange' \in [Task -> Nat]
      /\ \A u \in Task : lastChange'[u] = lastChange[u] \/ lastChange'[u] = Now
  BY <1>4, <1>5, <1>6
<1>8. ModesTrue'
  BY <1>1, <1>3, <1>4 DEF ModesTrue
<1>9. Seen' /\ ExitSeen' /\ lastExit' \in 0 .. Len(log')
  BY <1>1, <1>3, <1>4, <1>7, WindowGrows
<1>10. current' \in Portion /\ results' \in Seq(Portion)
  <2>1. Updated(t) \in [Task -> [Mode -> Nat]] /\ current \in Portion
    BY <1>1, <1>3, UpdatedTimes DEF TypeOK
  <2>2. current.switches + 1 \in Nat
    BY <2>1, PortionFields
  <2>3. current' \in Portion
    BY <1>4, <2>1, <2>2, PortionUpdated
  <2> QED
    BY <1>1, <1>4, <2>3 DEF TypeOK
<1>11. raised' = FALSE /\ strayed' \subseteq Task \ (Qemu \cup {Idle})
  BY <1>1, <1>3, <1>4 DEF TypeOK
<1>12. /\ driver' \in Driver /\ running' \in Task /\ pidIothread' \in Task
       /\ pidVcpu' \in {Idle, Vcpu}
  BY <1>1, <1>3, <1>4 DEF TypeOK
<1> QED
  BY <1>3, <1>6, <1>7, <1>8, <1>9, <1>10, <1>11, <1>12, Collected

(* sys_sendto of the guest closes the portion, and may charge a task. *)
LEMMA SendStep ==
    ASSUME IInv, Send
    PROVE  IInv'
<1>1. TypeOK /\ Window /\ Seen /\ ExitSeen /\ ModesTrue
  BY DEF IInv
<1>2. Vcpu \in Task /\ Happens("send", Vcpu, Vcpu, "vm") /\ actual[Vcpu] = "vm"
  BY TimesAssumption DEF Send
<1>3. /\ ~raised /\ driver' = driver
      /\ Len(log) < MaxTrace /\ Len(log) \in Nat /\ MaxTrace \in Nat
      /\ log' \in Seq(Event) /\ Len(log') = Len(log) + 1
      /\ Len(log') <= MaxTrace
      /\ \A i \in 1 .. Len(log) : log'[i] = log[i]
      /\ actual' \in [Task -> Measured] /\ actual'[Vcpu] = "vm"
      /\ \A u \in Task : u # Vcpu => actual'[u] = actual[u]
  BY <1>1, <1>2, AnEvent DEF Kinds, Measured
<1>4. /\ running' = running /\ mode' = mode /\ pidVcpu' = pidVcpu /\ lastExit' = lastExit
      /\ pidIothread' = pidIothread /\ raised' = raised /\ strayed' = strayed
      /\ current' = Nothing
      /\ IF ChargedForNetperf
         THEN /\ results' = Append(results, Closed(NetperfPid))
              /\ lastChange' = [lastChange EXCEPT ![NetperfPid] = Now]
         ELSE results' = Append(results, current) /\ lastChange' = lastChange
  BY DEF Send
<1>n. Now \in Nat /\ lastChange \in [Task -> Nat]
  BY <1>1, <1>3, NowIsLate DEF TypeOK
<1>l. /\ lastChange' \in [Task -> Nat]
      /\ \A u \in Task : lastChange'[u] = lastChange[u] \/ lastChange'[u] = Now
  BY <1>4, <1>n
<1>5. ModesTrue'
  BY <1>1, <1>2, <1>3, <1>4 DEF ModesTrue
<1>6. Seen' /\ ExitSeen' /\ lastExit' \in 0 .. Len(log')
  BY <1>1, <1>3, <1>4, <1>l, WindowGrows
<1>7. current' \in Portion /\ results' \in Seq(Portion)
  <2>1. current \in Portion /\ results \in Seq(Portion)
    BY <1>1 DEF TypeOK
  <2>2. ChargedForNetperf => Closed(NetperfPid) \in Portion
    BY <1>1, <1>3, TransactionEnds DEF ChargedForNetperf
  <2>3. \A q \in Portion : Append(results, q) \in Seq(Portion)
    BY <2>1
  <2> QED
    BY <1>4, <2>1, <2>2, <2>3, NothingPortion
<1>8. raised' = FALSE /\ strayed' \subseteq Task \ (Qemu \cup {Idle})
  BY <1>1, <1>3, <1>4 DEF TypeOK
<1>9. /\ driver' \in Driver /\ running' \in Task /\ pidIothread' \in Task
      /\ pidVcpu' \in {Idle, Vcpu} /\ mode' \in [Task -> Mode]
  BY <1>1, <1>3, <1>4 DEF TypeOK
<1> QED
  BY <1>3, <1>5, <1>6, <1>7, <1>8, <1>9, <1>l, Collected

(* A switch that is not recorded, and what a task does elsewhere. *)
LEMMA UnseenStep ==
    ASSUME IInv, NEW t \in Task, (\E n \in Task : SwitchUnseen(t, n)) \/ Elsewhere(t)
    PROVE  IInv'
<1>1. /\ driver' = driver /\ log' = log /\ mode' = mode /\ lastChange' = lastChange
      /\ pidVcpu' = pidVcpu /\ pidIothread' = pidIothread /\ lastExit' = lastExit
      /\ current' = current /\ results' = results /\ raised' = raised /\ ~raised
  BY DEF SwitchUnseen, Elsewhere, parser
<1>2. /\ running' \in Task /\ actual' \in [Task -> Measured]
      /\ strayed' \subseteq Task \ (Qemu \cup {Idle})
  BY DEF SwitchUnseen, Elsewhere, IInv, TypeOK, Measured
<1>3. \A u \in Task \ strayed' : u \notin strayed /\ actual'[u] = actual[u]
  BY DEF SwitchUnseen, Elsewhere, IInv, TypeOK
<1>4. ModesTrue'
  BY <1>1, <1>3 DEF ModesTrue, IInv
<1>5. Window' /\ Seen' /\ ExitSeen' /\ FailsOnlyForStrayed'
  BY <1>1 DEF IInv, Window, Seen, ExitSeen, FailsOnlyForStrayed
<1>6. TypeOK'
  BY <1>1, <1>2 DEF IInv, TypeOK
<1> QED
  BY <1>4, <1>5, <1>6 DEF IInv

-----------------------------------------------------------------------------
(* Before the first event nothing has been told. *)
LEMMA InitIInv ==
    ASSUME Init
    PROVE  IInv
<1>1. driver \in Driver /\ log \in Seq(Event) /\ running \in Task /\ actual \in [Task -> Measured]
  BY DEF Init
<1>2. mode \in [Task -> Mode] /\ lastChange \in [Task -> Nat]
  BY DEF Init, Mode
<1>3. pidVcpu \in {Idle, Vcpu} /\ pidIothread \in Task /\ lastExit \in 0 .. Len(log)
  BY TimesAssumption DEF Init, NoExit
<1>4. current \in Portion /\ results \in Seq(Portion) /\ raised = FALSE /\ strayed = {}
  BY NothingPortion DEF Init
<1>5. TypeOK
  BY <1>1, <1>2, <1>3, <1>4 DEF TypeOK
<1>6. Window
  BY TimeSorted DEF Init, Window
<1>7. Seen /\ ExitSeen /\ ModesTrue
  BY DEF Init, Seen, ExitSeen, ModesTrue
<1> QED
  BY <1>4, <1>5, <1>6, <1>7 DEF IInv, FailsOnlyForStrayed

(* Every step keeps the invariant of the automaton. *)
LEMMA StepIInv ==
    ASSUME IInv, [Next]_vars
    PROVE  IInv'
<1>1. ASSUME NEW r \in Reason, Exit(r)
      PROVE  IInv'
  BY <1>1, ExitStep
<1>2. ASSUME NEW t \in Task, SyscallEnter(t, "enter") \/ SyscallEnter(t, "ppoll")
      PROVE  IInv'
  BY <1>2, SyscallEnterStep
<1>3. ASSUME NEW t \in Task, SyscallExit(t)
      PROVE  IInv'
  BY <1>3, SyscallExitStep
<1>4. ASSUME NEW t \in Task, NEW n \in Task, SchedSwitch(t, n)
      PROVE  IInv'
  BY <1>4, SchedSwitchStep
<1>5. CASE UNCHANGED vars
  BY <1>5 DEF vars, IInv, TypeOK, Window, Seen, ExitSeen, ModesTrue, FailsOnlyForStrayed
<1>6. ASSUME NEW t \in Task, (\E n \in Task : SwitchUnseen(t, n)) \/ Elsewhere(t)
      PROVE  IInv'
  BY <1>6, UnseenStep
<1> QED
  BY <1>1, <1>2, <1>3, <1>4, <1>5, <1>6, EntryStep, SendStep DEF Next

(* The invariant of the automaton is inductive. *)
THEOREM Invariance == Spec => []IInv
<1>1. Init => IInv
  BY InitIInv
<1>2. IInv /\ [Next]_vars => IInv'
  BY StepIInv
<1> QED
  BY <1>1, <1>2, PTL DEF Spec

(* Type correctness: no time or count is negative, no reason or task unknown. *)
THEOREM TypeCorrect == Spec => []TypeOK
<1>1. IInv => TypeOK
  BY DEF IInv
<1> QED
  BY <1>1, Invariance, PTL

(***************************************************************************)
(* However the tasks of the CPU enter and leave the kernel and the guest,  *)
(* wherever the window begins and whatever goes on unseen, an assertion at *)
(* the head of a handler fails only for a task that has been elsewhere:    *)
(* the automaton never takes another to do what it does not, it only may   *)
(* not know yet.                                                           *)
(***************************************************************************)
THEOREM AssertionsHold == Spec => []FailsOnlyForStrayed
<1>1. IInv => FailsOnlyForStrayed
  BY DEF IInv
<1> QED
  BY <1>1, Invariance, PTL

-----------------------------------------------------------------------------
(* Sums over finite sets, as the model takes them. *)

(* A set of numbers that is not empty has a least one. *)
LEMMA LeastExists ==
    ASSUME NEW N \in SUBSET Nat, N # {}
    PROVE  \E n \in N : \A m \in N : n <= m
<1> DEFINE R == OpToRel(<, Nat)
<1>1. IsWellFoundedOn(R, Nat)
  BY NatLessThanWellFounded
<1>2. PICK n \in N : \A m \in N : ~(<<m, n>> \in R)
  <2> HIDE DEF R
  <2> QED
    BY <1>1, WFMin
<1>3. \A m \in N : ~(m < n)
  BY <1>2 DEF OpToRel
<1> QED
  BY <1>3

(* The sum over a set is read off a function that sums all of its subsets. *)
Pick(s)       == CHOOSE x \in s : TRUE
Step(f, g, s) == IF s = {} THEN 0 ELSE f[Pick(s)] + g[s \ {Pick(s)}]
Sums(f, S, g) == g = [s \in SUBSET S |-> Step(f, g, s)]

(* The definition of the library, in these terms. *)
LEMMA SumIsChosen ==
    ASSUME NEW f, NEW S
    PROVE  SumFunctionOnSet(f, S) = (CHOOSE g : Sums(f, S, g))[S]
BY DEF SumFunctionOnSet, FoldFunctionOnSet, MapThenFoldSet, Sums, Step, Pick

(* What is picked is an element, and the rest has one element less. *)
LEMMA Picked ==
    ASSUME NEW s, IsFiniteSet(s), s # {}
    PROVE  /\ Pick(s) \in s /\ IsFiniteSet(s \ {Pick(s)})
           /\ Cardinality(s) \in Nat /\ Cardinality(s \ {Pick(s)}) \in Nat
           /\ Cardinality(s \ {Pick(s)}) < Cardinality(s)
<1>1. Pick(s) \in s
  BY DEF Pick
<1>2. IsFiniteSet(s \ {Pick(s)}) /\ Cardinality(s \ {Pick(s)}) = Cardinality(s) - 1
  BY <1>1, FS_RemoveElement
<1>3. Cardinality(s) \in Nat /\ Cardinality(s \ {Pick(s)}) \in Nat
  BY <1>2, FS_CardinalityType
<1> QED
  BY <1>1, <1>2, <1>3

(***************************************************************************)
(* Such a function exists: from one for the subsets of at most n elements  *)
(* follows one for those of one element more.                              *)
(***************************************************************************)
LEMMA SumsExist ==
    ASSUME NEW f, NEW S, IsFiniteSet(S)
    PROVE  \E g : Sums(f, S, g)
<1> DEFINE Small(n) == {s \in SUBSET S : Cardinality(s) <= n}
           Sum(n, g) == g = [s \in Small(n) |-> Step(f, g, s)]
           Missing == {n \in Nat : ~\E g : Sum(n, g)}
<1>1. \A s \in SUBSET S : IsFiniteSet(s) /\ Cardinality(s) \in Nat
                          /\ Cardinality(s) <= Cardinality(S)
  BY FS_Subset, FS_CardinalityType
<1>2. ASSUME NEW A, NEW N, A \subseteq N,
             \A s \in N : s = {} \/ s \ {Pick(s)} \in A,
             NEW g, g = [s \in A |-> Step(f, g, s)]
      PROVE  \E h : h = [s \in N |-> Step(f, h, s)]
  <2> DEFINE h == [s \in N |-> Step(f, g, s)]
  <2>1. ASSUME NEW s \in N
        PROVE  Step(f, g, s) = Step(f, h, s)
    <3>1. CASE s = {}
      BY <3>1 DEF Step
    <3>2. CASE s # {}
      <4>1. s \ {Pick(s)} \in A /\ s \ {Pick(s)} \in N
        BY <1>2, <3>2
      <4>2. h[s \ {Pick(s)}] = Step(f, g, s \ {Pick(s)})
        BY <4>1
      <4>3. g[s \ {Pick(s)}] = Step(f, g, s \ {Pick(s)})
        <5> HIDE DEF h
        <5> QED
          BY <1>2, <4>1
      <4> QED
        BY <3>2, <4>2, <4>3 DEF Step
    <3> QED
      BY <3>1, <3>2
  <2>2. h = [s \in N |-> Step(f, h, s)]
    <3> HIDE DEF h
    <3>1. h = [s \in N |-> Step(f, g, s)]
      BY DEF h
    <3> QED
      BY <2>1, <3>1
  <2> QED
    BY <2>2
<1>3. Missing = {}
  <2> SUFFICES ASSUME Missing # {}
               PROVE  FALSE
    OBVIOUS
  <2>1. PICK n \in Missing : \A m \in Missing : n <= m
    <3> HIDE DEF Missing
    <3>1. Missing \subseteq Nat
      BY DEF Missing
    <3> QED
      BY <3>1, LeastExists
  <2>2. CASE n = 0
    <3>1. Small(0) = {{}}
      <4>1. \A s \in SUBSET S : Cardinality(s) <= 0 <=> s = {}
        BY <1>1, FS_EmptySet
      <4> QED
        BY <4>1
    <3>2. \A g : \A s \in Small(0) : Step(f, g, s) = 0
      BY <3>1 DEF Step
    <3>3. Sum(0, [s \in Small(0) |-> 0])
      BY <3>2
    <3> QED
      BY <2>1, <2>2, <3>3
  <2>3. CASE n # 0
    <3>1. n - 1 \in Nat /\ n - 1 \notin Missing
      <4>1. n \in Nat
        BY <2>1
      <4> HIDE DEF Missing
      <4> QED
        BY <2>1, <2>3, <4>1
    <3>2. PICK g : Sum(n - 1, g)
      BY <3>1
    <3>3. \A s \in Small(n) : s = {} \/ s \ {Pick(s)} \in Small(n - 1)
      <4>1. \A s \in SUBSET S : s # {} => Cardinality(s \ {Pick(s)}) = Cardinality(s) - 1
        BY <1>1, FS_RemoveElement DEF Pick
      <4> QED
        BY <1>1, <2>1, <4>1
    <3>4. Small(n - 1) \subseteq Small(n)
      BY <1>1, <2>1
    <3>5. \E h : h = [s \in Small(n) |-> Step(f, h, s)]
      <4>1. g = [s \in Small(n - 1) |-> Step(f, g, s)]
        BY <3>2
      <4> HIDE DEF Small
      <4> QED
        BY <1>2, <3>3, <3>4, <4>1
    <3> QED
      BY <2>1, <3>5
  <2> QED
    BY <2>2, <2>3
<1>4. Small(Cardinality(S)) = SUBSET S
  BY <1>1
<1>5. Cardinality(S) \in Nat
  BY <1>1
<1>6. PICK g : Sum(Cardinality(S), g)
  BY <1>3, <1>5
<1>7. Sums(f, S, g)
  BY <1>4, <1>6 DEF Sums
<1> QED
  BY <1>7

(* Two of them agree wherever both sum, if they sum the same values. *)
LEMMA SumsAgree ==
    ASSUME NEW S, IsFiniteSet(S), NEW T \in SUBSET S, NEW f, NEW e, NEW g, NEW h,
           Sums(f, S, g), Sums(e, T, h), \A x \in T : f[x] = e[x]
    PROVE  g[T] = h[T]
<1> DEFINE Sizes == {Cardinality(s) : s \in {r \in SUBSET T : g[r] # h[r]}}
<1>1. \A s \in SUBSET T : IsFiniteSet(s) /\ Cardinality(s) \in Nat /\ s \in SUBSET S
  BY FS_Subset, FS_CardinalityType
<1>2. ASSUME Sizes # {}
      PROVE  FALSE
  <2>1. PICK n \in Sizes : \A m \in Sizes : n <= m
    <3>1. Sizes \subseteq Nat
      BY <1>1
    <3> HIDE DEF Sizes
    <3> QED
      BY <1>2, <3>1, LeastExists
  <2>2. PICK s \in SUBSET T : g[s] # h[s] /\ n = Cardinality(s)
    BY <2>1
  <2>3. g[s] = Step(f, g, s) /\ h[s] = Step(e, h, s)
    BY <1>1 DEF Sums
  <2>4. s # {}
    BY <2>2, <2>3 DEF Step
  <2>5. Pick(s) \in s /\ Cardinality(s \ {Pick(s)}) < Cardinality(s)
        /\ Cardinality(s \ {Pick(s)}) \in Nat /\ Cardinality(s) \in Nat
    BY <1>1, <2>4, Picked
  <2>6. s \ {Pick(s)} \in SUBSET T
    OBVIOUS
  <2>7. g[s \ {Pick(s)}] = h[s \ {Pick(s)}]
    <3>1. Cardinality(s \ {Pick(s)}) \notin Sizes
      BY <2>1, <2>2, <2>5
    <3> QED
      BY <2>6, <3>1
  <2>8. f[Pick(s)] = e[Pick(s)]
    BY <2>5
  <2> QED
    BY <2>2, <2>3, <2>4, <2>7, <2>8 DEF Step
<1>3. Sizes = {}
  BY <1>2
<1> QED
  BY <1>3

(* The sum over a finite set: nothing, or the value that is picked and the rest. *)
LEMMA SumParts ==
    ASSUME NEW f, NEW S, IsFiniteSet(S)
    PROVE  /\ S = {} => SumFunctionOnSet(f, S) = 0
           /\ S # {} => SumFunctionOnSet(f, S) = f[Pick(S)] + SumFunctionOnSet(f, S \ {Pick(S)})
<1> DEFINE g == CHOOSE h : Sums(f, S, h)
           T == S \ {Pick(S)}
           e == CHOOSE h : Sums(f, T, h)
<1>1. Sums(f, S, g)
  BY SumsExist
<1>2. IsFiniteSet(T)
  BY FS_Subset
<1>3. Sums(f, T, e)
  BY <1>2, SumsExist
<1>4. g[T] = e[T]
  <2> HIDE DEF g, e
  <2>1. T \in SUBSET S
    OBVIOUS
  <2> HIDE DEF T
  <2> QED
    BY <1>1, <1>3, <2>1, SumsAgree
<1>5. SumFunctionOnSet(f, S) = g[S] /\ SumFunctionOnSet(f, T) = e[T]
  BY SumIsChosen
<1>6. g[S] = Step(f, g, S)
  <2> HIDE DEF g
  <2> QED
    BY <1>1 DEF Sums
<1> HIDE DEF g, e
<1> QED
  BY <1>4, <1>5, <1>6 DEF Step

(* It is a number, and any element can be taken out of it. *)
LEMMA SumTakes ==
    ASSUME NEW S, IsFiniteSet(S), NEW f, \A x \in S : f[x] \in Nat
    PROVE  /\ SumFunctionOnSet(f, S) \in Nat
           /\ \A x \in S : SumFunctionOnSet(f, S) = f[x] + SumFunctionOnSet(f, S \ {x})
<1> DEFINE Sum(s) == SumFunctionOnSet(f, s)
           Right(s) == Sum(s) \in Nat /\ \A x \in s : Sum(s) = f[x] + Sum(s \ {x})
           Sizes == {Cardinality(s) : s \in {r \in SUBSET S : ~Right(r)}}
<1>1. \A s \in SUBSET S : IsFiniteSet(s) /\ Cardinality(s) \in Nat
  BY FS_Subset, FS_CardinalityType
<1>2. \A s \in SUBSET S : /\ s = {} => Sum(s) = 0
                          /\ s # {} => Sum(s) = f[Pick(s)] + Sum(s \ {Pick(s)})
  BY <1>1, SumParts
<1>3. ASSUME Sizes # {}
      PROVE  FALSE
  <2>1. PICK n \in Sizes : \A m \in Sizes : n <= m
    <3>1. Sizes \subseteq Nat
      BY <1>1
    <3> HIDE DEF Sizes
    <3> QED
      BY <1>3, <3>1, LeastExists
  <2>2. PICK s \in SUBSET S : ~Right(s) /\ n = Cardinality(s)
    BY <2>1
  <2>3. ASSUME NEW r \in SUBSET S, Cardinality(r) < Cardinality(s)
        PROVE  Right(r)
    <3>1. Cardinality(r) \notin Sizes
      <4> HIDE DEF Sizes
      <4>1. Cardinality(r) \in Nat /\ Cardinality(s) \in Nat
        BY <1>1
      <4> QED
        BY <2>1, <2>2, <2>3, <4>1
    <3> HIDE DEF Right
    <3> QED
      BY <3>1
  <2>4. s # {}
    <3>1. ASSUME s = {}
          PROVE  Right(s)
      <4>1. Sum(s) = 0
        BY <1>2, <3>1
      <4> HIDE DEF Sum
      <4> QED
        BY <3>1, <4>1
    <3> QED
      BY <2>2, <3>1
  <2> DEFINE p == Pick(s)
  <2>5. /\ p \in s /\ Cardinality(s \ {p}) < Cardinality(s)
        /\ Cardinality(s \ {p}) \in Nat /\ Cardinality(s) \in Nat
    BY <1>1, <2>4, Picked
  <2>6. Sum(s) = f[p] + Sum(s \ {p})
    BY <1>2, <2>4
  <2> HIDE DEF Sum, p
  <2>7. Right(s \ {p})
    <3> HIDE DEF Right
    <3> QED
      BY <2>3, <2>5
  <2>8. Sum(s) \in Nat
    BY <2>5, <2>6, <2>7
  <2>9. ASSUME NEW x \in s
        PROVE  Sum(s) = f[x] + Sum(s \ {x})
    <3>1. CASE x = p
      BY <2>6, <3>1
    <3>2. CASE x # p
      <4>1. Cardinality(s \ {x}) < Cardinality(s)
        BY <1>1, <2>5, FS_RemoveElement
      <4>2. Right(s \ {x})
        <5> HIDE DEF Right
        <5> QED
          BY <2>3, <4>1
      <4>3. Sum(s \ {p}) = f[x] + Sum((s \ {p}) \ {x})
        BY <2>7, <3>2
      <4>4. Sum(s \ {x}) = f[p] + Sum((s \ {x}) \ {p})
        BY <2>5, <3>2, <4>2
      <4>5. (s \ {p}) \ {x} = (s \ {x}) \ {p}
        OBVIOUS
      <4>6. Cardinality((s \ {p}) \ {x}) < Cardinality(s)
        <5>1. Cardinality((s \ {p}) \ {x}) = Cardinality(s \ {p}) - 1
          <6>1. x \in s \ {p} /\ IsFiniteSet(s \ {p})
            BY <1>1, <3>2
          <6> QED
            BY <6>1, FS_RemoveElement
        <5>2. Cardinality((s \ {p}) \ {x}) \in Nat
          BY <1>1
        <5> QED
          BY <2>5, <5>1, <5>2
      <4>7. Sum((s \ {p}) \ {x}) \in Nat
        <5>1. Right((s \ {p}) \ {x})
          <6> HIDE DEF Right
          <6> QED
            BY <2>3, <4>6
        <5> QED
          BY <5>1
      <4>8. f[x] \in Nat /\ f[p] \in Nat
        BY <2>5
      <4> QED
        BY <2>6, <4>3, <4>4, <4>5, <4>7, <4>8
    <3> QED
      BY <3>1, <3>2
  <2> QED
    BY <2>2, <2>8, <2>9
<1>4. Right(S)
  <2> HIDE DEF Right
  <2> QED
    BY <1>3
<1> QED
  BY <1>4

(* One element more. *)
LEMMA SumGrows ==
    ASSUME NEW S, IsFiniteSet(S), NEW f, NEW x, x \notin S,
           f[x] \in Nat, \A y \in S : f[y] \in Nat
    PROVE  SumFunctionOnSet(f, S \cup {x}) = SumFunctionOnSet(f, S) + f[x]
<1>1. IsFiniteSet(S \cup {x})
  BY FS_AddElement
<1>2. (S \cup {x}) \ {x} = S
  OBVIOUS
<1>3. SumFunctionOnSet(f, S \cup {x}) = f[x] + SumFunctionOnSet(f, (S \cup {x}) \ {x})
  BY <1>1, SumTakes
<1>4. SumFunctionOnSet(f, S) \in Nat
  BY SumTakes
<1>5. SumFunctionOnSet(f, S \cup {x}) = f[x] + SumFunctionOnSet(f, S)
  BY <1>2, <1>3, Zenon
<1> QED
  BY <1>4, <1>5

-----------------------------------------------------------------------------
(* What the window tells, before and after one more event. *)

(* The window with one event more. *)
Reads(e) == Len(log) < MaxTrace /\ log' = Append(log, e) /\ driver' = driver
Ends(e)  == e.kind = "send" \/ (e.kind = "exit" /\ EndsTransaction(e.arg))
Here     == 1 + Cardinality(Boundary)       \* the transaction of the next event

(* Which positions the window has. *)
LEMMA Positions ==
    ASSUME TypeOK
    PROVE  /\ Len(log) \in Nat /\ DOMAIN log = 1 .. Len(log)
           /\ Host \subseteq 1 .. Len(log) /\ Boundary \subseteq 1 .. Len(log)
           /\ IsFiniteSet(Host) /\ IsFiniteSet(Boundary)
           /\ Cardinality(Boundary) \in Nat /\ Here \in Nat
<1>1. Len(log) \in Nat /\ DOMAIN log = 1 .. Len(log)
  BY DEF TypeOK
<1>2. Host \subseteq 1 .. Len(log) /\ Boundary \subseteq 1 .. Len(log)
  BY <1>1 DEF Host, Boundary
<1>3. IsFiniteSet(1 .. Len(log))
  BY <1>1, FS_Interval
<1>4. IsFiniteSet(Host) /\ IsFiniteSet(Boundary)
  BY <1>2, <1>3, FS_Subset
<1>5. Cardinality(Boundary) \in Nat
  BY <1>4, FS_CardinalityType
<1> QED
  BY <1>1, <1>2, <1>4, <1>5 DEF Here

(* The events that are there stay, and the new one is the last. *)
LEMMA ReadsOne ==
    ASSUME TypeOK, NEW e, Reads(e)
    PROVE  /\ Len(log') = Len(log) + 1 /\ DOMAIN log' = 1 .. Len(log) + 1
           /\ \A i \in 1 .. Len(log) : log'[i] = log[i]
           /\ log'[Len(log) + 1] = e
           /\ Host' = IF e.kind # "send" THEN Host \cup {Len(log) + 1} ELSE Host
           /\ Boundary' = IF Ends(e) THEN Boundary \cup {Len(log) + 1} ELSE Boundary
<1>1. log \in Seq(Event) /\ Len(log) \in Nat /\ DOMAIN log = 1 .. Len(log)
  BY DEF TypeOK
<1>2. log' = Append(log, e) /\ driver' = driver
  BY DEF Reads
<1>3. /\ Len(log') = Len(log) + 1 /\ DOMAIN log' = 1 .. Len(log) + 1
      /\ \A i \in 1 .. Len(log) : log'[i] = log[i]
      /\ log'[Len(log) + 1] = e
  BY <1>1, <1>2
<1>4. \A i : i \in 1 .. Len(log) + 1 <=> i \in 1 .. Len(log) \/ i = Len(log) + 1
  BY <1>1
<1>5. Host' = {i \in DOMAIN log' : log'[i].kind # "send"}
  BY DEF Host
<1>6. \A i : i \in Host' <=> i \in Host \/ (i = Len(log) + 1 /\ e.kind # "send")
  <2> SUFFICES ASSUME NEW i
               PROVE  i \in Host' <=> i \in Host \/ (i = Len(log) + 1 /\ e.kind # "send")
    OBVIOUS
  <2>1. i \in Host' <=> i \in 1 .. Len(log) + 1 /\ log'[i].kind # "send"
    BY <1>3, <1>5
  <2>2. i \in Host <=> i \in 1 .. Len(log) /\ log[i].kind # "send"
    BY <1>1 DEF Host
  <2> QED
    BY <1>1, <1>3, <1>4, <2>1, <2>2
<1>7. \A i : i \in Boundary' <=> i \in Boundary \/ (i = Len(log) + 1 /\ Ends(e))
  <2> SUFFICES ASSUME NEW i
               PROVE  i \in Boundary' <=> i \in Boundary \/ (i = Len(log) + 1 /\ Ends(e))
    OBVIOUS
  <2>1. \A r : EndsTransaction(r)' <=> EndsTransaction(r)
    BY <1>2 DEF EndsTransaction
  <2>2. Boundary' = {j \in DOMAIN log' : \/ log'[j].kind = "send"
                                         \/ log'[j].kind = "exit" /\ EndsTransaction(log'[j].arg)}
    BY <1>2 DEF Boundary, EndsTransaction
  <2>3. i \in Boundary' <=> /\ i \in 1 .. Len(log) + 1
                            /\ \/ log'[i].kind = "send"
                               \/ log'[i].kind = "exit" /\ EndsTransaction(log'[i].arg)
    BY <1>3, <2>2
  <2>4. i \in Boundary <=> /\ i \in 1 .. Len(log)
                           /\ \/ log[i].kind = "send"
                              \/ log[i].kind = "exit" /\ EndsTransaction(log[i].arg)
    BY <1>1 DEF Boundary
  <2> QED
    BY <1>1, <1>3, <1>4, <2>3, <2>4 DEF Ends
<1> QED
  BY <1>3, <1>6, <1>7

(* To which transaction the positions of the window belong. *)
LEMMA TransactionsStay ==
    ASSUME TypeOK, NEW e, Reads(e)
    PROVE  /\ \A j \in 1 .. Len(log) : /\ Transaction(j)' = Transaction(j)
                                       /\ Transaction(j) \in Nat /\ Transaction(j) <= Here
           /\ \A j : j = Len(log) + 1 => Transaction(j)' = Here
           /\ Here' = IF Ends(e) THEN Here + 1 ELSE Here
<1> DEFINE Before(j) == {b \in Boundary : b < j}
<1>1. /\ Len(log) \in Nat /\ Boundary \subseteq 1 .. Len(log) /\ IsFiniteSet(Boundary)
      /\ Cardinality(Boundary) \in Nat
  BY Positions
<1>2. \A j : Transaction(j) = 1 + Cardinality(Before(j))
  BY DEF Transaction
<1>3. Boundary' = IF Ends(e) THEN Boundary \cup {Len(log) + 1} ELSE Boundary
  BY ReadsOne
<1>4. \A j \in 1 .. Len(log) + 1 : {b \in Boundary' : b < j} = Before(j)
  BY <1>1, <1>3
<1>5. \A j : Transaction(j)' = 1 + Cardinality({b \in Boundary' : b < j})
  BY DEF Transaction
<1>6. ASSUME NEW j \in 1 .. Len(log)
      PROVE  Cardinality(Before(j)) \in Nat /\ Cardinality(Before(j)) <= Cardinality(Boundary)
  <2>1. Before(j) \subseteq Boundary
    OBVIOUS
  <2> HIDE DEF Before
  <2>2. IsFiniteSet(Before(j)) /\ Cardinality(Before(j)) <= Cardinality(Boundary)
    BY <1>1, <2>1, FS_Subset
  <2> QED
    BY <2>2, FS_CardinalityType
<1>7. Before(Len(log) + 1) = Boundary
  <2>1. \A b \in Boundary : b < Len(log) + 1
    <3>1. \A b \in 1 .. Len(log) : b < Len(log) + 1
      BY <1>1
    <3> QED
      BY <1>1, <3>1
  <2> QED
    BY <2>1
<1>8. ASSUME NEW j \in 1 .. Len(log)
      PROVE  Transaction(j)' = Transaction(j) /\ Transaction(j) \in Nat /\ Transaction(j) <= Here
  <2>1. {b \in Boundary' : b < j} = Before(j)
    BY <1>1, <1>4
  <2>2. Transaction(j)' = 1 + Cardinality(Before(j))
    BY <1>5, <2>1, Zenon
  <2> HIDE DEF Before
  <2> QED
    BY <1>1, <1>2, <1>6, <2>2 DEF Here
<1>9. ASSUME NEW j, j = Len(log) + 1
      PROVE  Transaction(j)' = Here
  <2>1. {b \in Boundary' : b < j} = Before(j)
    BY <1>1, <1>4, <1>9
  <2>2. Before(j) = Boundary
    BY <1>7, <1>9, Zenon
  <2>3. Transaction(j)' = 1 + Cardinality(Boundary)
    BY <1>5, <2>1, <2>2, Zenon
  <2> QED
    BY <2>3 DEF Here
<1>10. Here' = IF Ends(e) THEN Here + 1 ELSE Here
  <2>1. Cardinality(Boundary \cup {Len(log) + 1}) = Cardinality(Boundary) + 1
    <3>1. Len(log) + 1 \notin Boundary
      BY <1>1
    <3> QED
      BY <1>1, <3>1, FS_AddElement
  <2> QED
    BY <1>1, <1>3, <2>1 DEF Here
<1> QED
  BY <1>8, <1>9, <1>10

(* Positions that are not none have a last one. *)
LEMMA MaxExists ==
    ASSUME NEW n \in Nat, NEW S \in SUBSET (1 .. n), S # {}
    PROVE  \E i \in S : \A j \in S : j <= i
<1> DEFINE N == {n - i : i \in S}
<1>1. N \in SUBSET Nat /\ N # {}
  <2>1. \A i \in S : n - i \in Nat
    OBVIOUS
  <2>2. PICK i \in S : TRUE
    OBVIOUS
  <2>3. n - i \in N
    OBVIOUS
  <2> QED
    BY <2>1, <2>3
<1>2. PICK x \in N : \A y \in N : x <= y
  <2> HIDE DEF N
  <2> QED
    BY <1>1, LeastExists
<1>3. PICK i \in S : x = n - i
  BY <1>2
<1>4. \A j \in S : n - j \in N
  OBVIOUS
<1> HIDE DEF N
<1>5. \A j \in S : j <= i
  BY <1>2, <1>3, <1>4
<1> QED
  BY <1>5

(* The last one is what Max chooses. *)
LEMMA MaxIs ==
    ASSUME NEW n \in Nat, NEW S \in SUBSET (1 .. n), NEW j \in S, \A i \in S : i <= j
    PROVE  Max(S) = j
<1>1. \A i \in S : j >= i
  OBVIOUS
<1>2. Max(S) \in S /\ \A i \in S : Max(S) >= i
  BY <1>1, Zenon DEF Max
<1>3. Max(S) \in Nat /\ j \in Nat
  <2>1. S \subseteq Nat
    OBVIOUS
  <2> QED
    BY <1>2, <2>1
<1>4. Max(S) >= j /\ j >= Max(S)
  BY <1>1, <1>2
<1> QED
  BY <1>3, <1>4

(* Two neighbours are two positions with none between them. *)
Adjacent(S) == {x \in S \X S : x[1] < x[2] /\ \A h \in S : h <= x[1] \/ x[2] <= h}

LEMMA NeighboursAre ==
    ASSUME NEW S \in SUBSET Nat
    PROVE  Neighbours(S) = Adjacent(S)
<1> DEFINE Later(i) == {n \in S : i < n}
<1>1. ASSUME NEW i \in S, Later(i) # {}
      PROVE  /\ Min(Later(i)) \in S /\ i < Min(Later(i))
             /\ \A h \in S : h <= i \/ Min(Later(i)) <= h
  <2>1. Later(i) \in SUBSET Nat
    OBVIOUS
  <2>2. \E n \in Later(i) : \A h \in Later(i) : n <= h
    BY <1>1, <2>1, LeastExists
  <2>3. Min(Later(i)) \in Later(i) /\ \A h \in Later(i) : Min(Later(i)) <= h
    <3> HIDE DEF Later
    <3> QED
      BY <2>2, Zenon DEF Min
  <2>4. Min(Later(i)) \in S /\ i < Min(Later(i))
    BY <2>3
  <2>5. ASSUME NEW h \in S
        PROVE  h <= i \/ Min(Later(i)) <= h
    <3>1. i < h => h \in Later(i)
      OBVIOUS
    <3>2. i \in Nat /\ h \in Nat
      OBVIOUS
    <3> QED
      BY <2>3, <3>1, <3>2
  <2> QED
    BY <2>4, <2>5
<1>2. Neighbours(S) = {<<i, Min(Later(i))>> : i \in {h \in S : Later(h) # {}}}
  <2>1. \A h \in S : Later(h) # {} <=> \E n \in S : h < n
    OBVIOUS
  <2>2. {h \in S : Later(h) # {}} = {h \in S : \E n \in S : h < n}
    BY <2>1
  <2> QED
    BY <2>2 DEF Neighbours
<1>3. \A i \in {h \in S : Later(h) # {}} : <<i, Min(Later(i))>> \in Adjacent(S)
  BY <1>1 DEF Adjacent
<1>4. ASSUME NEW x \in Adjacent(S)
      PROVE  x[1] \in S /\ Later(x[1]) # {} /\ x = <<x[1], Min(Later(x[1]))>>
  <2>1. /\ x = <<x[1], x[2]>> /\ x[1] \in S /\ x[2] \in S
        /\ x[1] < x[2] /\ \A h \in S : h <= x[1] \/ x[2] <= h
    BY DEF Adjacent
  <2>2. x[2] \in Later(x[1])
    BY <2>1
  <2>3. /\ Min(Later(x[1])) \in S /\ x[1] < Min(Later(x[1]))
        /\ \A h \in S : h <= x[1] \/ Min(Later(x[1])) <= h
    BY <1>1, <2>1, <2>2
  <2> DEFINE n == Min(Later(x[1]))
  <2>4. n \in S /\ x[1] < n /\ \A h \in S : h <= x[1] \/ n <= h
    BY <2>3
  <2> HIDE DEF n, Later
  <2>5. x[1] \in Nat /\ x[2] \in Nat /\ n \in Nat
    BY <2>1, <2>4
  <2>6. n = x[2]
    BY <2>1, <2>4, <2>5
  <2> QED
    BY <2>1, <2>2, <2>6 DEF n
<1> HIDE DEF Later
<1>5. \A x \in Neighbours(S) : x \in Adjacent(S)
  BY <1>2, <1>3
<1>6. \A x \in Adjacent(S) : x \in Neighbours(S)
  BY <1>2, <1>4
<1> QED
  BY <1>5, <1>6

(* So are the intervals. *)
LEMMA IntervalsAre ==
    ASSUME TypeOK
    PROVE  Intervals = Adjacent(Host)
<1>1. Host \in SUBSET Nat
  BY Positions
<1> QED
  BY <1>1, NeighboursAre DEF Intervals

(* The last event of the host that has been read. *)
Last(i) == i \in Host /\ \A h \in Host : h <= i

(* It exists as soon as one has been read. *)
LEMMA LastExists ==
    ASSUME TypeOK, Host # {}
    PROVE  \E i : Last(i)
BY Positions, MaxExists DEF Last

(* An interval has two ends. *)
LEMMA IntervalEnds ==
    ASSUME TypeOK, NEW x \in Intervals
    PROVE  /\ x = <<x[1], x[2]>> /\ x[1] \in 1 .. Len(log) /\ x[2] \in 1 .. Len(log)
           /\ x[1] < x[2]
BY Positions, IntervalsAre DEF Adjacent

(* The event that is read ends an interval, which began at the one before it. *)
LEMMA IntervalsGrow ==
    ASSUME TypeOK, NEW e, Reads(e)
    PROVE  /\ e.kind = "send" \/ Host = {} => Intervals' = Intervals
           /\ \A i : Last(i) /\ e.kind # "send" =>
                  Intervals' = Intervals \cup {<<i, Len(log) + 1>>}
<1>1. Len(log) \in Nat /\ Host \subseteq 1 .. Len(log)
  BY Positions
<1>2. Host' = IF e.kind # "send" THEN Host \cup {Len(log) + 1} ELSE Host
  BY ReadsOne
<1>3. Intervals' = Adjacent(Host')
  <2>1. Host \subseteq Nat /\ Len(log) + 1 \in Nat
    BY <1>1
  <2>2. Host' = Host \/ Host' = Host \cup {Len(log) + 1}
    BY <1>2
  <2>3. Host' \in SUBSET Nat
    BY <2>1, <2>2
  <2> QED
    BY <2>3, NeighboursAre DEF Intervals
<1>4. CASE e.kind = "send"
  <2>1. Intervals' = Intervals
    BY <1>2, <1>3, <1>4, IntervalsAre
  <2> QED
    BY <1>4, <2>1
<1>5. CASE e.kind # "send" /\ Host = {}
  <2>1. Host' = {Len(log) + 1}
    BY <1>2, <1>5
  <2>2. Intervals' = {} /\ Intervals = {}
    BY <1>1, <1>3, <1>5, <2>1, IntervalsAre DEF Adjacent
  <2> QED
    BY <1>5, <2>2 DEF Last
<1>6. CASE e.kind # "send" /\ Host # {}
  <2> SUFFICES ASSUME NEW i, Last(i)
               PROVE  Intervals' = Intervals \cup {<<i, Len(log) + 1>>}
    BY <1>6
  <2> DEFINE n == Len(log) + 1
  <2>0. n \in Nat /\ \A h \in Host : h \in Nat /\ h < n
    BY <1>1
  <2>1. Host' = Host \cup {n} /\ i \in Host /\ \A h \in Host : h <= i
    BY <1>2, <1>6 DEF Last
  <2> HIDE DEF n
  <2>2. ASSUME NEW a \in Host', NEW b \in Host',
               a < b, \A h \in Host' : h <= a \/ b <= h
        PROVE  <<a, b>> \in Intervals \/ (a = i /\ b = n)
    <3>1. a \in Host
      BY <2>0, <2>1, <2>2
    <3>2. CASE b = n
      BY <2>0, <2>1, <2>2, <3>1, <3>2
    <3>3. CASE b # n
      BY <2>1, <2>2, <3>1, <3>3, IntervalsAre DEF Adjacent
    <3> QED
      BY <3>2, <3>3
  <2>3. ASSUME NEW x \in Intervals
        PROVE  x \in Intervals'
    <3>1. /\ x \in Host \X Host /\ x[1] < x[2]
          /\ \A h \in Host : h <= x[1] \/ x[2] <= h
      BY IntervalsAre DEF Adjacent
    <3>2. x \in Host' \X Host' /\ \A h \in Host' : h <= x[1] \/ x[2] <= h
      BY <2>0, <2>1, <3>1
    <3> QED
      BY <1>3, <3>1, <3>2 DEF Adjacent
  <2>4. <<i, n>> \in Intervals'
    <3>1. <<i, n>> \in Host' \X Host' /\ i < n /\ \A h \in Host' : h <= i \/ n <= h
      BY <2>0, <2>1
    <3> QED
      BY <1>3, <3>1 DEF Adjacent
  <2>5. \A x \in Intervals' : x \in Intervals \/ x = <<i, n>>
    <3> SUFFICES ASSUME NEW x \in Intervals'
                 PROVE  x \in Intervals \/ x = <<i, n>>
      OBVIOUS
    <3>1. /\ x \in Host' \X Host' /\ x[1] < x[2]
          /\ \A h \in Host' : h <= x[1] \/ x[2] <= h
      BY <1>3 DEF Adjacent
    <3>2. x[1] \in Host' /\ x[2] \in Host' /\ x = <<x[1], x[2]>>
      BY <3>1
    <3> QED
      BY <2>2, <3>1, <3>2
  <2>6. Intervals' = Intervals \cup {<<i, n>>}
    BY <2>3, <2>4, <2>5
  <2> QED
    BY <2>6 DEF n
<1> QED
  BY <1>4, <1>5, <1>6

-----------------------------------------------------------------------------
(* The mode that an event tells, and of which task it tells one. *)
ModeBy(kind) == IF kind = "entry" THEN "vm" ELSE IF kind = "return" THEN "user" ELSE "kernel"
Changes(e, t) == e.pid = t /\ e.kind \notin {"switch", "send"}

(* The last event that changes the mode of a task tells it. *)
LEMMA ModeIs ==
    ASSUME TypeOK, NEW t, NEW i
    PROVE  /\ ModeChanges(t, i) = {} => ModeAfter(t, i) = "init"
           /\ \A j \in ModeChanges(t, i) : (\A h \in ModeChanges(t, i) : h <= j) =>
                  ModeAfter(t, i) = ModeBy(log[j].kind)
           /\ ModeChanges(t, i) # {} =>
                  \E j \in ModeChanges(t, i) : \A h \in ModeChanges(t, i) : h <= j
<1>1. ModeChanges(t, i) \in SUBSET (1 .. Len(log)) /\ Len(log) \in Nat
  BY Positions DEF ModeChanges
<1>2. ASSUME NEW j \in ModeChanges(t, i), \A h \in ModeChanges(t, i) : h <= j
      PROVE  ModeAfter(t, i) = ModeBy(log[j].kind)
  <2>1. Max(ModeChanges(t, i)) = j
    BY <1>1, <1>2, MaxIs
  <2> QED
    BY <2>1 DEF ModeAfter, ModeBy
<1> QED
  BY <1>1, <1>2, MaxExists DEF ModeAfter

(* The events before the new one tell the same modes as before. *)
LEMMA ModesStay ==
    ASSUME TypeOK, NEW e, Reads(e), NEW t, NEW i \in 0 .. Len(log)
    PROVE  ModeAfter(t, i)' = ModeAfter(t, i)
<1>1. Len(log) \in Nat /\ Host \subseteq 1 .. Len(log)
  BY Positions
<1>2. /\ \A j \in 1 .. Len(log) : log'[j] = log[j]
      /\ Host' = IF e.kind # "send" THEN Host \cup {Len(log) + 1} ELSE Host
  BY ReadsOne
<1>3. ModeChanges(t, i)' = {j \in Host' : j <= i /\ log'[j].pid = t /\ log'[j].kind # "switch"}
  BY DEF ModeChanges
<1>4. ASSUME NEW j
      PROVE  j \in ModeChanges(t, i)' <=> j \in ModeChanges(t, i)
  <2>1. j \in Host' /\ j <= i <=> j \in Host /\ j <= i
    BY <1>1, <1>2
  <2>2. j \in Host => log'[j] = log[j]
    BY <1>1, <1>2
  <2>3. j \in ModeChanges(t, i)' <=> j \in Host' /\ j <= i /\ log'[j].pid = t /\ log'[j].kind # "switch"
    BY <1>3
  <2> QED
    BY <2>1, <2>2, <2>3 DEF ModeChanges
<1>5. ModeChanges(t, i)' = ModeChanges(t, i)
  BY <1>4
<1>6. ModeAfter(t, i)' = IF ModeChanges(t, i)' = {} THEN "init"
                         ELSE ModeBy(log'[Max(ModeChanges(t, i)')].kind)
  BY DEF ModeAfter, ModeBy
<1>7. ModeAfter(t, i) = IF ModeChanges(t, i) = {} THEN "init"
                        ELSE ModeBy(log[Max(ModeChanges(t, i))].kind)
  BY DEF ModeAfter, ModeBy
<1>8. ModeChanges(t, i) # {} => Max(ModeChanges(t, i)) \in 1 .. Len(log)
  <2>1. ModeChanges(t, i) \in SUBSET (1 .. Len(log))
    BY <1>1 DEF ModeChanges
  <2> QED
    BY <1>1, <2>1, MaxExists, MaxIs
<1> QED
  BY <1>2, <1>5, <1>6, <1>7, <1>8

(* The new one tells the mode of its task, if it changes it. *)
LEMMA ModesGrow ==
    ASSUME TypeOK, NEW e, Reads(e), NEW t, NEW n, n = Len(log) + 1
    PROVE  ModeAfter(t, n)' = IF Changes(e, t) THEN ModeBy(e.kind) ELSE ModeAfter(t, Len(log))
<1>1. Len(log) \in Nat /\ Host \subseteq 1 .. Len(log)
  BY Positions
<1>2. /\ \A j \in 1 .. Len(log) : log'[j] = log[j]
      /\ log'[n] = e
      /\ Host' = IF e.kind # "send" THEN Host \cup {n} ELSE Host
  BY ReadsOne
<1>3. ModeChanges(t, n)' = {j \in Host' : j <= n /\ log'[j].pid = t /\ log'[j].kind # "switch"}
  BY DEF ModeChanges
<1>4. ModeAfter(t, n)' = IF ModeChanges(t, n)' = {} THEN "init"
                         ELSE ModeBy(log'[Max(ModeChanges(t, n)')].kind)
  BY DEF ModeAfter, ModeBy
<1>5. CASE Changes(e, t)
  <2>1. n \in ModeChanges(t, n)'
    BY <1>1, <1>2, <1>3, <1>5 DEF Changes
  <2>2. ModeChanges(t, n)' \in SUBSET (1 .. n) /\ \A j \in ModeChanges(t, n)' : j <= n
    <3>1. Host' \subseteq 1 .. n
      <4>1. n \in 1 .. n /\ 1 .. Len(log) \subseteq 1 .. n
        BY <1>1
      <4> QED
        BY <1>1, <1>2, <4>1
    <3> QED
      BY <1>1, <1>3, <3>1
  <2>3. n \in Nat
    BY <1>1
  <2>4. Max(ModeChanges(t, n)') = n
    BY <2>1, <2>2, <2>3, MaxIs
  <2> QED
    BY <1>2, <1>4, <1>5, <2>1, <2>4
<1>6. CASE ~Changes(e, t)
  <2>1. ASSUME NEW j
        PROVE  j \in ModeChanges(t, n)' <=> j \in ModeChanges(t, Len(log))
    <3>1. j \in Host => j \in 1 .. Len(log) /\ j <= n /\ j <= Len(log) /\ log'[j] = log[j]
      BY <1>1, <1>2
    <3>2. j \in ModeChanges(t, n)' <=> j \in Host' /\ j <= n /\ log'[j].pid = t /\ log'[j].kind # "switch"
      BY <1>3
    <3>3. j = n /\ j \in Host' => ~(log'[j].pid = t /\ log'[j].kind # "switch")
      BY <1>1, <1>2, <1>6 DEF Changes
    <3>4. j \in Host' /\ j # n <=> j \in Host
      BY <1>1, <1>2
    <3> QED
      BY <3>1, <3>2, <3>3, <3>4 DEF ModeChanges
  <2>2. ModeChanges(t, n)' = ModeChanges(t, Len(log))
    BY <2>1
  <2>3. ModeChanges(t, Len(log)) # {} => Max(ModeChanges(t, Len(log))) \in 1 .. Len(log)
    <3>1. ModeChanges(t, Len(log)) \in SUBSET (1 .. Len(log))
      BY <1>1 DEF ModeChanges
    <3> QED
      BY <1>1, <3>1, MaxExists, MaxIs
  <2>4. ModeAfter(t, Len(log)) = IF ModeChanges(t, Len(log)) = {} THEN "init"
                        ELSE ModeBy(log[Max(ModeChanges(t, Len(log)))].kind)
    BY DEF ModeAfter, ModeBy
  <2> QED
    BY <1>2, <1>4, <1>6, <2>2, <2>3, <2>4
<1> QED
  BY <1>5, <1>6

(* Nothing but events of the host tells a mode. *)
LEMMA ModeSinceLast ==
    ASSUME TypeOK, NEW t, NEW i, Last(i)
    PROVE  ModeAfter(t, i) = ModeAfter(t, Len(log))
<1>1. Len(log) \in Nat /\ Host \subseteq 1 .. Len(log)
  BY Positions
<1>2. \A h \in Host : h <= i /\ h <= Len(log)
  BY <1>1 DEF Last
<1>3. ModeChanges(t, i) = ModeChanges(t, Len(log))
  BY <1>2 DEF ModeChanges
<1> QED
  BY <1>3 DEF ModeAfter

(***************************************************************************)
(* A thread of QEMU runs if and only if the last event of the host left it *)
(* the CPU, whatever switches between other tasks have not been recorded,  *)
(* and then its last_change is the time of that event: what a thread has   *)
(* in last_change while it does not run is stale, and is overwritten       *)
(* before it is charged again.                                             *)
(***************************************************************************)
RunsSince ==
    \A i : Last(i) => \A t \in Tracked :
        (running = t <=> Runner(i) = t) /\ (running = t => lastChange[t] = Time[i])
(* The mode of a task is what the window has told of it. *)
KnownMode == \A n : n = Len(log) => \A t \in Task : mode[t] = ModeAfter(t, n)

(* No interval is negative, and there are finitely many. *)
LEMMA LengthIs ==
    ASSUME NEW i \in 1 .. MaxTrace, NEW j \in 1 .. MaxTrace, i <= j
    PROVE  Length[<<i, j>>] = Time[j] - Time[i] /\ Length[<<i, j>>] \in Nat
<1>1. Length[<<i, j>>] = Time[j] - Time[i]
  BY DEF Length
<1>2. Time[i] \in Nat /\ Time[j] \in Nat /\ Time[i] <= Time[j]
  BY TimeSorted
<1> QED
  BY <1>1, <1>2

(* So any of them can be summed. *)
LEMMA IntervalsFinite ==
    ASSUME TypeOK, Window
    PROVE  /\ IsFiniteSet(Intervals)
           /\ \A P \in SUBSET Intervals : IsFiniteSet(P) /\ \A x \in P : Length[x] \in Nat
<1>1. Intervals \subseteq Host \X Host
  BY IntervalsAre DEF Adjacent
<1>2. IsFiniteSet(Host \X Host)
  BY Positions, FS_Product
<1>3. IsFiniteSet(Intervals)
  BY <1>1, <1>2, FS_Subset
<1>4. ASSUME NEW x \in Intervals
      PROVE  Length[x] \in Nat
  <2>1. x = <<x[1], x[2]>> /\ x[1] \in 1 .. Len(log) /\ x[2] \in 1 .. Len(log) /\ x[1] < x[2]
    BY IntervalEnds
  <2>2. x[1] \in 1 .. MaxTrace /\ x[2] \in 1 .. MaxTrace /\ x[1] <= x[2]
    BY <2>1, Positions, TimesAssumption DEF Window
  <2>3. Length[<<x[1], x[2]>>] \in Nat
    BY <2>2, LengthIs
  <2> QED
    BY <2>1, <2>3
<1> QED
  BY <1>3, <1>4, FS_Subset

(***************************************************************************)
(* A sum over intervals grows by the time since the last event if and only *)
(* if the interval that ends now is one of them.                           *)
(***************************************************************************)
LEMMA SumWithNew ==
    ASSUME TypeOK, Window, RunsSince, NEW e, Reads(e),
           NEW P \in SUBSET Intervals, NEW Q, Q \subseteq Intervals',
           \A x \in Intervals : x \in Q <=> x \in P,
           NEW t \in Tracked, NEW b \in BOOLEAN, b => running = t,
           \A i : Last(i) /\ e.kind # "send" => (<<i, Len(log) + 1>> \in Q <=> b)
    PROVE  SumFunctionOnSet(Length, Q)
               = SumFunctionOnSet(Length, P)
                     + IF b /\ e.kind # "send" /\ Host # {} THEN TimeSince(t) ELSE 0
<1>0. IsFiniteSet(P) /\ \A x \in P : Length[x] \in Nat
  BY IntervalsFinite
<1>1. SumFunctionOnSet(Length, P) \in Nat
  BY <1>0, SumTakes
<1>2. CASE e.kind = "send" \/ Host = {}
  <2>1. Intervals' = Intervals
    BY <1>2, IntervalsGrow
  <2>2. Q = P
    BY <2>1
  <2> QED
    BY <1>1, <1>2, <2>2
<1>3. CASE e.kind # "send" /\ Host # {}
  <2>1. PICK i : Last(i)
    BY <1>3, LastExists
  <2> DEFINE n == Len(log) + 1
             new == <<i, n>>
  <2>2. Intervals' = Intervals \cup {new}
    BY <1>3, <2>1, IntervalsGrow
  <2>3. new \in Q <=> b
    BY <1>3, <2>1
  <2>4. i \in 1 .. Len(log) /\ Len(log) \in Nat
    BY <2>1, Positions DEF Last
  <2>5. new \notin Intervals
    <3>1. new \in Intervals => n \in 1 .. Len(log)
      BY IntervalEnds
    <3> QED
      BY <2>4, <3>1
  <2>6. Length[new] \in Nat /\ (b => Length[new] = TimeSince(t))
    <3>1. i \in 1 .. MaxTrace /\ n \in 1 .. MaxTrace /\ i <= n
      BY <2>4, TimesAssumption DEF Reads
    <3>2. Length[new] = Time[n] - Time[i] /\ Length[new] \in Nat
      BY <3>1, LengthIs
    <3>3. b => lastChange[t] = Time[i]
      BY <2>1 DEF RunsSince
    <3> QED
      BY <3>2, <3>3 DEF TimeSince, Now
  <2> HIDE DEF new
  <2>7. CASE b
    <3>1. Q = P \cup {new}
      BY <2>2, <2>3, <2>7
    <3>2. SumFunctionOnSet(Length, P \cup {new}) = SumFunctionOnSet(Length, P) + Length[new]
      BY <1>0, <2>5, <2>6, SumGrows
    <3> QED
      BY <1>3, <2>6, <2>7, <3>1, <3>2
  <2>8. CASE ~b
    <3>1. Q = P
      BY <2>2, <2>3, <2>8
    <3> QED
      BY <1>1, <2>8, <3>1
  <2> QED
    BY <2>7, <2>8
<1> QED
  BY <1>2, <1>3

(* What an interval of the window tells is told by the longer window, too. *)
LEMMA IntervalsTell ==
    ASSUME TypeOK, NEW e, Reads(e), NEW i \in 1 .. Len(log), NEW t
    PROVE  /\ Transaction(i)' = Transaction(i)
           /\ Runner(i)' = Runner(i)
           /\ ModeAfter(t, i)' = ModeAfter(t, i)
<1>1. log'[i] = log[i] /\ i \in 0 .. Len(log)
  BY ReadsOne, Positions
<1> QED
  BY <1>1, TransactionsStay, ModesStay DEF Runner

(* The time of a task in a mode that the trace tells after one more event. *)
LEMMA TimeGrows ==
    ASSUME TypeOK, Window, RunsSince, KnownMode, NEW e, Reads(e),
           NEW k, NEW t \in Tracked, NEW m \in Measured
    PROVE  TimeOf(k, t, m)' = TimeOf(k, t, m)
               + IF k = Here /\ t = running /\ m = mode[t] /\ e.kind # "send"
                 THEN TimeSince(t) ELSE 0
<1> DEFINE P == Spans(k, t, m)
           Q == Spans(k, t, m)'
           b == k = Here /\ t = running /\ m = mode[t]
<1>0. t \in Task
  BY TimesAssumption DEF Tracked
<1>1. P \in SUBSET Intervals
  BY DEF Spans
<1>2. Q = {x \in Intervals' : /\ Transaction(x[2])' = k
                              /\ Runner(x[1])' = t
                              /\ ModeAfter(t, x[1])' = m}
  BY DEF Spans
<1>3. Intervals \subseteq Intervals'
  BY IntervalsGrow, LastExists
<1>4. \A x \in Intervals : x \in Q <=> x \in P
  <2> SUFFICES ASSUME NEW x \in Intervals
               PROVE  x \in Q <=> x \in P
    OBVIOUS
  <2>1. x[1] \in 1 .. Len(log) /\ x[2] \in 1 .. Len(log)
    BY IntervalEnds
  <2>2. /\ Transaction(x[2])' = Transaction(x[2]) /\ Runner(x[1])' = Runner(x[1])
        /\ ModeAfter(t, x[1])' = ModeAfter(t, x[1])
    BY <2>1, IntervalsTell
  <2> QED
    BY <1>2, <1>3, <2>2 DEF Spans
<1>5. ASSUME NEW i, Last(i), e.kind # "send"
      PROVE  <<i, Len(log) + 1>> \in Q <=> b
  <2>1. <<i, Len(log) + 1>> \in Intervals'
    BY <1>5, IntervalsGrow
  <2>2. i \in 1 .. Len(log)
    BY <1>5, Positions DEF Last
  <2>3. Runner(i)' = t <=> running = t
    BY <1>5, <2>2, IntervalsTell DEF RunsSince
  <2>4. ModeAfter(t, i)' = mode[t]
    BY <1>0, <1>5, <2>2, IntervalsTell, ModeSinceLast DEF KnownMode
  <2>5. ASSUME NEW j, j = Len(log) + 1
        PROVE  Transaction(j)' = Here
    BY <2>5, TransactionsStay
  <2>6. ASSUME NEW x, x = <<i, Len(log) + 1>>
        PROVE  x \in Q <=> b
    <3>1. x[1] = i /\ x[2] = Len(log) + 1 /\ x \in Intervals'
      BY <2>1, <2>6
    <3>2. Transaction(x[2])' = Here
      BY <2>5, <3>1
    <3>3. (Runner(x[1])' = t <=> running = t) /\ ModeAfter(t, x[1])' = mode[t]
      BY <2>3, <2>4, <3>1
    <3>4. x \in Q <=> /\ Transaction(x[2])' = k
                      /\ Runner(x[1])' = t
                      /\ ModeAfter(t, x[1])' = m
      BY <1>2, <3>1
    <3> QED
      BY <3>2, <3>3, <3>4
  <2> QED
    BY <2>6
<1>6. Q \subseteq Intervals'
  BY <1>2
<1>7. SumFunctionOnSet(Length, Q) = SumFunctionOnSet(Length, P)
          + IF b /\ e.kind # "send" /\ Host # {} THEN TimeSince(t) ELSE 0
  <2>1. b \in BOOLEAN /\ (b => running = t)
    OBVIOUS
  <2> HIDE DEF P, Q, b
  <2> QED
    BY <1>1, <1>4, <1>5, <1>6, <2>1, SumWithNew
<1>8. Host = {} => ~b
  <2>1. Host = {} => ModeAfter(t, Len(log)) = "init"
    BY DEF ModeAfter, ModeChanges
  <2> QED
    BY <1>0, <2>1 DEF KnownMode, Measured
<1>9. TimeOf(k, t, m)' = SumFunctionOnSet(Length, Q) /\ TimeOf(k, t, m) = SumFunctionOnSet(Length, P)
  BY DEF TimeOf
<1> HIDE DEF P, Q
<1> QED
  BY <1>7, <1>8, <1>9

(***************************************************************************)
(* last_exit is the last exit of the window, and outside of the guest no   *)
(* entry has come after it: an exit cannot be credited twice.              *)
(***************************************************************************)
ExitIsLast == \A i \in 1 .. Len(log) : log[i].kind = "exit" => i <= lastExit
NoneSince  == \A i \in 1 .. Len(log) : log[i].kind = "entry" => i < lastExit
EntriesBefore == actual[Vcpu] # "vm" => NoneSince

(* The exits of the window end at its entries. *)
LEMMA ExitsGrow ==
    ASSUME TypeOK, ExitSeen, ExitIsLast, NEW e, Reads(e), e.kind = "entry" => NoneSince,
           NEW k, NEW r
    PROVE  ExitsOf(k, r)' = IF /\ k = Here /\ e.kind = "entry"
                               /\ lastExit # NoExit /\ r = log[lastExit].arg
                            THEN ExitsOf(k, r) \cup {<<lastExit, Len(log) + 1>>}
                            ELSE ExitsOf(k, r)
<1> SUFFICES ASSUME NEW n, n = Len(log) + 1
             PROVE  ExitsOf(k, r)' = IF /\ k = Here /\ e.kind = "entry"
                                        /\ lastExit # NoExit /\ r = log[lastExit].arg
                                     THEN ExitsOf(k, r) \cup {<<lastExit, n>>}
                                     ELSE ExitsOf(k, r)
  OBVIOUS
<1> DEFINE b == k = Here /\ e.kind = "entry" /\ lastExit # NoExit /\ r = log[lastExit].arg
           In(i, j) == /\ log[i].kind = "exit" /\ log[i].arg = r
                       /\ log[j].kind = "entry" /\ Transaction(j) = k
                       /\ i < j
                       /\ \A h \in Host : i < h /\ h < j => log[h].kind \notin {"exit", "entry"}
           OnceRead(i, j) == /\ log'[i].kind = "exit" /\ log'[i].arg = r
                         /\ log'[j].kind = "entry" /\ Transaction(j)' = k
                         /\ i < j
                         /\ \A h \in Host' : i < h /\ h < j => log'[h].kind \notin {"exit", "entry"}
<1>1. /\ Len(log) \in Nat /\ Host \subseteq 1 .. Len(log)
      /\ \A h \in Host : h \in Nat /\ h < n
  BY Positions
<1>2. /\ Host' = IF e.kind # "send" THEN Host \cup {n} ELSE Host
      /\ \A h \in Host : log'[h] = log[h]
      /\ log'[n] = e
  BY <1>1, ReadsOne
<1>3. \A h \in Host : Transaction(h)' = Transaction(h)
  BY <1>1, TransactionsStay
<1>4. ASSUME NEW j, j = n
      PROVE  Transaction(j)' = Here
  BY <1>4, TransactionsStay
<1>5. ExitsOf(k, r)' = {ij \in Host' \X Host' : OnceRead(ij[1], ij[2])}
  BY DEF ExitsOf
<1>6. ExitsOf(k, r) = {ij \in Host \X Host : In(ij[1], ij[2])}
  BY DEF ExitsOf
<1>7. n \in Nat /\ n \notin Host /\ n = Len(log) + 1
  BY <1>1
<1>8. ASSUME NEW i \in Host, NEW j \in Host
      PROVE  OnceRead(i, j) <=> In(i, j)
  <2>1. \A h \in Host' : h < j => h \in Host
    BY <1>1, <1>2, <1>7
  <2>2. Host \subseteq Host'
    BY <1>2
  <2> QED
    BY <1>2, <1>3, <2>1, <2>2
<1>9. ASSUME NEW i \in Host, e.kind # "send"
      PROVE  OnceRead(i, n) <=> b /\ i = lastExit
  <2>1. i \in 1 .. Len(log) /\ log'[i] = log[i] /\ i < n
    BY <1>1, <1>2
  <2>2. lastExit \in 0 .. Len(log) /\ (lastExit # NoExit => lastExit \in Host)
    BY <1>1 DEF TypeOK, ExitSeen, NoExit, Host
  <2>3. \A j : j = n => Transaction(j)' = Here
    BY <1>4
  <2>4. ASSUME OnceRead(i, n)
        PROVE  b /\ i = lastExit
    <3>1. log[i].kind = "exit" /\ log[i].arg = r /\ e.kind = "entry" /\ k = Here
      BY <1>2, <2>1, <2>3, <2>4
    <3>2. i <= lastExit /\ lastExit # NoExit
      BY <2>1, <2>2, <3>1 DEF ExitIsLast, NoExit
    <3>3. lastExit \in Host /\ lastExit < n /\ log'[lastExit].kind = "exit"
      BY <1>1, <1>2, <2>2, <3>2 DEF ExitSeen
    <3>4. ~(i < lastExit)
      BY <1>2, <2>4, <3>3
    <3>5. i = lastExit
      BY <2>1, <2>2, <3>2, <3>4
    <3> QED
      BY <3>1, <3>2, <3>5
  <2>5. ASSUME b, i = lastExit
        PROVE  OnceRead(i, n)
    <3>1. log'[i].kind = "exit" /\ log'[i].arg = r /\ log'[n].kind = "entry"
      BY <1>2, <2>1, <2>5 DEF ExitSeen
    <3>2. \A j : j = n => Transaction(j)' = k
      BY <2>3, <2>5
    <3>3. ASSUME NEW h \in Host', i < h, h < n
          PROVE  log'[h].kind \notin {"exit", "entry"}
      <4>1. h \in Host /\ h \in 1 .. Len(log) /\ log'[h] = log[h]
        BY <1>1, <1>2, <1>7, <3>3
      <4>2. log[h].kind # "exit"
        BY <2>1, <2>5, <3>3, <4>1 DEF ExitIsLast
      <4>3. log[h].kind # "entry"
        BY <2>1, <2>5, <3>3, <4>1 DEF NoneSince
      <4> QED
        BY <4>1, <4>2, <4>3
    <3> QED
      BY <2>1, <3>1, <3>2, <3>3
  <2> QED
    BY <2>4, <2>5
<1>10. ASSUME NEW j \in Host', OnceRead(n, j)
       PROVE  FALSE
  <2>1. j \in Nat /\ j <= n /\ n < j
    BY <1>1, <1>2, <1>7, <1>10
  <2> QED
    BY <1>7, <2>1
<1>11. b => lastExit \in Host /\ e.kind # "send"
  <2>1. lastExit # NoExit => lastExit \in Host
    BY <1>1 DEF TypeOK, ExitSeen, NoExit, Host
  <2> QED
    BY <2>1
<1> HIDE DEF OnceRead, In, b
<1>12. ASSUME NEW x
       PROVE  x \in ExitsOf(k, r)' <=> x \in ExitsOf(k, r) \/ (b /\ x = <<lastExit, n>>)
  <2>1. CASE x \in Host' \X Host'
    <3>1. x = <<x[1], x[2]>> /\ x[1] \in Host' /\ x[2] \in Host'
      BY <2>1
    <3>2. x \in ExitsOf(k, r)' <=> OnceRead(x[1], x[2])
      BY <1>5, <2>1
    <3>3. x \in Host \X Host <=> x[1] \in Host /\ x[2] \in Host
      BY <3>1
    <3>4. x \in ExitsOf(k, r) <=> x[1] \in Host /\ x[2] \in Host /\ In(x[1], x[2])
      BY <1>6, <3>3
    <3>5. CASE x[1] \in Host /\ x[2] \in Host
      <4>1. x # <<lastExit, n>>
        BY <1>7, <3>5
      <4> QED
        BY <1>8, <3>2, <3>4, <3>5, <4>1
    <3>6. CASE x[1] \in Host /\ x[2] \notin Host
      <4>1. x[2] = n /\ e.kind # "send"
        BY <1>2, <3>1, <3>6
      <4>2. OnceRead(x[1], x[2]) <=> b /\ x[1] = lastExit
        BY <1>9, <3>6, <4>1
      <4>3. x = <<lastExit, n>> <=> x[1] = lastExit
        BY <3>1, <4>1
      <4> QED
        BY <3>2, <3>4, <3>6, <4>2, <4>3
    <3>7. CASE x[1] \notin Host
      <4>1. x[1] = n
        BY <1>2, <3>1, <3>7
      <4>2. ~OnceRead(x[1], x[2])
        BY <1>10, <3>1, <4>1
      <4>3. b => x # <<lastExit, n>>
        BY <1>11, <3>7
      <4> QED
        BY <3>2, <3>4, <3>7, <4>2, <4>3
    <3> QED
      BY <3>5, <3>6, <3>7
  <2>2. CASE x \notin Host' \X Host'
    <3>1. x \notin Host \X Host
      BY <1>2, <2>2
    <3>2. b => x # <<lastExit, n>>
      <4>1. b => <<lastExit, n>> \in Host' \X Host'
        BY <1>2, <1>11
      <4> QED
        BY <2>2, <4>1
    <3> QED
      BY <1>5, <1>6, <2>2, <3>1, <3>2
  <2> QED
    BY <2>1, <2>2
<1>13. CASE b
  <2>1. ExitsOf(k, r)' = ExitsOf(k, r) \cup {<<lastExit, n>>}
    BY <1>12, <1>13
  <2> QED
    BY <1>13, <2>1 DEF b
<1>14. CASE ~b
  <2>1. ExitsOf(k, r)' = ExitsOf(k, r)
    BY <1>12, <1>14
  <2> QED
    BY <1>14, <2>1 DEF b
<1> QED
  BY <1>13, <1>14

(* The exits can be summed, and end within the window. *)
LEMMA ExitsFinite ==
    ASSUME TypeOK, Window, NEW k, NEW r
    PROVE  /\ IsFiniteSet(ExitsOf(k, r)) /\ \A x \in ExitsOf(k, r) : Length[x] \in Nat
           /\ \A x \in ExitsOf(k, r) : x[2] \in 1 .. Len(log)
<1>1. ExitsOf(k, r) \subseteq Host \X Host
  BY DEF ExitsOf
<1>2. IsFiniteSet(Host \X Host)
  BY Positions, FS_Product
<1>3. IsFiniteSet(ExitsOf(k, r))
  BY <1>1, <1>2, FS_Subset
<1>4. ASSUME NEW x \in ExitsOf(k, r)
      PROVE  Length[x] \in Nat /\ x[2] \in 1 .. Len(log)
  <2>1. x = <<x[1], x[2]>> /\ x[1] \in 1 .. Len(log) /\ x[2] \in 1 .. Len(log) /\ x[1] < x[2]
    BY <1>1, Positions DEF ExitsOf
  <2>2. x[1] \in 1 .. MaxTrace /\ x[2] \in 1 .. MaxTrace /\ x[1] <= x[2]
    BY <2>1, Positions, TimesAssumption DEF Window
  <2>3. Length[<<x[1], x[2]>>] \in Nat
    BY <2>2, LengthIs
  <2> QED
    BY <2>1, <2>3
<1> QED
  BY <1>3, <1>4

(* The time of the exits for a reason that the trace tells after one more event. *)
LEMMA ExitTimeGrows ==
    ASSUME TypeOK, Window, ExitSeen, ExitIsLast, NEW e, Reads(e),
           e.kind = "entry" => NoneSince, NEW k, NEW r
    PROVE  ExitTime(k, r)' = ExitTime(k, r)
               + IF /\ k = Here /\ e.kind = "entry"
                    /\ lastExit # NoExit /\ r = log[lastExit].arg
                 THEN Now - Time[lastExit] ELSE 0
<1> DEFINE b == k = Here /\ e.kind = "entry" /\ lastExit # NoExit /\ r = log[lastExit].arg
           new == <<lastExit, Len(log) + 1>>
<1>1. ExitsOf(k, r)' = IF b THEN ExitsOf(k, r) \cup {new} ELSE ExitsOf(k, r)
  BY ExitsGrow
<1>2. ExitTime(k, r)' = SumFunctionOnSet(Length, ExitsOf(k, r)')
      /\ ExitTime(k, r) = SumFunctionOnSet(Length, ExitsOf(k, r))
  BY DEF ExitTime
<1>3. IsFiniteSet(ExitsOf(k, r)) /\ \A x \in ExitsOf(k, r) : Length[x] \in Nat
  BY ExitsFinite
<1>4. SumFunctionOnSet(Length, ExitsOf(k, r)) \in Nat
  BY <1>3, SumTakes
<1>5. CASE ~b
  BY <1>1, <1>2, <1>4, <1>5
<1>6. CASE b
  <2>1. lastExit \in 1 .. Len(log) /\ Len(log) \in Nat
    BY <1>6, Positions DEF TypeOK, NoExit
  <2>2. new \notin ExitsOf(k, r)
    <3>1. new \in ExitsOf(k, r) => Len(log) + 1 \in 1 .. Len(log)
      BY ExitsFinite
    <3> QED
      BY <2>1, <3>1
  <2>3. Length[new] = Now - Time[lastExit] /\ Length[new] \in Nat
    <3>1. lastExit \in 1 .. MaxTrace /\ Len(log) + 1 \in 1 .. MaxTrace /\ lastExit <= Len(log) + 1
      BY <2>1, TimesAssumption DEF Reads
    <3> QED
      BY <3>1, LengthIs DEF Now
  <2> HIDE DEF new
  <2>4. SumFunctionOnSet(Length, ExitsOf(k, r) \cup {new})
            = SumFunctionOnSet(Length, ExitsOf(k, r)) + Length[new]
    BY <1>3, <2>2, <2>3, SumGrows
  <2>5. ExitTime(k, r)' = ExitTime(k, r) + (Now - Time[lastExit])
    BY <1>1, <1>2, <1>6, <2>3, <2>4
  <2> QED
    BY <1>6, <2>5
<1> QED
  BY <1>5, <1>6

(* What the trace counts after one more event. *)
LEMMA CountGrows ==
    ASSUME TypeOK, NEW e, Reads(e), NEW k, NEW kinds, "send" \notin kinds
    PROVE  CountOf(k, kinds)' = CountOf(k, kinds) + IF k = Here /\ e.kind \in kinds THEN 1 ELSE 0
<1> SUFFICES ASSUME NEW n, n = Len(log) + 1
             PROVE  CountOf(k, kinds)' = CountOf(k, kinds)
                        + IF k = Here /\ e.kind \in kinds THEN 1 ELSE 0
  OBVIOUS
<1> DEFINE P == {i \in Host : log[i].kind \in kinds /\ Transaction(i) = k}
           Q == {i \in Host' : log'[i].kind \in kinds /\ Transaction(i)' = k}
           b == k = Here /\ e.kind \in kinds
<1>1. CountOf(k, kinds)' = Cardinality(Q) /\ CountOf(k, kinds) = Cardinality(P)
  BY DEF CountOf
<1>2. /\ Len(log) \in Nat /\ Host \subseteq 1 .. Len(log) /\ IsFiniteSet(Host)
      /\ n \notin Host
  BY Positions
<1>3. /\ Host' = IF e.kind # "send" THEN Host \cup {n} ELSE Host
      /\ \A h \in Host : log'[h] = log[h]
      /\ log'[n] = e
  BY <1>2, ReadsOne
<1>4. \A h \in Host : Transaction(h)' = Transaction(h)
  BY <1>2, TransactionsStay
<1>5. Transaction(n)' = Here
  BY TransactionsStay
<1>6. \A i \in Host : i \in Q <=> i \in P
  BY <1>3, <1>4
<1>7. n \in Q <=> b
  BY <1>3, <1>5
<1>8. P \subseteq Host /\ Q \subseteq Host \cup {n}
  BY <1>3
<1>9. IsFiniteSet(P) /\ n \notin P
  BY <1>2, <1>8, FS_Subset
<1> HIDE DEF P, Q
<1>10. Cardinality(P) \in Nat /\ Cardinality(P \cup {n}) = Cardinality(P) + 1
  BY <1>9, FS_CardinalityType, FS_AddElement
<1>11. Q = IF b THEN P \cup {n} ELSE P
  BY <1>6, <1>7, <1>8
<1> QED
  BY <1>1, <1>10, <1>11

(* Of the transactions to come the trace tells nothing yet. *)
LEMMA Fresh ==
    ASSUME TypeOK, NEW k, k = Here + 1
    PROVE  /\ \A t, m : TimeOf(k, t, m) = 0
           /\ \A r : ExitTime(k, r) = 0
           /\ \A kinds : CountOf(k, kinds) = 0
<1>1. \A j \in 1 .. Len(log) : Transaction(j) # k
  <2> SUFFICES ASSUME NEW j \in 1 .. Len(log)
               PROVE  Transaction(j) # k
    OBVIOUS
  <2> DEFINE B == {b \in Boundary : b < j}
  <2>1. IsFiniteSet(Boundary) /\ Cardinality(Boundary) \in Nat
    BY Positions
  <2>2. B \subseteq Boundary /\ Transaction(j) = 1 + Cardinality(B)
    BY DEF Transaction
  <2> HIDE DEF B
  <2>3. Cardinality(B) \in Nat /\ Cardinality(B) <= Cardinality(Boundary)
    BY <2>1, <2>2, FS_Subset, FS_CardinalityType
  <2> QED
    BY <2>1, <2>2, <2>3 DEF Here
<1>2. \A t, m : Spans(k, t, m) = {}
  BY <1>1, IntervalEnds DEF Spans
<1>4. \A r : ExitsOf(k, r) = {}
  BY <1>1, Positions DEF ExitsOf
<1>5. \A kinds : {i \in Host : log[i].kind \in kinds /\ Transaction(i) = k} = {}
  BY <1>1, Positions
<1>6. SumFunctionOnSet(Length, {}) = 0
  BY FS_EmptySet, SumParts
<1>7. \A t, m : TimeOf(k, t, m) = 0
  BY <1>2, <1>6 DEF TimeOf
<1>8. \A r : ExitTime(k, r) = 0
  BY <1>4, <1>6 DEF ExitTime
<1>9. \A kinds : CountOf(k, kinds) = 0
  BY <1>5, FS_EmptySet DEF CountOf
<1> QED
  BY <1>7, <1>8, <1>9

-----------------------------------------------------------------------------
(* Portion p says of transaction k what the trace says. *)
Tells(p, k) ==
    /\ \A t \in Tracked, m \in Measured : p.times[t][m] = TimeOf(k, t, m)
    /\ \A r \in Reason : p.exits[r] = ExitTime(k, r)
    /\ p.switches = CountOf(k, {"switch"})
    /\ p.syscalls = CountOf(k, {"enter", "ppoll"})

(* Portion q is portion p with what event e adds. *)
Adds(e, p, q) ==
    /\ \A t \in Tracked, m \in Measured : q.times[t][m] = p.times[t][m]
          + IF t = running /\ m = mode[t] /\ e.kind # "send" THEN TimeSince(t) ELSE 0
    /\ \A r \in Reason : q.exits[r] = p.exits[r]
          + IF e.kind = "entry" /\ lastExit # NoExit /\ r = log[lastExit].arg
            THEN Now - Time[lastExit] ELSE 0
    /\ q.switches = p.switches + IF e.kind \in {"switch"} THEN 1 ELSE 0
    /\ q.syscalls = p.syscalls + IF e.kind \in {"enter", "ppoll"} THEN 1 ELSE 0

(* A portion without any charge of QEMU in a known mode. *)
Empty(p) ==
    /\ \A t \in Tracked, m \in Measured : p.times[t][m] = 0
    /\ \A r \in Reason : p.exits[r] = 0
    /\ p.switches = 0 /\ p.syscalls = 0

(* What the trace says are numbers, because portions hold numbers. *)
LEMMA TellsNumbers ==
    ASSUME NEW p \in Portion, NEW k, Tells(p, k)
    PROVE  /\ \A t \in Tracked, m \in Measured : TimeOf(k, t, m) \in Nat
           /\ \A r \in Reason : ExitTime(k, r) \in Nat
           /\ CountOf(k, {"switch"}) \in Nat /\ CountOf(k, {"enter", "ppoll"}) \in Nat
<1>1. /\ p.times \in [Task -> [Mode -> Nat]] /\ p.exits \in [Reason -> Nat]
      /\ p.switches \in Nat /\ p.syscalls \in Nat
  BY PortionFields
<1>2. Measured \subseteq Mode /\ Tracked \subseteq Task
  BY TimesAssumption DEF Mode, Tracked
<1> QED
  BY <1>1, <1>2 DEF Tells

(* What the lemmas on the next event need of the invariant. *)
Heard == TypeOK /\ Window /\ Seen /\ ExitSeen /\ RunsSince /\ KnownMode /\ ExitIsLast

(* An event says nothing of other transactions than its own. *)
LEMMA OthersTold ==
    ASSUME Heard, NEW e, Reads(e), e.kind = "entry" => NoneSince,
           NEW p \in Portion, NEW k, k # Here, Tells(p, k)
    PROVE  Tells(p, k)'
<1>1. TypeOK /\ Window /\ Seen /\ ExitSeen /\ RunsSince /\ KnownMode /\ ExitIsLast
  BY DEF Heard
<1>2. \A t \in Tracked, m \in Measured : TimeOf(k, t, m)' = TimeOf(k, t, m) + 0
  BY <1>1, TimeGrows
<1>3. \A r : ExitTime(k, r)' = ExitTime(k, r) + 0
  BY <1>1, ExitTimeGrows
<1>4. \A kinds : "send" \notin kinds => CountOf(k, kinds)' = CountOf(k, kinds) + 0
  BY <1>1, CountGrows
<1>6. /\ \A t \in Tracked, m \in Measured : TimeOf(k, t, m)' = TimeOf(k, t, m)
      /\ \A r \in Reason : ExitTime(k, r)' = ExitTime(k, r)
      /\ CountOf(k, {"switch"})' = CountOf(k, {"switch"})
      /\ CountOf(k, {"enter", "ppoll"})' = CountOf(k, {"enter", "ppoll"})
  BY <1>2, <1>3, <1>4, TellsNumbers
<1> QED
  BY <1>6 DEF Tells

(* Nothing is what it says of the next one. *)
LEMMA NextTold ==
    ASSUME Heard, NEW e, Reads(e), e.kind = "entry" => NoneSince,
           NEW p \in Portion, NEW k, k = Here + 1, Empty(p)
    PROVE  Tells(p, k)'
<1>1. TypeOK /\ Here \in Nat /\ k # Here
  BY Positions DEF Heard
<1>3. Tells(p, k)
  BY <1>1, Fresh DEF Tells, Empty
<1> QED
  BY <1>1, <1>3, OthersTold

(* What the event adds is what the trace says of its transaction. *)
LEMMA HereTold ==
    ASSUME Heard, NEW e, Reads(e), e.kind = "entry" => NoneSince,
           NEW p \in Portion, NEW q \in Portion, NEW k, k = Here, Tells(p, k), Adds(e, p, q)
    PROVE  Tells(q, k)'
<1>1. TypeOK /\ Window /\ Seen /\ ExitSeen /\ RunsSince /\ KnownMode /\ ExitIsLast
  BY DEF Heard
<1>3. \A t \in Tracked, m \in Measured : q.times[t][m] = TimeOf(k, t, m)'
  BY <1>1, TimeGrows DEF Tells, Adds
<1>4. \A r \in Reason : q.exits[r] = ExitTime(k, r)'
  BY <1>1, ExitTimeGrows DEF Tells, Adds
<1>5. /\ q.switches = CountOf(k, {"switch"})'
      /\ q.syscalls = CountOf(k, {"enter", "ppoll"})'
  <2>1. "send" \notin {"switch"} /\ "send" \notin {"enter", "ppoll"}
    OBVIOUS
  <2>2. CountOf(k, {"switch"})'
            = CountOf(k, {"switch"}) + IF e.kind \in {"switch"} THEN 1 ELSE 0
    BY <1>1, <2>1, CountGrows
  <2>3. CountOf(k, {"enter", "ppoll"})'
            = CountOf(k, {"enter", "ppoll"}) + IF e.kind \in {"enter", "ppoll"} THEN 1 ELSE 0
    BY <1>1, <2>1, CountGrows
  <2> QED
    BY <2>2, <2>3 DEF Tells, Adds
<1> QED
  BY <1>3, <1>4, <1>5 DEF Tells

(* A row has been written per boundary, and every portion says what the trace says. *)
Closings == Len(results) + 1 = Here
Charged  == \A k \in DOMAIN Portions : Tells(Portions[k], k)

(* Everything is charged as the trace tells. *)
Exact == IInv /\ RunsSince /\ KnownMode /\ ExitIsLast /\ EntriesBefore /\ Closings /\ Charged

(* The inductive invariant of the charges. *)
CInv == IInv /\ (~raised => Exact)

(* The rows of the files, and the portion that is being filled. *)
LEMMA PortionsAre ==
    ASSUME TypeOK
    PROVE  /\ Len(results) \in Nat /\ DOMAIN Portions = 1 .. Len(results) + 1
           /\ \A k \in 1 .. Len(results) : Portions[k] = results[k] /\ results[k] \in Portion
           /\ Portions[Len(results) + 1] = current
           /\ DOMAIN results = 1 .. Len(results)
           /\ current \in Portion
BY DEF TypeOK, Portions

(* So the invariant says what is claimed of the portions. *)
LEMMA ChargedRows ==
    ASSUME CInv
    PROVE  TimesPerTransaction
BY DEF CInv, Exact, TimesPerTransaction, Charged, Tells

-----------------------------------------------------------------------------
(* The modes go on to be what the trace tells. *)
LEMMA ModesKnown ==
    ASSUME TypeOK, KnownMode, NEW e, Reads(e),
           \A t \in Task : mode'[t] = IF Changes(e, t) THEN ModeBy(e.kind) ELSE mode[t]
    PROVE  KnownMode'
<1> SUFFICES ASSUME NEW n, n = Len(log'), NEW t \in Task
             PROVE  mode'[t] = ModeAfter(t, n)'
  BY DEF KnownMode
<1>1. n = Len(log) + 1
  BY ReadsOne
<1>2. ModeAfter(t, n)' = IF Changes(e, t) THEN ModeBy(e.kind) ELSE ModeAfter(t, Len(log))
  BY <1>1, ModesGrow
<1> QED
  BY <1>2 DEF KnownMode

(* Who runs, and since when. *)
LEMMA RunsOn ==
    ASSUME TypeOK, RunsSince, NEW e, Reads(e),
           \/ e.kind # "send" /\ running' = (IF e.kind = "switch" THEN e.arg ELSE e.pid)
                  /\ lastChange'[running'] = Now
           \/ e.kind = "send" /\ running' = running
                  /\ \A t \in Tracked : lastChange'[t] = lastChange[t]
    PROVE  RunsSince'
<1> SUFFICES ASSUME NEW i, Last(i)'
             PROVE  \A t \in Tracked : /\ running' = t <=> Runner(i)' = t
                                       /\ running' = t => lastChange'[t] = Time[i]
  BY DEF RunsSince, Tracked
<1>1. /\ Len(log) \in Nat /\ Host \subseteq 1 .. Len(log)
  BY Positions
<1>2. /\ Host' = IF e.kind # "send" THEN Host \cup {Len(log) + 1} ELSE Host
      /\ \A h \in Host : log'[h] = log[h]
      /\ log'[Len(log) + 1] = e
  BY <1>1, ReadsOne
<1>3. i \in Host' /\ \A h \in Host' : h <= i
  BY DEF Last
<1>4. CASE e.kind # "send"
  <2>1. i = Len(log) + 1
    <3>1. Len(log) + 1 \in Host' /\ Len(log) + 1 <= i
      BY <1>2, <1>3, <1>4
    <3>2. i \in Host => i <= Len(log)
      BY <1>1
    <3> QED
      BY <1>1, <1>2, <1>3, <1>4, <3>1, <3>2
  <2>2. Runner(i)' = IF log'[i].kind = "switch" THEN log'[i].arg ELSE log'[i].pid
    BY DEF Runner
  <2> QED
    BY <1>2, <1>4, <2>1, <2>2 DEF Now
<1>5. CASE e.kind = "send"
  <2>1. Last(i)
    BY <1>2, <1>3, <1>5 DEF Last
  <2>2. Runner(i)' = Runner(i)
    BY <1>1, <2>1, IntervalsTell DEF Last
  <2> QED
    BY <1>5, <2>1, <2>2 DEF RunsSince
<1> QED
  BY <1>4, <1>5

(* The last exit, and whether the guest has been entered since. *)
LEMMA ExitsOn ==
    ASSUME TypeOK, ExitIsLast, EntriesBefore, NEW e, Reads(e),
           e.kind = "exit" => lastExit' = Len(log) + 1,
           e.kind # "exit" => lastExit' = lastExit,
           e.kind = "entry" => actual'[Vcpu] = "vm",
           e.kind \notin {"exit", "entry"} => (actual'[Vcpu] # "vm" => actual[Vcpu] # "vm")
    PROVE  ExitIsLast' /\ EntriesBefore'
<1> SUFFICES ASSUME NEW n, n = Len(log) + 1
             PROVE  ExitIsLast' /\ EntriesBefore'
  OBVIOUS
<1>1. /\ Len(log) \in Nat /\ Len(log') = n
      /\ \A i \in 1 .. Len(log) : log'[i] = log[i]
      /\ log'[n] = e
  BY Positions, ReadsOne
<1>2. \A i : i \in 1 .. n <=> i \in 1 .. Len(log) \/ i = n
  BY <1>1
<1>3. lastExit \in 0 .. Len(log)
  BY DEF TypeOK
<1>4. ASSUME NEW i \in 1 .. n, log'[i].kind = "exit"
      PROVE  i <= lastExit'
  BY <1>1, <1>2, <1>3, <1>4 DEF ExitIsLast
<1>5. ASSUME NEW i \in 1 .. n, log'[i].kind = "entry", actual'[Vcpu] # "vm"
      PROVE  i < lastExit'
  <2>1. i \in 1 .. Len(log) /\ log[i].kind = "entry" /\ e.kind # "entry"
    BY <1>1, <1>2, <1>5
  <2>2. CASE e.kind = "exit"
    BY <1>1, <2>1, <2>2
  <2>3. CASE e.kind # "exit"
    BY <1>5, <2>1, <2>3 DEF EntriesBefore, NoneSince
  <2> QED
    BY <2>2, <2>3
<1> QED
  BY <1>1, <1>4, <1>5 DEF ExitIsLast, EntriesBefore, NoneSince

(***************************************************************************)
(* An event that does not end a transaction adds to the portion that is    *)
(* being filled; one that does adds to the row it writes, and the next     *)
(* portion begins empty.                                                   *)
(***************************************************************************)
LEMMA ChargesOn ==
    ASSUME Heard, Closings, Charged, TypeOK', NEW e, Reads(e), e.kind = "entry" => NoneSince,
           NEW c \in Portion, Adds(e, current, c),
           \/ ~Ends(e) /\ results' = results /\ current' = c
           \/ Ends(e) /\ results' = Append(results, c) /\ Empty(current')
    PROVE  Closings' /\ Charged'
<1>1. TypeOK
  BY DEF Heard
<1>2. /\ Len(results) \in Nat /\ DOMAIN Portions = 1 .. Len(results) + 1
      /\ \A k \in 1 .. Len(results) : Portions[k] = results[k] /\ results[k] \in Portion
      /\ Portions[Len(results) + 1] = current
      /\ current \in Portion /\ results \in Seq(Portion)
  BY <1>1, PortionsAre DEF TypeOK
<1>3. Here = Len(results) + 1 /\ Here' = IF Ends(e) THEN Here + 1 ELSE Here
  BY <1>1, TransactionsStay DEF Closings
<1>4. current' \in Portion /\ results' \in Seq(Portion)
  BY DEF TypeOK
<1>5. Len(results') = IF Ends(e) THEN Len(results) + 1 ELSE Len(results)
  BY <1>2
<1>6. Closings'
  BY <1>3, <1>5 DEF Closings
<1>7. Portions' = Append(results', current')
  BY DEF Portions
<1>8. /\ DOMAIN Portions' = 1 .. Len(results') + 1
      /\ \A k \in 1 .. Len(results') : Portions'[k] = results'[k]
      /\ Portions'[Len(results') + 1] = current'
  BY <1>4, <1>7
<1>9. ASSUME NEW k \in DOMAIN Portions', NEW p, p = Portions'[k]
      PROVE  Tells(p, k)'
  <2>1. CASE k \in 1 .. Len(results)
    <3>1. p = results[k]
      BY <1>2, <1>5, <1>8, <1>9, <2>1
    <3>2. p \in Portion /\ Tells(p, k) /\ k # Here
      BY <1>2, <1>3, <2>1, <3>1 DEF Charged
    <3> QED
      BY <3>2, OthersTold
  <2>2. CASE k = Len(results) + 1
    <3>1. p = c
      BY <1>2, <1>5, <1>8, <1>9, <2>2
    <3>2. Tells(current, k) /\ k = Here
      BY <1>2, <1>3, <2>2 DEF Charged
    <3> QED
      BY <1>2, <3>1, <3>2, HereTold
  <2>3. CASE k = Len(results) + 2 /\ Ends(e)
    <3>1. p = current' /\ k = Here + 1
      BY <1>2, <1>3, <1>5, <1>8, <1>9, <2>3
    <3> QED
      BY <1>4, <2>3, <3>1, NextTold
  <2>4. k \in 1 .. Len(results) \/ k = Len(results) + 1 \/ (k = Len(results) + 2 /\ Ends(e))
    BY <1>2, <1>5, <1>8
  <2> QED
    BY <2>1, <2>2, <2>3, <2>4
<1>10. Charged'
  BY <1>9 DEF Charged
<1> QED
  BY <1>6, <1>10

(* All that an event has to do for the invariant to go on. *)
LEMMA GoesOn ==
    ASSUME Exact, IInv', NEW e, Reads(e),
           \A t \in Task : mode'[t] = IF Changes(e, t) THEN ModeBy(e.kind) ELSE mode[t],
           \/ e.kind # "send" /\ running' = (IF e.kind = "switch" THEN e.arg ELSE e.pid)
                  /\ lastChange'[running'] = Now
           \/ e.kind = "send" /\ running' = running
                  /\ \A t \in Tracked : lastChange'[t] = lastChange[t],
           e.kind = "exit" => lastExit' = Len(log) + 1,
           e.kind # "exit" => lastExit' = lastExit,
           e.kind = "entry" => actual[Vcpu] # "vm" /\ actual'[Vcpu] = "vm",
           e.kind \notin {"exit", "entry"} => (actual'[Vcpu] # "vm" => actual[Vcpu] # "vm"),
           NEW c \in Portion, Adds(e, current, c),
           \/ ~Ends(e) /\ results' = results /\ current' = c
           \/ Ends(e) /\ results' = Append(results, c) /\ Empty(current')
    PROVE  Exact'
<1>1. /\ TypeOK /\ Heard /\ EntriesBefore /\ Closings /\ Charged
      /\ RunsSince /\ KnownMode /\ ExitIsLast
  BY DEF Exact, IInv, Heard
<1>2. TypeOK'
  BY DEF IInv
<1>3. e.kind = "entry" => NoneSince
  BY <1>1 DEF EntriesBefore
<1>4. KnownMode'
  BY <1>1, ModesKnown
<1>5. RunsSince'
  BY <1>1, RunsOn
<1>6. ExitIsLast' /\ EntriesBefore'
  BY <1>1, ExitsOn
<1>7. Closings' /\ Charged'
  BY <1>1, <1>2, <1>3, ChargesOn
<1> QED
  BY <1>4, <1>5, <1>6, <1>7 DEF Exact

(* update_time charges the running task, in its mode, and nobody else. *)
LEMMA UpdatedAdds ==
    ASSUME TypeOK, Seen, Len(log) < MaxTrace
    PROVE  \A t \in Task, m \in Measured : Updated(running)[t][m] = current.times[t][m]
               + IF t = running /\ m = mode[t] THEN TimeSince(t) ELSE 0
<1> SUFFICES ASSUME NEW t \in Task, NEW m \in Measured
             PROVE  Updated(running)[t][m] = current.times[t][m]
                        + IF t = running /\ m = mode[t] THEN TimeSince(t) ELSE 0
  OBVIOUS
<1>1. /\ current.times \in [Task -> [Mode -> Nat]] /\ running \in Task
      /\ mode[running] \in Mode /\ m \in Mode
  BY PortionFields DEF TypeOK, Mode
<1>2. current.times[t][m] \in Nat
  BY <1>1
<1>3. Updated(running) = [current.times EXCEPT ![running][mode[running]] =
                             current.times[running][mode[running]] + TimeSince(running)]
  BY DEF Updated
<1>4. CASE t = running /\ m = mode[t]
  BY <1>1, <1>3, <1>4
<1>5. CASE ~(t = running /\ m = mode[t])
  <2>1. Updated(running)[t][m] = current.times[t][m]
    BY <1>1, <1>3, <1>5
  <2> QED
    BY <1>2, <1>5, <2>1
<1> QED
  BY <1>4, <1>5

(* What Happens says, in the terms used here. *)
LEMMA HappensReads ==
    ASSUME Exact, NEW kind, NEW t, NEW arg, NEW next, Happens(kind, t, arg, next)
    PROVE  /\ Reads([kind |-> kind, pid |-> t, arg |-> arg]) /\ running = t
           /\ TypeOK /\ Seen /\ Len(log) < MaxTrace
           /\ mode \in [Task -> Mode] /\ lastChange \in [Task -> Nat]
           /\ current \in Portion /\ lastExit \in 0 .. Len(log)
           /\ actual' = [actual EXCEPT ![t] = next] /\ actual \in [Task -> Measured]
           /\ \A n \in Nat : n + 0 = n
BY DEF Happens, Reads, Exact, IInv, TypeOK

(* event_exit charges what the guest has run, to the transaction that may end with it. *)
LEMMA ExitCharges ==
    ASSUME Exact, NEW r \in Reason, Exit(r), ~raised'
    PROVE  Exact'
<1> DEFINE e == [kind |-> "exit", pid |-> Vcpu, arg |-> r]
<1>1. IInv'
  BY ExitStep DEF Exact
<1>2. Happens("exit", Vcpu, r, "kernel") /\ Vcpu \in Task /\ actual[Vcpu] = "vm"
  BY TimesAssumption DEF Exit
<1>3. /\ Reads(e) /\ running = Vcpu
      /\ TypeOK /\ Seen /\ Len(log) < MaxTrace
      /\ mode \in [Task -> Mode] /\ lastChange \in [Task -> Nat] /\ current \in Portion
      /\ actual' = [actual EXCEPT ![Vcpu] = "kernel"] /\ actual \in [Task -> Measured]
  BY <1>2, HappensReads
<1>4. mode[Vcpu] \in {"init", "vm"}
  BY DEF Exit, Raises
<1>5. /\ mode' = [mode EXCEPT ![Vcpu] = "kernel"] /\ lastChange' = [lastChange EXCEPT ![Vcpu] = Now]
      /\ lastExit' = Len(log') /\ running' = running
      /\ IF EndsTransaction(r)
         THEN results' = Append(results, Closed(Vcpu)) /\ current' = Opened(Vcpu)
         ELSE current' = [current EXCEPT !.times = Updated(Vcpu)] /\ results' = results
  BY <1>4 DEF Exit, Enters
<1>6. e.kind = "exit" /\ e.pid = Vcpu /\ e.arg = r
  OBVIOUS
<1> HIDE DEF e
<1>7. \A t \in Task : mode'[t] = IF Changes(e, t) THEN ModeBy(e.kind) ELSE mode[t]
  BY <1>3, <1>5, <1>6 DEF Changes, ModeBy
<1>8. running' = e.pid /\ lastChange'[running'] = Now /\ lastExit' = Len(log) + 1
  BY <1>2, <1>3, <1>5, <1>6, ReadsOne
<1> DEFINE c == IF EndsTransaction(r) THEN Closed(Vcpu) ELSE [current EXCEPT !.times = Updated(Vcpu)]
<1>9. c \in Portion
  <2>1. Closed(Vcpu) \in Portion
    BY <1>2, <1>3, TransactionEnds
  <2>2. Updated(Vcpu) \in [Task -> [Mode -> Nat]]
    BY <1>2, <1>3, UpdatedTimes
  <2>3. [current EXCEPT !.times = Updated(Vcpu)] \in Portion
    BY <1>3, <2>2, PortionUpdated
  <2> QED
    BY <2>1, <2>3
<1>10. /\ c.exits = current.exits /\ c.switches = current.switches
       /\ c.syscalls = current.syscalls
       /\ c.times = Updated(Vcpu) \/ (mode[Vcpu] = "init" /\ c.times = current.times)
  BY <1>3 DEF Closed, Portion
<1> HIDE DEF c
<1>11. Adds(e, current, c)
  <2>1. /\ current.times \in [Task -> [Mode -> Nat]] /\ current.exits \in [Reason -> Nat]
        /\ current.switches \in Nat /\ current.syscalls \in Nat
    BY <1>3, PortionFields
  <2>t. Tracked \subseteq Task
    BY TimesAssumption DEF Tracked
  <2>2. ASSUME NEW t \in Tracked, NEW m \in Measured
        PROVE  c.times[t][m] = current.times[t][m]
                   + IF t = running /\ m = mode[t] /\ e.kind # "send" THEN TimeSince(t) ELSE 0
    <3>1. CASE c.times = Updated(Vcpu)
      BY <1>3, <1>6, <2>t, <3>1, UpdatedAdds
    <3>2. CASE mode[Vcpu] = "init" /\ c.times = current.times
      <4>1. ~(t = running /\ m = mode[t]) /\ current.times[t][m] \in Nat
        BY <1>3, <2>1, <2>t, <3>2 DEF Measured, Mode
      <4> QED
        BY <3>2, <4>1
    <3> QED
      BY <1>10, <3>1, <3>2
  <2>3. \A x \in Reason : current.exits[x] \in Nat
    BY <2>1
  <2> QED
    BY <1>6, <1>10, <2>1, <2>2, <2>3 DEF Adds
<1>12. Ends(e) <=> EndsTransaction(r)
  BY <1>6 DEF Ends
<1>13. EndsTransaction(r) => Empty(current')
  <2>1. /\ Nothing.times = [t \in Task |-> [m \in Mode |-> 0]]
        /\ Nothing.exits = [x \in Reason |-> 0]
        /\ Nothing.switches = 0 /\ Nothing.syscalls = 0
    BY DEF Nothing
  <2>2. Empty(Nothing)
    BY <2>1, TimesAssumption DEF Empty, Mode, Tracked
  <2>3. Empty(Opened(Vcpu))
    <3>1. CASE mode[Vcpu] # "init"
      BY <2>2, <3>1 DEF Opened
    <3>2. CASE mode[Vcpu] = "init"
      <4>1. /\ Opened(Vcpu).exits = Nothing.exits /\ Opened(Vcpu).switches = Nothing.switches
            /\ Opened(Vcpu).syscalls = Nothing.syscalls
            /\ Opened(Vcpu).times = [Nothing.times EXCEPT ![Vcpu]["init"] = TimeSince(Vcpu)]
        BY <3>2 DEF Opened, Nothing
      <4>2. \A t \in Task, m \in Measured : Opened(Vcpu).times[t][m] = 0
        BY <2>1, <4>1 DEF Measured, Mode
      <4> QED
        BY <2>1, <4>1, <4>2, TimesAssumption DEF Empty, Tracked
    <3> QED
      BY <3>1, <3>2
  <2> QED
    BY <1>5, <2>3
<1>14. \/ ~Ends(e) /\ results' = results /\ current' = c
       \/ Ends(e) /\ results' = Append(results, c) /\ Empty(current')
  BY <1>5, <1>12, <1>13 DEF c
<1> QED
  BY <1>1, <1>3, <1>6, <1>7, <1>8, <1>9, <1>11, <1>14, GoesOn

(* event_enter charges the kernel, and the exit that is over. *)
LEMMA EntryCharges ==
    ASSUME Exact, Entry, ~raised'
    PROVE  Exact'
<1> DEFINE e == [kind |-> "entry", pid |-> Vcpu, arg |-> Vcpu]
           c == [current EXCEPT !.times = Updated(Vcpu), !.exits = ExitOver]
<1>1. IInv'
  BY EntryStep DEF Exact
<1>2. Happens("entry", Vcpu, Vcpu, "vm") /\ Vcpu \in Task /\ actual[Vcpu] = "kernel"
  BY TimesAssumption DEF Entry
<1>3. /\ Reads(e) /\ running = Vcpu
      /\ TypeOK /\ Seen /\ Len(log) < MaxTrace
      /\ mode \in [Task -> Mode] /\ lastChange \in [Task -> Nat] /\ current \in Portion
      /\ actual' = [actual EXCEPT ![Vcpu] = "vm"] /\ actual \in [Task -> Measured]
  BY <1>2, HappensReads
<1>4. mode[Vcpu] \in {"init", "kernel"}
  BY DEF Entry, Raises
<1>5. /\ mode' = [mode EXCEPT ![Vcpu] = "vm"] /\ lastChange' = [lastChange EXCEPT ![Vcpu] = Now]
      /\ lastExit' = lastExit /\ running' = running /\ results' = results /\ current' = c
  BY <1>4 DEF Entry, Enters
<1>6. e.kind = "entry" /\ e.pid = Vcpu
  OBVIOUS
<1> HIDE DEF e
<1>7. \A t \in Task : mode'[t] = IF Changes(e, t) THEN ModeBy(e.kind) ELSE mode[t]
  BY <1>3, <1>5, <1>6 DEF Changes, ModeBy
<1>8. running' = e.pid /\ lastChange'[running'] = Now
  BY <1>2, <1>3, <1>5, <1>6
<1>9. ExitSeen
  BY DEF Exact, IInv
<1>10. ExitOver \in [Reason -> Nat] /\ Updated(Vcpu) \in [Task -> [Mode -> Nat]]
  BY <1>2, <1>3, <1>9, ExitsCredited, UpdatedTimes
<1>11. c \in Portion
  BY <1>3, <1>10, PortionUpdated
<1>12. /\ c.times = Updated(Vcpu) /\ c.exits = ExitOver
       /\ c.switches = current.switches /\ c.syscalls = current.syscalls
  BY <1>3 DEF Portion
<1> HIDE DEF c
<1>13. Adds(e, current, c)
  <2>1. /\ current.exits \in [Reason -> Nat]
        /\ current.switches \in Nat /\ current.syscalls \in Nat
    BY <1>3, PortionFields
  <2>2. ASSUME NEW r \in Reason
        PROVE  ExitOver[r] = current.exits[r]
                   + IF lastExit # NoExit /\ r = log[lastExit].arg THEN Now - Time[lastExit] ELSE 0
    <3>1. current.exits[r] \in Nat
      BY <2>1
    <3>2. CASE lastExit = NoExit
      BY <3>1, <3>2 DEF ExitOver
    <3>3. CASE lastExit # NoExit
      <4>1. Now \in Nat /\ Time[lastExit] \in Nat
        BY <1>3, <3>3, NowIsLate
      <4>2. ExitOver = [current.exits EXCEPT ![log[lastExit].arg] =
                           current.exits[log[lastExit].arg] + Now - Time[lastExit]]
        BY <3>3 DEF ExitOver
      <4>3. CASE r = log[lastExit].arg
        <5>1. ExitOver[r] = current.exits[r] + Now - Time[lastExit]
          BY <2>1, <4>2, <4>3
        <5> QED
          BY <3>1, <3>3, <4>1, <4>3, <5>1
      <4>4. CASE r # log[lastExit].arg
        <5>1. ExitOver[r] = current.exits[r]
          BY <2>1, <4>2, <4>4
        <5> QED
          BY <3>1, <4>4, <5>1
      <4> QED
        BY <4>3, <4>4
    <3> QED
      BY <3>2, <3>3
  <2>3. \A t \in Tracked, m \in Measured : Updated(Vcpu)[t][m] = current.times[t][m]
            + IF t = running /\ m = mode[t] THEN TimeSince(t) ELSE 0
    BY <1>3, UpdatedAdds, TimesAssumption DEF Tracked
  <2> QED
    BY <1>6, <1>12, <2>1, <2>2, <2>3 DEF Adds
<1>14. ~Ends(e) /\ actual'[Vcpu] = "vm" /\ actual[Vcpu] # "vm"
  BY <1>2, <1>3, <1>6 DEF Ends
<1> QED
  BY <1>1, <1>3, <1>5, <1>6, <1>7, <1>8, <1>11, <1>13, <1>14, GoesOn

(* event_syscall_enter charges user mode and counts the call. *)
LEMMA SyscallEnterCharges ==
    ASSUME Exact, NEW t \in Task, NEW kind \in {"enter", "ppoll"}, SyscallEnter(t, kind), ~raised'
    PROVE  Exact'
<1> DEFINE e == [kind |-> kind, pid |-> t, arg |-> t]
           c == [current EXCEPT !.times = Updated(t), !.syscalls = current.syscalls + 1]
<1>1. IInv'
  BY SyscallEnterStep DEF Exact
<1>2. Happens(kind, t, t, "kernel") /\ actual[t] = "user"
  BY DEF SyscallEnter
<1>3. /\ Reads(e) /\ running = t
      /\ TypeOK /\ Seen /\ Len(log) < MaxTrace
      /\ mode \in [Task -> Mode] /\ lastChange \in [Task -> Nat] /\ current \in Portion
      /\ actual' = [actual EXCEPT ![t] = "kernel"] /\ actual \in [Task -> Measured]
  BY <1>2, HappensReads
<1>4. mode[t] \in {"init", "user"}
  BY DEF SyscallEnter, Raises
<1>5. /\ mode' = [mode EXCEPT ![t] = "kernel"] /\ lastChange' = [lastChange EXCEPT ![t] = Now]
      /\ lastExit' = lastExit /\ running' = running /\ results' = results /\ current' = c
  BY <1>4 DEF SyscallEnter, Enters
<1>6. e.kind \in {"enter", "ppoll"} /\ e.pid = t
  OBVIOUS
<1> HIDE DEF e
<1>7. \A u \in Task : mode'[u] = IF Changes(e, u) THEN ModeBy(e.kind) ELSE mode[u]
  BY <1>3, <1>5, <1>6 DEF Changes, ModeBy
<1>8. running' = e.pid /\ lastChange'[running'] = Now
  BY <1>3, <1>5, <1>6
<1>9. /\ Updated(t) \in [Task -> [Mode -> Nat]]
      /\ current.exits \in [Reason -> Nat]
      /\ current.switches \in Nat /\ current.syscalls \in Nat
      /\ current.switches + 1 \in Nat /\ current.syscalls + 1 \in Nat
  <2>1. Updated(t) \in [Task -> [Mode -> Nat]]
    BY <1>3, UpdatedTimes
  <2>2. /\ current.exits \in [Reason -> Nat]
        /\ current.switches \in Nat /\ current.syscalls \in Nat
    BY <1>3, PortionFields
  <2> QED
    BY <2>1, <2>2
<1>10. c \in Portion
  BY <1>3, <1>9, PortionUpdated
<1>11. /\ c.times = Updated(t) /\ c.exits = current.exits
       /\ c.switches = current.switches /\ c.syscalls = current.syscalls + 1
  BY <1>3 DEF Portion
<1> HIDE DEF c
<1>12. Adds(e, current, c)
  <2>1. \A u \in Tracked, m \in Measured : Updated(t)[u][m] = current.times[u][m]
            + IF u = running /\ m = mode[u] THEN TimeSince(u) ELSE 0
    BY <1>3, UpdatedAdds, TimesAssumption DEF Tracked
  <2>2. \A r \in Reason : current.exits[r] \in Nat
    BY <1>9
  <2> QED
    BY <1>6, <1>9, <1>11, <2>1, <2>2 DEF Adds
<1>13. ~Ends(e) /\ (actual'[Vcpu] # "vm" => actual[Vcpu] # "vm")
  BY <1>2, <1>3, <1>6 DEF Ends
<1> QED
  BY <1>1, <1>3, <1>5, <1>6, <1>7, <1>8, <1>10, <1>12, <1>13, GoesOn

(* event_syscall_exit charges the kernel. *)
LEMMA SyscallExitCharges ==
    ASSUME Exact, NEW t \in Task, SyscallExit(t), ~raised'
    PROVE  Exact'
<1> DEFINE e == [kind |-> "return", pid |-> t, arg |-> t]
           c == [current EXCEPT !.times = Updated(t)]
<1>1. IInv'
  BY SyscallExitStep DEF Exact
<1>2. Happens("return", t, t, "user") /\ actual[t] = "kernel"
  BY DEF SyscallExit
<1>3. /\ Reads(e) /\ running = t
      /\ TypeOK /\ Seen /\ Len(log) < MaxTrace
      /\ mode \in [Task -> Mode] /\ lastChange \in [Task -> Nat] /\ current \in Portion
      /\ actual' = [actual EXCEPT ![t] = "user"] /\ actual \in [Task -> Measured]
  BY <1>2, HappensReads
<1>4. mode[t] \in {"init", "kernel"}
  BY DEF SyscallExit, Raises
<1>5. /\ mode' = [mode EXCEPT ![t] = "user"] /\ lastChange' = [lastChange EXCEPT ![t] = Now]
      /\ lastExit' = lastExit /\ running' = running /\ results' = results /\ current' = c
  BY <1>4 DEF SyscallExit, Enters, AfterSyscall
<1>6. e.kind = "return" /\ e.pid = t
  OBVIOUS
<1> HIDE DEF e
<1>7. \A u \in Task : mode'[u] = IF Changes(e, u) THEN ModeBy(e.kind) ELSE mode[u]
  BY <1>3, <1>5, <1>6 DEF Changes, ModeBy
<1>8. running' = e.pid /\ lastChange'[running'] = Now
  BY <1>3, <1>5, <1>6
<1>9. /\ Updated(t) \in [Task -> [Mode -> Nat]]
      /\ current.exits \in [Reason -> Nat]
      /\ current.switches \in Nat /\ current.syscalls \in Nat
      /\ current.switches + 1 \in Nat /\ current.syscalls + 1 \in Nat
  <2>1. Updated(t) \in [Task -> [Mode -> Nat]]
    BY <1>3, UpdatedTimes
  <2>2. /\ current.exits \in [Reason -> Nat]
        /\ current.switches \in Nat /\ current.syscalls \in Nat
    BY <1>3, PortionFields
  <2> QED
    BY <2>1, <2>2
<1>10. c \in Portion
  BY <1>3, <1>9, PortionUpdated
<1>11. /\ c.times = Updated(t) /\ c.exits = current.exits
       /\ c.switches = current.switches /\ c.syscalls = current.syscalls
  BY <1>3 DEF Portion
<1> HIDE DEF c
<1>12. Adds(e, current, c)
  <2>1. \A u \in Tracked, m \in Measured : Updated(t)[u][m] = current.times[u][m]
            + IF u = running /\ m = mode[u] THEN TimeSince(u) ELSE 0
    BY <1>3, UpdatedAdds, TimesAssumption DEF Tracked
  <2>2. \A r \in Reason : current.exits[r] \in Nat
    BY <1>9
  <2> QED
    BY <1>6, <1>9, <1>11, <2>1, <2>2 DEF Adds
<1>13. ~Ends(e) /\ (actual'[Vcpu] # "vm" => actual[Vcpu] # "vm")
  BY <1>2, <1>3, <1>6 DEF Ends
<1> QED
  BY <1>1, <1>3, <1>5, <1>6, <1>7, <1>8, <1>10, <1>12, <1>13, GoesOn

(* event_sched_switch charges the task that leaves; the time of the one that comes begins. *)
LEMMA SchedSwitchCharges ==
    ASSUME Exact, NEW t \in Task, NEW n \in Task, SchedSwitch(t, n)
    PROVE  Exact'
<1> DEFINE e == [kind |-> "switch", pid |-> t, arg |-> n]
           c == [current EXCEPT !.times = Updated(t), !.switches = current.switches + 1]
<1>1. IInv'
  BY SchedSwitchStep DEF Exact
<1>2. Happens("switch", t, n, actual[t])
  BY DEF SchedSwitch
<1>3. /\ Reads(e) /\ running = t
      /\ TypeOK /\ Seen /\ Len(log) < MaxTrace
      /\ mode \in [Task -> Mode] /\ lastChange \in [Task -> Nat] /\ current \in Portion
      /\ actual' = [actual EXCEPT ![t] = actual[t]] /\ actual \in [Task -> Measured]
  BY <1>2, HappensReads
<1>5. /\ mode' = mode /\ lastChange' = [lastChange EXCEPT ![n] = Now]
      /\ lastExit' = lastExit /\ running' = n /\ results' = results /\ current' = c
  BY DEF SchedSwitch, ChangeOnSwitch
<1>6. e.kind = "switch" /\ e.arg = n
  OBVIOUS
<1> HIDE DEF e
<1>7. \A u \in Task : mode'[u] = IF Changes(e, u) THEN ModeBy(e.kind) ELSE mode[u]
  BY <1>3, <1>5, <1>6 DEF Changes, ModeBy
<1>8. running' = e.arg /\ lastChange'[running'] = Now
  BY <1>3, <1>5, <1>6
<1>9. /\ Updated(t) \in [Task -> [Mode -> Nat]]
      /\ current.exits \in [Reason -> Nat]
      /\ current.switches \in Nat /\ current.syscalls \in Nat
      /\ current.switches + 1 \in Nat /\ current.syscalls + 1 \in Nat
  <2>1. Updated(t) \in [Task -> [Mode -> Nat]]
    BY <1>3, UpdatedTimes
  <2>2. /\ current.exits \in [Reason -> Nat]
        /\ current.switches \in Nat /\ current.syscalls \in Nat
    BY <1>3, PortionFields
  <2> QED
    BY <2>1, <2>2
<1>10. c \in Portion
  BY <1>3, <1>9, PortionUpdated
<1>11. /\ c.times = Updated(t) /\ c.exits = current.exits
       /\ c.switches = current.switches + 1 /\ c.syscalls = current.syscalls
  BY <1>3 DEF Portion
<1> HIDE DEF c
<1>12. Adds(e, current, c)
  <2>1. \A u \in Tracked, m \in Measured : Updated(t)[u][m] = current.times[u][m]
            + IF u = running /\ m = mode[u] THEN TimeSince(u) ELSE 0
    BY <1>3, UpdatedAdds, TimesAssumption DEF Tracked
  <2>2. \A r \in Reason : current.exits[r] \in Nat
    BY <1>9
  <2> QED
    BY <1>6, <1>9, <1>11, <2>1, <2>2 DEF Adds
<1>13. ~Ends(e) /\ (actual'[Vcpu] # "vm" => actual[Vcpu] # "vm")
  BY <1>2, <1>3, <1>6 DEF Ends
<1> QED
  BY <1>1, <1>3, <1>5, <1>6, <1>7, <1>8, <1>10, <1>12, <1>13, GoesOn

(* sys_sendto of the guest ends the transaction, and charges no thread of QEMU. *)
LEMMA SendCharges ==
    ASSUME Exact, Send
    PROVE  Exact'
<1> DEFINE e == [kind |-> "send", pid |-> Vcpu, arg |-> Vcpu]
           c == IF ChargedForNetperf THEN Closed(NetperfPid) ELSE current
<1>1. IInv'
  BY SendStep DEF Exact
<1>2. /\ Happens("send", Vcpu, Vcpu, "vm") /\ actual[Vcpu] = "vm" /\ Vcpu \in Task
      /\ Tracked \subseteq Task /\ NetperfPid \notin Tracked
  BY TimesAssumption DEF Send, Tracked
<1>3. /\ Reads(e) /\ TypeOK /\ Seen /\ Len(log) < MaxTrace /\ current \in Portion
      /\ mode \in [Task -> Mode] /\ lastChange \in [Task -> Nat]
      /\ actual' = [actual EXCEPT ![Vcpu] = "vm"] /\ actual \in [Task -> Measured]
  BY <1>2, HappensReads
<1>4. /\ running' = running /\ mode' = mode /\ lastExit' = lastExit
      /\ lastChange' = lastChange \/ lastChange' = [lastChange EXCEPT ![NetperfPid] = Now]
      /\ results' = Append(results, c) /\ current' = Nothing
  BY DEF Send
<1>5. e.kind = "send"
  OBVIOUS
<1> HIDE DEF e
<1>6. \A t \in Task : mode'[t] = IF Changes(e, t) THEN ModeBy(e.kind) ELSE mode[t]
  BY <1>4, <1>5 DEF Changes
<1>7. \A t \in Tracked : lastChange'[t] = lastChange[t]
  BY <1>2, <1>3, <1>4
<1>8. c \in Portion
  <2>1. ChargedForNetperf => Closed(NetperfPid) \in Portion
    BY <1>3, TransactionEnds DEF ChargedForNetperf
  <2> QED
    BY <1>3, <2>1
<1>9. /\ c.exits = current.exits /\ c.switches = current.switches
      /\ c.syscalls = current.syscalls
      /\ c.times = current.times \/ (ChargedForNetperf /\ c.times = Updated(NetperfPid))
  BY <1>3 DEF Closed, Portion
<1> HIDE DEF c
<1>10. Adds(e, current, c)
  <2>1. /\ current.times \in [Task -> [Mode -> Nat]] /\ current.exits \in [Reason -> Nat]
        /\ current.switches \in Nat /\ current.syscalls \in Nat /\ Measured \subseteq Mode
    BY <1>3, PortionFields DEF Mode
  <2>2. ASSUME NEW t \in Tracked, NEW m \in Measured
        PROVE  c.times[t][m] = current.times[t][m] /\ current.times[t][m] \in Nat
    <3>1. t \in Task /\ t # NetperfPid /\ current.times[t][m] \in Nat
      BY <1>2, <2>1
    <3>2. ChargedForNetperf => Updated(NetperfPid)[t] = current.times[t]
      BY <2>1, <3>1 DEF Updated, ChargedForNetperf
    <3> QED
      BY <1>9, <3>1, <3>2
  <2>3. \A r \in Reason : current.exits[r] \in Nat
    BY <2>1
  <2> QED
    BY <1>5, <1>9, <2>1, <2>2, <2>3 DEF Adds
<1>11. Empty(Nothing)
  BY <1>2 DEF Empty, Nothing, Mode
<1>12. Ends(e) /\ (actual'[Vcpu] # "vm" => actual[Vcpu] # "vm")
  BY <1>2, <1>3, <1>5 DEF Ends
<1>13. Empty(current')
  BY <1>4, <1>11
<1> QED
  BY <1>1, <1>3, <1>4, <1>5, <1>6, <1>7, <1>8, <1>10, <1>12, <1>13, GoesOn

(* A step that the trace and the automaton do not see, and that leaves     *)
(* QEMU's threads where they are.                                          *)
LEMMA UnseenCharges ==
    ASSUME Exact, IInv',
           UNCHANGED <<driver, log, mode, lastChange, lastExit, results, current>>,
           actual'[Vcpu] = actual[Vcpu],
           \A t \in Tracked : running' = t <=> running = t
    PROVE  Exact'
<1>2. /\ Host' = Host /\ Boundary' = Boundary /\ Here' = Here /\ Portions' = Portions
      /\ (\A i : Runner(i)' = Runner(i)) /\ \A j : Transaction(j)' = Transaction(j)
      /\ (\A t, i : ModeChanges(t, i)' = ModeChanges(t, i)) /\ Intervals' = Intervals
  BY DEF Host, Boundary, Here, Portions, Runner, Transaction, ModeChanges, Intervals, EndsTransaction
<1>3. \A t, i : ModeAfter(t, i)' = ModeAfter(t, i)
  BY <1>2 DEF ModeAfter
<1>4. RunsSince'
  BY <1>2 DEF Exact, RunsSince, Last, Tracked
<1>n. KnownMode' /\ ExitIsLast' /\ EntriesBefore' /\ Closings'
  BY <1>2, <1>3 DEF Exact, KnownMode, ExitIsLast, EntriesBefore, NoneSince, Closings
<1>5. \A k, t, m : TimeOf(k, t, m)' = TimeOf(k, t, m)
  BY <1>2, <1>3 DEF TimeOf, Spans
<1>7. /\ \A k, r : ExitTime(k, r)' = ExitTime(k, r)
      /\ \A k, kinds : CountOf(k, kinds)' = CountOf(k, kinds)
  BY <1>2 DEF ExitTime, ExitsOf, CountOf
<1>8. \A p, k : Tells(p, k)' <=> Tells(p, k)
  BY <1>5, <1>7 DEF Tells, Tracked
<1>9. Charged'
  BY <1>2, <1>8 DEF Exact, Charged
<1> QED
  BY <1>4, <1>n, <1>9 DEF Exact

(* Before the first event the trace tells nothing and nothing is charged. *)
LEMMA InitCharges ==
    ASSUME Init
    PROVE  Exact
<1>1. IInv /\ TypeOK
  BY InitIInv DEF IInv
<1>2. log = <<>> /\ Len(log) = 0 /\ DOMAIN log = {}
  BY DEF Init
<1>3. Host = {} /\ Boundary = {}
  BY <1>2 DEF Host, Boundary
<1>4. RunsSince /\ ExitIsLast /\ EntriesBefore
  BY <1>2, <1>3 DEF RunsSince, Last, ExitIsLast, EntriesBefore, NoneSince
<1>5. KnownMode
  <2>1. \A t, i : ModeAfter(t, i) = "init"
    BY <1>3 DEF ModeAfter, ModeChanges
  <2> QED
    BY <2>1 DEF KnownMode, Init
<1>6. Here = 1 /\ results = <<>> /\ current = Nothing
  BY <1>3, FS_EmptySet DEF Here, Init
<1>7. Closings
  BY <1>6 DEF Closings
<1>8. Charged
  <2>1. SumFunctionOnSet(Length, {}) = 0
    BY FS_EmptySet, SumParts
  <2>2. Intervals = {}
    BY <1>1, <1>3, IntervalsAre DEF Adjacent
  <2>3. \A k, t, m : Spans(k, t, m) = {}
    BY <2>2 DEF Spans
  <2>5. \A k, r : ExitsOf(k, r) = {}
    BY <1>3 DEF ExitsOf
  <2>6. \A k, kinds : CountOf(k, kinds) = 0
    BY <1>3, FS_EmptySet DEF CountOf
  <2>7. Empty(Nothing)
    BY TimesAssumption DEF Empty, Nothing, Mode, Tracked
  <2>9. \A k : Tells(Nothing, k)
    BY <2>1, <2>3, <2>5, <2>6, <2>7
       DEF Tells, Empty, TimeOf, ExitTime
  <2>10. \A k \in DOMAIN Portions : Portions[k] = Nothing
    BY <1>1, <1>6, PortionsAre
  <2> QED
    BY <2>9, <2>10 DEF Charged
<1> QED
  BY <1>1, <1>4, <1>5, <1>7, <1>8 DEF Exact

(* The invariant of the charges is inductive. *)
THEOREM ChargesInvariance == Spec => []CInv
<1>1. Init => CInv
  BY InitCharges DEF CInv, Exact
<1>2. CInv /\ [Next]_vars => CInv'
  <2> SUFFICES ASSUME CInv, [Next]_vars, ~raised'
               PROVE  Exact'
    <3>1. IInv /\ [Next]_vars => IInv'
      BY StepIInv
    <3> QED
      BY <3>1 DEF CInv
  <2>i. IInv' /\ TypeOK /\ Vcpu \in Qemu /\ Tracked \subseteq Qemu
    BY StepIInv, TimesAssumption DEF CInv, IInv, Tracked
  <2>1. ASSUME NEW r \in Reason, Exit(r)
        PROVE  Exact'
    BY <2>1, ExitCharges DEF CInv, Exit, Happens
  <2>2. ASSUME NEW t \in Task, NEW kind \in {"enter", "ppoll"}, SyscallEnter(t, kind)
        PROVE  Exact'
    BY <2>2, SyscallEnterCharges DEF CInv, SyscallEnter, Happens
  <2>3. ASSUME NEW t \in Task, SyscallExit(t)
        PROVE  Exact'
    BY <2>3, SyscallExitCharges DEF CInv, SyscallExit, Happens
  <2>4. ASSUME NEW t \in Task, NEW n \in Task, SchedSwitch(t, n)
        PROVE  Exact'
    BY <2>4, SchedSwitchCharges DEF CInv, SchedSwitch, Happens
  <2>5. CASE UNCHANGED vars
    <3>1. Exact
      BY <2>5 DEF CInv, vars
    <3> QED
      BY <2>5, <2>i, <3>1, UnseenCharges DEF vars
  <2>6. CASE Entry
    BY <2>6, EntryCharges DEF CInv, Entry, Happens
  <2>7. CASE Send
    BY <2>7, SendCharges DEF CInv, Send, Happens
  <2>8. ASSUME NEW t \in Task, NEW n \in Task, SwitchUnseen(t, n)
        PROVE  Exact'
    <3>1. /\ Exact /\ actual' = actual
          /\ UNCHANGED <<driver, log, mode, lastChange, lastExit, results, current>>
          /\ running = t /\ running' = n /\ t \notin Qemu /\ n \notin Qemu
      BY <2>8 DEF CInv, SwitchUnseen, parser
    <3>2. \A u \in Tracked : running' = u <=> running = u
      BY <2>i, <3>1
    <3> QED
      BY <2>i, <3>1, <3>2, UnseenCharges
  <2>9. ASSUME NEW t \in Task, Elsewhere(t)
        PROVE  Exact'
    <3>1. /\ Exact /\ running' = running
          /\ UNCHANGED <<driver, log, mode, lastChange, lastExit, results, current>>
      BY <2>9 DEF CInv, Elsewhere, parser
    <3>2. actual'[Vcpu] = actual[Vcpu]
      BY <2>9, <2>i DEF Elsewhere, TypeOK
    <3> QED
      BY <2>i, <3>1, <3>2, UnseenCharges
  <2> QED
    BY <2>1, <2>2, <2>3, <2>4, <2>5, <2>6, <2>7, <2>8, <2>9 DEF Next
<1> QED
  BY <1>1, <1>2, PTL DEF Spec

(***************************************************************************)
(* As long as no assertion has failed, for every transaction, thread of    *)
(* QEMU and mode the automaton charges exactly what the trace tells, every *)
(* exit once to its reason and every recorded switch and call once, for    *)
(* any tasks, threads and reasons, both drivers and windows of any length, *)
(* whatever switches are not recorded, whatever other tasks do on other    *)
(* CPUs, and whichever task has the pid of netperf.                        *)
(***************************************************************************)
THEOREM TimesCharged == Spec => []TimesPerTransaction
<1>1. CInv => TimesPerTransaction
  BY ChargedRows
<1> QED
  BY <1>1, ChargesInvariance, PTL

-----------------------------------------------------------------------------
(* TraceMerge. *)

(* Positions of a sequence, their order and their number. *)

(* The least and the greatest member, once it is known, is what CHOOSE picks. *)
LEMMA SmallestIs ==
    ASSUME NEW S \in SUBSET Int, NEW m \in S, \A x \in S : m <= x
    PROVE  Min(S) = m
<1>1. \A x \in S : (\A y \in S : x <= y) => x = m
  OBVIOUS
<1> QED
  BY <1>1 DEF Min

LEMMA GreatestIs ==
    ASSUME NEW S \in SUBSET Int, NEW m \in S, \A x \in S : x <= m
    PROVE  Max(S) = m
<1>1. \A x \in S : (\A y \in S : x >= y) => x = m
  OBVIOUS
<1> QED
  BY <1>1 DEF Max

(* A set of positions that is not empty has both. *)
LEMMA SmallestExists ==
    ASSUME NEW S \in SUBSET Nat, S # {}
    PROVE  Min(S) \in S /\ \A x \in S : Min(S) <= x
<1>1. PICK m \in S : \A x \in S : m <= x
  BY LeastExists
<1>2. Min(S) = m
  BY <1>1, SmallestIs
<1> QED
  BY <1>1, <1>2

LEMMA GreatestExists ==
    ASSUME NEW n \in Nat, NEW S \in SUBSET (0 .. n), S # {}
    PROVE  Max(S) \in S /\ \A x \in S : x <= Max(S)
<1> DEFINE Bounds == {m \in Nat : \A x \in S : x <= m}
<1>1. PICK m \in Bounds : \A b \in Bounds : m <= b
  <2>1. n \in Bounds /\ Bounds \subseteq Nat
    OBVIOUS
  <2> HIDE DEF Bounds
  <2> QED
    BY <2>1, LeastExists
<1>2. m \in S
  <2> SUFFICES ASSUME m \notin S
               PROVE  FALSE
    OBVIOUS
  <2>1. PICK x \in S : TRUE
    OBVIOUS
  <2>2. m - 1 \in Bounds
    BY <1>1, <2>1
  <2> QED
    BY <1>1, <2>2
<1>3. Max(S) = m
  BY <1>1, <1>2, GreatestIs
<1> QED
  BY <1>1, <1>2, <1>3

(* What holds of 0, and of i + 1 if of i, holds up to n. *)
LEMMA Upwards ==
    ASSUME NEW n \in Nat, NEW S, 0 \in S, \A i \in 0 .. n - 1 : i \in S => i + 1 \in S
    PROVE  \A i \in 0 .. n : i \in S
<1> DEFINE Missing == {i \in 0 .. n : i \notin S}
<1> SUFFICES ASSUME Missing # {}
             PROVE  FALSE
  OBVIOUS
<1>1. PICK i \in Missing : \A j \in Missing : i <= j
  <2>1. Missing \subseteq Nat
    OBVIOUS
  <2> HIDE DEF Missing
  <2> QED
    BY <2>1, LeastExists
<1>2. i # 0 /\ i \in 0 .. n
  BY <1>1
<1>3. i - 1 \in S
  BY <1>1, <1>2
<1> QED
  BY <1>1, <1>2, <1>3

(* How many members of S there are up to i. *)
UpTo(S, i) == {j \in S : j <= i}
Rank(S, i) == Cardinality(UpTo(S, i))

LEMMA FinitePositions ==
    ASSUME NEW n \in Nat, NEW S \in SUBSET (1 .. n)
    PROVE  /\ IsFiniteSet(S) /\ Cardinality(S) \in Nat
           /\ \A T \in SUBSET S : IsFiniteSet(T) /\ Cardinality(T) \in Nat
                                  /\ Cardinality(T) <= Cardinality(S)
                                  /\ (Cardinality(T) = Cardinality(S) => T = S)
<1>1. IsFiniteSet(1 .. n)
  BY FS_Interval
<1>2. IsFiniteSet(S)
  BY <1>1, FS_Subset
<1>3. \A T \in SUBSET S : IsFiniteSet(T)
  BY <1>2, FS_Subset
<1>4. \A T \in SUBSET S : Cardinality(T) <= Cardinality(S)
                          /\ (Cardinality(T) = Cardinality(S) => T = S)
  BY <1>2, FS_Subset
<1>5. \A T : IsFiniteSet(T) => Cardinality(T) \in Nat
  BY FS_CardinalityType
<1> QED
  BY <1>2, <1>3, <1>4, <1>5

LEMMA RankGrows ==
    ASSUME NEW n \in Nat, NEW S \in SUBSET (1 .. n)
    PROVE  /\ \A i \in S : Rank(S, i) \in 1 .. Cardinality(S)
           /\ \A i, j \in S : i < j <=> Rank(S, i) < Rank(S, j)
           /\ \A i, j \in S : i = j <=> Rank(S, i) = Rank(S, j)
<1>1. \A i \in S : UpTo(S, i) \in SUBSET S /\ i \in UpTo(S, i)
  BY DEF UpTo
<1>2. \A i \in S : Rank(S, i) \in 1 .. Cardinality(S)
  <2> TAKE i \in S
  <2>1. IsFiniteSet(UpTo(S, i)) /\ Rank(S, i) \in Nat /\ Rank(S, i) <= Cardinality(S)
    BY <1>1, FinitePositions DEF Rank
  <2>2. Rank(S, i) # 0
    BY <1>1, <2>1, FS_EmptySet DEF Rank
  <2> QED
    BY <2>1, <2>2, FinitePositions
<1>3. ASSUME NEW i \in S, NEW j \in S, i < j
      PROVE  Rank(S, i) < Rank(S, j)
  <2>1. UpTo(S, i) \in SUBSET UpTo(S, j) /\ j \notin UpTo(S, i) /\ UpTo(S, j) \in SUBSET (1 .. n)
    <3>1. \A x \in S : x <= i => x <= j
      BY <1>3
    <3>2. ~(j <= i)
      BY <1>3
    <3> QED
      BY <3>1, <3>2 DEF UpTo
  <2>2. Cardinality(UpTo(S, i)) <= Cardinality(UpTo(S, j))
        /\ Cardinality(UpTo(S, i)) # Cardinality(UpTo(S, j))
        /\ Cardinality(UpTo(S, i)) \in Nat /\ Cardinality(UpTo(S, j)) \in Nat
    BY <1>1, <2>1, FinitePositions
  <2> QED
    BY <2>2 DEF Rank
<1>4. \A i, j \in S : i < j \/ i = j \/ j < i
  OBVIOUS
<1>5. \A i, j \in S : i < j => ~(j < i)
  OBVIOUS
<1>6. \A i \in S : Rank(S, i) \in Nat
  BY <1>2
<1>7. \A i, j \in S : Rank(S, i) < Rank(S, j) => i < j
  BY <1>3, <1>4, <1>6
<1>8. \A i, j \in S : Rank(S, i) = Rank(S, j) => i = j
  BY <1>3, <1>4, <1>6
<1> QED
  BY <1>2, <1>3, <1>7, <1>8

(* Kth is the inverse of Rank. *)
LEMMA KthFacts ==
    ASSUME NEW n \in Nat, NEW S \in SUBSET (1 .. n)
    PROVE  /\ \A k \in 1 .. Cardinality(S) : Kth(S, k) \in S /\ Rank(S, Kth(S, k)) = k
           /\ \A i \in S : Kth(S, Rank(S, i)) = i
           /\ \A k, l \in 1 .. Cardinality(S) : k < l <=> Kth(S, k) < Kth(S, l)
<1> DEFINE f == [i \in S |-> Rank(S, i)]
           N == Cardinality(S)
<1>1. IsFiniteSet(S) /\ N \in Nat
  BY FinitePositions
<1>2. f \in Injection(S, 1 .. N)
  BY RankGrows DEF Injection, IsInjective
<1>3. IsFiniteSet(1 .. N) /\ Cardinality(1 .. N) = N
  <2>1. 0 \in Int /\ 1 \in Int /\ N \in Int
    BY <1>1
  <2>2. IsFiniteSet(1 .. N) /\ Cardinality(1 .. N) = IF 1 > N THEN 0 ELSE N - 1 + 1
    BY <2>1, FS_Interval
  <2> QED
    BY <1>1, <2>2
<1>4. f \in Surjection(S, 1 .. N)
  <2> HIDE DEF f
  <2> QED
    BY <1>1, <1>2, <1>3, FS_Injection
<1>5. \A k \in 1 .. N : \E i \in S : Rank(S, i) = k
  BY <1>4 DEF Surjection
<1>6. \A k : Kth(S, k) = CHOOSE i \in S : Rank(S, i) = k
  BY DEF Kth, Rank, UpTo
<1>7. \A k \in 1 .. N : Kth(S, k) \in S /\ Rank(S, Kth(S, k)) = k
  <2> HIDE DEF N
  <2> QED
    BY <1>5, <1>6
<1>8. \A i \in S : Kth(S, Rank(S, i)) = i
  <2> TAKE i \in S
  <2>1. Rank(S, i) \in 1 .. N
    BY RankGrows
  <2>2. Kth(S, Rank(S, i)) \in S /\ Rank(S, Kth(S, Rank(S, i))) = Rank(S, i)
    BY <1>7, <2>1
  <2> QED
    BY <2>2, RankGrows
<1>9. \A k, l \in 1 .. N : k < l <=> Kth(S, k) < Kth(S, l)
  <2> TAKE k, l \in 1 .. N
  <2>1. Kth(S, k) \in S /\ Rank(S, Kth(S, k)) = k
        /\ Kth(S, l) \in S /\ Rank(S, Kth(S, l)) = l
    BY <1>7
  <2>2. Kth(S, k) < Kth(S, l) <=> Rank(S, Kth(S, k)) < Rank(S, Kth(S, l))
    BY <2>1, RankGrows
  <2> QED
    BY <2>1, <2>2
<1> QED
  BY <1>7, <1>8, <1>9

(* A sequence of the members of s at the positions in S. *)
LEMMA ChosenFacts ==
    ASSUME NEW n \in Nat, NEW S \in SUBSET (1 .. n), NEW s
    PROVE  /\ DOMAIN Chosen(s, S) = 1 .. Cardinality(S)
           /\ Len(Chosen(s, S)) = Cardinality(S)
           /\ \A k \in 1 .. Cardinality(S) : Chosen(s, S)[k] = s[Kth(S, k)]
           /\ \A X : (\A i \in S : s[i] \in X) => Chosen(s, S) \in Seq(X)
<1>1. Cardinality(S) \in Nat
  BY FinitePositions
<1>2. \A k \in 1 .. Cardinality(S) : Kth(S, k) \in S
  BY KthFacts
<1> DEFINE N == Cardinality(S)
           c == Chosen(s, S)
<1>3. c = [k \in 1 .. N |-> s[Kth(S, k)]]
  BY DEF Chosen
<1> HIDE DEF N, c
<1>4. DOMAIN c = 1 .. N /\ Len(c) = N /\ \A k \in 1 .. N : c[k] = s[Kth(S, k)]
  BY <1>1, <1>3 DEF N
<1>5. ASSUME NEW X, \A i \in S : s[i] \in X
      PROVE  c \in Seq(X)
  <2>1. \A k \in 1 .. N : s[Kth(S, k)] \in X
    BY <1>2, <1>5 DEF N
  <2> QED
    BY <1>1, <1>3, <2>1 DEF N
<1> QED
  BY <1>4, <1>5 DEF N, c

(* The members of an interval, in order. *)
LEMMA KthInterval ==
    ASSUME NEW a \in Nat \ {0}, NEW b \in Nat, a <= b
    PROVE  /\ Cardinality(a .. b) = b - a + 1
           /\ \A k \in 1 .. b - a + 1 : Kth(a .. b, k) = a + k - 1
<1>1. \A i \in a .. b : Rank(a .. b, i) = i - a + 1
  <2> TAKE i \in a .. b
  <2>1. UpTo(a .. b, i) = a .. i
    BY DEF UpTo
  <2>2. a \in Int /\ i \in Int /\ ~(a > i)
    OBVIOUS
  <2>3. Cardinality(a .. i) = i - a + 1
    BY <2>2, FS_Interval
  <2> QED
    BY <2>1, <2>3 DEF Rank
<1>2. Cardinality(a .. b) = b - a + 1
  <2>1. a \in Int /\ b \in Int /\ ~(a > b)
    OBVIOUS
  <2> QED
    BY <2>1, FS_Interval
<1>3. \A k \in 1 .. b - a + 1 : Kth(a .. b, k) = a + k - 1
  <2> TAKE k \in 1 .. b - a + 1
  <2>1. a + k - 1 \in a .. b /\ a .. b \in SUBSET (1 .. b)
    OBVIOUS
  <2>2. Rank(a .. b, a + k - 1) = k
    BY <1>1, <2>1
  <2>3. Kth(a .. b, Rank(a .. b, a + k - 1)) = a + k - 1
    BY <2>1, KthFacts
  <2> QED
    BY <2>2, <2>3
<1> QED
  BY <1>2, <1>3

(* place orders the n members of s by their time stamps, inverse is its inverse. *)
Orders(n, s, place, inverse) ==
    /\ n \in Nat /\ DOMAIN s = 1 .. n /\ \A i \in 1 .. n : s[i].timestamp \in Int
    /\ place \in [1 .. n -> 1 .. n] /\ inverse \in [1 .. n -> 1 .. n]
    /\ \A i \in 1 .. n : inverse[place[i]] = i /\ place[inverse[i]] = i
    /\ \A i, j \in 1 .. n : place[i] < place[j] => s[i].timestamp < s[j].timestamp

(* Then StableSort puts them where place says. *)
LEMMA StableSortFacts ==
    ASSUME NEW n, NEW s, NEW place, NEW inverse, Orders(n, s, place, inverse)
    PROVE  StableSort(s) = [k \in 1 .. n |-> s[inverse[k]]]
<1> /\ n \in Nat /\ DOMAIN s = 1 .. n /\ \A i \in 1 .. n : s[i].timestamp \in Int
    /\ place \in [1 .. n -> 1 .. n] /\ inverse \in [1 .. n -> 1 .. n]
    /\ \A i \in 1 .. n : inverse[place[i]] = i /\ place[inverse[i]] = i
    /\ \A i, j \in 1 .. n : place[i] < place[j] => s[i].timestamp < s[j].timestamp
  BY DEF Orders
<1> DEFINE Before(i) == {j \in 1 .. n : \/ s[j].timestamp < s[i].timestamp
                                        \/ s[j].timestamp = s[i].timestamp /\ j < i}
           Earlier(i) == {j \in 1 .. n : place[j] < place[i]}
<1>1. ASSUME NEW i \in 1 .. n
      PROVE  Before(i) = Earlier(i)
  <2>1. ASSUME NEW j \in 1 .. n
        PROVE  j \in Before(i) <=> place[j] < place[i]
    <3>0. j \in Before(i) <=> \/ s[j].timestamp < s[i].timestamp
                              \/ s[j].timestamp = s[i].timestamp /\ j < i
      OBVIOUS
    <3> HIDE DEF Before
    <3>1. place[i] \in 1 .. n /\ place[j] \in 1 .. n
      OBVIOUS
    <3>2. place[j] < place[i] \/ place[j] = place[i] \/ place[i] < place[j]
      BY <3>1
    <3>3. place[j] = place[i] => j = i
      OBVIOUS
    <3>4. s[i].timestamp \in Int /\ s[j].timestamp \in Int
      OBVIOUS
    <3>5. CASE place[j] < place[i]
      BY <3>0, <3>5
    <3>6. CASE j = i
      BY <3>0, <3>1, <3>4, <3>6
    <3>7. CASE place[i] < place[j]
      <4>1. s[i].timestamp < s[j].timestamp
        BY <3>7
      <4> \A a, b \in Int : a < b => ~(b < a) /\ b # a
        OBVIOUS
      <4>2. ~(s[j].timestamp < s[i].timestamp) /\ s[j].timestamp # s[i].timestamp
        BY <3>4, <4>1
      <4>3. ~(place[j] < place[i])
        BY <3>1, <3>7
      <4> QED
        BY <3>0, <4>2, <4>3
    <3>8. place[j] = place[i] => (j \in Before(i) <=> place[j] < place[i])
      BY <3>3, <3>6
    <3> QED
      BY <3>2, <3>5, <3>7, <3>8
  <2> HIDE DEF Before
  <2>2. \A j \in Before(i) : j \in 1 .. n
    BY DEF Before
  <2> QED
    BY <2>1, <2>2
<1>2. ASSUME NEW i \in 1 .. n
      PROVE  Cardinality(Earlier(i)) = place[i] - 1
  <2> DEFINE m == place[i] - 1
             f == [k \in 1 .. m |-> inverse[k]]
  <2>1. m \in 0 .. n - 1
    OBVIOUS
  <2>2. f \in [1 .. m -> Earlier(i)]
    <3>1. ASSUME NEW k \in 1 .. m
          PROVE  inverse[k] \in Earlier(i)
      <4>1. k \in 1 .. n /\ k < place[i]
        BY <2>1, <3>1
      <4>2. inverse[k] \in 1 .. n /\ place[inverse[k]] = k
        BY <4>1
      <4> QED
        BY <4>1, <4>2
    <3> HIDE DEF m, Earlier
    <3> QED
      BY <3>1
  <2>3. \A k, l \in 1 .. m : f[k] = f[l] => k = l
    <3> TAKE k, l \in 1 .. m
    <3>1. k \in 1 .. n /\ l \in 1 .. n
      BY <2>1
    <3>2. place[inverse[k]] = k /\ place[inverse[l]] = l
      BY <3>1
    <3> QED
      BY <3>2
  <2>4. \A j \in Earlier(i) : place[j] \in 1 .. m /\ f[place[j]] = j
    BY <2>1
  <2>5. f \in Bijection(1 .. m, Earlier(i))
    <3> HIDE DEF f, m, Earlier
    <3>1. \A j \in Earlier(i) : \E k \in 1 .. m : f[k] = j
      BY <2>4
    <3> QED
      BY <2>2, <2>3, <3>1 DEF Bijection, Injection, Surjection, IsInjective
  <2>6. IsFiniteSet(1 .. m) /\ Cardinality(1 .. m) = m
    <3>1. 1 \in Int /\ m \in Int
      BY <2>1
    <3> HIDE DEF m
    <3>2. IsFiniteSet(1 .. m) /\ Cardinality(1 .. m) = IF 1 > m THEN 0 ELSE m - 1 + 1
      BY <3>1, FS_Interval
    <3> QED
      BY <2>1, <3>2
  <2>7. Cardinality(Earlier(i)) = Cardinality(1 .. m)
    <3> HIDE DEF f, m, Earlier
    <3> QED
      BY <2>5, <2>6, FS_Bijection DEF ExistsBijection
  <2> QED
    BY <2>6, <2>7
<1>3. \A i \in 1 .. n : 1 + Cardinality(Before(i)) = place[i]
  <2> TAKE i \in 1 .. n
  <2>1. Cardinality(Before(i)) = place[i] - 1
    <3> HIDE DEF Before, Earlier
    <3> QED
      BY <1>1, <1>2
  <2>2. place[i] \in 1 .. n
    OBVIOUS
  <2> HIDE DEF Before
  <2> QED
    BY <2>1, <2>2
<1> DEFINE p == [i \in 1 .. n |-> 1 + Cardinality(Before(i))]
<1>4. p = place
  <2> HIDE DEF Before
  <2> QED
    BY <1>3
<1>5. StableSort(s) = [k \in 1 .. n |-> s[CHOOSE i \in 1 .. n : p[i] = k]]
  BY DEF StableSort
<1>6. \A k \in 1 .. n : (CHOOSE i \in 1 .. n : place[i] = k) = inverse[k]
  <2> TAKE k \in 1 .. n
  <2>1. inverse[k] \in 1 .. n /\ place[inverse[k]] = k
    OBVIOUS
  <2>2. \A i \in 1 .. n : place[i] = k => i = inverse[k]
    OBVIOUS
  <2> QED
    BY <2>1, <2>2
<1> HIDE DEF p
<1> QED
  BY <1>4, <1>5, <1>6

-----------------------------------------------------------------------------
(* Time stamps of the guest. *)
LEMMA Modulo ==
    ASSUME NEW R \in Nat \ {0}, NEW a \in 0 .. R - 1
    PROVE  a % R = a /\ (a + R) % R = a /\ (a - R) % R = a
OBVIOUS

LEMMA TscRangeFacts ==
    TscRange \in Nat \ {0} /\ HalfRange \in Nat \ {0} /\ TscRange = HalfRange + HalfRange
BY TracesAssumption DEF TscRange

(* An offset that is written while the clocks show start and t0 brings back every *)
(* later time.                                                                    *)
LEMMA OffsetInverts ==
    ASSUME NEW start \in GuestStart, NEW t0 \in 0 .. HalfRange - 1,
           NEW o, o = (start - t0) % TscRange
    PROVE  /\ o \in 0 .. TscRange - 1
           /\ \A t \in t0 .. HalfRange - 1 : ((t + o) % TscRange) - Signed(o) = t
<1> DEFINE R == TscRange
           H == HalfRange
<1>1. R \in Nat \ {0} /\ H \in Nat \ {0} /\ R = H + H
  BY TscRangeFacts
<1>2. start \in 0 .. H - 1
  BY TracesAssumption
<1> HIDE DEF R, H
<1>3. CASE start >= t0
  <2>1. start - t0 \in 0 .. R - 1 /\ start - t0 < H
    BY <1>1, <1>2, <1>3 DEF H
  <2>2. o = start - t0
    BY <1>1, <2>1, Modulo DEF R
  <2>3. Signed(o) = start - t0
    BY <2>1, <2>2 DEF Signed, H
  <2>4. ASSUME NEW t \in t0 .. H - 1
        PROVE  ((t + o) % R) - Signed(o) = t
    <3>1. t + o \in 0 .. R - 1
      BY <1>1, <1>2, <2>1, <2>2
    <3>2. (t + o) % R = t + o
      BY <1>1, <3>1, Modulo
    <3> QED
      BY <1>1, <1>2, <2>2, <2>3, <3>2
  <2> QED
    BY <2>1, <2>2, <2>4 DEF R, H
<1>4. CASE start < t0
  <2>1. start - t0 + R \in 0 .. R - 1 /\ start - t0 + R >= H
    BY <1>1, <1>2, <1>4 DEF H
  <2>2. o = start - t0 + R
    <3>1. ((start - t0 + R) - R) % R = start - t0 + R
      BY <1>1, <2>1, Modulo
    <3>2. (start - t0 + R) - R = start - t0
      BY <1>1, <1>2
    <3> QED
      BY <3>1, <3>2 DEF R
  <2>3. Signed(o) = start - t0
    BY <1>1, <1>2, <2>1, <2>2 DEF Signed, R, H
  <2>4. ASSUME NEW t \in t0 .. H - 1
        PROVE  ((t + o) % R) - Signed(o) = t
    <3>1. t + start - t0 \in 0 .. R - 1 /\ t + o = (t + start - t0) + R
      BY <1>1, <1>2, <1>4, <2>2 DEF H
    <3>2. (t + o) % R = t + start - t0
      BY <1>1, <3>1, Modulo
    <3> QED
      BY <1>1, <1>2, <2>3, <3>2 DEF H
  <2> QED
    BY <2>1, <2>2, <2>4 DEF R, H
<1> QED
  BY <1>2, <1>3, <1>4 DEF H

-----------------------------------------------------------------------------
(* The inductive invariant of the recording. *)

(* From now on the guest's time stamps, brought back by offset, are the host's time. *)
ClockKnown == \A t \in tsc .. HalfRange - 1 : ((t + offset) % TscRange) - Signed(offset) = t

(* The last offset in the trace is the one in force. *)
OffsetRecorded ==
    \E i \in DOMAIN recorded :
        /\ Is(recorded[i], "kvm_write_tsc_offset") /\ recorded[i].raw = offset
        /\ \A j \in DOMAIN recorded : Is(recorded[j], "kvm_write_tsc_offset") => j <= i

Chronological ==
    /\ \A i \in DOMAIN recorded : 0 < recorded[i].at
    /\ \A i, j \in DOMAIN recorded : i < j => recorded[i].at < recorded[j].at

(* The host's time stamps are right, the guest's are after update_guest_tsc. *)
Dated(e) == e.timestamp - (IF e.source = "g" THEN Signed(offset) ELSE 0) = e.at

(* Only the guest makes system calls, and not before the begin marker. *)
Sourced(e) == e.source = "g" => e.event \in {"sys_sendto", "sys_recvfrom"}

ClockInv ==
    /\ TracesTypeOK
    /\ tsc < HalfRange
    /\ Chronological
    /\ \A i \in DOMAIN recorded : Dated(recorded[i]) /\ Sourced(recorded[i])
    /\ vcpu # "off" => ClockKnown /\ OffsetRecorded
    /\ vcpu = "off" => Marks(recorded) = {}
    /\ Marks(recorded) = {} => \A i \in DOMAIN recorded : recorded[i].source = "h"

(***************************************************************************)
(* Requests of netperf and answers to it come in turn, exits and entries   *)
(* too, whatever other processes and the device do in between, and what an *)
(* exit was for is told right after it.                                    *)
(***************************************************************************)
Netperf(s) == {i \in DOMAIN s : s[i].arg = "netperf"}
ExitsAndEntries(s) == {i \in DOMAIN s : s[i].event \in {"kvm_exit", "kvm_entry"}}
InTurn(s, S) ==
    \A i, j \in S : i < j /\ (\A k \in S : k <= i \/ j <= k) => s[i].event # s[j].event
WellFormed(e) ==
    /\ e.event \in {"kvm_mmio", "kvm_msr"} <=> e.arg \in {"KICK", "EOI"}
    /\ e.arg = "netperf" => e.event \in {"sys_sendto", "sys_recvfrom"}
    /\ e.note = NoNote
Protocol(s) ==
    /\ \A i \in DOMAIN s : WellFormed(s[i])
    /\ InTurn(s, Netperf(s)) /\ InTurn(s, ExitsAndEntries(s))
    /\ \A i \in DOMAIN s : s[i].event \in {"kvm_mmio", "kvm_msr"} /\ i > 1 => Is(s[i - 1], "kvm_exit")

ProtocolInv ==
    /\ Protocol(recorded)
    /\ \A i \in Netperf(recorded) :
         (\A j \in Netperf(recorded) : j <= i) => (awaiting <=> Is(recorded[i], "sys_sendto"))
    /\ \A i \in ExitsAndEntries(recorded) :
         (\A j \in ExitsAndEntries(recorded) : j <= i) =>
            vcpu = IF Is(recorded[i], "kvm_exit") THEN "host" ELSE "guest"
    /\ Marks(recorded) = {} => /\ Netperf(recorded) = {} /\ ExitsAndEntries(recorded) = {}
                              /\ vcpu # "host"

-----------------------------------------------------------------------------
(* What is recorded, and what stays. *)
Recording(source, event, arg, newOffset) ==
    [source |-> source, event |-> event, arg |-> arg, raw |-> newOffset, note |-> NoNote,
     timestamp |-> IF source = "h" THEN tsc' ELSE (tsc' + newOffset) % TscRange, at |-> tsc']

LEMMA RecordedFacts ==
    ASSUME TracesTypeOK, NEW source, NEW event, NEW arg, NEW ticks \in Nat \ {0},
           NEW newOffset \in 0 .. TscRange - 1, Recorded(source, event, arg, ticks, newOffset),
           NEW e, e = Recording(source, event, arg, newOffset)
    PROVE  /\ Len(recorded) \in Nat /\ DOMAIN recorded = 1 .. Len(recorded)
           /\ DOMAIN recorded' = 1 .. Len(recorded) + 1 /\ Len(recorded') = Len(recorded) + 1
           /\ \A i \in 1 .. Len(recorded) : recorded'[i] = recorded[i]
           /\ recorded'[Len(recorded) + 1] = e
           /\ e.source = source /\ e.event = event /\ e.arg = arg /\ e.raw = newOffset
           /\ e.note = NoNote /\ e.at = tsc'
           /\ e.timestamp = IF source = "h" THEN tsc' ELSE (tsc' + newOffset) % TscRange
           /\ tsc \in Nat /\ tsc' = tsc + ticks /\ tsc' \in Nat /\ tsc' < HalfRange
           /\ offset' = newOffset
<1>1. recorded' = Append(recorded, e) /\ tsc' = tsc + ticks /\ offset' = newOffset
      /\ tsc + ticks < HalfRange
  BY DEF Recorded, Recording
<1>2. recorded \in Seq(TraceEvent) /\ tsc \in Nat
  BY DEF TracesTypeOK
<1>3. /\ e.source = source /\ e.event = event /\ e.arg = arg /\ e.raw = newOffset
      /\ e.note = NoNote /\ e.at = tsc'
      /\ e.timestamp = IF source = "h" THEN tsc' ELSE (tsc' + newOffset) % TscRange
  BY DEF Recording
<1>4. /\ Len(recorded) \in Nat /\ DOMAIN recorded = 1 .. Len(recorded)
      /\ DOMAIN recorded' = 1 .. Len(recorded) + 1 /\ Len(recorded') = Len(recorded) + 1
      /\ \A i \in 1 .. Len(recorded) : recorded'[i] = recorded[i]
      /\ recorded'[Len(recorded) + 1] = e
  BY <1>1, <1>2
<1> QED
  BY <1>1, <1>2, <1>3, <1>4

(* Types. *)
EventNames == {"kvm_write_tsc_offset", "tracing_mark_write", "kvm_exit", "kvm_mmio", "kvm_msr",
               "kvm_entry", "sys_sendto", "sys_recvfrom"}
ArgNames   == Exits \cup {"KICK", "EOI", "netperf", "sshd", NoNote}

LEMMA RecordedTypes ==
    ASSUME TracesTypeOK, NEW source \in {"h", "g"}, NEW event \in EventNames, NEW arg \in ArgNames,
           NEW ticks \in Nat \ {0}, NEW newOffset \in 0 .. TscRange - 1,
           Recorded(source, event, arg, ticks, newOffset),
           vcpu' \in {"off", "guest", "host"}, awaiting' \in BOOLEAN
    PROVE  TracesTypeOK'
<1> DEFINE e == Recording(source, event, arg, newOffset)
<1>1. /\ Len(recorded) \in Nat /\ DOMAIN recorded = 1 .. Len(recorded)
      /\ DOMAIN recorded' = 1 .. Len(recorded) + 1
      /\ \A i \in 1 .. Len(recorded) : recorded'[i] = recorded[i]
      /\ recorded'[Len(recorded) + 1] = e
      /\ e.at = tsc' /\ e.timestamp = IF source = "h" THEN tsc' ELSE (tsc' + newOffset) % TscRange
      /\ tsc \in Nat /\ tsc <= tsc' /\ tsc' \in Nat /\ tsc' < HalfRange /\ offset' = newOffset
  <2> HIDE DEF e
  <2>1. e = Recording(source, event, arg, newOffset)
    BY DEF e
  <2>2. /\ Len(recorded) \in Nat /\ DOMAIN recorded = 1 .. Len(recorded)
        /\ DOMAIN recorded' = 1 .. Len(recorded) + 1
        /\ \A i \in 1 .. Len(recorded) : recorded'[i] = recorded[i]
        /\ recorded'[Len(recorded) + 1] = e
        /\ e.at = tsc' /\ e.timestamp = IF source = "h" THEN tsc' ELSE (tsc' + newOffset) % TscRange
        /\ tsc \in Nat /\ tsc' = tsc + ticks /\ tsc' \in Nat /\ tsc' < HalfRange
        /\ offset' = newOffset
    BY <2>1, RecordedFacts
  <2>3. tsc <= tsc'
    BY <2>2
  <2> QED
    BY <2>2, <2>3
<1>2. e.timestamp \in Nat /\ e.timestamp < TscRange
  <2>1. tsc' < TscRange
    BY <1>1, TscRangeFacts
  <2>2. (tsc' + newOffset) % TscRange \in 0 .. TscRange - 1
    <3>1. TscRange \in Nat \ {0} /\ tsc' + newOffset \in Int
      BY <1>1, TscRangeFacts
    <3> QED
      BY <3>1
  <2>3. e.timestamp \in {tsc', (tsc' + newOffset) % TscRange}
    BY <1>1
  <2>4. tsc' \in 0 .. TscRange - 1 /\ TscRange \in Nat
    BY <1>1, <2>1, TscRangeFacts
  <2>5. e.timestamp \in 0 .. TscRange - 1
    <3> HIDE DEF e
    <3> QED
      BY <2>2, <2>3, <2>4
  <2> HIDE DEF e
  <2> QED
    BY <2>4, <2>5
<1>3. e \in TraceEvent
  <2>1. e = [source |-> source, event |-> event, arg |-> arg, raw |-> newOffset, note |-> NoNote,
             timestamp |-> e.timestamp, at |-> tsc']
    BY DEF Recording
  <2> HIDE DEF e
  <2> QED
    BY <1>1, <1>2, <2>1 DEF TraceEvent, EventNames, ArgNames
<1>4. recorded' \in Seq(TraceEvent)
  <2>1. recorded \in Seq(TraceEvent)
    BY DEF TracesTypeOK
  <2>2. recorded' = Append(recorded, e)
    BY DEF Recorded, Recording
  <2> HIDE DEF e
  <2> QED
    BY <1>3, <2>1, <2>2
<1>5. \A i \in DOMAIN recorded' : recorded'[i].at <= tsc' /\ recorded'[i].timestamp < TscRange
  <2> TAKE i \in DOMAIN recorded'
  <2>1. CASE i \in 1 .. Len(recorded)
    <3>1. recorded[i].at <= tsc /\ recorded[i].timestamp < TscRange /\ recorded[i].at \in Nat
      <4>1. recorded[i] \in TraceEvent
        BY <1>1, <2>1 DEF TracesTypeOK
      <4>2. recorded[i].at \in Nat
        BY <4>1 DEF TraceEvent
      <4>3. recorded[i].at <= tsc /\ recorded[i].timestamp < TscRange
        BY <1>1, <2>1 DEF TracesTypeOK
      <4> QED
        BY <4>2, <4>3
    <3> HIDE DEF e
    <3> QED
      BY <1>1, <2>1, <3>1
  <2>2. CASE i = Len(recorded) + 1
    <3> HIDE DEF e
    <3> QED
      BY <1>1, <1>2, <2>2
  <2> HIDE DEF e
  <2> QED
    BY <1>1, <2>1, <2>2
<1> QED
  BY <1>1, <1>4, <1>5 DEF TracesTypeOK

(* An event at a known offset is dated right and comes after all others. *)
LEMMA ObservedClock ==
    ASSUME ClockInv, NEW source \in {"h", "g"}, NEW event \in EventNames, NEW arg \in ArgNames,
           NEW ticks \in Nat \ {0}, Recorded(source, event, arg, ticks, offset),
           event # "kvm_write_tsc_offset", vcpu # "off", vcpu' \in {"guest", "host"},
           awaiting' \in BOOLEAN,
           source = "g" => event \in {"sys_sendto", "sys_recvfrom"} /\ Marks(recorded) # {}
    PROVE  ClockInv'
<1> DEFINE n == Len(recorded)
<1> SUFFICES ASSUME NEW e, e = Recording(source, event, arg, offset)
             PROVE  ClockInv'
  OBVIOUS
<1>1. offset \in 0 .. TscRange - 1 /\ TracesTypeOK
  BY DEF ClockInv, TracesTypeOK
<1>2. /\ n \in Nat /\ DOMAIN recorded = 1 .. n /\ DOMAIN recorded' = 1 .. n + 1
      /\ \A i \in 1 .. n : recorded'[i] = recorded[i]
      /\ recorded'[n + 1] = e /\ e.source = source /\ e.event = event /\ e.at = tsc'
      /\ e.timestamp = IF source = "h" THEN tsc' ELSE (tsc' + offset) % TscRange
      /\ tsc \in Nat /\ tsc < tsc' /\ tsc' \in Nat /\ tsc' < HalfRange
  BY <1>1, RecordedFacts
<1>3. offset' = offset
  BY DEF Recorded
<1> HIDE DEF n
<1>4. TracesTypeOK'
  BY <1>1, RecordedTypes
<1>5. ClockKnown /\ OffsetRecorded
  BY DEF ClockInv
<1>6. \A i \in 1 .. n : recorded[i].at \in Nat /\ recorded[i].at <= tsc
  <2> TAKE i \in 1 .. n
  <2>1. recorded[i] \in TraceEvent /\ recorded[i].at <= tsc
    BY <1>1, <1>2 DEF TracesTypeOK
  <2> QED
    BY <2>1 DEF TraceEvent
<1>7. Chronological'
  <2>1. Chronological
    BY DEF ClockInv
  <2>2. \A i \in 1 .. n + 1 : 0 < recorded'[i].at
    BY <1>2, <2>1 DEF Chronological
  <2>3. ASSUME NEW i \in 1 .. n + 1, NEW j \in 1 .. n + 1, i < j
        PROVE  recorded'[i].at < recorded'[j].at
    <3>1. i \in 1 .. n
      BY <1>2, <2>3
    <3>2. CASE j \in 1 .. n
      BY <1>2, <2>1, <2>3, <3>1, <3>2 DEF Chronological
    <3>3. CASE j = n + 1
      BY <1>2, <1>6, <3>1, <3>3
    <3> QED
      BY <1>2, <3>2, <3>3
  <2> QED
    BY <1>2, <2>2, <2>3 DEF Chronological
<1>8. \A i \in 1 .. n + 1 : (Dated(recorded[i]) /\ Sourced(recorded[i]))'
  <2> TAKE i \in 1 .. n + 1
  <2>1. CASE i \in 1 .. n
    <3>1. Dated(recorded[i]) /\ Sourced(recorded[i])
      BY <1>2, <2>1 DEF ClockInv
    <3> QED
      BY <1>2, <1>3, <2>1, <3>1 DEF Dated, Sourced, Signed
  <2>2. CASE i = n + 1
    <3>1. tsc' \in tsc .. HalfRange - 1
      BY <1>2, TscRangeFacts
    <3>2. ((tsc' + offset) % TscRange) - Signed(offset) = tsc'
      BY <1>5, <3>1 DEF ClockKnown
    <3>3. e.timestamp - (IF e.source = "g" THEN Signed(offset) ELSE 0) = e.at
      BY <1>2, <3>2
    <3>4. Dated(recorded[i])'
      BY <1>2, <1>3, <2>2, <3>3 DEF Dated, Signed
    <3>5. Sourced(recorded[i])'
      BY <1>2, <2>2 DEF Sourced
    <3> QED
      BY <3>4, <3>5
  <2> QED
    BY <1>2, <2>1, <2>2
<1>9. ClockKnown'
  <2>1. \A t \in tsc' .. HalfRange - 1 : t \in tsc .. HalfRange - 1
    BY <1>2, TscRangeFacts
  <2> QED
    BY <1>3, <1>5, <2>1 DEF ClockKnown, Signed
<1>10. OffsetRecorded'
  <2>1. PICK i \in 1 .. n : /\ Is(recorded[i], "kvm_write_tsc_offset") /\ recorded[i].raw = offset
                           /\ \A j \in 1 .. n : Is(recorded[j], "kvm_write_tsc_offset") => j <= i
    BY <1>2, <1>5 DEF OffsetRecorded
  <2>2. i \in 1 .. n + 1 /\ recorded'[i] = recorded[i]
    BY <1>2
  <2>3. \A j \in 1 .. n + 1 : Is(recorded'[j], "kvm_write_tsc_offset") => j <= i
    <3> TAKE j \in 1 .. n + 1
    <3>1. CASE j \in 1 .. n
      BY <1>2, <2>1, <3>1 DEF Is
    <3>2. CASE j = n + 1
      BY <1>2, <3>2 DEF Is
    <3> QED
      BY <1>2, <3>1, <3>2
  <2> QED
    BY <1>2, <1>3, <2>1, <2>2, <2>3 DEF OffsetRecorded, Is
<1>11. (Marks(recorded) = {} => \A i \in DOMAIN recorded : recorded[i].source = "h")'
  <2> SUFFICES ASSUME Marks(recorded') = {}, NEW i \in 1 .. n + 1
               PROVE  recorded'[i].source = "h"
    BY <1>2
  <2>1. Marks(recorded) = {}
    BY <1>2 DEF Marks
  <2>2. CASE i \in 1 .. n
    BY <1>2, <2>1, <2>2 DEF ClockInv
  <2>3. CASE i = n + 1
    BY <1>2, <2>1, <2>3
  <2> QED
    BY <1>2, <2>2, <2>3
<1>12. (vcpu = "off" => Marks(recorded) = {})'
  OBVIOUS
<1>13. (tsc < HalfRange)'
  BY <1>2
<1>14. (\A i \in DOMAIN recorded : Dated(recorded[i]) /\ Sourced(recorded[i]))'
  BY <1>2, <1>8
<1>15. (vcpu # "off" => ClockKnown /\ OffsetRecorded)'
  BY <1>9, <1>10
<1> QED
  BY <1>4, <1>7, <1>11, <1>12, <1>13, <1>14, <1>15 DEF ClockInv

(* A boot or reset of the guest: no event of the guest is dated by an older offset. *)
LEMMA ResetClock ==
    ASSUME ClockInv, NEW start \in GuestStart, Reset(start)
    PROVE  ClockInv'
<1> DEFINE n == Len(recorded)
<1> SUFFICES ASSUME NEW o, o = (start - tsc - 1) % TscRange,
                    NEW e, e = Recording("h", "kvm_write_tsc_offset", NoNote, o)
             PROVE  ClockInv'
  OBVIOUS
<1>1. tsc \in Nat /\ TracesTypeOK
  BY DEF ClockInv, TracesTypeOK
<1>2. Recorded("h", "kvm_write_tsc_offset", NoNote, 1, o) /\ vcpu' = "guest" /\ awaiting' = FALSE
      /\ Marks(recorded) = {}
  BY DEF Reset
<1>3. /\ o \in 0 .. TscRange - 1 /\ tsc + 1 < HalfRange
      /\ \A t \in tsc + 1 .. HalfRange - 1 : ((t + o) % TscRange) - Signed(o) = t
  <2>1. tsc + 1 < HalfRange
    BY <1>2 DEF Recorded
  <2>2. tsc + 1 \in 0 .. HalfRange - 1
    BY <1>1, <2>1, TscRangeFacts
  <2>3. start - (tsc + 1) = start - tsc - 1
    BY <1>1, TracesAssumption
  <2>4. o = (start - (tsc + 1)) % TscRange
    BY <2>3
  <2> QED
    BY <2>1, <2>2, <2>4, OffsetInverts
<1>4. /\ n \in Nat /\ DOMAIN recorded = 1 .. n /\ DOMAIN recorded' = 1 .. n + 1
      /\ \A i \in 1 .. n : recorded'[i] = recorded[i]
      /\ recorded'[n + 1] = e /\ e.source = "h" /\ e.event = "kvm_write_tsc_offset"
      /\ e.raw = o /\ e.at = tsc' /\ e.timestamp = tsc'
      /\ tsc' = tsc + 1 /\ offset' = o
  BY <1>1, <1>2, <1>3, RecordedFacts
<1> HIDE DEF n
<1>5. TracesTypeOK'
  <2>1. "kvm_write_tsc_offset" \in EventNames /\ NoNote \in ArgNames
        /\ vcpu' \in {"off", "guest", "host"} /\ awaiting' \in BOOLEAN
    BY <1>2 DEF EventNames, ArgNames
  <2>2. 1 \in Nat \ {0}
    OBVIOUS
  <2> QED
    BY <1>1, <1>2, <1>3, <2>1, <2>2, RecordedTypes
<1>6. \A i \in 1 .. n : recorded[i].at \in Nat /\ recorded[i].at <= tsc
  <2> TAKE i \in 1 .. n
  <2>1. recorded[i] \in TraceEvent /\ recorded[i].at <= tsc
    BY <1>1, <1>4 DEF TracesTypeOK
  <2> QED
    BY <2>1 DEF TraceEvent
<1>7. Chronological'
  <2>1. Chronological
    BY DEF ClockInv
  <2>2. \A i \in 1 .. n + 1 : 0 < recorded'[i].at
    BY <1>1, <1>4, <2>1 DEF Chronological
  <2>3. ASSUME NEW i \in 1 .. n + 1, NEW j \in 1 .. n + 1, i < j
        PROVE  recorded'[i].at < recorded'[j].at
    <3>1. i \in 1 .. n
      BY <1>4, <2>3
    <3>2. CASE j \in 1 .. n
      BY <1>4, <2>1, <2>3, <3>1, <3>2 DEF Chronological
    <3>3. CASE j = n + 1
      BY <1>1, <1>4, <1>6, <3>1, <3>3
    <3> QED
      BY <1>4, <3>2, <3>3
  <2> QED
    BY <1>4, <2>2, <2>3 DEF Chronological
<1>8. \A i \in 1 .. n + 1 : recorded'[i].source = "h"
  BY <1>2, <1>4 DEF ClockInv
<1>9. \A i \in 1 .. n + 1 : (Dated(recorded[i]) /\ Sourced(recorded[i]))'
  <2> TAKE i \in 1 .. n + 1
  <2>1. CASE i \in 1 .. n
    <3>1. Dated(recorded[i]) /\ recorded[i].source = "h"
      BY <1>2, <1>4, <2>1 DEF ClockInv
    <3>2. recorded[i].timestamp - 0 = recorded[i].at
      BY <3>1 DEF Dated
    <3> QED
      BY <1>4, <1>8, <2>1, <3>1, <3>2 DEF Dated, Sourced
  <2>2. CASE i = n + 1
    <3>1. e.timestamp - 0 = e.at
      BY <1>1, <1>4
    <3> QED
      BY <1>4, <1>8, <2>2, <3>1 DEF Dated, Sourced
  <2> QED
    BY <1>4, <2>1, <2>2
<1>10. ClockKnown'
  BY <1>3, <1>4 DEF ClockKnown, Signed
<1>11. OffsetRecorded'
  <2>1. n + 1 \in 1 .. n + 1 /\ \A j \in 1 .. n + 1 : j <= n + 1
    BY <1>4
  <2> QED
    BY <1>4, <2>1 DEF OffsetRecorded, Is
<1>12. (tsc < HalfRange)'
  BY <1>3, <1>4
<1>13. (\A i \in DOMAIN recorded : Dated(recorded[i]) /\ Sourced(recorded[i]))'
  BY <1>4, <1>9
<1>14. (vcpu # "off" => ClockKnown /\ OffsetRecorded)'
  BY <1>10, <1>11
<1>15. (vcpu = "off" => Marks(recorded) = {})'
  BY <1>2
<1>16. (Marks(recorded) = {} => \A i \in DOMAIN recorded : recorded[i].source = "h")'
  BY <1>4, <1>8
<1> QED
  BY <1>5, <1>7, <1>12, <1>13, <1>14, <1>15, <1>16 DEF ClockInv

(* Ticks between events are some. *)
LEMMA TicksArePositive == Ticks \subseteq Nat \ {0}
BY TracesAssumption DEF Ticks

(* Once there is a marker the set of markers is not empty. *)
LEMMA TestingIsMarked ==
    ASSUME Testing
    PROVE  Marks(recorded) # {}
BY FS_EmptySet DEF Testing

THEOREM ClockInvariance == TracesSpec => []ClockInv
<1>1. TracesInit => ClockInv
  <2> SUFFICES ASSUME TracesInit
               PROVE  ClockInv
    OBVIOUS
  <2>1. tsc = 0 /\ offset = 0 /\ vcpu = "off" /\ awaiting = FALSE /\ recorded = <<>>
    BY DEF TracesInit
  <2>2. DOMAIN recorded = {} /\ recorded \in Seq(TraceEvent)
    BY <2>1
  <2>3. TracesTypeOK
    <3>1. tsc \in Nat /\ offset \in 0 .. TscRange - 1
      BY <2>1, TscRangeFacts
    <3>2. vcpu \in {"off", "guest", "host"} /\ awaiting \in BOOLEAN
      BY <2>1
    <3> QED
      BY <2>2, <3>1, <3>2 DEF TracesTypeOK
  <2>4. Chronological /\ Marks(recorded) = {}
    BY <2>2 DEF Chronological, Marks
  <2>5. tsc < HalfRange
    BY <2>1, TscRangeFacts
  <2> QED
    BY <2>1, <2>2, <2>3, <2>4, <2>5 DEF ClockInv
<1>2. ClockInv /\ [TracesNext]_tracesVars => ClockInv'
  <2> SUFFICES ASSUME ClockInv, [TracesNext]_tracesVars
               PROVE  ClockInv'
    OBVIOUS
  <2>1. TracesTypeOK /\ awaiting \in BOOLEAN
    BY DEF ClockInv, TracesTypeOK
  <2>2. ASSUME NEW start \in GuestStart, Reset(start)
        PROVE  ClockInv'
    BY <2>2, ResetClock
  <2>3. ASSUME NEW note \in Notes, Emulate(note)
        PROVE  ClockInv'
    <3>1. /\ note[1] \in EventNames /\ note[2] \in ArgNames /\ note[1] # "kvm_write_tsc_offset"
      BY DEF Notes, EventNames, ArgNames
    <3>2. /\ vcpu = "host" /\ Recorded("h", note[1], note[2], 1, offset)
          /\ vcpu' = vcpu /\ awaiting' = awaiting
      BY <2>3 DEF Emulate
    <3> QED
      BY <2>1, <3>1, <3>2, ObservedClock
  <2>4. ASSUME NEW ticks \in Ticks, Mark(ticks)
        PROVE  ClockInv'
    <3>1. /\ vcpu # "off" /\ Recorded("h", "tracing_mark_write", NoNote, ticks, offset)
          /\ vcpu' = vcpu /\ awaiting' = awaiting
      BY <2>4 DEF Mark
    <3>2. vcpu \in {"guest", "host"}
      BY <2>1, <3>1 DEF TracesTypeOK
    <3> QED
      BY <2>1, <3>1, <3>2, TicksArePositive, ObservedClock DEF EventNames, ArgNames
  <2>5. ASSUME NEW ticks \in Ticks, NEW r \in Exits, KvmExit(r, ticks)
        PROVE  ClockInv'
    <3>1. /\ vcpu = "guest" /\ Recorded("h", "kvm_exit", r, ticks, offset)
          /\ vcpu' = "host" /\ awaiting' = awaiting
      BY <2>5 DEF KvmExit
    <3> QED
      BY <2>1, <3>1, TicksArePositive, ObservedClock DEF EventNames, ArgNames
  <2>6. ASSUME NEW ticks \in Ticks, KvmEntry(ticks)
        PROVE  ClockInv'
    <3>1. /\ vcpu = "host" /\ Recorded("h", "kvm_entry", NoNote, ticks, offset)
          /\ vcpu' = "guest" /\ awaiting' = awaiting
      BY <2>6 DEF KvmEntry
    <3> QED
      BY <2>1, <3>1, TicksArePositive, ObservedClock DEF EventNames, ArgNames
  <2>7. ASSUME NEW ticks \in Ticks, NEW event \in {"sys_sendto", "sys_recvfrom"},
               NEW proc \in {"netperf", "sshd"}, GuestCall(event, proc, ticks)
        PROVE  ClockInv'
    <3>1. /\ Testing /\ vcpu = "guest" /\ Recorded("g", event, proc, ticks, offset)
          /\ awaiting' = (IF proc = "netperf" THEN event = "sys_sendto" ELSE awaiting)
          /\ vcpu' = vcpu
      BY <2>7 DEF GuestCall
    <3>2. awaiting' \in BOOLEAN
      BY <2>1, <3>1
    <3> QED
      BY <3>1, <3>2, TicksArePositive, TestingIsMarked, ObservedClock DEF EventNames, ArgNames
  <2>8. CASE UNCHANGED tracesVars
    <3>1. /\ tsc' = tsc /\ offset' = offset /\ vcpu' = vcpu /\ awaiting' = awaiting
          /\ recorded' = recorded
      BY <2>8 DEF tracesVars
    <3> QED
      BY <3>1 DEF ClockInv, TracesTypeOK, Chronological, Dated, Sourced, ClockKnown,
                  OffsetRecorded, Marks, Is, Signed
  <2> QED
    BY <2>2, <2>3, <2>4, <2>5, <2>6, <2>7, <2>8 DEF TracesNext
<1> QED
  BY <1>1, <1>2, PTL DEF TracesSpec

(* Every variable and every recorded event has its type, and no clock overflows. *)
THEOREM TracesTypeCorrect == TracesSpec => []TracesTypeOK
<1>1. ClockInv => TracesTypeOK
  BY DEF ClockInv
<1> QED
  BY <1>1, ClockInvariance, PTL

-----------------------------------------------------------------------------
(* What the parser makes of it. *)

(* parse_tsc finds the offset in force. *)
LEMMA OffsetFound ==
    ASSUME ClockInv, vcpu # "off"
    PROVE  TscOffset = Signed(offset)
<1> DEFINE n == Len(recorded)
           H == Of("h")
<1>1. n \in Nat /\ DOMAIN recorded = 1 .. n /\ H \in SUBSET (1 .. n)
  BY DEF ClockInv, TracesTypeOK, Of
<1>2. PICK i \in 1 .. n :
        /\ Is(recorded[i], "kvm_write_tsc_offset") /\ recorded[i].raw = offset
        /\ \A j \in 1 .. n : Is(recorded[j], "kvm_write_tsc_offset") => j <= i
  BY <1>1 DEF ClockInv, OffsetRecorded
<1>3. i \in H
  <2>1. recorded[i] \in TraceEvent
    BY <1>1 DEF ClockInv, TracesTypeOK
  <2>2. recorded[i].source \in {"g", "h"}
    BY <2>1 DEF TraceEvent
  <2>3. Sourced(recorded[i])
    BY <1>1 DEF ClockInv
  <2> QED
    BY <1>1, <1>2, <2>2, <2>3 DEF Sourced, Is, Of
<1> HIDE DEF n, H
<1> DEFINE e == HostEvents
           k == Rank(H, i)
<1>4. /\ DOMAIN e = 1 .. Cardinality(H)
      /\ \A l \in 1 .. Cardinality(H) : e[l] = recorded[Kth(H, l)]
  BY <1>1, ChosenFacts DEF HostEvents, H
<1>5. k \in 1 .. Cardinality(H) /\ Kth(H, k) = i
  BY <1>1, <1>3, RankGrows, KthFacts
<1> HIDE DEF e, k
<1>6. k \in Offsets(e) /\ Offsets(e) \in SUBSET Int
  BY <1>2, <1>4, <1>5 DEF Offsets, Is
<1>7. \A l \in Offsets(e) : l <= k
  <2> TAKE l \in Offsets(e)
  <2>1. l \in 1 .. Cardinality(H) /\ Is(e[l], "kvm_write_tsc_offset")
    BY <1>4 DEF Offsets
  <2>2. Kth(H, l) \in 1 .. n /\ Is(recorded[Kth(H, l)], "kvm_write_tsc_offset")
    BY <1>1, <1>4, <2>1, KthFacts
  <2>3. Kth(H, l) <= i
    BY <1>2, <2>2
  <2>4. ~(Kth(H, k) < Kth(H, l))
    BY <1>1, <1>5, <2>2, <2>3
  <2>5. ~(k < l)
    BY <1>1, <1>5, <2>1, <2>4, KthFacts
  <2> QED
    BY <1>5, <2>1, <2>5
<1>8. Max(Offsets(e)) = k
  BY <1>6, <1>7, GreatestIs
<1>9. e[k].raw = offset
  BY <1>2, <1>4, <1>5
<1>10. TscOffset = Signed(e[Max(Offsets(e))].raw)
  BY DEF TscOffset, e
<1> QED
  BY <1>8, <1>9, <1>10

(* An event at its real time. *)
AtRealTime(e) == [e EXCEPT !.timestamp = e.at]

(* The guest's events, brought back, and the host's, as they are, are at their real times. *)
LEMMA BothOnHostClock ==
    ASSUME ClockInv, Marks(recorded) # {}
    PROVE  /\ Of("g") \in SUBSET (1 .. Len(recorded)) /\ Of("h") \in SUBSET (1 .. Len(recorded))
           /\ DOMAIN OnHostClock(GuestEvents) = 1 .. Cardinality(Of("g"))
           /\ DOMAIN HostEvents = 1 .. Cardinality(Of("h"))
           /\ \A k \in 1 .. Cardinality(Of("g")) :
                OnHostClock(GuestEvents)[k] = AtRealTime(recorded[Kth(Of("g"), k)])
           /\ \A k \in 1 .. Cardinality(Of("h")) :
                HostEvents[k] = AtRealTime(recorded[Kth(Of("h"), k)])
<1> DEFINE n == Len(recorded)
           G == Of("g")
           H == Of("h")
<1>1. n \in Nat /\ DOMAIN recorded = 1 .. n /\ G \in SUBSET (1 .. n) /\ H \in SUBSET (1 .. n)
  BY DEF ClockInv, TracesTypeOK, Of
<1>2. \A i \in G : recorded[i].source = "g"
  BY DEF Of
<1>3. \A i \in H : recorded[i].source = "h"
  BY DEF Of
<1>4. ASSUME NEW i \in 1 .. n
      PROVE  recorded[i] \in TraceEvent /\ Dated(recorded[i])
  BY <1>1 DEF ClockInv, TracesTypeOK
<1> HIDE DEF n, G, H
<1>5. TscOffset = Signed(offset)
  BY OffsetFound DEF ClockInv
<1>6. DOMAIN GuestEvents = 1 .. Cardinality(G)
      /\ \A k \in 1 .. Cardinality(G) : GuestEvents[k] = recorded[Kth(G, k)]
  BY <1>1, ChosenFacts DEF GuestEvents, G
<1>7. DOMAIN HostEvents = 1 .. Cardinality(H)
      /\ \A k \in 1 .. Cardinality(H) : HostEvents[k] = recorded[Kth(H, k)]
  BY <1>1, ChosenFacts DEF HostEvents, H
<1>8. /\ DOMAIN OnHostClock(GuestEvents) = 1 .. Cardinality(G)
      /\ \A k \in 1 .. Cardinality(G) :
           OnHostClock(GuestEvents)[k] =
             [recorded[Kth(G, k)] EXCEPT !.timestamp = @ - Signed(offset)]
  BY <1>5, <1>6 DEF OnHostClock
<1>9. ASSUME NEW k \in 1 .. Cardinality(G)
      PROVE  OnHostClock(GuestEvents)[k] = AtRealTime(recorded[Kth(G, k)])
  <2>1. Kth(G, k) \in G /\ Kth(G, k) \in 1 .. n
    BY <1>1, KthFacts
  <2>2. recorded[Kth(G, k)].timestamp - Signed(offset) = recorded[Kth(G, k)].at
    BY <1>2, <1>4, <2>1 DEF Dated
  <2> QED
    BY <1>8, <2>2 DEF AtRealTime
<1>10. ASSUME NEW k \in 1 .. Cardinality(H)
       PROVE  HostEvents[k] = AtRealTime(recorded[Kth(H, k)])
  <2> DEFINE e == recorded[Kth(H, k)]
  <2>1. Kth(H, k) \in H /\ Kth(H, k) \in 1 .. n
    BY <1>1, KthFacts
  <2>2. e \in TraceEvent /\ e.source = "h" /\ Dated(e)
    BY <1>3, <1>4, <2>1
  <2> HIDE DEF e
  <2>3. e.timestamp - 0 = e.at /\ e.timestamp \in Nat
    BY <2>2 DEF Dated, TraceEvent
  <2>4. e = AtRealTime(e)
    BY <2>2, <2>3 DEF TraceEvent, AtRealTime
  <2> QED
    BY <1>7, <2>4 DEF e
<1> QED
  BY <1>1, <1>7, <1>8, <1>9, <1>10 DEF n, G, H

(* Sorted, they are in the order in which they were recorded. *)
LEMMA MergedFacts ==
    ASSUME ClockInv, Marks(recorded) # {}
    PROVE  Merged = [i \in 1 .. Len(recorded) |-> AtRealTime(recorded[i])]
<1> DEFINE n == Len(recorded)
           G == Of("g")
           H == Of("h")
           g == Cardinality(G)
           h == Cardinality(H)
           X == {AtRealTime(recorded[i]) : i \in 1 .. n}
           c == OnHostClock(GuestEvents) \o HostEvents
           place == [k \in 1 .. n |-> IF k <= g THEN Kth(G, k) ELSE Kth(H, k - g)]
           inverse == [i \in 1 .. n |-> IF i \in G THEN Rank(G, i) ELSE g + Rank(H, i)]
<1>1. n \in Nat /\ DOMAIN recorded = 1 .. n
  BY DEF ClockInv, TracesTypeOK
<1>2. ASSUME NEW i \in 1 .. n
      PROVE  recorded[i] \in TraceEvent /\ recorded[i].at \in Nat
  <2>1. recorded[i] \in TraceEvent
    BY <1>1 DEF ClockInv, TracesTypeOK
  <2> QED
    BY <2>1 DEF TraceEvent
<1>3. G \cup H = 1 .. n /\ G \cap H = {}
  <2>1. \A i \in 1 .. n : recorded[i].source \in {"g", "h"}
    BY <1>2 DEF TraceEvent
  <2> QED
    BY <1>1, <2>1 DEF Of
<1>4. /\ G \in SUBSET (1 .. n) /\ H \in SUBSET (1 .. n)
      /\ DOMAIN OnHostClock(GuestEvents) = 1 .. g
      /\ DOMAIN HostEvents = 1 .. h
      /\ \A k \in 1 .. g : OnHostClock(GuestEvents)[k] = AtRealTime(recorded[Kth(G, k)])
      /\ \A k \in 1 .. h : HostEvents[k] = AtRealTime(recorded[Kth(H, k)])
  BY BothOnHostClock
<1> HIDE DEF n, G, H
<1>5. g \in Nat /\ h \in Nat /\ g + h = n
  <2>1. IsFiniteSet(G) /\ IsFiniteSet(H) /\ g \in Nat /\ h \in Nat
    BY <1>1, <1>4, FinitePositions
  <2>2. Cardinality(G \cup H) = g + h - Cardinality(G \cap H)
    BY <2>1, FS_Union
  <2>3. Cardinality(1 .. n) = n
    <3>1. 1 \in Int /\ n \in Int
      BY <1>1
    <3>2. Cardinality(1 .. n) = IF 1 > n THEN 0 ELSE n - 1 + 1
      BY <3>1, FS_Interval
    <3> QED
      BY <1>1, <3>2
  <2>4. Cardinality(G \cup H) = n /\ Cardinality(G \cap H) = 0
    BY <1>3, <2>3, FS_EmptySet
  <2> HIDE DEF g, h
  <2> QED
    BY <1>1, <2>1, <2>2, <2>4
<1>6. /\ \A k \in 1 .. g : Kth(G, k) \in G /\ Kth(G, k) \in 1 .. n /\ Rank(G, Kth(G, k)) = k
      /\ \A k \in 1 .. h : Kth(H, k) \in H /\ Kth(H, k) \in 1 .. n /\ Rank(H, Kth(H, k)) = k
  BY <1>1, <1>4, KthFacts
<1>7. /\ \A i \in G : Rank(G, i) \in 1 .. g /\ Kth(G, Rank(G, i)) = i
      /\ \A i \in H : Rank(H, i) \in 1 .. h /\ Kth(H, Rank(H, i)) = i
  BY <1>1, <1>4, RankGrows, KthFacts
<1> HIDE DEF g, h
<1>8. place \in [1 .. n -> 1 .. n]
  <2>1. \A k \in 1 .. n : k <= g => k \in 1 .. g
    BY <1>5
  <2>2. \A k \in 1 .. n : ~(k <= g) => k - g \in 1 .. h
    BY <1>5
  <2> QED
    BY <1>6, <2>1, <2>2
<1>9. inverse \in [1 .. n -> 1 .. n]
  <2>1. \A i \in 1 .. n : i \in G \/ i \in H
    BY <1>3
  <2>2. \A r \in 1 .. g : r \in 1 .. n
    BY <1>5
  <2>3. \A r \in 1 .. h : g + r \in 1 .. n
    BY <1>5
  <2> QED
    BY <1>7, <2>1, <2>2, <2>3
<1>10. ASSUME NEW k \in 1 .. n
       PROVE  inverse[place[k]] = k
  <2>1. CASE k <= g
    <3>1. k \in 1 .. g
      BY <2>1
    <3>2. place[k] = Kth(G, k)
      BY <2>1
    <3> QED
      BY <1>6, <3>1, <3>2
  <2>2. CASE ~(k <= g)
    <3>1. k - g \in 1 .. h
      BY <1>5, <2>2
    <3>2. place[k] = Kth(H, k - g)
      BY <2>2
    <3>3. Kth(H, k - g) \in H /\ Kth(H, k - g) \notin G /\ Kth(H, k - g) \in 1 .. n
          /\ Rank(H, Kth(H, k - g)) = k - g
      BY <1>3, <1>6, <3>1
    <3>4. inverse[place[k]] = g + (k - g)
      BY <3>2, <3>3
    <3> QED
      BY <1>5, <3>4
  <2> QED
    BY <2>1, <2>2
<1>11. ASSUME NEW i \in 1 .. n
       PROVE  place[inverse[i]] = i
  <2>1. CASE i \in G
    <3>1. inverse[i] = Rank(G, i) /\ Rank(G, i) \in 1 .. g /\ Kth(G, Rank(G, i)) = i
      BY <1>7, <2>1
    <3>2. Rank(G, i) \in 1 .. n /\ Rank(G, i) <= g
      BY <1>5, <3>1
    <3>3. place[Rank(G, i)] = Kth(G, Rank(G, i))
      BY <3>2
    <3> HIDE DEF place, inverse
    <3> QED
      BY <3>1, <3>3
  <2>2. CASE i \notin G
    <3>1. inverse[i] = g + Rank(H, i) /\ Rank(H, i) \in 1 .. h /\ Kth(H, Rank(H, i)) = i
      BY <1>3, <1>7, <2>2
    <3>2. g + Rank(H, i) \in 1 .. n /\ ~(g + Rank(H, i) <= g) /\ g + Rank(H, i) - g = Rank(H, i)
      BY <1>5, <3>1
    <3>3. \A k \in 1 .. n : ~(k <= g) => place[k] = Kth(H, k - g)
      OBVIOUS
    <3> HIDE DEF place, inverse
    <3> DEFINE m == g + Rank(H, i)
    <3>4. m \in 1 .. n /\ ~(m <= g) /\ m - g = Rank(H, i)
      BY <1>1, <1>5, <3>1
    <3> HIDE DEF m
    <3>5. place[m] = Kth(H, m - g)
      BY <3>3, <3>4
    <3> QED
      BY <3>1, <3>4, <3>5 DEF m
  <2> QED
    BY <2>1, <2>2
<1>12. OnHostClock(GuestEvents) \in Seq(X) /\ Len(OnHostClock(GuestEvents)) = g
       /\ HostEvents \in Seq(X) /\ Len(HostEvents) = h
  <2> DEFINE o == OnHostClock(GuestEvents)
  <2>1. \A k \in 1 .. g : o[k] \in X
    BY <1>4, <1>6 DEF g
  <2>2. \A k \in 1 .. h : HostEvents[k] \in X
    BY <1>4, <1>6 DEF h
  <2>3. o = [k \in 1 .. g |-> o[k]]
    BY <1>4 DEF OnHostClock, g
  <2>4. HostEvents = [k \in 1 .. h |-> HostEvents[k]]
    BY <1>4 DEF HostEvents, Chosen, h, H
  <2> HIDE DEF o, X
  <2> QED
    BY <1>5, <2>1, <2>2, <2>3, <2>4 DEF o
<1>13. /\ DOMAIN c = 1 .. n
       /\ \A k \in 1 .. n : c[k] = AtRealTime(recorded[place[k]])
  <2> DEFINE o == OnHostClock(GuestEvents)
  <2> HIDE DEF o, X, place
  <2>1. DOMAIN c = 1 .. n /\ \A k \in 1 .. n : c[k] = IF k <= g THEN o[k] ELSE HostEvents[k - g]
    BY <1>5, <1>12 DEF o
  <2> HIDE DEF c
  <2>2. ASSUME NEW k \in 1 .. n
        PROVE  c[k] = AtRealTime(recorded[place[k]])
    <3>1. CASE k <= g
      <4>1. k \in 1 .. g
        BY <3>1
      <4>2. o[k] = AtRealTime(recorded[Kth(G, k)])
        BY <1>4, <4>1 DEF o, g
      <4> QED
        BY <2>1, <3>1, <4>2 DEF place
    <3>2. CASE ~(k <= g)
      <4>1. k - g \in 1 .. h
        BY <1>5, <3>2
      <4>2. HostEvents[k - g] = AtRealTime(recorded[Kth(H, k - g)])
        BY <1>4, <4>1 DEF h
      <4> QED
        BY <2>1, <3>2, <4>2 DEF place
    <3> QED
      BY <3>1, <3>2
  <2> QED
    BY <2>1, <2>2
<1> HIDE DEF place, inverse, c, X
<1>14. \A k \in 1 .. n : c[k].timestamp = recorded[place[k]].at
  <2> TAKE k \in 1 .. n
  <2>1. place[k] \in 1 .. n
    BY <1>8
  <2>2. recorded[place[k]] \in TraceEvent
    BY <1>2, <2>1
  <2> QED
    BY <1>13, <2>2 DEF AtRealTime, TraceEvent
<1>15. \A k \in 1 .. n : c[k].timestamp \in Int
  <2> TAKE k \in 1 .. n
  <2>1. recorded[place[k]].at \in Nat
    BY <1>2, <1>8
  <2> QED
    BY <1>14, <2>1
<1>16. \A k, l \in 1 .. n : place[k] < place[l] => c[k].timestamp < c[l].timestamp
  <2> TAKE k, l \in 1 .. n
  <2>1. place[k] \in 1 .. n /\ place[l] \in 1 .. n
    BY <1>8
  <2> QED
    BY <1>1, <1>14, <2>1 DEF ClockInv, Chronological
<1>17. StableSort(c) = [i \in 1 .. n |-> c[inverse[i]]]
  <2>1. DOMAIN c = 1 .. n
    BY <1>13
  <2>2. Orders(n, c, place, inverse)
    BY <1>1, <1>8, <1>9, <1>10, <1>11, <1>15, <1>16, <2>1 DEF Orders
  <2> QED
    BY <2>2, StableSortFacts
<1>18. \A i \in 1 .. n : c[inverse[i]] = AtRealTime(recorded[i])
  BY <1>9, <1>11, <1>13
<1>19. Merged = StableSort(c)
  BY DEF Merged, c
<1> QED
  BY <1>17, <1>18, <1>19 DEF n

(* The positions of the test, by real time, are an interval. *)
TestPositions == {i \in DOMAIN recorded : /\ Begin + 3 * HalfSecond < recorded[i].at
                                          /\ recorded[i].at < End - HalfSecond}

(* The markers are recorded at times of the host's clock. *)
LEMMA MarkTimes ==
    ASSUME ClockInv, Marks(recorded) # {}
    PROVE  /\ Min(Marks(recorded)) \in DOMAIN recorded /\ Max(Marks(recorded)) \in DOMAIN recorded
           /\ Begin \in Nat /\ End \in Nat
           /\ \A i \in DOMAIN recorded : recorded[i] \in TraceEvent /\ recorded[i].at \in Nat
<1> DEFINE n == Len(recorded)
<1>1. n \in Nat /\ DOMAIN recorded = 1 .. n
  BY DEF ClockInv, TracesTypeOK
<1>2. \A i \in 1 .. n : recorded[i] \in TraceEvent
  BY <1>1 DEF ClockInv, TracesTypeOK
<1>3. \A i \in 1 .. n : recorded[i].at \in Nat
  BY <1>2 DEF TraceEvent
<1> HIDE DEF n
<1>4. Marks(recorded) \in SUBSET Nat /\ Marks(recorded) \in SUBSET (0 .. n)
      /\ Marks(recorded) \in SUBSET (1 .. n)
  BY <1>1 DEF Marks
<1>5. Min(Marks(recorded)) \in 1 .. n
  BY <1>4, SmallestExists
<1>6. Max(Marks(recorded)) \in 1 .. n
  BY <1>1, <1>4, GreatestExists
<1> QED
  BY <1>1, <1>2, <1>3, <1>5, <1>6 DEF Begin, End

LEMMA TestIsInterval ==
    ASSUME ClockInv, Marks(recorded) # {}, TestPositions # {},
           NEW a, a = Min(TestPositions), NEW b, b = Max(TestPositions)
    PROVE  a \in 1 .. Len(recorded) /\ b \in a .. Len(recorded) /\ TestPositions = a .. b
<1> DEFINE n == Len(recorded)
           from == Begin + 3 * HalfSecond
           to == End - HalfSecond
<1>1. n \in Nat /\ DOMAIN recorded = 1 .. n
  BY DEF ClockInv, TracesTypeOK
<1>2. \A i \in 1 .. n : recorded[i].at \in Nat
  BY <1>1, MarkTimes
<1>3. \A i, j \in 1 .. n : i < j => recorded[i].at < recorded[j].at
  BY <1>1 DEF ClockInv, Chronological
<1>4. from \in Int /\ to \in Int
  BY MarkTimes, TracesAssumption
<1> HIDE DEF n
<1>5. \A i : i \in TestPositions <=> i \in 1 .. n /\ from < recorded[i].at /\ recorded[i].at < to
  BY <1>1 DEF TestPositions
<1> HIDE DEF from, to
<1>6. TestPositions \in SUBSET Nat /\ TestPositions \in SUBSET (0 .. n)
  BY <1>1, <1>5
<1>7. a \in TestPositions /\ \A i \in TestPositions : a <= i
  BY <1>6, SmallestExists
<1>8. b \in TestPositions /\ \A i \in TestPositions : i <= b
  BY <1>1, <1>6, GreatestExists
<1>9. a \in 1 .. n /\ b \in a .. n
  BY <1>1, <1>5, <1>7, <1>8
<1>10. TestPositions \subseteq a .. b
  BY <1>6, <1>7, <1>8, <1>9
<1>11. a .. b \subseteq TestPositions
  <2> SUFFICES ASSUME NEW i \in a .. b
               PROVE  i \in TestPositions
    OBVIOUS
  <2>1. i \in 1 .. n
    BY <1>1, <1>9
  <2>2. from < recorded[a].at /\ recorded[b].at < to
    BY <1>5, <1>7, <1>8
  <2>3. recorded[a].at <= recorded[i].at
    <3>1. i = a \/ a < i
      BY <1>9
    <3> QED
      BY <1>2, <1>3, <1>9, <2>1, <3>1
  <2>4. recorded[i].at <= recorded[b].at
    <3>1. i = b \/ i < b
      BY <1>1, <1>9
    <3>2. b \in 1 .. n
      BY <1>1, <1>9
    <3> QED
      BY <1>2, <1>3, <2>1, <3>1, <3>2
  <2>5. recorded[a].at \in Nat /\ recorded[i].at \in Nat /\ recorded[b].at \in Nat
    <3>1. b \in 1 .. n
      BY <1>1, <1>9
    <3> QED
      BY <1>2, <1>9, <2>1, <3>1
  <2>6. from < recorded[i].at
    BY <1>4, <2>2, <2>3, <2>5
  <2>7. recorded[i].at < to
    BY <1>4, <2>2, <2>4, <2>5
  <2> QED
    BY <1>5, <2>1, <2>6, <2>7
<1> QED
  BY <1>9, <1>10, <1>11 DEF n

LEMMA ParsedIsMarked ==
    ASSUME Parsed
    PROVE  Marks(recorded) # {}
<1>1. Cardinality(Marks(recorded)) = 2
  BY DEF Parsed
<1>2. Cardinality({}) = 0
  BY FS_EmptySet
<1> QED
  BY <1>1, <1>2

(* What get_test_events cuts out of the merged trace is what happened in the test. *)
LEMMA TestFacts ==
    ASSUME ClockInv, Parsed
    PROVE  /\ InTest \in Seq(TraceEvent) /\ TestEvents \in Seq({AtRealTime(e) : e \in TraceEvent})
           /\ Len(TestEvents) = Len(InTest)
           /\ \A k \in 1 .. Len(InTest) : TestEvents[k] = AtRealTime(InTest[k])
           /\ \E a \in Nat : \A k \in 1 .. Len(InTest) :
                a + k \in DOMAIN recorded /\ InTest[k] = recorded[a + k]
<1> DEFINE n == Len(recorded)
           W == TestPositions
           a == Min(W)
           b == Max(W)
           M == Merged
           X == {AtRealTime(e) : e \in TraceEvent}
<1>1. n \in Nat /\ DOMAIN recorded = 1 .. n /\ Marks(recorded) # {}
  BY ParsedIsMarked DEF ClockInv, TracesTypeOK
<1>2. M = [i \in 1 .. n |-> AtRealTime(recorded[i])]
  BY <1>1, MergedFacts
<1>3. \A i \in 1 .. n : recorded[i] \in TraceEvent /\ recorded[i].at \in Nat
  BY <1>1, MarkTimes
<1>4. ASSUME NEW e \in TraceEvent
      PROVE  AtRealTime(e).timestamp = e.at /\ AtRealTime(e).at = e.at
             /\ AtRealTime(e).event = e.event
  BY DEF TraceEvent, AtRealTime
<1> HIDE DEF n
<1>5. DOMAIN M = 1 .. n /\ \A i \in 1 .. n : /\ M[i] = AtRealTime(recorded[i]) /\ M[i] \in X
                                            /\ M[i].timestamp = recorded[i].at
                                            /\ M[i].event = recorded[i].event
  BY <1>2, <1>3, <1>4
<1>6. M \in Seq(X) /\ Len(M) = n
  <2> HIDE DEF X
  <2> QED
    BY <1>1, <1>2, <1>5
<1> HIDE DEF M
<1>7. Marks(M) = Marks(recorded)
  BY <1>1, <1>5 DEF Marks
<1>8. Min(Marks(recorded)) \in 1 .. n /\ Max(Marks(recorded)) \in 1 .. n
  BY <1>1, MarkTimes
<1>9. \A i \in 1 .. n : InWindow(M, i) <=> i \in W
  <2> TAKE i \in 1 .. n
  <2>1. M[Min(Marks(M))].timestamp = Begin /\ M[Max(Marks(M))].timestamp = End
    BY <1>5, <1>7, <1>8 DEF Begin, End
  <2> QED
    BY <1>1, <1>5, <2>1 DEF InWindow, TestPositions
<1>10. W # {} /\ \A i \in W : i \in 1 .. n
  <2>1. PICK i \in 1 .. n : InWindow(M, i)
    BY <1>5 DEF Parsed, M
  <2> QED
    BY <1>1, <1>9, <2>1 DEF TestPositions
<1>11. a \in 1 .. n /\ b \in a .. n /\ W = a .. b
  BY <1>1, <1>10, TestIsInterval DEF n
<1>12. {i \in DOMAIN M : InWindow(M, i)} = W
  BY <1>5, <1>9, <1>10
<1>13. TestEvents = SubSeq(M, a, b)
  BY <1>12 DEF TestEvents, M
<1>14. InTest = Chosen(recorded, W)
  BY DEF InTest, TestPositions
<1> HIDE DEF W, a, b, X
<1>15. /\ TestEvents \in Seq(X) /\ Len(TestEvents) = b - a + 1
       /\ \A k \in 1 .. b - a + 1 : TestEvents[k] = M[a + k - 1]
  BY <1>1, <1>6, <1>11, <1>13
<1>16. /\ Cardinality(W) = b - a + 1
       /\ \A k \in 1 .. b - a + 1 : Kth(W, k) = a + k - 1
  <2>1. a \in Nat \ {0} /\ b \in Nat /\ a <= b
    BY <1>1, <1>11
  <2>2. /\ Cardinality(a .. b) = b - a + 1
        /\ \A k \in 1 .. b - a + 1 : Kth(a .. b, k) = a + k - 1
    BY <2>1, KthInterval
  <2> QED
    BY <1>11, <2>2
<1>17. /\ InTest \in Seq(TraceEvent) /\ Len(InTest) = b - a + 1
       /\ \A k \in 1 .. b - a + 1 : InTest[k] = recorded[a + k - 1]
  <2>1. W \in SUBSET (1 .. n)
    BY <1>10
  <2>2. /\ Len(InTest) = Cardinality(W)
        /\ \A k \in 1 .. Cardinality(W) : InTest[k] = recorded[Kth(W, k)]
    BY <1>1, <1>14, <2>1, ChosenFacts
  <2>3. InTest \in Seq(TraceEvent)
    BY <1>1, <1>3, <1>10, <1>14, <2>1, ChosenFacts
  <2> QED
    BY <1>16, <2>2, <2>3
<1>18. ASSUME NEW k \in 1 .. b - a + 1
       PROVE  /\ a + k - 1 \in 1 .. n /\ a - 1 + k = a + k - 1
              /\ TestEvents[k] = AtRealTime(InTest[k])
  <2>1. a + k - 1 \in 1 .. n /\ a - 1 + k = a + k - 1
    BY <1>1, <1>11
  <2>2. TestEvents[k] = M[a + k - 1] /\ InTest[k] = recorded[a + k - 1]
    BY <1>15, <1>17
  <2> QED
    BY <1>5, <2>1, <2>2
<1>19. a - 1 \in Nat /\ \A k \in 1 .. Len(InTest) :
         a - 1 + k \in DOMAIN recorded /\ InTest[k] = recorded[a - 1 + k]
  <2>1. a - 1 \in Nat
    BY <1>1, <1>11
  <2>2. ASSUME NEW k \in 1 .. Len(InTest)
        PROVE  a - 1 + k \in DOMAIN recorded /\ InTest[k] = recorded[a - 1 + k]
    <3>1. k \in 1 .. b - a + 1
      BY <1>17
    <3>2. InTest[k] = recorded[a + k - 1]
      BY <1>17, <3>1
    <3> QED
      BY <1>1, <1>18, <3>1, <3>2
  <2> QED
    BY <2>1, <2>2
<1>20. Len(TestEvents) = Len(InTest)
       /\ \A k \in 1 .. Len(InTest) : TestEvents[k] = AtRealTime(InTest[k])
  BY <1>15, <1>17, <1>18
<1>21. \E c \in Nat : \A k \in 1 .. Len(InTest) :
          c + k \in DOMAIN recorded /\ InTest[k] = recorded[c + k]
  BY <1>19
<1> QED
  BY <1>15, <1>17, <1>20, <1>21 DEF X

(* A sequence and what has the same members but for their time stamps. *)
LEMMA SameRealTimes ==
    ASSUME NEW s, NEW t, DOMAIN t = DOMAIN s, \A i \in DOMAIN s : t[i].at = s[i].at
    PROVE  RealTimes(t) = RealTimes(s)
BY DEF RealTimes

(***************************************************************************)
(* The merged trace is what happened, in order and at its real times, and  *)
(* get_test_events returns the test, however often the guest was reset     *)
(* before it and wherever its clock started, as long as no clock runs for  *)
(* 2^63 ticks.                                                             *)
(***************************************************************************)
THEOREM TracesAsTheyHappened == TracesSpec => []TestAsItHappened
<1>1. ClockInv => TestAsItHappened
  <2> SUFFICES ASSUME ClockInv, Parsed
               PROVE  /\ RealTimes(Merged) = RealTimes(recorded)
                      /\ \A i \in DOMAIN Merged : Merged[i].timestamp = Merged[i].at
                      /\ RealTimes(TestEvents) = RealTimes(InTest)
    BY DEF TestAsItHappened
  <2> DEFINE n == Len(recorded)
             M == Merged
  <2>1. n \in Nat /\ DOMAIN recorded = 1 .. n /\ Marks(recorded) # {}
    BY ParsedIsMarked DEF ClockInv, TracesTypeOK
  <2>2. M = [i \in 1 .. n |-> AtRealTime(recorded[i])]
    BY <2>1, MergedFacts
  <2>3. \A e \in TraceEvent : AtRealTime(e).timestamp = e.at /\ AtRealTime(e).at = e.at
    BY DEF TraceEvent, AtRealTime
  <2>4. \A i \in 1 .. n : recorded[i] \in TraceEvent
    BY <2>1, MarkTimes
  <2> HIDE DEF n, M
  <2>5. DOMAIN M = 1 .. n
        /\ \A i \in 1 .. n : M[i].timestamp = recorded[i].at /\ M[i].at = recorded[i].at
    BY <2>2, <2>3, <2>4
  <2>6. RealTimes(M) = RealTimes(recorded)
    BY <2>1, <2>5, SameRealTimes
  <2>7. RealTimes(TestEvents) = RealTimes(InTest)
    <3>1. /\ InTest \in Seq(TraceEvent)
          /\ TestEvents \in Seq({AtRealTime(e) : e \in TraceEvent})
          /\ Len(TestEvents) = Len(InTest)
          /\ \A k \in 1 .. Len(InTest) : TestEvents[k] = AtRealTime(InTest[k])
      BY TestFacts
    <3>2. DOMAIN TestEvents = 1 .. Len(InTest) /\ DOMAIN InTest = 1 .. Len(InTest)
          /\ \A k \in 1 .. Len(InTest) : InTest[k] \in TraceEvent
      BY <3>1
    <3>3. \A k \in 1 .. Len(InTest) : TestEvents[k].at = InTest[k].at
      BY <2>3, <3>1, <3>2
    <3> QED
      BY <3>2, <3>3, SameRealTimes
  <2> QED
    BY <2>5, <2>6, <2>7 DEF M
<1> QED
  BY <1>1, ClockInvariance, PTL

-----------------------------------------------------------------------------
(* The protocols of netperf and of KVM. *)

(* Members that come in turn still do when one is added that is not like the last. *)
LEMMA InTurnGrows ==
    ASSUME NEW n \in Nat, NEW s, NEW t, NEW S \in SUBSET (1 .. n),
           \A i \in 1 .. n : t[i] = s[i], InTurn(s, S)
    PROVE  /\ InTurn(t, S)
           /\ (\A i \in S : (\A j \in S : j <= i) => s[i].event # t[n + 1].event)
                => InTurn(t, S \cup {n + 1})
<1>1. InTurn(t, S)
  BY DEF InTurn
<1>2. ASSUME \A i \in S : (\A j \in S : j <= i) => s[i].event # t[n + 1].event,
             NEW i \in S \cup {n + 1}, NEW j \in S \cup {n + 1}, i < j,
             \A k \in S \cup {n + 1} : k <= i \/ j <= k
      PROVE  t[i].event # t[j].event
  <2>1. i \in S /\ i \in 1 .. n
    BY <1>2
  <2>2. CASE j \in S
    BY <1>1, <1>2, <2>1, <2>2 DEF InTurn
  <2>3. CASE j = n + 1
    <3>1. \A k \in S : ~(n + 1 <= k)
      OBVIOUS
    <3>2. \A k \in S : k <= i
      BY <1>2, <2>3, <3>1
    <3> QED
      BY <1>2, <2>1, <2>3, <3>2
  <2> QED
    BY <1>2, <2>2, <2>3
<1> QED
  BY <1>1, <1>2 DEF InTurn

(* What an event that is recorded next may be, and what becomes of netperf and the vCPU. *)
Lawful(event, arg) ==
    /\ event \in {"kvm_mmio", "kvm_msr"} <=> arg \in {"KICK", "EOI"}
    /\ event \in {"kvm_mmio", "kvm_msr"} =>
          (Len(recorded) > 0 => Is(recorded[Len(recorded)], "kvm_exit"))
    /\ arg = "netperf" =>
          /\ event \in {"sys_sendto", "sys_recvfrom"}
          /\ awaiting <=> event = "sys_recvfrom"
          /\ awaiting' <=> event = "sys_sendto"
    /\ arg # "netperf" => (awaiting' <=> awaiting) \/ Netperf(recorded) = {}
    /\ event \in {"kvm_exit", "kvm_entry"} =>
          /\ vcpu = (IF event = "kvm_exit" THEN "guest" ELSE "host")
          /\ vcpu' = (IF event = "kvm_exit" THEN "host" ELSE "guest")
    /\ event \notin {"kvm_exit", "kvm_entry"} =>
          vcpu' = vcpu \/ (ExitsAndEntries(recorded) = {} /\ vcpu' # "host")
    /\ Marks(recorded) = {} => arg # "netperf" /\ event \notin {"kvm_exit", "kvm_entry"}

LEMMA ObservedProtocol ==
    ASSUME ClockInv, ProtocolInv,
           NEW source, NEW event, NEW arg, NEW ticks \in Nat \ {0},
           NEW newOffset \in 0 .. TscRange - 1, Recorded(source, event, arg, ticks, newOffset),
           Lawful(event, arg)
    PROVE  ProtocolInv'
<1> DEFINE n == Len(recorded)
           P == Netperf(recorded)
           E == ExitsAndEntries(recorded)
<1> SUFFICES ASSUME NEW e, e = Recording(source, event, arg, newOffset)
             PROVE  ProtocolInv'
  OBVIOUS
<1>1. /\ n \in Nat /\ DOMAIN recorded = 1 .. n /\ DOMAIN recorded' = 1 .. n + 1
      /\ \A i \in 1 .. n : recorded'[i] = recorded[i]
      /\ recorded'[n + 1] = e /\ e.event = event /\ e.arg = arg /\ e.note = NoNote
  <2>1. TracesTypeOK
    BY DEF ClockInv
  <2> QED
    BY <2>1, RecordedFacts
<1>2. /\ P = {i \in 1 .. n : recorded[i].arg = "netperf"}
      /\ E = {i \in 1 .. n : recorded[i].event \in {"kvm_exit", "kvm_entry"}}
  BY <1>1 DEF Netperf, ExitsAndEntries
<1> HIDE DEF n, P, E
<1>3. P \in SUBSET (1 .. n) /\ E \in SUBSET (1 .. n)
  BY <1>2
<1>4. \A i \in 1 .. n + 1 : i \in 1 .. n \/ i = n + 1
  BY <1>1
<1>5. n + 1 \notin 1 .. n /\ n + 1 \in 1 .. n + 1 /\ \A i \in 1 .. n : i \in 1 .. n + 1 /\ i <= n + 1
  BY <1>1
<1>6. Netperf(recorded)' = IF arg = "netperf" THEN P \cup {n + 1} ELSE P
  BY <1>1, <1>2, <1>4, <1>5 DEF Netperf
<1>7. ExitsAndEntries(recorded)' = IF event \in {"kvm_exit", "kvm_entry"} THEN E \cup {n + 1} ELSE E
  BY <1>1, <1>2, <1>4, <1>5 DEF ExitsAndEntries
<1>8. /\ \A i \in 1 .. n : WellFormed(recorded[i])
      /\ InTurn(recorded, P) /\ InTurn(recorded, E)
      /\ \A i \in 1 .. n : recorded[i].event \in {"kvm_mmio", "kvm_msr"} /\ i > 1
                              => Is(recorded[i - 1], "kvm_exit")
  BY <1>1 DEF ProtocolInv, Protocol, P, E
<1>9. \A i \in P : (\A j \in P : j <= i) => (awaiting <=> Is(recorded[i], "sys_sendto"))
  BY DEF ProtocolInv, P
<1>10. \A i \in E : (\A j \in E : j <= i) =>
          vcpu = IF Is(recorded[i], "kvm_exit") THEN "host" ELSE "guest"
  BY DEF ProtocolInv, E
<1>11. \A i \in 1 .. n + 1 : WellFormed(recorded[i])'
  <2>1. WellFormed(e)
    BY <1>1 DEF WellFormed, Lawful
  <2> QED
    BY <1>1, <1>4, <1>8, <2>1 DEF WellFormed
<1>12. InTurn(recorded, Netperf(recorded))'
  <2>1. InTurn(recorded', P)
    BY <1>1, <1>3, <1>8, InTurnGrows
  <2>2. ASSUME arg = "netperf"
        PROVE  InTurn(recorded', P \cup {n + 1})
    <3>1. ASSUME NEW i \in P, \A j \in P : j <= i
          PROVE  recorded[i].event # recorded'[n + 1].event
      <4>1. (awaiting <=> recorded[i].event = "sys_sendto") /\ (awaiting <=> event = "sys_recvfrom")
        BY <1>9, <2>2, <3>1 DEF Is, Lawful
      <4>2. recorded[i].event \in {"sys_sendto", "sys_recvfrom"}
        BY <1>2, <1>8 DEF WellFormed
      <4> QED
        BY <1>1, <4>1, <4>2 DEF Is
    <3> QED
      BY <1>1, <1>3, <1>8, <3>1, InTurnGrows
  <2> QED
    BY <1>6, <2>1, <2>2
<1>13. InTurn(recorded, ExitsAndEntries(recorded))'
  <2>1. InTurn(recorded', E)
    BY <1>1, <1>3, <1>8, InTurnGrows
  <2>2. ASSUME event \in {"kvm_exit", "kvm_entry"}
        PROVE  InTurn(recorded', E \cup {n + 1})
    <3>1. ASSUME NEW i \in E, \A j \in E : j <= i
          PROVE  recorded[i].event # recorded'[n + 1].event
      <4>1. /\ vcpu = IF recorded[i].event = "kvm_exit" THEN "host" ELSE "guest"
            /\ vcpu = IF event = "kvm_exit" THEN "guest" ELSE "host"
        BY <1>10, <2>2, <3>1 DEF Is, Lawful
      <4> QED
        BY <1>1, <4>1
    <3> QED
      BY <1>1, <1>3, <1>8, <3>1, InTurnGrows
  <2> QED
    BY <1>7, <2>1, <2>2
<1>14. \A i \in 1 .. n + 1 : recorded'[i].event \in {"kvm_mmio", "kvm_msr"} /\ i > 1
                               => recorded'[i - 1].event = "kvm_exit"
  <2> TAKE i \in 1 .. n + 1
  <2> HAVE recorded'[i].event \in {"kvm_mmio", "kvm_msr"} /\ i > 1
  <2>1. i - 1 \in 1 .. n
    BY <1>1
  <2>2. CASE i \in 1 .. n
    BY <1>1, <1>8, <2>1, <2>2 DEF Is
  <2>3. CASE i = n + 1
    <3>1. n > 0 /\ i - 1 = n
      BY <1>1, <2>3
    <3>2. Is(recorded[n], "kvm_exit")
      BY <1>1, <2>3, <3>1 DEF n, Lawful
    <3> QED
      BY <1>1, <2>1, <3>1, <3>2 DEF Is
  <2> QED
    BY <1>4, <2>2, <2>3
<1>15. (Protocol(recorded))'
  BY <1>1, <1>11, <1>12, <1>13, <1>14 DEF Protocol, Is
<1>16. ASSUME NEW i \in Netperf(recorded)', \A j \in Netperf(recorded)' : j <= i
       PROVE  awaiting' <=> recorded'[i].event = "sys_sendto"
  <2>1. CASE arg = "netperf"
    <3>1. i = n + 1
      <4>1. n + 1 <= i
        BY <1>6, <1>16, <2>1
      <4>2. i \in 1 .. n => ~(n + 1 <= i)
        BY <1>1
      <4>3. i \in 1 .. n \/ i = n + 1
        BY <1>3, <1>6, <2>1
      <4> QED
        BY <4>1, <4>2, <4>3
    <3> QED
      BY <1>1, <2>1, <3>1 DEF Lawful
  <2>2. CASE arg # "netperf"
    <3>1. i \in P /\ \A j \in P : j <= i
      BY <1>6, <1>16, <2>2
    <3>2. awaiting' <=> awaiting
      BY <2>2, <3>1 DEF P, Lawful
    <3> QED
      BY <1>1, <1>3, <1>9, <3>1, <3>2 DEF Is
  <2> QED
    BY <2>1, <2>2
<1>17. ASSUME NEW i \in ExitsAndEntries(recorded)',
              \A j \in ExitsAndEntries(recorded)' : j <= i
       PROVE  vcpu' = IF recorded'[i].event = "kvm_exit" THEN "host" ELSE "guest"
  <2>1. CASE event \in {"kvm_exit", "kvm_entry"}
    <3>1. i = n + 1
      <4>1. n + 1 <= i
        BY <1>7, <1>17, <2>1
      <4>2. i \in 1 .. n => ~(n + 1 <= i)
        BY <1>1
      <4>3. i \in 1 .. n \/ i = n + 1
        BY <1>3, <1>7, <2>1
      <4> QED
        BY <4>1, <4>2, <4>3
    <3> QED
      BY <1>1, <2>1, <3>1 DEF Lawful
  <2>2. CASE event \notin {"kvm_exit", "kvm_entry"}
    <3>1. i \in E /\ \A j \in E : j <= i
      BY <1>7, <1>17, <2>2
    <3>2. vcpu' = vcpu
      BY <2>2, <3>1 DEF E, Lawful
    <3> QED
      BY <1>1, <1>3, <1>10, <3>1, <3>2 DEF Is
  <2> QED
    BY <2>1, <2>2
<1>18. (Marks(recorded) = {} => /\ Netperf(recorded) = {} /\ ExitsAndEntries(recorded) = {}
                                /\ vcpu # "host")'
  <2> SUFFICES ASSUME Marks(recorded') = {}
               PROVE  /\ Netperf(recorded)' = {} /\ ExitsAndEntries(recorded)' = {}
                      /\ vcpu' # "host"
    OBVIOUS
  <2>1. Marks(recorded) = {}
    BY <1>1, <1>5 DEF Marks
  <2>2. P = {} /\ E = {} /\ vcpu # "host"
    BY <2>1 DEF ProtocolInv, P, E
  <2> QED
    BY <1>6, <1>7, <2>1, <2>2 DEF Lawful
<1>19. (\A i \in Netperf(recorded) :
          (\A j \in Netperf(recorded) : j <= i) => (awaiting <=> Is(recorded[i], "sys_sendto")))'
  BY <1>16 DEF Is
<1>20. (\A i \in ExitsAndEntries(recorded) :
          (\A j \in ExitsAndEntries(recorded) : j <= i) =>
             vcpu = IF Is(recorded[i], "kvm_exit") THEN "host" ELSE "guest")'
  BY <1>17 DEF Is
<1> QED
  BY <1>15, <1>18, <1>19, <1>20 DEF ProtocolInv

THEOREM ProtocolInvariance == TracesSpec => []ProtocolInv
<1>1. TracesInit => ProtocolInv
  <2> SUFFICES ASSUME TracesInit
               PROVE  ProtocolInv
    OBVIOUS
  <2>1. DOMAIN recorded = {} /\ vcpu = "off"
    BY DEF TracesInit
  <2> QED
    BY <2>1 DEF ProtocolInv, Protocol, Netperf, ExitsAndEntries, InTurn
<1>2. ClockInv /\ ProtocolInv /\ [TracesNext]_tracesVars => ProtocolInv'
  <2> SUFFICES ASSUME ClockInv, ProtocolInv, [TracesNext]_tracesVars
               PROVE  ProtocolInv'
    OBVIOUS
  <2>1. offset \in 0 .. TscRange - 1 /\ tsc \in Nat
    BY DEF ClockInv, TracesTypeOK
  <2>2. ASSUME NEW start \in GuestStart, Reset(start)
        PROVE  ProtocolInv'
    <3>1. (start - tsc - 1) % TscRange \in 0 .. TscRange - 1
      <4>1. start - tsc - 1 \in Int /\ TscRange \in Nat \ {0}
        BY <2>1, TracesAssumption, TscRangeFacts
      <4> QED
        BY <4>1
    <3>2. /\ Marks(recorded) = {} /\ vcpu' = "guest"
          /\ Recorded("h", "kvm_write_tsc_offset", NoNote, 1, (start - tsc - 1) % TscRange)
      BY <2>2 DEF Reset
    <3>3. Netperf(recorded) = {} /\ ExitsAndEntries(recorded) = {}
      BY <3>2 DEF ProtocolInv
    <3>4. 1 \in Nat \ {0}
      OBVIOUS
    <3>5. Lawful("kvm_write_tsc_offset", NoNote)
      BY <3>2, <3>3 DEF Lawful, NoNote
    <3> QED
      BY <3>1, <3>2, <3>4, <3>5, ObservedProtocol
  <2>3. ASSUME NEW note \in Notes, Emulate(note)
        PROVE  ProtocolInv'
    <3>1. /\ note[1] \in {"kvm_mmio", "kvm_msr"} /\ note[2] \in {"KICK", "EOI"}
      BY DEF Notes
    <3>2. /\ vcpu = "host" /\ Is(recorded[Len(recorded)], "kvm_exit")
          /\ Recorded("h", note[1], note[2], 1, offset)
          /\ vcpu' = vcpu /\ awaiting' = awaiting
      BY <2>3 DEF Emulate, Is
    <3>3. 1 \in Nat \ {0}
      OBVIOUS
    <3>4. Marks(recorded) # {}
      BY <3>2 DEF ProtocolInv
    <3>5. Lawful(note[1], note[2])
      BY <3>1, <3>2, <3>4 DEF Lawful
    <3> QED
      BY <2>1, <3>2, <3>3, <3>5, ObservedProtocol
  <2>4. ASSUME NEW ticks \in Ticks, Mark(ticks)
        PROVE  ProtocolInv'
    <3>1. /\ Recorded("h", "tracing_mark_write", NoNote, ticks, offset)
          /\ vcpu' = vcpu /\ awaiting' = awaiting
      BY <2>4 DEF Mark
    <3>2. Lawful("tracing_mark_write", NoNote)
      BY <3>1 DEF Lawful, NoNote
    <3> QED
      BY <2>1, <3>1, <3>2, TicksArePositive, ObservedProtocol
  <2>5. ASSUME NEW ticks \in Ticks, NEW r \in Exits, KvmExit(r, ticks)
        PROVE  ProtocolInv'
    <3>1. /\ Testing /\ vcpu = "guest" /\ Recorded("h", "kvm_exit", r, ticks, offset)
          /\ vcpu' = "host" /\ awaiting' = awaiting
      BY <2>5 DEF KvmExit
    <3>2. r \notin {"KICK", "EOI", "netperf"}
      BY DEF Exits
    <3>3. Marks(recorded) # {}
      BY <3>1, TestingIsMarked
    <3>4. Lawful("kvm_exit", r)
      BY <3>1, <3>2, <3>3 DEF Lawful
    <3> QED
      BY <2>1, <3>1, <3>4, TicksArePositive, ObservedProtocol
  <2>6. ASSUME NEW ticks \in Ticks, KvmEntry(ticks)
        PROVE  ProtocolInv'
    <3>1. /\ vcpu = "host" /\ Recorded("h", "kvm_entry", NoNote, ticks, offset)
          /\ vcpu' = "guest" /\ awaiting' = awaiting
      BY <2>6 DEF KvmEntry
    <3>2. Marks(recorded) # {}
      BY <3>1 DEF ProtocolInv
    <3>3. Lawful("kvm_entry", NoNote)
      BY <3>1, <3>2 DEF Lawful, NoNote
    <3> QED
      BY <2>1, <3>1, <3>3, TicksArePositive, ObservedProtocol
  <2>7. ASSUME NEW ticks \in Ticks, NEW event \in {"sys_sendto", "sys_recvfrom"},
               NEW proc \in {"netperf", "sshd"}, GuestCall(event, proc, ticks)
        PROVE  ProtocolInv'
    <3>1. /\ Testing /\ Recorded("g", event, proc, ticks, offset)
          /\ proc = "netperf" => (awaiting <=> event = "sys_recvfrom")
          /\ awaiting' = (IF proc = "netperf" THEN event = "sys_sendto" ELSE awaiting)
          /\ vcpu' = vcpu
      BY <2>7 DEF GuestCall
    <3>2. Marks(recorded) # {}
      BY <3>1, TestingIsMarked
    <3>3. Lawful(event, proc)
      BY <3>1, <3>2 DEF Lawful
    <3> QED
      BY <2>1, <3>1, <3>3, TicksArePositive, ObservedProtocol
  <2>8. CASE UNCHANGED tracesVars
    <3>1. vcpu' = vcpu /\ awaiting' = awaiting /\ recorded' = recorded
      BY <2>8 DEF tracesVars
    <3> QED
      BY <3>1 DEF ProtocolInv, Protocol, Netperf, ExitsAndEntries, InTurn, WellFormed, Marks, Is
  <2> QED
    BY <2>2, <2>3, <2>4, <2>5, <2>6, <2>7, <2>8 DEF TracesNext
<1> QED
  BY <1>1, <1>2, ClockInvariance, PTL DEF TracesSpec

-----------------------------------------------------------------------------
(* Sets of positions that grow at their end, and the walks of exits_stats. *)

Before(S, m) == \A i \in S : i < m
IsLast(S, k) == k \in S /\ \A i \in S : i <= k

(* T is S and a later position m. *)
Grows(n, S, m, T) ==
    n \in Nat /\ S \in SUBSET (1 .. n) /\ m \in 1 .. n /\ Before(S, m) /\ T = S \cup {m}

(* What this does to what is chosen from f and g, and to how long the members last. *)
ChosenGrow(f, g, S, m, T) ==
    /\ Chosen(g, S) = Chosen(f, S)
    /\ Chosen(g, T) = Append(Chosen(f, S), g[m])
LastingGrow(s, P, k, m, T) ==
    /\ DOMAIN Lasting(s, P) = P \ {k}
    /\ DOMAIN Lasting(s, T) = P
    /\ \A i \in P \ {k} : Lasting(s, T)[i] = Lasting(s, P)[i]
    /\ Lasting(s, T)[k] = s[m].at - s[k].at
Agree(f, g, S) == \A i \in S : g[i] = f[i]

(* A position after all others is the last one; the others keep their ranks. *)
LEMMA KthGrows ==
    ASSUME NEW n \in Nat, NEW S \in SUBSET (1 .. n), NEW m \in 1 .. n, Before(S, m)
    PROVE  /\ Cardinality(S) \in Nat
           /\ Cardinality(S \cup {m}) = Cardinality(S) + 1
           /\ \A k \in 1 .. Cardinality(S) : Kth(S \cup {m}, k) = Kth(S, k)
           /\ Kth(S \cup {m}, Cardinality(S) + 1) = m
<1> DEFINE T == S \cup {m}
<1>1. T \in SUBSET (1 .. n) /\ m \in T /\ S \subseteq T /\ m \notin S
  BY DEF Before
<1>2. IsFiniteSet(S) /\ Cardinality(S) \in Nat
  BY FinitePositions
<1>3. Cardinality(T) = Cardinality(S) + 1
  BY <1>1, <1>2, FS_AddElement
<1>4. \A i \in S : Rank(T, i) = Rank(S, i)
  <2> TAKE i \in S
  <2>1. ~(m <= i)
    BY DEF Before
  <2>2. UpTo(T, i) = UpTo(S, i)
    BY <2>1 DEF UpTo
  <2> QED
    BY <2>2 DEF Rank
<1>5. Rank(T, m) = Cardinality(S) + 1
  <2>1. \A i \in S : i <= m
    BY DEF Before
  <2>2. \A i \in T : i <= m
    BY <2>1
  <2>3. UpTo(T, m) = T
    BY <2>2 DEF UpTo
  <2> QED
    BY <1>3, <2>3 DEF Rank
<1>6. \A i \in T : Kth(T, Rank(T, i)) = i
  BY <1>1, KthFacts
<1> HIDE DEF T
<1>7. ASSUME NEW k \in 1 .. Cardinality(S)
      PROVE  Kth(T, k) = Kth(S, k)
  <2>1. Kth(S, k) \in S /\ Rank(S, Kth(S, k)) = k
    BY KthFacts
  <2> QED
    BY <1>1, <1>4, <1>6, <2>1
<1>8. Kth(T, Cardinality(S) + 1) = m
  BY <1>1, <1>5, <1>6
<1> QED
  BY <1>2, <1>3, <1>7, <1>8 DEF T

LEMMA ChosenGrows ==
    ASSUME NEW n, NEW S, NEW m, NEW T, Grows(n, S, m, T), NEW f, NEW g, Agree(f, g, S)
    PROVE  ChosenGrow(f, g, S, m, T)
<1>0. n \in Nat /\ S \in SUBSET (1 .. n) /\ m \in 1 .. n /\ Before(S, m) /\ T = S \cup {m}
  BY DEF Grows
<1> DEFINE N == Cardinality(S)
           c == Chosen(f, S)
<1>1. /\ N \in Nat /\ Cardinality(T) = N + 1
      /\ \A k \in 1 .. N : Kth(T, k) = Kth(S, k)
      /\ Kth(T, N + 1) = m
  BY <1>0, KthGrows
<1>2. \A k \in 1 .. N : Kth(S, k) \in S
  BY <1>0, KthFacts
<1>3. /\ c = [k \in 1 .. N |-> f[Kth(S, k)]]
      /\ Chosen(g, S) = [k \in 1 .. N |-> g[Kth(S, k)]]
      /\ Chosen(g, T) = [k \in 1 .. Cardinality(T) |-> g[Kth(T, k)]]
  BY DEF Chosen
<1>4. c \in Seq({f[i] : i \in S}) /\ Len(c) = N
  <2>1. \A i \in S : f[i] \in {f[j] : j \in S}
    OBVIOUS
  <2> QED
    BY <1>0, <2>1, ChosenFacts
<1> HIDE DEF N, c
<1>5. Chosen(g, S) = c
  BY <1>2, <1>3 DEF Agree
<1>6. Append(c, g[m]) = [k \in 1 .. N + 1 |-> IF k <= N THEN c[k] ELSE g[m]]
  BY <1>1, <1>4
<1>7. Chosen(g, T) = [k \in 1 .. N + 1 |-> IF k <= N THEN c[k] ELSE g[m]]
  <2>1. \A k \in 1 .. N + 1 : g[Kth(T, k)] = IF k <= N THEN c[k] ELSE g[m]
    <3> TAKE k \in 1 .. N + 1
    <3>1. CASE k <= N
      <4>1. k \in 1 .. N
        BY <1>1, <3>1
      <4> QED
        BY <1>1, <1>2, <1>3, <3>1, <4>1 DEF Agree
    <3>2. CASE ~(k <= N)
      <4>1. k = N + 1
        BY <1>1, <3>2
      <4> QED
        BY <1>1, <3>2, <4>1
    <3> QED
      BY <3>1, <3>2
  <2> QED
    BY <1>1, <1>3, <2>1
<1> QED
  BY <1>5, <1>6, <1>7 DEF c, ChosenGrow

(* With a new last position m, the last one so far, k, lasts until m. *)
LEMMA LastingGrows ==
    ASSUME NEW n, NEW P, NEW m, NEW T, Grows(n, P, m, T), NEW k, IsLast(P, k), NEW s
    PROVE  LastingGrow(s, P, k, m, T)
<1> DEFINE After(S, i) == {j \in S : i < j}
<1>1. /\ Lasting(s, P) = [i \in {i \in P : \E j \in P : i < j} |-> s[Min(After(P, i))].at - s[i].at]
      /\ Lasting(s, T) = [i \in {i \in T : \E j \in T : i < j} |-> s[Min(After(T, i))].at - s[i].at]
  BY DEF Lasting
<1>0. /\ n \in Nat /\ P \in SUBSET (1 .. n) /\ m \in 1 .. n /\ k \in P
      /\ \A i \in P : i \in 1 .. n /\ i < m /\ i <= k
      /\ T = P \cup {m}
  BY DEF Before, Grows, IsLast
<1>2. {i \in P : \E j \in P : i < j} = P \ {k}
  <2>1. \A i \in P \ {k} : i < k
    BY <1>0
  <2>2. \A j \in P : ~(k < j)
    BY <1>0
  <2> QED
    BY <1>0, <2>1, <2>2
<1>3. {i \in T : \E j \in T : i < j} = P
  <2>1. \A j \in T : ~(m < j)
    BY <1>0
  <2> QED
    BY <1>0, <2>1
<1>4. \A i \in P \ {k} : Min(After(T, i)) = Min(After(P, i))
  <2> TAKE i \in P \ {k}
  <2>1. k \in After(P, i) /\ After(P, i) \in SUBSET Nat
    <3>1. i < k
      BY <1>0
    <3>2. \A j \in P : j \in Nat
      BY <1>0
    <3> QED
      BY <1>0, <3>1, <3>2
  <2>2. Min(After(P, i)) \in After(P, i) /\ \A x \in After(P, i) : Min(After(P, i)) <= x
    <3> HIDE DEF After
    <3> QED
      BY <2>1, SmallestExists
  <2>3. PICK x \in After(P, i) : x = Min(After(P, i)) /\ \A y \in After(P, i) : x <= y
    BY <2>2
  <2>4. x \in After(T, i) /\ After(T, i) \in SUBSET Int
    <3>1. x \in P /\ i < x
      OBVIOUS
    <3>2. \A j \in After(T, i) : j \in Int
      BY <1>0
    <3> QED
      BY <1>0, <3>1, <3>2
  <2>5. \A y \in After(T, i) : x <= y
    <3>1. x <= m /\ After(T, i) \subseteq After(P, i) \cup {m}
      BY <1>0
    <3> QED
      BY <2>3, <3>1
  <2>6. Min(After(T, i)) = x
    <3> HIDE DEF After
    <3> QED
      BY <2>4, <2>5, SmallestIs
  <2> QED
    BY <2>3, <2>6
<1>5. Min(After(T, k)) = m
  <2>1. After(T, k) = {m}
    <3>1. \A j \in P : ~(k < j)
      BY <1>0
    <3> QED
      BY <1>0, <3>1
  <2>2. {m} \in SUBSET Int /\ m \in {m} /\ \A x \in {m} : m <= x
    BY <1>0
  <2>3. Min({m}) = m
    BY <2>2, SmallestIs
  <2> QED
    BY <2>1, <2>3
<1>6. DOMAIN Lasting(s, P) = P \ {k} /\ DOMAIN Lasting(s, T) = P
  BY <1>1, <1>2, <1>3
<1>7. \A i \in P \ {k} : Lasting(s, T)[i] = Lasting(s, P)[i]
  <2> HIDE DEF After
  <2> QED
    BY <1>1, <1>2, <1>3, <1>4
<1>8. Lasting(s, T)[k] = s[m].at - s[k].at
  <2> HIDE DEF After
  <2> QED
    BY <1>0, <1>1, <1>3, <1>5
<1> QED
  BY <1>6, <1>7, <1>8 DEF LastingGrow

(* The times of those members of P that are in Q. *)
TimesOf(s, P, Q) == Chosen(Lasting(s, P), {i \in DOMAIN Lasting(s, P) : i \in Q})

(* How the times grow: nothing is timed before there are two positions. *)
TimesGrowing(s, P, m, T, Q) ==
    /\ TimesOf(s, {}, Q) = <<>>
    /\ P = {} => TimesOf(s, T, Q) = <<>>
    /\ P # {} =>
         /\ IsLast(P, Max(P))
         /\ Max(P) \in Q => TimesOf(s, T, Q) = Append(TimesOf(s, P, Q), s[m].at - s[Max(P)].at)
         /\ Max(P) \notin Q => TimesOf(s, T, Q) = TimesOf(s, P, Q)

LEMMA TimesGrow ==
    ASSUME NEW n, NEW P, NEW m, NEW T, Grows(n, P, m, T), NEW s, NEW Q
    PROVE  TimesGrowing(s, P, m, T, Q)
<1>0. n \in Nat /\ P \in SUBSET (1 .. n) /\ m \in 1 .. n /\ Before(P, m) /\ T = P \cup {m}
  BY DEF Grows
<1>1. \A f : Chosen(f, {}) = <<>>
  <2>1. Cardinality({}) = 0
    BY FS_EmptySet
  <2> QED
    BY <2>1 DEF Chosen
<1>2. TimesOf(s, {}, Q) = <<>>
  <2>1. {i \in DOMAIN Lasting(s, {}) : i \in Q} = {}
    BY DEF Lasting
  <2> QED
    BY <1>1, <2>1 DEF TimesOf
<1>3. ASSUME P = {}
      PROVE  TimesOf(s, T, Q) = <<>>
  <2>1. T = {m} /\ ~(m < m)
    BY <1>0, <1>3
  <2>2. {i \in DOMAIN Lasting(s, T) : i \in Q} = {}
    BY <2>1 DEF Lasting
  <2> QED
    BY <1>1, <2>2 DEF TimesOf
<1>4. ASSUME NEW k, k = Max(P), IsLast(P, k)
      PROVE  /\ k \in Q => TimesOf(s, T, Q) = Append(TimesOf(s, P, Q), s[m].at - s[k].at)
             /\ k \notin Q => TimesOf(s, T, Q) = TimesOf(s, P, Q)
  <2>1. LastingGrow(s, P, k, m, T)
    BY <1>4, LastingGrows
  <2> DEFINE f == Lasting(s, P)
             g == Lasting(s, T)
             D == {i \in P \ {k} : i \in Q}
             E == D \cup {k}
  <2>2. /\ DOMAIN f = P \ {k} /\ DOMAIN g = P
        /\ \A i \in P \ {k} : g[i] = f[i]
        /\ g[k] = s[m].at - s[k].at
    BY <2>1 DEF LastingGrow
  <2>3. Grows(n, D, k, E)
    <3>1. k \in P /\ \A i \in P \ {k} : i < k
      BY <1>0, <1>4 DEF IsLast
    <3> QED
      BY <1>0, <3>1 DEF Before, Grows
  <2> HIDE DEF f, g
  <2>4. {i \in DOMAIN f : i \in Q} = D
    BY <2>2
  <2>5. /\ k \in Q => {i \in DOMAIN g : i \in Q} = E
        /\ k \notin Q => {i \in DOMAIN g : i \in Q} = D
    BY <1>4, <2>2 DEF IsLast
  <2>6. Agree(f, g, D)
    BY <2>2 DEF Agree
  <2> HIDE DEF D, E
  <2>7. ChosenGrow(f, g, D, k, E)
    BY <2>3, <2>6, ChosenGrows
  <2>8. Chosen(g, D) = Chosen(f, D) /\ Chosen(g, E) = Append(Chosen(f, D), g[k])
    BY <2>7 DEF ChosenGrow
  <2>9. TimesOf(s, P, Q) = Chosen(f, D)
    BY <2>4 DEF TimesOf, f
  <2>10. k \in Q => TimesOf(s, T, Q) = Chosen(g, E)
    BY <2>5 DEF TimesOf, g
  <2>11. k \notin Q => TimesOf(s, T, Q) = Chosen(g, D)
    BY <2>5 DEF TimesOf, g
  <2> QED
    BY <2>2, <2>8, <2>9, <2>10, <2>11
<1>5. P # {} => IsLast(P, Max(P))
  <2>1. P \in SUBSET (0 .. n)
    BY <1>0
  <2> QED
    BY <1>0, <2>1, GreatestExists DEF IsLast
<1> QED
  BY <1>2, <1>3, <1>4, <1>5 DEF TimesGrowing

(* The positions of S up to i. *)
LEMMA UpToGrows ==
    ASSUME NEW n \in Nat, NEW S \in SUBSET (1 .. n)
    PROVE  /\ UpTo(S, 0) = {} /\ UpTo(S, n) = S
           /\ \A i \in 1 .. n :
                /\ i \notin S => UpTo(S, i) = UpTo(S, i - 1)
                /\ i \in S => Grows(n, UpTo(S, i - 1), i, UpTo(S, i))
<1>1. UpTo(S, 0) = {} /\ UpTo(S, n) = S
  <2>1. \A j \in S : ~(j <= 0) /\ j <= n
    OBVIOUS
  <2> QED
    BY <2>1 DEF UpTo
<1>2. ASSUME NEW i \in 1 .. n
      PROVE  /\ i \notin S => UpTo(S, i) = UpTo(S, i - 1)
             /\ i \in S => Grows(n, UpTo(S, i - 1), i, UpTo(S, i))
  <2>1. \A j \in S : j <= i <=> j <= i - 1 \/ j = i
    OBVIOUS
  <2>2. \A j \in S : j <= i - 1 => j < i
    OBVIOUS
  <2>3. i \notin S => UpTo(S, i) = UpTo(S, i - 1)
    BY <2>1 DEF UpTo
  <2>4. i \in S => UpTo(S, i) = UpTo(S, i - 1) \cup {i}
    BY <2>1 DEF UpTo
  <2>5. UpTo(S, i - 1) \in SUBSET (1 .. n) /\ Before(UpTo(S, i - 1), i)
    BY <2>2 DEF UpTo, Before
  <2> QED
    BY <2>3, <2>4, <2>5 DEF Grows
<1> QED
  BY <1>1, <1>2

-----------------------------------------------------------------------------
(* The walks of exits_stats through a test.                                 *)

(* t is the test s with its events dated by the real time; nothing happens at time 0. *)
Observed(s, t, n) ==
    /\ n \in Nat /\ s \in Seq(TraceEvent) /\ Len(s) = n
    /\ t \in Seq({AtRealTime(e) : e \in TraceEvent}) /\ Len(t) = n
    /\ \A i \in 1 .. n : t[i] = AtRealTime(s[i]) /\ s[i].at # 0
    /\ Protocol(s)

LEMMA ObservedFacts ==
    ASSUME NEW s, NEW t, NEW n, Observed(s, t, n)
    PROVE  /\ n \in Nat /\ DOMAIN s = 1 .. n
           /\ \A i \in 1 .. n :
                /\ s[i] \in TraceEvent /\ s[i].at \in Nat \ {0}
                /\ Is(s[i], s[i].event) /\ WellFormed(s[i])
                /\ t[i] = AtRealTime(s[i])
                /\ t[i].event = s[i].event /\ t[i].arg = s[i].arg /\ t[i].timestamp = s[i].at
                /\ t[i].note = NoNote
<1>1. /\ n \in Nat /\ DOMAIN s = 1 .. n
      /\ \A i \in 1 .. n : s[i] \in TraceEvent /\ t[i] = AtRealTime(s[i]) /\ s[i].at # 0
  BY DEF Observed
<1>2. \A i \in 1 .. n : WellFormed(s[i])
  BY <1>1 DEF Observed, Protocol
<1>3. \A e \in TraceEvent :
         /\ AtRealTime(e).event = e.event /\ AtRealTime(e).arg = e.arg
         /\ AtRealTime(e).timestamp = e.at /\ AtRealTime(e).note = e.note
         /\ e.at \in Nat /\ e.note = NoNote
  BY DEF TraceEvent, AtRealTime
<1> QED
  BY <1>1, <1>2, <1>3 DEF Is

(* Two walks that start in the same state and take the same steps end in the same one. *)
Together(f, g, n) ==
    f[0] = g[0] /\ \A i \in 1 .. n : f[i - 1] = g[i - 1] => f[i] = g[i]

LEMMA SameWalk ==
    ASSUME NEW n \in Nat, NEW f, NEW g, Together(f, g, n)
    PROVE  f[n] = g[n]
<1> DEFINE S == {i \in 0 .. n : f[i] = g[i]}
<1>1. 0 \in S
  BY DEF Together
<1>2. \A i \in 0 .. n - 1 : i \in S => i + 1 \in S
  <2> SUFFICES ASSUME NEW i \in 0 .. n - 1, i \in S
               PROVE  i + 1 \in S
    OBVIOUS
  <2>1. i + 1 \in 1 .. n /\ (i + 1) - 1 = i
    OBVIOUS
  <2>2. f[(i + 1) - 1] = g[(i + 1) - 1]
    BY <2>1
  <2>3. f[i + 1] = g[i + 1]
    BY <2>1, <2>2 DEF Together
  <2> QED
    BY <2>1, <2>3
<1>3. \A i \in 0 .. n : i \in S
  <2> HIDE DEF S
  <2> QED
    BY <1>1, <1>2, Upwards
<1> QED
  BY <1>3

(* S comes in turn, i is in S and k is the last position of S before i. *)
TurnOf(n, s, S, k, i) ==
    /\ n \in Nat /\ S \in SUBSET (1 .. n) /\ InTurn(s, S)
    /\ i \in S /\ IsLast(UpTo(S, i - 1), k)

(* In what comes in turn, a position and the last one before it are not alike. *)
LEMMA LastInTurn ==
    ASSUME NEW n, NEW s, NEW S, NEW k, NEW i, TurnOf(n, s, S, k, i)
    PROVE  k \in S /\ k < i /\ s[k].event # s[i].event
<1>0. n \in Nat /\ S \in SUBSET (1 .. n) /\ InTurn(s, S) /\ i \in S
  BY DEF TurnOf
<1>1. k \in S /\ k <= i - 1 /\ \A j \in S : j <= i - 1 => j <= k
  BY DEF IsLast, UpTo, TurnOf
<1>2. k < i /\ \A j \in S : j <= k \/ i <= j
  BY <1>0, <1>1
<1> QED
  BY <1>0, <1>1, <1>2 DEF InTurn

(* The last position is the greatest. *)
LEMMA GrowsAtItsEnd ==
    ASSUME NEW n, NEW P, NEW m, NEW T, Grows(n, P, m, T)
    PROVE  T # {} /\ Max(T) = m
<1>1. T \in SUBSET Int /\ m \in T /\ \A x \in T : x <= m
  BY DEF Grows, Before
<1> QED
  BY <1>1, GreatestIs

LEMMA PairTimesAre ==
    ASSUME NEW n, NEW s, NEW S \in SUBSET (1 .. n), NEW event
    PROVE  PairTimes(s, S, event) = TimesOf(s, S, {i \in 1 .. n : Is(s[i], event)})
<1>1. DOMAIN Lasting(s, S) \subseteq S
  BY DEF Lasting
<1>2. {i \in DOMAIN Lasting(s, S) : Is(s[i], event)}
      = {i \in DOMAIN Lasting(s, S) : i \in {j \in 1 .. n : Is(s[j], event)}}
  BY <1>1
<1> QED
  BY <1>2 DEF PairTimes, TimesOf

(* latency_send_recv times each request of netperf until its own answer. *)
LEMMA SendRecvWalk ==
    ASSUME NEW s, NEW t, NEW n, Observed(s, t, n)
    PROVE  LatencySendRecv(t) = PairTimes(s, Netperf(s), "sys_sendto")
<1> DEFINE S == Netperf(s)
           Q == {i \in 1 .. n : Is(s[i], "sys_sendto")}
           LastOf(i) == IF UpTo(S, i) # {} /\ Max(UpTo(S, i)) \in Q
                      THEN s[Max(UpTo(S, i))].at ELSE Unset
           State(i) == [last |-> LastOf(i), times |-> TimesOf(s, UpTo(S, i), Q)]
           Base == [last |-> Unset, times |-> <<>>]
           Walk(f) == f = [i \in 0 .. n |-> IF i = 0 THEN Base ELSE SendRecvStep(f[i - 1], t[i])]
           w == [i \in 0 .. n |-> State(i)]
           f == CHOOSE f : Walk(f)
<1>1. /\ n \in Nat /\ DOMAIN s = 1 .. n
      /\ \A i \in 1 .. n :
           /\ s[i].at \in Nat \ {0} /\ WellFormed(s[i])
           /\ t[i].event = s[i].event /\ t[i].arg = s[i].arg /\ t[i].timestamp = s[i].at
  BY ObservedFacts
<1>2. S \in SUBSET (1 .. n) /\ InTurn(s, S)
  BY <1>1 DEF Netperf, Observed, Protocol
<1>3. \A i \in 1 .. n : i \in S <=> t[i].arg = "netperf"
  BY <1>1 DEF Netperf
<1>4. \A i \in S : i \in Q <=> t[i].event = "sys_sendto"
  BY <1>1, <1>2 DEF Is
<1>5. \A i \in S : s[i].event \in {"sys_sendto", "sys_recvfrom"}
  BY <1>1, <1>2, <1>3 DEF WellFormed
<1>6. /\ UpTo(S, 0) = {} /\ UpTo(S, n) = S
      /\ \A i \in 1 .. n :
           /\ i \notin S => UpTo(S, i) = UpTo(S, i - 1)
           /\ i \in S => Grows(n, UpTo(S, i - 1), i, UpTo(S, i))
  <2> HIDE DEF S
  <2> QED
    BY <1>1, <1>2, UpToGrows
<1>7. State(0) = Base
  <2>1. Grows(n + 1, {}, 1, {1})
    BY <1>1 DEF Grows, Before
  <2>2. TimesOf(s, {}, Q) = <<>>
    <3> HIDE DEF Q
    <3> QED
      BY <2>1, TimesGrow DEF TimesGrowing
  <2> QED
    BY <1>6, <2>2
<1>8. ASSUME NEW i \in 1 .. n
      PROVE  State(i) = SendRecvStep(State(i - 1), t[i])
  <2> DEFINE P == UpTo(S, i - 1)
             T == UpTo(S, i)
             k == Max(P)
  <2>1. CASE i \notin S
    <3>1. t[i].arg # "netperf" /\ P = T
      BY <1>3, <1>6, <2>1
    <3> QED
      BY <3>1 DEF SendRecvStep
  <2>2. CASE i \in S
    <3>1. Grows(n, P, i, T)
      BY <1>6, <2>2
    <3>2. T # {} /\ Max(T) = i
      <4> HIDE DEF P, T
      <4> QED
        BY <3>1, GrowsAtItsEnd
    <3>3. TimesGrowing(s, P, i, T, Q)
      <4> HIDE DEF P, T, Q
      <4> QED
        BY <3>1, TimesGrow
    <3>4. ASSUME P # {}
          PROVE  /\ k \in S /\ k \in 1 .. n /\ s[k].at \in Nat \ {0}
                 /\ k \in Q <=> i \notin Q
      <4>1. IsLast(P, k)
        BY <3>3, <3>4 DEF TimesGrowing
      <4>2. k \in S /\ s[k].event # s[i].event
        <5>1. TurnOf(n, s, S, k, i)
          BY <1>1, <1>2, <2>2, <4>1 DEF TurnOf
        <5> HIDE DEF S, k
        <5> QED
          BY <5>1, LastInTurn
      <4>3. k \in 1 .. n
        BY <1>2, <4>2
      <4> QED
        BY <1>1, <1>4, <1>5, <2>2, <4>2, <4>3
    <3>5. t[i].arg = "netperf" /\ t[i].timestamp = s[i].at /\ s[i].at # Unset
      BY <1>1, <1>3, <2>2 DEF Unset
    <3>6. i \in Q <=> Is(t[i], "sys_sendto")
      BY <1>4, <2>2 DEF Is
    <3> HIDE DEF S, Q
    <3>7. CASE i \in Q
      <4>1. TimesOf(s, T, Q) = TimesOf(s, P, Q)
        <5>1. P = {} => TimesOf(s, T, Q) = TimesOf(s, P, Q)
          BY <3>3 DEF TimesGrowing
        <5> QED
          BY <3>3, <3>4, <3>7, <5>1 DEF TimesGrowing
      <4>2. State(i) = [last |-> s[i].at, times |-> TimesOf(s, P, Q)]
        BY <3>2, <3>7, <4>1
      <4> QED
        BY <3>5, <3>6, <3>7, <4>2 DEF SendRecvStep
    <3>8. CASE i \notin Q /\ P = {}
      <4>1. State(i) = Base /\ State(i - 1) = Base
        BY <3>2, <3>3, <3>8 DEF TimesGrowing
      <4> QED
        BY <3>5, <3>6, <3>8, <4>1 DEF SendRecvStep
    <3>9. CASE i \notin Q /\ P # {}
      <4>1. k \in Q /\ s[k].at # Unset
        BY <3>4, <3>9 DEF Unset
      <4>2. TimesOf(s, T, Q) = Append(TimesOf(s, P, Q), s[i].at - s[k].at)
        BY <3>3, <3>9, <4>1 DEF TimesGrowing
      <4>3. /\ State(i - 1) = [last |-> s[k].at, times |-> TimesOf(s, P, Q)]
            /\ State(i) = [last |-> Unset, times |-> TimesOf(s, T, Q)]
        BY <3>2, <3>9, <4>1
      <4> QED
        BY <3>5, <3>6, <3>9, <4>1, <4>2, <4>3 DEF SendRecvStep
    <3> QED
      BY <3>7, <3>8, <3>9
  <2> QED
    BY <2>1, <2>2
<1> HIDE DEF State, Base
<1>9. Walk(w)
  <2>1. \A i \in 0 .. n : i # 0 => i \in 1 .. n /\ i - 1 \in 0 .. n
    BY <1>1
  <2> QED
    BY <1>7, <1>8, <2>1
<1>10. Walk(f)
  BY <1>9
<1>11. Together(f, w, n)
  <2> HIDE DEF f, w
  <2>1. 0 \in 0 .. n /\ \A i \in 1 .. n : i \in 0 .. n /\ i # 0
    BY <1>1
  <2>2. /\ w[0] = Base /\ f[0] = Base
        /\ \A i \in 1 .. n : w[i] = SendRecvStep(w[i - 1], t[i])
        /\ \A i \in 1 .. n : f[i] = SendRecvStep(f[i - 1], t[i])
    BY <1>9, <1>10, <2>1
  <2> QED
    BY <2>2 DEF Together
<1>12. f[n] = w[n]
  <2> HIDE DEF f, w
  <2> QED
    BY <1>1, <1>11, SameWalk
<1>13. LatencySendRecv(t) = f[n].times
  <2>1. Len(t) = n
    BY DEF Observed
  <2> QED
    BY <2>1 DEF LatencySendRecv, Base
<1>14. w[n].times = TimesOf(s, S, Q)
  <2>1. n \in 0 .. n
    BY <1>1
  <2> QED
    BY <1>6, <2>1 DEF State
<1> QED
  <2> HIDE DEF f, w
  <2>1. PairTimes(s, S, "sys_sendto") = TimesOf(s, S, Q)
    <3> HIDE DEF S
    <3> QED
      BY <1>2, PairTimesAre
  <2> QED
    BY <1>12, <1>13, <1>14, <2>1

(* The note of event j once the walk of exit_time has come to event i. *)
Noted(s, i, j) ==
    IF j + 1 <= i /\ Is(s[j], "kvm_exit") /\ s[j + 1].event \in {"kvm_mmio", "kvm_msr"}
    THEN s[j + 1].arg ELSE NoNote
WithNotes(s, t, i) == [j \in DOMAIN t |-> [t[j] EXCEPT !.note = Noted(s, i, j)]]

(* An event e, dated by its real time, with a note. *)
DatedWith(e, note) ==
    [source |-> e.source, event |-> e.event, arg |-> e.arg, raw |-> e.raw, note |-> note,
     timestamp |-> e.at, at |-> e.at]

LEMMA NoteIsSet ==
    ASSUME NEW e \in TraceEvent
    PROVE  /\ AtRealTime(e) = DatedWith(e, NoNote)
           /\ \A x, y : [DatedWith(e, x) EXCEPT !.note = y] = DatedWith(e, y)
           /\ \A x : /\ DatedWith(e, x).event = e.event /\ DatedWith(e, x).arg = e.arg
                     /\ DatedWith(e, x).timestamp = e.at /\ DatedWith(e, x).note = x
<1>1. AtRealTime(e) = DatedWith(e, NoNote)
  <2>1. e.note = NoNote
    BY DEF TraceEvent
  <2>2. e = [source |-> e.source, event |-> e.event, arg |-> e.arg, raw |-> e.raw,
             note |-> e.note, timestamp |-> e.timestamp, at |-> e.at]
    BY DEF TraceEvent
  <2>3. [e EXCEPT !.timestamp = e.at] =
            [source |-> e.source, event |-> e.event, arg |-> e.arg, raw |-> e.raw,
             note |-> e.note, timestamp |-> e.at, at |-> e.at]
    BY <2>2
  <2> QED
    BY <2>1, <2>3 DEF AtRealTime, DatedWith
<1> QED
  BY <1>1 DEF DatedWith

(* Only an MMIO or MSR event changes a note, that of the exit before it. *)
LEMMA NotesGrow ==
    ASSUME NEW s, NEW t, NEW n, Observed(s, t, n)
    PROVE  /\ WithNotes(s, t, 0) = t
           /\ \A i \in 1 .. n :
                /\ s[i].event \notin {"kvm_mmio", "kvm_msr"} \/ i = 1
                     => WithNotes(s, t, i) = WithNotes(s, t, i - 1)
                /\ s[i].event \in {"kvm_mmio", "kvm_msr"} /\ i # 1
                     => /\ Is(s[i - 1], "kvm_exit")
                        /\ WithNotes(s, t, i) =
                             [WithNotes(s, t, i - 1) EXCEPT ![i - 1].note = s[i].arg]
           /\ \A i \in 0 .. n :
                /\ DOMAIN WithNotes(s, t, i) = 1 .. n /\ Len(WithNotes(s, t, i)) = n
                /\ \A j \in 1 .. n :
                     /\ WithNotes(s, t, i)[j].event = s[j].event
                     /\ WithNotes(s, t, i)[j].arg = s[j].arg
                     /\ WithNotes(s, t, i)[j].timestamp = s[j].at
                     /\ WithNotes(s, t, i)[j].note = Noted(s, i, j)
<1>1. /\ n \in Nat /\ DOMAIN s = 1 .. n /\ DOMAIN t = 1 .. n
      /\ \A i \in 1 .. n :
           /\ t[i].event = s[i].event /\ t[i].arg = s[i].arg /\ t[i].timestamp = s[i].at
           /\ t[i].note = NoNote /\ s[i] \in TraceEvent /\ t[i] = AtRealTime(s[i])
  <2>1. DOMAIN t = 1 .. n
    BY DEF Observed
  <2> QED
    BY <2>1, ObservedFacts
<1>2. \A i : WithNotes(s, t, i) = [j \in 1 .. n |-> DatedWith(s[j], Noted(s, i, j))]
  <2>1. \A j \in 1 .. n : \A x : [t[j] EXCEPT !.note = x] = DatedWith(s[j], x)
    BY <1>1, NoteIsSet
  <2> QED
    BY <1>1, <2>1 DEF WithNotes
<1>4. WithNotes(s, t, 0) = t
  <2>1. \A j \in 1 .. n : Noted(s, 0, j) = NoNote
    BY <1>1 DEF Noted
  <2>2. \A j \in 1 .. n : DatedWith(s[j], Noted(s, 0, j)) = t[j]
    BY <1>1, <2>1, NoteIsSet
  <2>3. t = [j \in 1 .. n |-> t[j]]
    <3>1. t \in Seq({AtRealTime(e) : e \in TraceEvent})
      BY DEF Observed
    <3> QED
      BY <1>1, <3>1
  <2> QED
    BY <1>2, <2>2, <2>3
<1>5. ASSUME NEW i \in 1 .. n, s[i].event \notin {"kvm_mmio", "kvm_msr"} \/ i = 1
      PROVE  WithNotes(s, t, i) = WithNotes(s, t, i - 1)
  <2>1. \A j \in 1 .. n : Noted(s, i, j) = Noted(s, i - 1, j)
    <3> TAKE j \in 1 .. n
    <3>1. CASE j + 1 = i
      <4>1. ~(j + 1 <= i - 1) /\ s[j + 1].event \notin {"kvm_mmio", "kvm_msr"}
        BY <1>1, <1>5, <3>1
      <4> QED
        BY <4>1 DEF Noted
    <3>2. CASE j + 1 # i
      <4>1. j + 1 <= i <=> j + 1 <= i - 1
        BY <1>1, <3>2
      <4> QED
        BY <4>1 DEF Noted
    <3> QED
      BY <3>1, <3>2
  <2> QED
    BY <1>2, <2>1
<1>6. ASSUME NEW i \in 1 .. n, s[i].event \in {"kvm_mmio", "kvm_msr"}, i # 1
      PROVE  /\ Is(s[i - 1], "kvm_exit")
             /\ WithNotes(s, t, i) = [WithNotes(s, t, i - 1) EXCEPT ![i - 1].note = s[i].arg]
  <2>1. i - 1 \in 1 .. n /\ (i - 1) + 1 = i /\ i > 1
    BY <1>1, <1>6
  <2>2. Is(s[i - 1], "kvm_exit")
    BY <1>1, <1>6, <2>1 DEF Observed, Protocol
  <2>3. Noted(s, i, i - 1) = s[i].arg
    BY <1>6, <2>1, <2>2 DEF Noted
  <2>4. \A j \in 1 .. n : j # i - 1 => Noted(s, i, j) = Noted(s, i - 1, j)
    <3> TAKE j \in 1 .. n
    <3> HAVE j # i - 1
    <3>1. j + 1 <= i <=> j + 1 <= i - 1
      BY <1>1
    <3> QED
      BY <3>1 DEF Noted
  <2> DEFINE u == WithNotes(s, t, i - 1)
             v == WithNotes(s, t, i)
  <2>5. /\ u = [j \in 1 .. n |-> DatedWith(s[j], Noted(s, i - 1, j))]
        /\ v = [j \in 1 .. n |-> DatedWith(s[j], Noted(s, i, j))]
    BY <1>2
  <2> HIDE DEF u, v
  <2>6. /\ DOMAIN u = 1 .. n
        /\ u[i - 1] = DatedWith(s[i - 1], Noted(s, i - 1, i - 1))
        /\ v[i - 1] = DatedWith(s[i - 1], s[i].arg)
        /\ \A j \in 1 .. n : j # i - 1 => v[j] = u[j]
    BY <2>1, <2>3, <2>4, <2>5
  <2>7. [u[i - 1] EXCEPT !.note = s[i].arg] = v[i - 1]
    BY <1>1, <2>1, <2>6, NoteIsSet
  <2>8. v = [u EXCEPT ![i - 1] = [u[i - 1] EXCEPT !.note = s[i].arg]]
    <3>1. v = [j \in 1 .. n |-> v[j]]
      BY <2>5
    <3>2. [u EXCEPT ![i - 1] = v[i - 1]] = [j \in 1 .. n |-> IF j = i - 1 THEN v[i - 1] ELSE u[j]]
      BY <2>6
    <3> QED
      BY <2>6, <2>7, <3>1, <3>2
  <2> QED
    BY <2>2, <2>8 DEF u, v
<1>7. ASSUME NEW i \in 0 .. n
      PROVE  /\ DOMAIN WithNotes(s, t, i) = 1 .. n /\ Len(WithNotes(s, t, i)) = n
             /\ \A j \in 1 .. n :
                  /\ WithNotes(s, t, i)[j].event = s[j].event
                  /\ WithNotes(s, t, i)[j].arg = s[j].arg
                  /\ WithNotes(s, t, i)[j].timestamp = s[j].at
                  /\ WithNotes(s, t, i)[j].note = Noted(s, i, j)
  <2> DEFINE u == WithNotes(s, t, i)
  <2>1. u = [j \in 1 .. n |-> DatedWith(s[j], Noted(s, i, j))]
    BY <1>2
  <2> HIDE DEF u
  <2>2. DOMAIN u = 1 .. n /\ Len(u) = n
    BY <1>1, <2>1
  <2>3. \A j \in 1 .. n : u[j] = DatedWith(s[j], Noted(s, i, j))
    BY <2>1
  <2>4. \A j \in 1 .. n : /\ u[j].event = s[j].event /\ u[j].arg = s[j].arg
                          /\ u[j].timestamp = s[j].at /\ u[j].note = Noted(s, i, j)
    BY <1>1, <2>3, NoteIsSet
  <2> QED
    BY <2>2, <2>4 DEF u
<1> QED
  BY <1>4, <1>5, <1>6, <1>7

(* What exit_time does at an entry for which it remembers an exit. *)
LEMMA EntryTimed ==
    ASSUME NEW u, NEW k, NEW times, NEW i, u[i].event = "kvm_entry", k # Unset, NEW st,
           st = [events |-> u, last |-> k, times |-> times]
    PROVE  ExitTimeStep(st, i) =
              [events |-> u, last |-> Unset,
               times |-> Append(times, u[i].timestamp - u[k].timestamp)]
<1>1. st.events = u /\ st.last = k /\ st.times = times
  OBVIOUS
<1>2. /\ ~Is(st.events[i], "kvm_exit") /\ st.last # Unset
      /\ st.events[i].event \notin {"kvm_mmio", "kvm_msr"} /\ Is(st.events[i], "kvm_entry")
  BY <1>1 DEF Is
<1> DEFINE r == [events |-> st.events, last |-> Unset,
                 times |-> Append(st.times, st.events[i].timestamp - st.events[st.last].timestamp)]
<1>3. ExitTimeStep(st, i) = r
  BY <1>2, Zenon DEF ExitTimeStep
<1> QED
  BY <1>1, <1>3

(* What it does at an MMIO or MSR event when it remembers an exit. *)
LEMMA NoteLeft ==
    ASSUME NEW u, NEW k, NEW times, NEW i, u[i].event \in {"kvm_mmio", "kvm_msr"}, k # Unset,
           NEW st, st = [events |-> u, last |-> k, times |-> times]
    PROVE  ExitTimeStep(st, i) =
              [events |-> [u EXCEPT ![k].note = u[i].arg], last |-> k, times |-> times]
<1>1. st.events = u /\ st.last = k /\ st.times = times
  OBVIOUS
<1>2. ~Is(st.events[i], "kvm_exit") /\ st.last # Unset
      /\ st.events[i].event \in {"kvm_mmio", "kvm_msr"}
  BY <1>1 DEF Is
<1>3. ExitTimeStep(st, i) = [st EXCEPT !.events[st.last].note = st.events[i].arg]
  BY <1>2, Zenon DEF ExitTimeStep
<1>4. [st EXCEPT !.events[st.last].note = st.events[i].arg] =
         [events |-> [u EXCEPT ![k].note = u[i].arg], last |-> k, times |-> times]
  BY <1>1
<1> QED
  BY <1>3, <1>4

(***************************************************************************)
(* exit_time times each exit until its own entry, and leaves at an exit    *)
(* what the event after it tells about it.                                 *)
(***************************************************************************)
LEMMA ExitWalk ==
    ASSUME NEW s, NEW t, NEW n, Observed(s, t, n)
    PROVE  /\ ExitTimes(t).times = PairTimes(s, ExitsAndEntries(s), "kvm_exit")
           /\ ExitTimes(t).events = WithNotes(s, t, n)
<1> DEFINE S == ExitsAndEntries(s)
           Q == {i \in 1 .. n : Is(s[i], "kvm_exit")}
           LastOf(i) == IF UpTo(S, i) # {} /\ Max(UpTo(S, i)) \in Q THEN Max(UpTo(S, i)) ELSE Unset
           State(i) == [events |-> WithNotes(s, t, i), last |-> LastOf(i),
                        times |-> TimesOf(s, UpTo(S, i), Q)]
           Base == [events |-> t, last |-> Unset, times |-> <<>>]
           Walk(f) == f = [i \in 0 .. n |-> IF i = 0 THEN Base ELSE ExitTimeStep(f[i - 1], i)]
           w == [i \in 0 .. n |-> State(i)]
           f == CHOOSE f : Walk(f)
<1>1. /\ n \in Nat /\ DOMAIN s = 1 .. n
      /\ \A i \in 1 .. n : s[i].at \in Nat \ {0}
  BY ObservedFacts
<1>2. S \in SUBSET (1 .. n) /\ InTurn(s, S)
  BY <1>1 DEF ExitsAndEntries, Observed, Protocol
<1>3. \A i \in 1 .. n : i \in S <=> s[i].event \in {"kvm_exit", "kvm_entry"}
  BY <1>1 DEF ExitsAndEntries
<1>4. \A i \in 1 .. n : i \in Q <=> s[i].event = "kvm_exit"
  BY DEF Is
<1>5. /\ WithNotes(s, t, 0) = t
      /\ \A i \in 1 .. n :
           /\ s[i].event \notin {"kvm_mmio", "kvm_msr"} \/ i = 1
                => WithNotes(s, t, i) = WithNotes(s, t, i - 1)
           /\ s[i].event \in {"kvm_mmio", "kvm_msr"} /\ i # 1
                => /\ s[i - 1].event = "kvm_exit"
                   /\ WithNotes(s, t, i) = [WithNotes(s, t, i - 1) EXCEPT ![i - 1].note = s[i].arg]
      /\ \A i \in 0 .. n : \A j \in 1 .. n :
           /\ WithNotes(s, t, i)[j].event = s[j].event
           /\ WithNotes(s, t, i)[j].arg = s[j].arg
           /\ WithNotes(s, t, i)[j].timestamp = s[j].at
  BY NotesGrow DEF Is
<1>6. /\ UpTo(S, 0) = {} /\ UpTo(S, n) = S
      /\ \A i \in 1 .. n :
           /\ i \notin S => UpTo(S, i) = UpTo(S, i - 1)
           /\ i \in S => Grows(n, UpTo(S, i - 1), i, UpTo(S, i))
  <2> HIDE DEF S
  <2> QED
    BY <1>1, <1>2, UpToGrows
<1>7. State(0) = Base
  <2>1. Grows(n + 1, {}, 1, {1})
    BY <1>1 DEF Grows, Before
  <2>2. TimesOf(s, {}, Q) = <<>>
    <3> HIDE DEF Q
    <3> QED
      BY <2>1, TimesGrow DEF TimesGrowing
  <2> QED
    BY <1>5, <1>6, <2>2
<1>8. ASSUME NEW i \in 1 .. n
      PROVE  State(i) = ExitTimeStep(State(i - 1), i)
  <2> DEFINE P == UpTo(S, i - 1)
             T == UpTo(S, i)
             k == Max(P)
             u == WithNotes(s, t, i - 1)
             v == WithNotes(s, t, i)
  <2>1. /\ u[i].event = s[i].event /\ u[i].arg = s[i].arg /\ u[i].timestamp = s[i].at
        /\ \A j \in 1 .. n : u[j].timestamp = s[j].at
    <3>1. i - 1 \in 0 .. n
      BY <1>1
    <3> QED
      BY <1>5, <3>1
  <2>2. /\ State(i - 1) = [events |-> u, last |-> LastOf(i - 1), times |-> TimesOf(s, P, Q)]
        /\ State(i) = [events |-> v, last |-> LastOf(i), times |-> TimesOf(s, T, Q)]
    OBVIOUS
  <2>3. CASE i \notin S
    <3>1. s[i].event \notin {"kvm_exit", "kvm_entry"} /\ P = T /\ LastOf(i) = LastOf(i - 1)
      BY <1>3, <1>6, <2>3
    <3> HIDE DEF u, v, P, T, State, Q
    <3>2. CASE s[i].event \notin {"kvm_mmio", "kvm_msr"}
      <4>1. v = u
        BY <1>5, <3>2 DEF u, v
      <4> HIDE DEF LastOf
      <4> QED
        BY <2>1, <2>2, <3>1, <3>2, <4>1 DEF ExitTimeStep, Is
    <3>3. CASE s[i].event \in {"kvm_mmio", "kvm_msr"} /\ i = 1
      <4>1. v = u
        BY <1>5, <3>3 DEF u, v
      <4>2. LastOf(i - 1) = Unset
        BY <1>6, <3>3
      <4> HIDE DEF LastOf
      <4> QED
        BY <2>1, <2>2, <3>1, <3>3, <4>1, <4>2 DEF ExitTimeStep, Is
    <3>4. CASE s[i].event \in {"kvm_mmio", "kvm_msr"} /\ i # 1
      <4>1. s[i - 1].event = "kvm_exit" /\ v = [u EXCEPT ![i - 1].note = s[i].arg]
        BY <1>5, <3>4 DEF u, v
      <4>2. i - 1 \in 1 .. n /\ i - 1 # Unset
        BY <1>1, <3>4 DEF Unset
      <4>3. i - 1 \in S /\ i - 1 \in Q
        BY <1>3, <1>4, <4>1, <4>2
      <4>4. UpTo(S, i - 1) # {} /\ Max(UpTo(S, i - 1)) = i - 1
        <5>1. Grows(n, UpTo(S, (i - 1) - 1), i - 1, UpTo(S, i - 1))
          BY <1>6, <4>2, <4>3
        <5> HIDE DEF S
        <5> QED
          BY <5>1, GrowsAtItsEnd
      <4>5. LastOf(i - 1) = i - 1
        BY <4>3, <4>4
      <4> HIDE DEF LastOf
      <4>6. State(i - 1) = [events |-> u, last |-> i - 1, times |-> TimesOf(s, P, Q)]
        BY <2>2, <4>5
      <4>7. u[i].event \in {"kvm_mmio", "kvm_msr"} /\ u[i].arg = s[i].arg
        BY <2>1, <3>4
      <4>8. ExitTimeStep(State(i - 1), i) =
              [events |-> [u EXCEPT ![i - 1].note = u[i].arg], last |-> i - 1,
               times |-> TimesOf(s, P, Q)]
        BY <4>2, <4>6, <4>7, NoteLeft
      <4> QED
        BY <2>2, <3>1, <4>1, <4>5, <4>7, <4>8
    <3> QED
      BY <3>2, <3>3, <3>4
  <2>4. CASE i \in S
    <3>1. Grows(n, P, i, T)
      BY <1>6, <2>4
    <3>2. T # {} /\ Max(T) = i
      <4> HIDE DEF P, T
      <4> QED
        BY <3>1, GrowsAtItsEnd
    <3>3. TimesGrowing(s, P, i, T, Q)
      <4> HIDE DEF P, T, Q
      <4> QED
        BY <3>1, TimesGrow
    <3>4. ASSUME P # {}
          PROVE  /\ k \in S /\ k \in 1 .. n /\ k # Unset
                 /\ k \in Q <=> i \notin Q
      <4>1. IsLast(P, k)
        BY <3>3, <3>4 DEF TimesGrowing
      <4>2. k \in S /\ s[k].event # s[i].event
        <5>1. TurnOf(n, s, S, k, i)
          BY <1>1, <1>2, <2>4, <4>1 DEF TurnOf
        <5> HIDE DEF S, k
        <5> QED
          BY <5>1, LastInTurn
      <4>3. k \in 1 .. n /\ k # Unset
        BY <1>2, <4>2 DEF Unset
      <4> HIDE DEF S, Q, k
      <4> QED
        BY <1>1, <1>3, <1>4, <2>4, <4>2, <4>3
    <3>5. s[i].event \in {"kvm_exit", "kvm_entry"} /\ (i \in Q <=> s[i].event = "kvm_exit")
      BY <1>3, <1>4, <2>4
    <3>6. v = u
      BY <1>5, <3>5
    <3> HIDE DEF S, Q, State, u, v
    <3>7. CASE i \in Q
      <4>1. TimesOf(s, T, Q) = TimesOf(s, P, Q)
        <5>1. P = {} => TimesOf(s, T, Q) = TimesOf(s, P, Q)
          BY <3>3 DEF TimesGrowing
        <5> QED
          BY <3>3, <3>4, <3>7, <5>1 DEF TimesGrowing
      <4>2. LastOf(i) = i
        BY <3>2, <3>7
      <4> HIDE DEF P, T, LastOf
      <4> QED
        BY <2>1, <2>2, <3>5, <3>6, <3>7, <4>1, <4>2 DEF ExitTimeStep, Is
    <3>8. CASE i \notin Q /\ P = {}
      <4>1. TimesOf(s, T, Q) = TimesOf(s, P, Q)
        BY <3>3, <3>8 DEF TimesGrowing
      <4>2. LastOf(i) = Unset /\ LastOf(i - 1) = Unset
        BY <3>2, <3>8
      <4> HIDE DEF P, T, LastOf
      <4> QED
        BY <2>1, <2>2, <3>5, <3>6, <3>8, <4>1, <4>2 DEF ExitTimeStep, Is
    <3>9. CASE i \notin Q /\ P # {}
      <4>1. k \in Q /\ k \in 1 .. n /\ k # Unset
        BY <3>4, <3>9
      <4>2. TimesOf(s, T, Q) = Append(TimesOf(s, P, Q), s[i].at - s[k].at)
        BY <3>3, <3>9, <4>1 DEF TimesGrowing
      <4>3. LastOf(i - 1) = k /\ LastOf(i) = Unset
        BY <3>2, <3>9, <4>1
      <4>4. u[i].timestamp - u[k].timestamp = s[i].at - s[k].at
        BY <2>1, <4>1
      <4>5. u[i].event = "kvm_entry"
        BY <2>1, <3>5, <3>9
      <4> HIDE DEF P, T, LastOf, k
      <4>6. State(i - 1) = [events |-> u, last |-> k, times |-> TimesOf(s, P, Q)]
        BY <2>2, <4>3
      <4>8. ExitTimeStep(State(i - 1), i) =
              [events |-> u, last |-> Unset,
               times |-> Append(TimesOf(s, P, Q), u[i].timestamp - u[k].timestamp)]
        BY <4>1, <4>5, <4>6, EntryTimed
      <4> QED
        BY <2>2, <3>6, <4>2, <4>3, <4>4, <4>8
    <3> QED
      BY <3>7, <3>8, <3>9
  <2> QED
    BY <2>3, <2>4
<1> HIDE DEF State, Base
<1>9. Walk(w)
  <2>1. \A i \in 0 .. n : i # 0 => i \in 1 .. n /\ i - 1 \in 0 .. n
    BY <1>1
  <2> QED
    BY <1>7, <1>8, <2>1
<1>10. Walk(f)
  BY <1>9
<1>11. Together(f, w, n)
  <2> HIDE DEF f, w
  <2>1. 0 \in 0 .. n /\ \A i \in 1 .. n : i \in 0 .. n /\ i # 0
    BY <1>1
  <2>2. /\ w[0] = Base /\ f[0] = Base
        /\ \A i \in 1 .. n : w[i] = ExitTimeStep(w[i - 1], i)
        /\ \A i \in 1 .. n : f[i] = ExitTimeStep(f[i - 1], i)
    BY <1>9, <1>10, <2>1
  <2> QED
    BY <2>2 DEF Together
<1>12. f[n] = w[n]
  <2> HIDE DEF f, w
  <2> QED
    BY <1>1, <1>11, SameWalk
<1>13. ExitTimes(t) = f[n]
  <2>1. Len(t) = n
    BY DEF Observed
  <2> QED
    BY <2>1 DEF ExitTimes, Base
<1>14. w[n].times = TimesOf(s, S, Q) /\ w[n].events = WithNotes(s, t, n)
  <2>1. n \in 0 .. n
    BY <1>1
  <2> QED
    BY <1>6, <2>1 DEF State
<1> QED
  <2> HIDE DEF f, w
  <2>1. PairTimes(s, S, "kvm_exit") = TimesOf(s, S, Q)
    <3> HIDE DEF S
    <3> QED
      BY <1>2, PairTimesAre
  <2> QED
    BY <1>12, <1>13, <1>14, <2>1

(* throughput_batch_time_kick cuts at each exit that kicks or halts. *)
LEMMA KickWalk ==
    ASSUME NEW s, NEW t, NEW n, Observed(s, t, n)
    PROVE  BatchTimeKick(WithNotes(s, t, n)) = TimesOf(s, {i \in DOMAIN s : CutsBatch(s, i)}, 1 .. n)
<1> DEFINE S == {i \in DOMAIN s : CutsBatch(s, i)}
           Q == 1 .. n
           u == WithNotes(s, t, n)
           LastOf(i) == IF UpTo(S, i) # {} THEN s[Max(UpTo(S, i))].at ELSE Unset
           State(i) == [last |-> LastOf(i), times |-> TimesOf(s, UpTo(S, i), Q)]
           Base == [last |-> Unset, times |-> <<>>]
           Walk(f) == f = [i \in 0 .. n |-> IF i = 0 THEN Base ELSE KickStep(f[i - 1], u[i])]
           w == [i \in 0 .. n |-> State(i)]
           f == CHOOSE f : Walk(f)
<1>1. /\ n \in Nat /\ DOMAIN s = 1 .. n /\ Len(s) = n
      /\ \A i \in 1 .. n : s[i].at \in Nat \ {0} /\ WellFormed(s[i])
  BY ObservedFacts DEF Observed
<1>2. /\ Len(u) = n
      /\ \A j \in 1 .. n : /\ u[j].event = s[j].event /\ u[j].arg = s[j].arg
                           /\ u[j].timestamp = s[j].at /\ u[j].note = Noted(s, n, j)
  <2>1. n \in 0 .. n
    BY <1>1
  <2> QED
    BY <2>1, NotesGrow
<1>3. S \in SUBSET (1 .. n)
  BY <1>1
<1>4. \A i \in 1 .. n : EndsBatch(u[i]) <=> i \in S
  <2> TAKE i \in 1 .. n
  <2>1. i \in S <=> /\ s[i].event = "kvm_exit"
                    /\ s[i].arg = "HLT" \/ (i < n /\ s[i + 1].arg = "KICK")
    BY <1>1 DEF CutsBatch, Is
  <2>2. EndsBatch(u[i]) <=> /\ s[i].event = "kvm_exit"
                            /\ s[i].arg = "HLT" \/ Noted(s, n, i) = "KICK"
    BY <1>2 DEF EndsBatch, Is
  <2>3. ASSUME s[i].event = "kvm_exit"
        PROVE  Noted(s, n, i) = "KICK" <=> i < n /\ s[i + 1].arg = "KICK"
    <3>1. CASE i < n
      <4>1. i + 1 \in 1 .. n /\ i + 1 <= n
        BY <1>1, <3>1
      <4>2. s[i + 1].event \in {"kvm_mmio", "kvm_msr"} <=> s[i + 1].arg \in {"KICK", "EOI"}
        BY <1>1, <4>1 DEF WellFormed
      <4>3. Noted(s, n, i) = IF s[i + 1].arg \in {"KICK", "EOI"} THEN s[i + 1].arg ELSE NoNote
        BY <2>3, <4>1, <4>2 DEF Noted, Is
      <4> QED
        BY <3>1, <4>3 DEF NoNote
    <3>2. CASE ~(i < n)
      <4>1. ~(i + 1 <= n)
        BY <1>1, <3>2
      <4> QED
        BY <3>2, <4>1 DEF Noted, NoNote
    <3> QED
      BY <3>1, <3>2
  <2> QED
    BY <2>1, <2>2, <2>3
<1> HIDE DEF S, u
<1>6. /\ UpTo(S, 0) = {} /\ UpTo(S, n) = S
      /\ \A i \in 1 .. n :
           /\ i \notin S => UpTo(S, i) = UpTo(S, i - 1)
           /\ i \in S => Grows(n, UpTo(S, i - 1), i, UpTo(S, i))
  BY <1>1, <1>3, UpToGrows
<1>7. State(0) = Base
  <2>1. Grows(n + 1, {}, 1, {1})
    BY <1>1 DEF Grows, Before
  <2>2. TimesOf(s, {}, Q) = <<>>
    <3> HIDE DEF Q
    <3> QED
      BY <2>1, TimesGrow DEF TimesGrowing
  <2> QED
    BY <1>6, <2>2
<1>8. ASSUME NEW i \in 1 .. n
      PROVE  State(i) = KickStep(State(i - 1), u[i])
  <2> DEFINE P == UpTo(S, i - 1)
             T == UpTo(S, i)
             k == Max(P)
  <2>1. CASE i \notin S
    <3>1. ~EndsBatch(u[i]) /\ P = T
      BY <1>4, <1>6, <2>1
    <3> QED
      BY <3>1 DEF KickStep
  <2>2. CASE i \in S
    <3>1. Grows(n, P, i, T)
      BY <1>6, <2>2
    <3>2. T # {} /\ Max(T) = i
      <4> HIDE DEF P, T
      <4> QED
        BY <3>1, GrowsAtItsEnd
    <3>3. TimesGrowing(s, P, i, T, Q)
      <4> HIDE DEF P, T, Q
      <4> QED
        BY <3>1, TimesGrow
    <3>4. EndsBatch(u[i]) /\ u[i].timestamp = s[i].at
      BY <1>2, <1>4, <2>2
    <3>5. CASE P = {}
      <4>1. State(i - 1) = Base /\ State(i) = [last |-> s[i].at, times |-> <<>>]
        BY <3>2, <3>3, <3>5 DEF TimesGrowing
      <4> QED
        BY <3>4, <4>1 DEF KickStep
    <3>6. CASE P # {}
      <4>1. IsLast(P, k)
        BY <3>3, <3>6 DEF TimesGrowing
      <4>2. k \in 1 .. n
        BY <1>3, <4>1 DEF IsLast, UpTo
      <4>3. k \in Q /\ s[k].at # Unset
        BY <1>1, <4>2 DEF Unset
      <4>4. TimesOf(s, T, Q) = Append(TimesOf(s, P, Q), s[i].at - s[k].at)
        BY <3>3, <3>6, <4>3 DEF TimesGrowing
      <4>5. /\ State(i - 1) = [last |-> s[k].at, times |-> TimesOf(s, P, Q)]
            /\ State(i) = [last |-> s[i].at, times |-> TimesOf(s, T, Q)]
        BY <3>2, <3>6
      <4> QED
        BY <3>4, <4>3, <4>4, <4>5 DEF KickStep
    <3> QED
      BY <3>5, <3>6
  <2> QED
    BY <2>1, <2>2
<1> HIDE DEF State, Base
<1>9. Walk(w)
  <2>1. \A i \in 0 .. n : i # 0 => i \in 1 .. n /\ i - 1 \in 0 .. n
    BY <1>1
  <2> QED
    BY <1>7, <1>8, <2>1
<1>10. Walk(f)
  BY <1>9
<1>11. Together(f, w, n)
  <2> HIDE DEF f, w
  <2>1. 0 \in 0 .. n /\ \A i \in 1 .. n : i \in 0 .. n /\ i # 0
    BY <1>1
  <2>2. /\ w[0] = Base /\ f[0] = Base
        /\ \A i \in 1 .. n : w[i] = KickStep(w[i - 1], u[i])
        /\ \A i \in 1 .. n : f[i] = KickStep(f[i - 1], u[i])
    BY <1>9, <1>10, <2>1
  <2> QED
    BY <2>2 DEF Together
<1>12. f[n] = w[n]
  <2> HIDE DEF f, w
  <2> QED
    BY <1>1, <1>11, SameWalk
<1>13. BatchTimeKick(u) = f[n].times
  BY <1>2 DEF BatchTimeKick, Base
<1>14. w[n].times = TimesOf(s, S, Q)
  <2>1. n \in 0 .. n
    BY <1>1
  <2> QED
    BY <1>6, <2>1 DEF State
<1> QED
  <2> HIDE DEF f, w
  <2> QED
    BY <1>12, <1>13, <1>14 DEF S, u

(* s is what is recorded in r after position a, up to some point. *)
WindowOf(r, s, m, n, a) ==
    /\ m \in Nat /\ n \in Nat /\ a \in Nat /\ DOMAIN r = 1 .. m /\ DOMAIN s = 1 .. n
    /\ \A k \in 1 .. n : a + k \in 1 .. m /\ s[k] = r[a + k]

(* S is in the window what R is in the whole. *)
SeenIn(r, s, m, n, a, R, S) ==
    /\ WindowOf(r, s, m, n, a)
    /\ R \in SUBSET (1 .. m) /\ S \in SUBSET (1 .. n)
    /\ \A k \in 1 .. n : k \in S <=> a + k \in R

(* What comes in turn does so in a window. *)
LEMMA WindowInTurn ==
    ASSUME NEW r, NEW s, NEW m, NEW n, NEW a, NEW R, NEW S,
           SeenIn(r, s, m, n, a, R, S), InTurn(r, R)
    PROVE  InTurn(s, S)
<1>0. /\ R \in SUBSET (1 .. m) /\ S \in SUBSET (1 .. n)
      /\ \A k \in 1 .. n : k \in S <=> a + k \in R
  BY DEF SeenIn
<1> SUFFICES ASSUME NEW i \in S, NEW j \in S, i < j, \A k \in S : k <= i \/ j <= k
             PROVE  s[i].event # s[j].event
  BY DEF InTurn
<1>1. /\ m \in Nat /\ n \in Nat /\ a \in Nat
      /\ \A k \in 1 .. n : a + k \in 1 .. m /\ s[k] = r[a + k]
  BY DEF WindowOf, SeenIn
<1>2. i \in 1 .. n /\ j \in 1 .. n
  BY <1>0
<1>3. a + i \in R /\ a + j \in R /\ a + i < a + j
  BY <1>0, <1>1, <1>2
<1>4. ASSUME NEW k \in R
      PROVE  k <= a + i \/ a + j <= k
  <2> SUFFICES ASSUME ~(k <= a + i), ~(a + j <= k)
               PROVE  FALSE
    OBVIOUS
  <2>1. k \in 1 .. m
    BY <1>0
  <2>2. k - a \in 1 .. n /\ a + (k - a) = k
    BY <1>1, <1>2, <2>1
  <2>3. k - a \in S
    BY <1>0, <2>2
  <2>4. ~(k - a <= i) /\ ~(j <= k - a)
    BY <1>1, <1>2, <2>1
  <2> QED
    BY <2>3, <2>4
<1>5. r[a + i].event # r[a + j].event
  BY <1>3, <1>4 DEF InTurn
<1> QED
  BY <1>1, <1>2, <1>5

LEMMA WindowProtocol ==
    ASSUME NEW r, NEW s, NEW m, NEW n, NEW a, WindowOf(r, s, m, n, a), Protocol(r)
    PROVE  Protocol(s)
<1>1. /\ m \in Nat /\ n \in Nat /\ a \in Nat /\ DOMAIN r = 1 .. m /\ DOMAIN s = 1 .. n
      /\ \A k \in 1 .. n : a + k \in 1 .. m /\ s[k] = r[a + k]
  BY DEF WindowOf
<1>2. \A k \in 1 .. n : WellFormed(s[k])
  BY <1>1 DEF Protocol
<1>3. InTurn(s, Netperf(s))
  <2> DEFINE R == Netperf(r)
             S == Netperf(s)
  <2>1. SeenIn(r, s, m, n, a, R, S)
    BY <1>1 DEF Netperf, SeenIn
  <2>2. InTurn(r, R)
    BY DEF Protocol
  <2> HIDE DEF R, S
  <2>3. InTurn(s, S)
    BY <2>1, <2>2, WindowInTurn
  <2> QED
    BY <2>3 DEF S
<1>4. InTurn(s, ExitsAndEntries(s))
  <2> DEFINE R == ExitsAndEntries(r)
             S == ExitsAndEntries(s)
  <2>1. SeenIn(r, s, m, n, a, R, S)
    BY <1>1 DEF ExitsAndEntries, SeenIn
  <2>2. InTurn(r, R)
    BY DEF Protocol
  <2> HIDE DEF R, S
  <2>3. InTurn(s, S)
    BY <2>1, <2>2, WindowInTurn
  <2> QED
    BY <2>3 DEF S
<1>5. ASSUME NEW i \in 1 .. n, s[i].event \in {"kvm_mmio", "kvm_msr"}, i > 1
      PROVE  Is(s[i - 1], "kvm_exit")
  <2>1. i - 1 \in 1 .. n /\ a + i \in 1 .. m /\ a + i > 1 /\ (a + i) - 1 = a + (i - 1)
    BY <1>1, <1>5
  <2>2. s[i] = r[a + i] /\ s[i - 1] = r[a + (i - 1)]
    BY <1>1, <2>1
  <2>3. Is(r[(a + i) - 1], "kvm_exit")
    BY <1>1, <1>5, <2>1, <2>2 DEF Protocol
  <2> QED
    BY <2>1, <2>2, <2>3
<1> QED
  BY <1>1, <1>2, <1>3, <1>4, <1>5 DEF Protocol

(***************************************************************************)
(* The latencies, the exit times and the times between the cuts of the     *)
(* batches that exits_stats finds are the real ones: each transaction is   *)
(* timed from a request of netperf to its own answer, each exit to its own *)
(* entry, and a batch ends where the guest kicks or halts, told by the     *)
(* note that only the event after the exit gives.                          *)
(***************************************************************************)
THEOREM PairsAsTheyBelong == TracesSpec => []PairsBelongTogether
<1>1. ClockInv /\ ProtocolInv => PairsBelongTogether
  <2> SUFFICES ASSUME ClockInv, ProtocolInv, Parsed
               PROVE  PairsBelongTogether
    BY DEF PairsBelongTogether
  <2> DEFINE s == InTest
             t == TestEvents
             n == Len(InTest)
             m == Len(recorded)
             batches == Lasting(s, {i \in DOMAIN s : CutsBatch(s, i)})
  <2>1. /\ s \in Seq(TraceEvent) /\ t \in Seq({AtRealTime(e) : e \in TraceEvent}) /\ Len(t) = n
        /\ \A k \in 1 .. n : t[k] = AtRealTime(s[k])
    BY TestFacts
  <2>2. PICK a \in Nat : \A k \in 1 .. n : a + k \in DOMAIN recorded /\ s[k] = recorded[a + k]
    BY TestFacts
  <2>3. m \in Nat /\ DOMAIN recorded = 1 .. m /\ \A i \in 1 .. m : recorded[i].at \in Nat \ {0}
    <3>1. m \in Nat /\ DOMAIN recorded = 1 .. m
      BY DEF ClockInv, TracesTypeOK
    <3>2. \A i \in 1 .. m : recorded[i].at \in Nat
      BY <3>1, ParsedIsMarked, MarkTimes
    <3> QED
      BY <3>1, <3>2 DEF ClockInv, Chronological
  <2>4. n \in Nat /\ DOMAIN s = 1 .. n
    BY <2>1
  <2>5. Protocol(s)
    <3>1. WindowOf(recorded, s, m, n, a)
      BY <2>2, <2>3, <2>4 DEF WindowOf
    <3>2. Protocol(recorded)
      BY DEF ProtocolInv
    <3> QED
      BY <3>1, <3>2, WindowProtocol
  <2>6. Observed(s, t, n)
    <3>1. \A k \in 1 .. n : s[k].at # 0
      BY <2>2, <2>3
    <3> QED
      BY <2>1, <2>4, <2>5, <3>1 DEF Observed
  <2> HIDE DEF s, t, n
  <2>7. LatencySendRecv(t) = PairTimes(s, Netperf(s), "sys_sendto")
    BY <2>6, SendRecvWalk
  <2>8. ExitTimes(t).times = PairTimes(s, ExitsAndEntries(s), "kvm_exit")
        /\ ExitTimes(t).events = WithNotes(s, t, n)
    BY <2>6, ExitWalk
  <2>9. Kicks = Chosen(batches, DOMAIN batches)
    <3>1. Kicks = TimesOf(s, {i \in DOMAIN s : CutsBatch(s, i)}, 1 .. n)
      <4>1. BatchTimeKick(WithNotes(s, t, n)) = TimesOf(s, {i \in DOMAIN s : CutsBatch(s, i)}, 1 .. n)
        BY <2>6, KickWalk
      <4> QED
        BY <2>8, <4>1 DEF Kicks, t
    <3>2. DOMAIN batches \subseteq 1 .. n
      BY <2>4 DEF Lasting
    <3>3. {i \in DOMAIN batches : i \in 1 .. n} = DOMAIN batches
      BY <3>2
    <3> QED
      BY <3>1, <3>3 DEF TimesOf
  <2>10. LatencySendRecv(TestEvents)
            = PairTimes(s, {i \in DOMAIN s : s[i].arg = "netperf"}, "sys_sendto")
    BY <2>7 DEF Netperf, t
  <2>11. ExitTimes(TestEvents).times
            = PairTimes(s, {i \in DOMAIN s : s[i].event \in {"kvm_exit", "kvm_entry"}}, "kvm_exit")
    BY <2>8 DEF ExitsAndEntries, t
  <2> QED
    BY <2>9, <2>10, <2>11 DEF PairsBelongTogether, s
<1> QED
  BY <1>1, ClockInvariance, ProtocolInvariance, PTL

=============================================================================
