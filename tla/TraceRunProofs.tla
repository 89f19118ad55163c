--------------------------- MODULE TraceRunProofs ---------------------------
(***************************************************************************)
(* Proofs that TraceRun keeps its invariants, and implements HostLease,    *)
(* for every set of VMs and processes and every length of the buffer.      *)
(***************************************************************************)
EXTENDS TraceRun, SequenceTheorems, FiniteSetTheorems, WellFoundedInduction, TLAPS

(* The stages of run(), by what they work on. *)
HostStages    == {"events", "buffer", "enable", "empty", "on"}
GuestStages   == {"guest", "gueston", "begin", "traced", "end", "hostoff", "guestoff", "untraced"}
ReadStages    == {"readguest", "readhost", "shrink", "maps"}
AfterStages   == {"disable", "merge", "stats"}

(* The command of the VM object that run() is at, and the objects between runs. *)
PcOfStage ==
    /\ stage = "idle" => FreshObjects
    /\ stage = "setup" => pc[vm] \in SetupStages
    /\ stage \in HostStages => pc[vm] = "launch"
    /\ stage = "run" => pc[vm] \in RunStages
    /\ stage \in GuestStages => pc[vm] = "test"
    /\ stage \in ReadStages => pc[vm] = IF raising THEN "raised" ELSE "test"
    /\ stage = "teardown" => pc[vm] \in TeardownStages
    /\ stage \in AfterStages => pc[vm] = "idle"

(* The run has tap0; it has been given back when the module is unloaded. *)
HasTap   == stage # "idle" /\ tapDevice[vm] = 0
Returned == pc[vm] \in {"unload", "stopns"} \/ stage \in AfterStages

(* Every QEMU has tap0 open. *)
LiveHaveTap ==
    /\ \A p \in Live : qtap[p] = 0
    /\ Live # {} => 0 \in taps

(* tap0 exists whenever any tap does, and is the only one while it is held. *)
TapZero ==
    /\ 0 \notin taps => taps = {}
    /\ HasTap => taps = IF Returned THEN {} ELSE {0}
    /\ stage = "setup" /\ pc[vm] \in {"netserver", "kvm", "tun"} => tapDevice[vm] = NoTap
    /\ stage = "setup" /\ pc[vm] \in {"link", "hostcfg"} => HasTap
    /\ stage \in HostStages \cup GuestStages \cup AfterStages \cup {"run", "teardown"} => HasTap
    /\ stage \in ReadStages /\ ~raising => HasTap

(* Nothing runs before the launch, and after it only what was launched. *)
LiveIsOwn ==
    /\ HasTap => Live \subseteq {own[vm]}
    /\ stage = "setup" \/ pc[vm] = "launch" => own[vm] = NoPid /\ pid[vm] = NoPid
    /\ stage # "idle" /\ own[vm] # NoPid => HasTap
    /\ stage # "idle" /\ pid[vm] # NoPid => pid[vm] = own[vm]
    /\ stage = "run" /\ pc[vm] # "launch" => own[vm] # NoPid
    /\ stage \in GuestStages => own[vm] # NoPid

(* The sysctl is off, and not because a write-back slipped. *)
SetByRun == csumOff /\ "csum" \notin slips

(* The sysctl is set only while tap0 exists, and teardown cleans up, but for  *)
(* what slips.                                                                *)
Sysctl ==
    /\ SetByRun => 0 \in taps
    /\ SetByRun /\ HasTap => vm \in CsumOffVM /\ SysctlPresent
    /\ pc[vm] \in {"deltun", "unload", "stopns"} => ~SetByRun
    /\ pc[vm] = "stopns" => kvm = "unloaded" \/ "kvm" \in slips
    /\ stage \in AfterStages => HostIsClean

HostSafe == PcOfStage /\ LiveHaveTap /\ TapZero /\ LiveIsOwn /\ Sysctl

(* Markers are taken whenever they are written; tracing is on where run() says. *)
TracingOn  == {"run", "guest", "gueston", "begin", "traced", "end", "hostoff"}
TracingOff == {"guestoff", "untraced", "merge", "stats"}
Completed  == ~raising /\ stage \in FinallyStages \cup {"merge", "stats"}

TracerState ==
    /\ tracer.on => ftrace.on
    /\ stage \in {"empty", "on"} \cup TracingOn => ftrace.events
    /\ stage \in TracingOn => ftrace.on /\ tracer.on
    /\ stage \in TracingOff \/ Completed => ~ftrace.on /\ ~tracer.on
    /\ stage \in {"gueston", "begin", "traced", "end", "hostoff", "guestoff", "untraced"}
         \/ (stage = "readguest" /\ ~raising) => tracer.guest
    /\ stage = "untraced" => guestOn = NoPid

(* What a buffer emptied by this run can hold: resets of its own QEMU, at   *)
(* most one begin, then at most one end.                                    *)
OneTest(s, p) ==
    /\ \A i \in DOMAIN s : s[i] \in {p, "begin", "end"}
    /\ \A i, j \in DOMAIN s : s[i] = "begin" /\ s[j] = "begin" => i = j
    /\ \A i, j \in DOMAIN s : s[i] = "end" /\ s[j] = "end" => i = j
    /\ \A i, j \in DOMAIN s : s[i] = "begin" /\ s[j] = "end" => i < j

Contains(s, r) == \E i \in DOMAIN s : s[i] = r

BufferAndFiles ==
    /\ stage = "on" \/ (stage = "run" /\ pc[vm] = "launch") => ftrace.buf = <<>>
    /\ stage \in {"run"} \cup GuestStages => OneTest(ftrace.buf, own[vm])
    /\ stage \in {"run", "guest", "gueston", "begin"} => ~Contains(ftrace.buf, "begin")
    /\ stage \in {"run", "guest", "gueston", "begin", "traced", "end"} =>
         ~Contains(ftrace.buf, "end")
    /\ Completed /\ stage \in {"readguest", "readhost"} => OneTest(ftrace.buf, own[vm])
    /\ stage \in TryStages \cup {"readguest"} => files = NoFiles
    /\ stage = "readhost" => files.host = <<>>
    /\ Completed => files.guest \in {NoPid, own[vm]} /\ OneTest(files.host, own[vm])
    /\ files.merged => stage \in {"stats", "idle"}
    /\ stage = "stats" => Parses

(* What holds unless a failure was counted. *)
NoFault ==
    faults = 0 =>
        /\ ~raising
        /\ stage = "setup" /\ pc[vm] \in {"netserver", "kvm", "tun"} => taps = {} /\ ~Recording
        /\ stage = "run" /\ pc[vm] # "launch" =>
             own[vm] \in Live /\ qemu[own[vm]] # "stopping"
        /\ pc[vm] \in {"boot", "test"} => own[vm] \in Up
        /\ stage \in {"run", "readguest", "readhost"} \cup GuestStages
             /\ own[vm] \in Up => Contains(ftrace.buf, own[vm])
        /\ stage \in {"begin", "traced", "end", "hostoff", "guestoff"} => guestOn = own[vm]
        /\ stage \in {"traced", "end", "hostoff", "guestoff", "untraced", "readguest", "readhost"} =>
             Contains(ftrace.buf, "begin")
        /\ stage \in {"hostoff", "guestoff", "untraced", "readguest", "readhost"} =>
             Contains(ftrace.buf, "end")
        /\ stage \in {"readhost", "shrink", "maps", "teardown", "disable", "merge"} =>
             files.guest # NoPid
        /\ stage \in {"shrink", "maps", "teardown", "disable", "merge"} =>
             /\ Contains(files.host, own[vm])
             /\ Contains(files.host, "begin") /\ Contains(files.host, "end")
        /\ stage \in {"maps", "teardown", "disable", "merge", "stats"} => ~ftrace.big
        /\ stage \in {"merge", "stats"} => ~ftrace.events
        /\ stage = "idle" => outcome # "aborted"

(* What is left behind, and what a recording host is guarded by. *)
Left ==
    /\ stage = "idle" /\ outcome = "finished" =>
        /\ HostIsClean
        /\ ~Recording
        /\ faults = 0 => ~ftrace.events /\ ~ftrace.big
    /\ Recording /\ faults <= 1 =>
        0 \in taps \/ (Returned /\ raising /\ stage # "idle" /\ faults = 1)

(* Until the first session after a boot, there is no tap, no QEMU, no recording. *)
Booted == stage = "idle" /\ outcome = "none" => taps = {} /\ Live = {} /\ ~Recording

(* The inductive invariant. *)
IInv == TypeOK /\ HostSafe /\ TracerState /\ BufferAndFiles /\ NoFault /\ Left /\ Booted
-----------------------------------------------------------------------------
(* Type correctness. *)

(* One object goes on to its next command. *)
LEMMA StepType ==
  ASSUME pc \in [VM -> Stages], NEW v \in VM, NEW from, NEW to \in Stages,
         Step(v, from, to)
  PROVE  pc' \in [VM -> Stages] /\ pc[v] = from /\ pc'[v] = to
         /\ \A w \in VM : w # v => pc'[w] = pc[w]
BY DEF Step

(* Whether an unchecked command works or slips, only such commands are noted. *)
LEMMA SlipType ==
  ASSUME slips \subseteq Unchecked, NEW what \in {"csum", "kvm", "netserver"},
         Works(what) \/ Slips(what)
  PROVE  slips' \subseteq Unchecked
BY DEF Works, Slips, Unchecked

(* get_pid answers a process or none. *)
LEMMA GetPidType ==
  ASSUME VMTypeOK, NEW v \in VM
  PROVE  GetPid(v) \in Pid \cup {NoPid}
BY DEF VMTypeOK, GetPid, Live

(* The steps of a VM method keep the types, whoever calls the method. *)
LEMMA VmStepType ==
  ASSUME VMTypeOK, NEW v \in VM, Setup(v) \/ Run(v) \/ Teardown(v) \/ Raises(v)
  PROVE  /\ VMTypeOK'
         /\ pc[v] # "idle"
         /\ \A w \in VM : w # v => pc'[w] = pc[w]
<1> USE HostAssumption, VMAssumption
<1> USE DEF VMTypeOK, HostTypeOK, hostVars
<1>a. {"idle", "test", "raised", "netserver", "kvm", "tun", "link", "hostcfg", "launch",
       "params", "pin", "connect", "boot", "shutdown", "reset", "deltun", "unload",
       "stopns"} = Stages
  BY DEF Stages, SetupStages, RunStages, TeardownStages
<1>1. CASE RestartNetserver(v)
  <2>1. slips' \subseteq Unchecked /\ netserver' \in Core \cup {NoCore}
    BY <1>1, SlipType DEF RestartNetserver
  <2>2. pc' \in [VM -> Stages] /\ pc[v] # "idle" /\ \A w \in VM : w # v => pc'[w] = pc[w]
    BY <1>1, <1>a, StepType DEF RestartNetserver
  <2>3. QED
    BY <1>1, <2>1, <2>2 DEF RestartNetserver
<1>2. CASE LoadKvm(v)
  BY <1>2, <1>a, StepType DEF LoadKvm, DisableKvmPoll
<1>3. CASE CreateTun(v)
  BY <1>3, <1>a, StepType DEF CreateTun, TunOutcome, IsFirstFreeTap
<1>4. CASE LinkUp(v)
  BY <1>4, <1>a, StepType DEF LinkUp
<1>5. CASE ConfigureHost(v)
  <2>1. slips' \subseteq Unchecked /\ csumOff' \in BOOLEAN
    BY <1>5, SlipType DEF ConfigureHost, WriteSysctl
  <2>2. pc' \in [VM -> Stages] /\ pc[v] # "idle" /\ \A w \in VM : w # v => pc'[w] = pc[w]
    BY <1>5, <1>a, StepType DEF ConfigureHost
  <2>3. QED
    BY <1>5, <2>1, <2>2 DEF ConfigureHost
<1>6. CASE Launch(v)
  <2>1. /\ pc' \in [VM -> Stages] /\ pc[v] = "launch"
        /\ \A w \in VM : w # v => pc'[w] = pc[w]
    BY <1>6, <1>a, StepType DEF Launch
  <2>2. PICK p \in Pid \ Live :
          /\ qemu' = [qemu EXCEPT ![p] = "starting"]
          /\ qtap' = [qtap EXCEPT ![p] = tapDevice[v]]
          /\ own' = [own EXCEPT ![v] = p]
    BY <1>6 DEF Launch
  <2>3. QED
    BY <1>6, <2>1, <2>2 DEF Launch
<1>7. CASE ChangeParameters(v)
  <2>1. pid' \in [VM -> Pid \cup {NoPid}]
    BY <1>7, GetPidType DEF ChangeParameters, UsePid
  <2>2. QED
    BY <1>7, <2>1, <1>a, StepType DEF ChangeParameters
<1>8. CASE PinProcess(v)
  <2>1. pid' \in [VM -> Pid \cup {NoPid}]
    BY <1>8, GetPidType DEF PinProcess, UsePid
  <2>2. QED
    BY <1>8, <2>1, <1>a, StepType DEF PinProcess
<1>9. CASE Connect(v)
  BY <1>9, <1>a, StepType DEF Connect, Listening
<1>10. CASE ConfigureGuest(v)
  BY <1>10, <1>a, StepType DEF ConfigureGuest
<1>11. CASE Shutdown(v)
  <2>1. qemu' \in [Pid -> {"gone", "starting", "up", "stopping"}]
    BY <1>11 DEF Shutdown, PidAfterShutdown, Up
  <2>2. QED
    BY <1>11, <2>1, <1>a, StepType DEF Shutdown, PidAfterShutdown
<1>12. CASE ResetHostConfiguration(v)
  <2>1. slips' \subseteq Unchecked /\ csumOff' \in BOOLEAN
    BY <1>12, SlipType DEF ResetHostConfiguration, WriteSysctl, CsumOffAfterReset
  <2>2. pc' \in [VM -> Stages] /\ pc[v] # "idle" /\ \A w \in VM : w # v => pc'[w] = pc[w]
    BY <1>12, <1>a, StepType DEF ResetHostConfiguration
  <2>3. QED
    BY <1>12, <2>1, <2>2 DEF ResetHostConfiguration
<1>13. CASE DeleteTun(v)
  BY <1>13, <1>a, StepType DEF DeleteTun, TapFree
<1>14. CASE UnloadKvm(v)
  <2>1. slips' \subseteq Unchecked /\ kvm' \in {"unloaded", "polling", "nopoll"}
    BY <1>14, SlipType DEF UnloadKvm
  <2>2. pc' \in [VM -> Stages] /\ pc[v] # "idle" /\ \A w \in VM : w # v => pc'[w] = pc[w]
    BY <1>14, <1>a, StepType DEF UnloadKvm
  <2>3. QED
    BY <1>14, <2>1, <2>2 DEF UnloadKvm
<1>15. CASE StopNetserver(v)
  <2>1. slips' \subseteq Unchecked /\ netserver' \in Core \cup {NoCore}
    BY <1>15, SlipType DEF StopNetserver
  <2>2. pc' \in [VM -> Stages] /\ pc[v] # "idle" /\ \A w \in VM : w # v => pc'[w] = pc[w]
    BY <1>15, <1>a, StepType DEF StopNetserver
  <2>3. QED
    BY <1>15, <2>1, <2>2 DEF StopNetserver
<1>16. CASE Raises(v)
  BY <1>16, <1>a DEF Raises, SetupOrRunRaises, TeardownRaises, SetupStages, RunStages,
     TeardownStages
<1>17. QED
  BY <1>1, <1>2, <1>3, <1>4, <1>5, <1>6, <1>7, <1>8, <1>9, <1>10, <1>11, <1>12, <1>13,
     <1>14, <1>15, <1>16 DEF Setup, Run, Teardown

(* Before the first session everything is well-typed. *)
LEMMA InitType == Init => TypeOK
<1> SUFFICES ASSUME Init PROVE TypeOK
  OBVIOUS
<1> USE HostAssumption, VMAssumption, TraceAssumption DEF Init
<1>1. HostTypeOK
  <2>1. 0 \in Tap
    BY DEF Tap
  <2>2. QED
    BY <2>1 DEF HostTypeOK, HostBooted
<1>2. VMTypeOK
  BY <1>1 DEF VMTypeOK, FreshObjects, Stages
<1>3. ftrace \in [events : BOOLEAN, on : BOOLEAN, big : BOOLEAN, buf : Seq(Record)]
  BY DEF BootFtrace
<1>4. files \in [guest : Pid \cup {NoPid}, host : Seq(Record), merged : BOOLEAN]
  BY DEF NoFiles
<1>5. tracer \in [host : BOOLEAN, guest : BOOLEAN, on : BOOLEAN]
  BY DEF NoTracer
<1>6. faults \in 0 .. MaxFaults
  OBVIOUS
<1>7. QED
  BY <1>2, <1>3, <1>4, <1>5, <1>6 DEF TypeOK

(* The buffer keeps its type, whatever is appended or overwritten. *)
LEMMA BufferType ==
  ASSUME TypeOK, NEW r \in Record
  PROVE  /\ Append(ftrace.buf, r) \in Seq(Record)
         /\ ftrace.buf \o <<r>> \in Seq(Record)
         /\ ftrace.buf \o <<"begin", "end">> \in Seq(Record)
         /\ ftrace.buf # <<>> => Tail(ftrace.buf) \in Seq(Record)
BY AppendProperties, ConcatProperties, HeadTailProperties DEF TypeOK, Record

(* The count of failures stays within its bound, and the second failure shows. *)
LEMMA CountType ==
  ASSUME TypeOK
  PROVE  /\ OneMore \in 0 .. MaxFaults /\ OneMore > 0 /\ OneMore >= faults
         /\ faults >= 1 => OneMore >= 2
         /\ Counted \in {faults, OneMore}
BY TraceAssumption DEF TypeOK, OneMore, Counted

(* Every step of run() and of the host keeps the types. *)
LEMMA TypeStep == TypeOK /\ [Next]_vars => TypeOK'
<1> SUFFICES ASSUME TypeOK, [Next]_vars PROVE TypeOK'
  OBVIOUS
<1> USE HostAssumption, VMAssumption DEF TryStages, FinallyStages
<1>z. 0 \in 0 .. MaxFaults
  BY TraceAssumption
<1>v. UNCHANGED vmVars => VMTypeOK'
  BY DEF vmVars, hostVars, objVars, TypeOK, VMTypeOK, HostTypeOK, Tap, Live
<1>o. ObjectsReset /\ UNCHANGED hostVars => VMTypeOK'
  BY DEF ObjectsReset, hostVars, TypeOK, VMTypeOK, HostTypeOK, Stages, Tap
<1>e. ASSUME NEW how \in {"aborted", "finished"}, Ends(how), UNCHANGED ftrace,
             faults' \in 0 .. MaxFaults
      PROVE  TypeOK'
  BY <1>e, <1>o DEF Ends, TypeOK, NoTracer
<1>1. CASE StartRun
  <2>1. pc' \in [VM -> Stages] /\ vm' \in VM
    BY <1>1 DEF StartRun, TypeOK, VMTypeOK, Stages, SetupStages
  <2>2. VMTypeOK'
    BY <1>1, <2>1 DEF StartRun, TypeOK, VMTypeOK, HostTypeOK, hostVars
  <2>3. files' \in [guest : Pid \cup {NoPid}, host : Seq(Record), merged : BOOLEAN]
    BY <1>1 DEF StartRun, NoFiles
  <2>4. faults' \in 0 .. MaxFaults
    BY <1>1, <1>z DEF StartRun, TypeOK
  <2>5. QED
    BY <1>1, <2>1, <2>2, <2>3, <2>4 DEF StartRun, At, TypeOK
<1>2. CASE SetupAndRun
  <2>1. VMTypeOK'
    BY <1>2, VmStepType DEF SetupAndRun, TypeOK
  <2>2. /\ stage' \in TryStages \cup FinallyStages
        /\ raising' \in BOOLEAN
        /\ raising' => stage' \in FinallyStages
    <3>1. raising = FALSE /\ stage \in {"setup", "run"}
      BY <1>2 DEF SetupAndRun, TypeOK
    <3>2. \/ stage' = "readguest" /\ raising' = TRUE
          \/ stage' \in {"events", "guest", "setup", "run"} /\ raising' = FALSE
      BY <1>2, <3>1 DEF SetupAndRun
    <3>3. QED
      BY <3>2
  <2>3. QED
    BY <1>2, <2>1, <2>2 DEF SetupAndRun, TypeOK
<1>3. CASE HostTraces
  <2>1. VMTypeOK'
    BY <1>3, <1>v DEF HostTraces, DisableEvents, GrowBuffer, EnableEvents, EmptyTrace,
       TraceOn, HostUnchanged
  <2>2. <<>> \in Seq(Record)
    OBVIOUS
  <2>3. ftrace' \in [events : BOOLEAN, on : BOOLEAN, big : BOOLEAN, buf : Seq(Record)]
    BY <1>3, <2>2 DEF HostTraces, DisableEvents, GrowBuffer, EnableEvents, EmptyTrace,
       BufferEmptied, TraceOn, TypeOK
  <2>4. faults' \in 0 .. MaxFaults /\ tracer' \in [host : BOOLEAN, guest : BOOLEAN, on : BOOLEAN]
    BY <1>3, <1>z DEF HostTraces, DisableEvents, GrowBuffer, EnableEvents, EmptyTrace,
       TraceOn, TypeOK
  <2>5. QED
    BY <1>3, <2>1, <2>3, <2>4 DEF HostTraces, DisableEvents, GrowBuffer, EnableEvents,
       EmptyTrace, TraceOn, HostUnchanged, At, TypeOK
<1>4. CASE GuestTraces
  <2>1. VMTypeOK'
    BY <1>4, <1>v DEF GuestTraces, GuestTracer, GuestTraceOn, HostUnchanged
  <2>2. /\ tracer' \in [host : BOOLEAN, guest : BOOLEAN, on : BOOLEAN]
        /\ guestOn' \in Pid \cup {NoPid}
    BY <1>4 DEF GuestTraces, GuestTracer, GuestTraceOn, HostUnchanged, TypeOK, Up
  <2>3. QED
    BY <1>4, <2>1, <2>2 DEF GuestTraces, GuestTracer, GuestTraceOn, HostUnchanged, At, TypeOK
<1>5. CASE Netperf
  <2>1. VMTypeOK'
    BY <1>5, <1>v DEF Netperf, MarkBegin, TracedNetperf, MarkEnd, UntracedNetperf, HostUnchanged
  <2>2. \A r \in {"begin", "end"} : ftrace.buf \o <<r>> \in Seq(Record)
    BY BufferType DEF Record
  <2>3. ftrace.buf \o <<"begin", "end">> \in Seq(Record)
    BY BufferType DEF Record
  <2>4. ftrace' \in [events : BOOLEAN, on : BOOLEAN, big : BOOLEAN, buf : Seq(Record)]
    BY <1>5, <2>2, <2>3 DEF Netperf, MarkBegin, TracedNetperf, MarkEnd, UntracedNetperf, Marked, TypeOK
  <2>5. QED
    BY <1>5, <2>1, <2>4 DEF Netperf, MarkBegin, TracedNetperf, MarkEnd, UntracedNetperf,
       HostUnchanged, At, TypeOK
<1>6. CASE HostTraceOff \/ GuestTraceOff
  <2>1. VMTypeOK'
    BY <1>6, <1>v DEF HostTraceOff, GuestTraceOff, HostUnchanged
  <2>2. /\ tracer' \in [host : BOOLEAN, guest : BOOLEAN, on : BOOLEAN]
        /\ ftrace' \in [events : BOOLEAN, on : BOOLEAN, big : BOOLEAN, buf : Seq(Record)]
        /\ guestOn' \in Pid \cup {NoPid}
    BY <1>6 DEF HostTraceOff, GuestTraceOff, AfterGuestOff, HostUnchanged, TypeOK
  <2>3. QED
    BY <1>6, <2>1, <2>2 DEF HostTraceOff, GuestTraceOff, HostUnchanged, At, TypeOK
<1>7. CASE ReadGuest \/ ReadHost \/ ShrinkBuffer
  <2>1. VMTypeOK'
    BY <1>7, <1>v DEF ReadGuest, ReadHost, ShrinkBuffer, HostUnchanged
  <2>2. files' \in [guest : Pid \cup {NoPid}, host : Seq(Record), merged : BOOLEAN]
    BY <1>7 DEF ReadGuest, ReadHost, ShrinkBuffer, HostUnchanged, TypeOK, Up
  <2>3. QED
    BY <1>7, <2>1, <2>2 DEF ReadGuest, ReadHost, ShrinkBuffer, HostUnchanged, At, TypeOK
<1>8. CASE CopyMaps
  <2>1. pc' \in [VM -> Stages] /\ pid' \in [VM -> Pid \cup {NoPid}]
    BY <1>8, GetPidType DEF CopyMaps, TypeOK, VMTypeOK, Stages, TeardownStages
  <2>2. VMTypeOK'
    BY <1>8, <2>1 DEF CopyMaps, TypeOK, VMTypeOK, HostTypeOK, hostVars
  <2>3. QED
    BY <1>8, <2>2 DEF CopyMaps, At, TypeOK
<1>9. CASE TeardownVM
  <2>1. VMTypeOK'
    BY <1>9, VmStepType DEF TeardownVM, TypeOK
  <2>2. QED
    BY <1>9, <2>1 DEF TeardownVM, TypeOK
<1>10. CASE DisableAllEvents
  <2>1. PICK done \in BOOLEAN :
          ftrace' = Disabled(done) /\ faults' = IF done THEN faults ELSE OneMore
    BY <1>10 DEF DisableAllEvents
  <2>2. ftrace' \in [events : BOOLEAN, on : BOOLEAN, big : BOOLEAN, buf : Seq(Record)]
    BY <2>1 DEF Disabled, TypeOK
  <2>3. faults' \in 0 .. MaxFaults
    BY <2>1, CountType DEF TypeOK
  <2>4. CASE RaisesAgain
    <3>1. Ends("aborted") /\ VMTypeOK'
      BY <1>10, <1>o, <2>4 DEF DisableAllEvents, Ends
    <3>2. QED
      BY <2>2, <2>3, <3>1 DEF Ends, NoTracer, TypeOK
  <2>5. CASE ~RaisesAgain
    BY <1>10, <1>v, <2>2, <2>3, <2>5 DEF DisableAllEvents, TypeOK, RaisesAgain
  <2>6. QED
    BY <2>4, <2>5
<1>11. CASE MergeTraces
  <2>1. CASE Parses
    BY <1>11, <1>v, <2>1 DEF MergeTraces, TypeOK
  <2>2. CASE ~Parses
    BY <1>11, <1>e, <2>2 DEF MergeTraces, TypeOK
  <2>3. QED
    BY <2>1, <2>2
<1>12. CASE Stats \/ FinallyRaises \/ MergeOrStatsRaises
  <2>1. faults' \in 0 .. MaxFaults
    BY <1>12, CountType DEF Stats, FinallyRaises, MergeOrStatsRaises, TypeOK
  <2>2. QED
    BY <1>12, <1>e, <2>1 DEF Stats, FinallyRaises, MergeOrStatsRaises
<1>13. CASE TryRaises
  <2>1. pc' \in [VM -> Stages] /\ faults' \in 0 .. MaxFaults
    BY <1>13, CountType DEF TryRaises, TypeOK, VMTypeOK, Stages
  <2>2. VMTypeOK'
    BY <1>13, <2>1 DEF TryRaises, TypeOK, VMTypeOK, HostTypeOK, hostVars
  <2>3. QED
    BY <1>13, <2>1, <2>2 DEF TryRaises, TypeOK
<1>14. CASE ReadRaises
  BY <1>14, <1>v, CountType DEF ReadRaises, HostUnchanged, TypeOK
<1>15. CASE Overruns
  <2>1. VMTypeOK'
    BY <1>15 DEF Overruns, RestUnchanged, hostVars, objVars, TypeOK, VMTypeOK, HostTypeOK
  <2>2. QED
    <3>1. Tail(ftrace.buf) \in Seq(Record)
      BY <1>15, HeadTailProperties DEF Overruns, TypeOK
    <3>2. /\ ftrace' \in [events : BOOLEAN, on : BOOLEAN, big : BOOLEAN, buf : Seq(Record)]
          /\ faults' \in 0 .. MaxFaults
      BY <1>15, <3>1, CountType DEF Overruns, TypeOK
    <3>3. QED
      BY <1>15, <2>1, <3>2 DEF Overruns, RestUnchanged, TypeOK
<1>16. CASE Reboot
  <2>1. VMTypeOK'
    BY <1>16 DEF Reboot, HostReboots, ObjectsReset, TypeOK, VMTypeOK, HostTypeOK, Tap, Stages
  <2>2. <<>> \in Seq(Record)
    OBVIOUS
  <2>3. QED
    BY <1>16, <2>1, <2>2, CountType DEF Reboot, TypeOK, NoTracer, BootFtrace
<1>17. ASSUME NEW p \in Pid, Boots(p) \/ GuestResets(p) \/ Ended(p) PROVE TypeOK'
  <2>1. VMTypeOK'
    BY <1>17 DEF Boots, GuestResets, Ended, QemuStarts, QemuExits, RestUnchanged, hostVars,
       objVars, TypeOK, VMTypeOK, HostTypeOK
  <2>2. Append(ftrace.buf, p) \in Seq(Record)
    BY BufferType DEF Record
  <2>3. ftrace' \in [events : BOOLEAN, on : BOOLEAN, big : BOOLEAN, buf : Seq(Record)]
    BY <1>17, <2>2 DEF Boots, GuestResets, Ended, Recorded, TypeOK
  <2>4. faults' \in 0 .. MaxFaults /\ guestOn' \in Pid \cup {NoPid}
    BY <1>17, CountType DEF Boots, GuestResets, Ended, TypeOK
  <2>5. QED
    BY <1>17, <2>1, <2>3, <2>4 DEF Boots, GuestResets, Ended, RestUnchanged, TypeOK
<1>18. CASE UNCHANGED vars
  BY <1>18, <1>v DEF vars, traceVars, TypeOK
<1>19. QED
  BY <1>1, <1>2, <1>3, <1>4, <1>5, <1>6, <1>7, <1>8, <1>9, <1>10, <1>11, <1>12, <1>13,
     <1>14, <1>15, <1>16, <1>17, <1>18
  DEF Next, Progress, TryBlock, Finally, Fault, Guests

(* TypeOK: every run of run() keeps every variable within its type. *)
THEOREM TypeCorrect == Spec => []TypeOK
BY InitType, TypeStep, PTL DEF Spec

-----------------------------------------------------------------------------
(* Safety of the host: the commands of the VM object. *)

(* Where run() is when the VM object executes a command, and where it goes. *)
LEMMA CommandStage ==
  ASSUME TypeOK, PcOfStage, SetupAndRun \/ TeardownVM,
         NEW from, NEW to, Step(vm, from, to),
         \/ from \in SetupStages /\ to \in SetupStages \cup {"launch", "raised"}
         \/ from \in RunStages /\ to \in RunStages \cup {"test"} /\ to # "launch"
         \/ from \in TeardownStages /\ to \in TeardownStages \cup {"idle"}
  PROVE  /\ pc[vm] = from /\ pc'[vm] = to /\ vm' = vm
         /\ from \in SetupStages =>
              /\ stage = "setup" /\ ~raising
              /\ stage' = IF to = "raised" THEN "readguest"
                          ELSE IF to = "launch" THEN "events" ELSE "setup"
              /\ raising' = (to = "raised")
         /\ from \in RunStages =>
              /\ stage = "run" /\ ~raising /\ ~raising'
              /\ stage' = IF to = "test" THEN "guest" ELSE "run"
         /\ from \in TeardownStages =>
              /\ stage = "teardown" /\ raising' = raising
              /\ stage' = IF to = "idle" THEN "disable" ELSE "teardown"
         /\ PcOfStage'
<1> USE DEF SetupStages, RunStages, TeardownStages
<1>1. pc[vm] = from /\ pc'[vm] = to /\ vm' = vm
  BY DEF Step, SetupAndRun, TeardownVM, TypeOK, VMTypeOK
<1>2. CASE from \in SetupStages
  <2>1. stage = "setup" /\ raising = FALSE /\ SetupAndRun
    BY <1>1, <1>2 DEF PcOfStage, SetupAndRun, TeardownVM, TypeOK, FinallyStages
  <2>2. /\ stage' = IF to = "raised" THEN "readguest"
                    ELSE IF to = "launch" THEN "events" ELSE "setup"
        /\ raising' = (to = "raised")
    BY <1>1, <1>2, <2>1 DEF SetupAndRun
  <2>3. PcOfStage'
    BY <1>1, <1>2, <2>2 DEF PcOfStage, HostStages, GuestStages, ReadStages, AfterStages
  <2>4. QED
    BY <1>1, <1>2, <2>1, <2>2, <2>3
<1>3. CASE from \in RunStages
  <2>1. stage = "run" /\ raising = FALSE /\ SetupAndRun
    BY <1>1, <1>3 DEF PcOfStage, SetupAndRun, TeardownVM, TypeOK, FinallyStages
  <2>2. stage' = (IF to = "test" THEN "guest" ELSE "run") /\ raising' = FALSE
    BY <1>1, <1>3, <2>1 DEF SetupAndRun
  <2>3. PcOfStage'
    BY <1>1, <1>3, <2>2 DEF PcOfStage, HostStages, GuestStages, ReadStages, AfterStages
  <2>4. QED
    BY <1>1, <1>3, <2>1, <2>2, <2>3
<1>4. CASE from \in TeardownStages
  <2>1. stage = "teardown" /\ TeardownVM
    BY <1>1, <1>4 DEF PcOfStage, SetupAndRun, TeardownVM
  <2>2. stage' = (IF to = "idle" THEN "disable" ELSE "teardown") /\ raising' = raising
    BY <1>1, <1>4, <2>1 DEF TeardownVM
  <2>3. PcOfStage'
    BY <1>1, <1>4, <2>2 DEF PcOfStage, HostStages, GuestStages, ReadStages, AfterStages
  <2>4. QED
    BY <1>1, <1>4, <2>1, <2>2, <2>3
<1>5. QED
  BY <1>2, <1>3, <1>4

(* Every command of a VM method keeps the host's invariant. *)
LEMMA CommandSafe == TypeOK /\ HostSafe /\ (SetupAndRun \/ TeardownVM) => HostSafe'
<1> SUFFICES ASSUME TypeOK, HostSafe, SetupAndRun \/ TeardownVM PROVE HostSafe'
  OBVIOUS
<1> USE HostAssumption, VMAssumption
<1>p. PcOfStage
  BY DEF HostSafe
<1>c. /\ vm \in VM /\ taps \subseteq Tap /\ SetByRun \in BOOLEAN
      /\ tapDevice \in [VM -> Tap \cup {NoTap}]
      /\ pid \in [VM -> Pid \cup {NoPid}] /\ own \in [VM -> Pid \cup {NoPid}]
      /\ qemu \in [Pid -> {"gone", "starting", "up", "stopping"}]
      /\ qtap \in [Pid -> Tap \cup {NoTap}]
  BY DEF TypeOK, VMTypeOK, HostTypeOK, SetByRun
<1> USE DEF HostSafe, LiveHaveTap, TapZero, LiveIsOwn, Sysctl, HasTap, Returned,
        SetupStages, RunStages, TeardownStages, HostStages, GuestStages, ReadStages, AfterStages
<1>1. CASE RestartNetserver(vm)
  <2>1. /\ UNCHANGED <<taps, kvm, qemu, qtap, tapDevice, pid, own>> /\ Live' = Live
        /\ pc[vm] = "netserver" /\ SetByRun' = SetByRun
    BY <1>1 DEF RestartNetserver, Step, Live, Works, Slips, SetByRun
  <2>2. QED
    BY <1>1, <2>1, <1>c, <1>p, CommandStage DEF RestartNetserver
<1>2. CASE LoadKvm(vm)
  BY <1>2, <1>c, <1>p, CommandStage DEF LoadKvm, Live, SetByRun
<1>4. CASE LinkUp(vm)
  BY <1>4, <1>c, <1>p, CommandStage DEF LinkUp, hostVars, Live, SetByRun
<1>5. CASE ConfigureHost(vm)
  <2>1. /\ UNCHANGED <<taps, kvm, qemu, qtap, tapDevice, pid, own>> /\ Live' = Live
        /\ pc[vm] = "hostcfg" /\ (SetByRun' => SetByRun \/ (vm \in CsumOffVM /\ SysctlPresent))
    BY <1>5 DEF ConfigureHost, Step, Live, Works, Slips, WriteSysctl, SetByRun
  <2>2. QED
    BY <1>5, <2>1, <1>c, <1>p, CommandStage DEF ConfigureHost
<1>6. CASE CreateTun(vm)
  <2>1. PICK t \in Tap :
          /\ IsFirstFreeTap(t)
          /\ Step(vm, "tun", TunOutcome(t))
          /\ taps' = taps \cup {t}
          /\ tapDevice' = [tapDevice EXCEPT ![vm] = t]
          /\ UNCHANGED <<kvm, csumOff, netserver, qemu, qtap, slips, pid, own, mon>>
    BY <1>6 DEF CreateTun
  <2>2. Live' = Live /\ tapDevice'[vm] = t /\ own' = own /\ pid' = pid
        /\ SetByRun' = SetByRun /\ NoTap # 0
    BY <2>1, <1>c DEF Live, NoTap, SetByRun
  <2>3. TunOutcome(t) \in {"link", "raised"}
    BY DEF TunOutcome
  <2>4. /\ pc[vm] = "tun" /\ pc'[vm] = TunOutcome(t) /\ vm' = vm
        /\ stage = "setup" /\ stage' = (IF t = 0 THEN "setup" ELSE "readguest")
        /\ raising' = (t # 0)
        /\ PcOfStage'
    BY <2>1, <2>3, <1>p, CommandStage DEF TunOutcome
  <2>5. CASE t = 0
    <3>1. pc'[vm] = "link" /\ taps = {} /\ taps' = {0} /\ Live = {} /\ ~SetByRun
      BY <2>1, <2>4, <2>5 DEF TunOutcome, IsFirstFreeTap
    <3>2. QED
      BY <2>1, <2>2, <2>4, <2>5, <3>1
  <2>6. CASE t # 0
    <3>1. 0 \in taps
      BY <2>1, <2>6 DEF IsFirstFreeTap, Tap
    <3>2. QED
      BY <2>1, <2>2, <2>4, <2>6, <3>1 DEF TunOutcome
  <2>7. QED
    BY <2>5, <2>6
<1>7. CASE Launch(vm)
  <2>1. PICK p \in Pid \ Live :
          /\ qemu' = [qemu EXCEPT ![p] = "starting"]
          /\ qtap' = [qtap EXCEPT ![p] = tapDevice[vm]]
          /\ own' = [own EXCEPT ![vm] = p]
    BY <1>7 DEF Launch
  <2>2. /\ pc[vm] = "launch" /\ pc'[vm] = "params" /\ vm' = vm
        /\ stage = "run" /\ stage' = "run" /\ raising' = FALSE
        /\ PcOfStage'
    BY <1>7, <1>p, CommandStage DEF Launch
  <2>3. HasTap /\ own[vm] = NoPid /\ pid[vm] = NoPid /\ Live = {} /\ taps = {0}
    BY <2>2, <1>c DEF Live
  <2>4. Live' = {p} /\ own'[vm] = p /\ qtap'[p] = 0
    BY <2>1, <2>3, <1>c DEF Live
  <2>5. UNCHANGED <<taps, SetByRun, tapDevice, pid>>
    BY <1>7 DEF Launch, SetByRun
  <2>6. QED
    BY <2>2, <2>3, <2>4, <2>5
<1>8. CASE ChangeParameters(vm) \/ PinProcess(vm) \/ Connect(vm) \/ ConfigureGuest(vm)
  <2>1. /\ stage = "run" /\ stage' \in {"run", "guest"} /\ vm' = vm /\ raising' = FALSE
        /\ pc'[vm] \in {"pin", "connect", "boot", "test"} /\ PcOfStage'
        /\ pc[vm] \in {"params", "pin", "connect", "boot"}
    BY <1>8, <1>p, CommandStage DEF ChangeParameters, PinProcess, Connect, ConfigureGuest
  <2>2. UNCHANGED <<taps, SetByRun, kvm, tapDevice, own, qemu, qtap>> /\ Live' = Live
    BY <1>8 DEF ChangeParameters, PinProcess, Connect, ConfigureGuest, hostVars, Live, SetByRun
  <2>3. pid'[vm] = NoPid \/ pid'[vm] = own[vm]
    BY <1>8, <2>1, <1>c DEF ChangeParameters, PinProcess, Connect, ConfigureGuest, UsePid, GetPid, Live
  <2>4. QED
    BY <2>1, <2>2, <2>3
<1>9. CASE Shutdown(vm) \/ ResetHostConfiguration(vm)
  <2>1. /\ stage = "teardown" /\ stage' = "teardown" /\ vm' = vm
        /\ pc'[vm] = (IF pc[vm] = "shutdown" THEN "reset" ELSE "deltun") /\ PcOfStage'
        /\ pc[vm] \in {"shutdown", "reset"} /\ raising' = raising
    BY <1>9, <1>p, CommandStage DEF Shutdown, ResetHostConfiguration
  <2>2. UNCHANGED <<taps, kvm, tapDevice, own, qtap>>
    BY <1>9 DEF Shutdown, ResetHostConfiguration
  <2>3. Live' = Live
    BY <1>9, <1>c DEF Shutdown, ResetHostConfiguration, CsumOffAfterReset, Live, Up
  <2>4. pid'[vm] = NoPid \/ pid'[vm] = pid[vm]
    BY <1>9, <1>c DEF Shutdown, ResetHostConfiguration, PidAfterShutdown
  <2>5. SetByRun' => SetByRun
    BY <1>9, <2>1, <1>c DEF Shutdown, ResetHostConfiguration, CsumOffAfterReset, Step, WriteSysctl,
       Works, Slips, SetByRun
  <2>6. pc[vm] = "reset" => ~SetByRun'
    BY <1>9, <2>1, <1>c DEF Shutdown, ResetHostConfiguration, CsumOffAfterReset, Step, WriteSysctl,
       Works, Slips, SetByRun
  <2>7. QED
    BY <2>1, <2>2, <2>3, <2>4, <2>5, <2>6
<1>10. CASE DeleteTun(vm)
  <2>1. /\ stage = "teardown" /\ stage' = "teardown" /\ vm' = vm
        /\ pc[vm] = "deltun" /\ pc'[vm] = "unload" /\ PcOfStage' /\ raising' = raising
    BY <1>10, <1>p, CommandStage DEF DeleteTun
  <2>2. Live = {} /\ Live' = {} /\ taps' = {} /\ ~SetByRun'
    BY <1>10, <2>1 DEF DeleteTun, TapFree, HoldersOf, Live, SetByRun
  <2>3. UNCHANGED <<tapDevice, pid, own>>
    BY <1>10 DEF DeleteTun
  <2>4. QED
    BY <2>1, <2>2, <2>3
<1>11. CASE UnloadKvm(vm) \/ StopNetserver(vm)
  <2>1. /\ stage = "teardown" /\ vm' = vm /\ PcOfStage' /\ raising' = raising
        /\ pc[vm] \in {"unload", "stopns"}
        /\ pc'[vm] = (IF pc[vm] = "unload" THEN "stopns" ELSE "idle")
        /\ stage' = (IF pc[vm] = "unload" THEN "teardown" ELSE "disable")
    BY <1>11, <1>p, CommandStage DEF UnloadKvm, StopNetserver
  <2>2. Live = {} /\ Live' = {} /\ taps = {} /\ taps' = {} /\ ~SetByRun'
        /\ (kvm' = "unloaded" \/ "kvm" \in slips')
    BY <1>11, <2>1 DEF UnloadKvm, StopNetserver, Step, Live, Works, Slips, SetByRun
  <2>3. UNCHANGED <<tapDevice, pid, own>>
    BY <1>11 DEF UnloadKvm, StopNetserver
  <2>4. pc[vm] = "stopns" => HostIsClean'
    BY <1>11, <2>1, <2>2 DEF UnloadKvm, StopNetserver, Step, HostIsClean, RestoredOrSlipped,
       SetByRun, Works, Slips
  <2>5. QED
    BY <2>1, <2>2, <2>3, <2>4
<1>12. QED
  BY <1>1, <1>2, <1>4, <1>5, <1>6, <1>7, <1>8, <1>9, <1>10, <1>11
  DEF SetupAndRun, TeardownVM, Setup, Run, Teardown

(* A statement of run() that leaves the VM object and the host alone. *)
LEMMA MovesOn ==
  ASSUME TypeOK, HostSafe, UNCHANGED <<vmVars, vm, raising>>,
         \/ stage' = stage
         \/ stage \in HostStages /\ stage' \in HostStages \cup {"run"}
         \/ stage \in GuestStages /\ stage' \in GuestStages \cup {"readguest"}
         \/ stage \in ReadStages /\ stage' \in ReadStages
         \/ stage \in AfterStages /\ stage' \in AfterStages
  PROVE  HostSafe'
<1> USE DEF HostStages, GuestStages, ReadStages, AfterStages
<1>1. /\ UNCHANGED <<taps, SetByRun, kvm, slips, qemu, qtap, pc, tapDevice, pid, own, vm>>
      /\ raising' = raising /\ Live' = Live /\ FreshObjects' = FreshObjects /\ HostIsClean' = HostIsClean
  BY DEF vmVars, hostVars, objVars, Live, FreshObjects, HostIsClean, RestoredOrSlipped, SetByRun
<1>2. stage \in GuestStages => raising = FALSE
  BY DEF TypeOK, FinallyStages
<1>3. PcOfStage'
  BY <1>1, <1>2 DEF HostSafe, PcOfStage, RunStages, SetupStages, TeardownStages
<1>4. stage \in HostStages \cup GuestStages \cup ReadStages =>
        pc[vm] \notin {"unload", "stopns"}
  BY DEF HostSafe, PcOfStage
<1>5. LiveHaveTap' /\ TapZero'
  BY <1>1, <1>2, <1>4 DEF HostSafe, LiveHaveTap, TapZero, HasTap, Returned
<1>6. LiveIsOwn' /\ Sysctl'
  BY <1>1, <1>2, <1>4 DEF HostSafe, PcOfStage, LiveIsOwn, TapZero, Sysctl, HasTap
<1>7. QED
  BY <1>3, <1>5, <1>6 DEF HostSafe

(* What every way to return to "idle" has in common. *)
LEMMA EndsSafe ==
  ASSUME TypeOK, HostSafe, ObjectsReset, stage' = "idle", vm' = vm, UNCHANGED hostVars \/ HostReboots
  PROVE  HostSafe'
<1>1. FreshObjects' /\ pc'[vm] = "idle"
  BY DEF ObjectsReset, FreshObjects, TypeOK
<1>2. \/ Live' = Live /\ taps' = taps /\ SetByRun' = SetByRun /\ qtap' = qtap
      \/ Live' = {} /\ taps' = {} /\ SetByRun' = FALSE
  BY DEF hostVars, HostReboots, Live, SetByRun
<1>3. QED
  BY <1>1, <1>2 DEF HostSafe, PcOfStage, LiveHaveTap, TapZero, LiveIsOwn, Sysctl, HasTap,
     HostStages, GuestStages, ReadStages, AfterStages

(* So does every statement of run(), and whatever happens to the host. *)
LEMMA HostStep == TypeOK /\ HostSafe /\ [Next]_vars => HostSafe'
<1> SUFFICES ASSUME TypeOK, HostSafe, [Next]_vars PROVE HostSafe'
  OBVIOUS
<1> USE HostAssumption, VMAssumption
<1>1. CASE StartRun
  <2>1. /\ vm' \in VM /\ pc'[vm'] = "netserver" /\ stage' = "setup" /\ UNCHANGED hostVars
        /\ tapDevice'[vm'] = NoTap /\ own'[vm'] = NoPid /\ pid'[vm'] = NoPid
    BY <1>1 DEF StartRun, At, HostSafe, PcOfStage, FreshObjects, TypeOK, VMTypeOK
  <2>2. Live' = Live /\ NoTap # 0 /\ SetByRun' = SetByRun
    BY <2>1 DEF hostVars, Live, NoTap, SetByRun
  <2>3. QED
    BY <2>1, <2>2 DEF hostVars, HostSafe, PcOfStage, LiveHaveTap, TapZero, LiveIsOwn, Sysctl, HasTap,
       HostStages, GuestStages, ReadStages, AfterStages, SetupStages
<1>2. CASE SetupAndRun \/ TeardownVM
  BY <1>2, CommandSafe
<1>3. CASE HostTraces
  BY <1>3, MovesOn DEF HostTraces, DisableEvents, GrowBuffer, EnableEvents, EmptyTrace, TraceOn,
     HostUnchanged, At, HostStages
<1>4. CASE GuestTraces \/ Netperf \/ HostTraceOff \/ GuestTraceOff
  BY <1>4, MovesOn DEF GuestTraces, GuestTracer, GuestTraceOn, Netperf, MarkBegin, TracedNetperf,
     MarkEnd, UntracedNetperf, HostTraceOff, GuestTraceOff, HostUnchanged, At, GuestStages
<1>5. CASE ReadGuest \/ ReadHost \/ ShrinkBuffer \/ ReadRaises
  BY <1>5, MovesOn DEF ReadGuest, ReadHost, ShrinkBuffer, ReadRaises, HostUnchanged, At, ReadStages
<1>6. CASE CopyMaps
  <2>1. GetPid(vm) = own[vm] /\ own[vm] # NoPid /\ HasTap /\ vm \in VM
    BY <1>6 DEF CopyMaps, At, CanReadMaps, GetPid, Live, HostSafe, LiveIsOwn, TypeOK
  <2>2. /\ stage = "maps" /\ stage' = "teardown" /\ pc'[vm] = "shutdown" /\ pid'[vm] = own[vm]
        /\ UNCHANGED <<taps, SetByRun, kvm, qemu, qtap, tapDevice, own, vm, raising>> /\ Live' = Live
    BY <1>6, <2>1 DEF CopyMaps, At, TypeOK, VMTypeOK, hostVars, Live, SetByRun
  <2>3. pc[vm] \in {"raised", "test"}
    BY <2>2 DEF HostSafe, PcOfStage, ReadStages
  <2>4. QED
    BY <2>1, <2>2, <2>3 DEF HostSafe, PcOfStage, LiveHaveTap, TapZero, LiveIsOwn, Sysctl, HasTap, Returned,
       HostStages, GuestStages, ReadStages, AfterStages, TeardownStages
<1>7. CASE DisableAllEvents
  <2>1. CASE RaisesAgain
    BY <1>7, <2>1, EndsSafe DEF DisableAllEvents, Ends
  <2>2. CASE ~RaisesAgain
    BY <1>7, <2>2, MovesOn DEF DisableAllEvents, AfterStages
  <2>3. QED
    BY <2>1, <2>2
<1>8. CASE MergeTraces
  <2>1. CASE Parses
    BY <1>8, <2>1, MovesOn DEF MergeTraces, AfterStages
  <2>2. CASE ~Parses
    BY <1>8, <2>2, EndsSafe DEF MergeTraces, Ends
  <2>3. QED
    BY <2>1, <2>2
<1>9. CASE Stats \/ FinallyRaises \/ MergeOrStatsRaises
  BY <1>9, EndsSafe DEF Stats, FinallyRaises, MergeOrStatsRaises, Ends
<1>10. CASE Reboot
  BY <1>10, EndsSafe DEF Reboot
<1>11. CASE TryRaises
  <2>1. /\ stage \in TryStages /\ stage' = "readguest" /\ pc'[vm] = "raised" /\ raising'
        /\ UNCHANGED <<taps, SetByRun, qemu, qtap, tapDevice, pid, own, vm>> /\ Live' = Live
    BY <1>11 DEF TryRaises, TypeOK, VMTypeOK, hostVars, Live, SetByRun
  <2>2. ~Returned /\ ~Returned' /\ HasTap' = HasTap
    BY <2>1 DEF Returned, HasTap, HostSafe, PcOfStage, TryStages, SetupStages, RunStages, HostStages,
       GuestStages, AfterStages
  <2>3. QED
    BY <2>1, <2>2 DEF HostSafe, PcOfStage, LiveHaveTap, TapZero, LiveIsOwn, Sysctl, HasTap,
       HostStages, GuestStages, ReadStages, AfterStages, TryStages
<1>12. CASE Overruns \/ UNCHANGED vars
  BY <1>12, MovesOn DEF Overruns, RestUnchanged, vars, vmVars, traceVars
<1>13. ASSUME NEW p \in Pid, Boots(p) \/ GuestResets(p) \/ Ended(p) PROVE HostSafe'
  <2>1. /\ UNCHANGED <<taps, kvm, csumOff, netserver, slips, qtap, pc, tapDevice, pid, own, mon, stage, vm, raising>>
        /\ Live' \subseteq Live
    BY <1>13 DEF Boots, GuestResets, Ended, QemuStarts, QemuExits, RestUnchanged, hostVars, objVars,
       Live, TypeOK, VMTypeOK, HostTypeOK
  <2>2. FreshObjects' = FreshObjects /\ HasTap' = HasTap /\ Returned' = Returned
        /\ (HostIsClean => HostIsClean') /\ SetByRun' = SetByRun
    BY <2>1 DEF FreshObjects, HasTap, Returned, HostIsClean, RestoredOrSlipped, SetByRun
  <2>3. QED
    BY <2>1, <2>2 DEF HostSafe, PcOfStage, LiveHaveTap, TapZero, LiveIsOwn, Sysctl
<1>14. QED
  BY <1>1, <1>2, <1>3, <1>4, <1>5, <1>6, <1>7, <1>8, <1>9, <1>10, <1>11, <1>12, <1>13
  DEF Next, Progress, TryBlock, Finally, Fault, Guests

-----------------------------------------------------------------------------
(* The tracers. *)

(* The tracers and what ftrace does go together at every stage. *)
LEMMA TracerStep == TypeOK /\ TracerState /\ [Next]_vars => TracerState'
<1> SUFFICES ASSUME TypeOK, TracerState, [Next]_vars PROVE TracerState'
  OBVIOUS
<1> USE DEF TracingOn, TracingOff, Completed, FinallyStages
<1>t. /\ tracer \in [host : BOOLEAN, guest : BOOLEAN, on : BOOLEAN]
      /\ ftrace \in [events : BOOLEAN, on : BOOLEAN, big : BOOLEAN, buf : Seq(Record)]
      /\ raising \in BOOLEAN
      /\ raising => stage \in FinallyStages
  BY DEF TypeOK
<1>i. stage' = "idle" /\ tracer' = NoTracer => TracerState'
  BY DEF TracerState, NoTracer
<1>1. CASE StartRun
  BY <1>1, <1>t DEF StartRun, At, TracerState
<1>2. CASE SetupAndRun
  <2>1. /\ raising = FALSE /\ stage \in {"setup", "run"} /\ UNCHANGED <<tracer, ftrace, guestOn>>
        /\ \/ stage' = "readguest" /\ raising' = TRUE
           \/ stage' \in {"events", "setup"} /\ raising' = FALSE
           \/ stage' \in {"guest", "run"} /\ stage = "run" /\ raising' = FALSE
    <3>1. raising = FALSE /\ stage \in {"setup", "run"} /\ UNCHANGED <<tracer, ftrace, guestOn>>
      BY <1>2, <1>t DEF SetupAndRun
    <3>2. pc'[vm] = "test" => stage = "run"
      BY <1>2, <1>t DEF SetupAndRun, Setup, RestartNetserver, LoadKvm, CreateTun, TunOutcome, LinkUp,
         ConfigureHost, Step, TypeOK, VMTypeOK
    <3>3. \/ stage' = "readguest" /\ raising' = TRUE
          \/ stage' \in {"events", "setup"} /\ raising' = FALSE
          \/ stage' \in {"guest", "run"} /\ stage = "run" /\ raising' = FALSE
      BY <1>2, <3>1, <3>2 DEF SetupAndRun
    <3>4. QED
      BY <3>1, <3>3
  <2>2. QED
    BY <2>1, <1>t DEF TracerState
<1>3. CASE HostTraces
  BY <1>3, <1>t DEF HostTraces, DisableEvents, GrowBuffer, EnableEvents, EmptyTrace, TraceOn,
     HostUnchanged, At, TracerState
<1>4. CASE GuestTraces
  BY <1>4, <1>t DEF GuestTraces, GuestTracer, GuestTraceOn, HostUnchanged, At, TracerState
<1>5. CASE Netperf
  BY <1>5, <1>t DEF Netperf, MarkBegin, TracedNetperf, MarkEnd, UntracedNetperf, Marked,
     HostUnchanged, At, TracerState
<1>6. CASE HostTraceOff \/ GuestTraceOff
  BY <1>6, <1>t DEF HostTraceOff, GuestTraceOff, AfterGuestOff, HostUnchanged, At, TracerState
<1>7. CASE ReadGuest \/ ReadHost \/ ShrinkBuffer \/ ReadRaises
  BY <1>7, <1>t DEF ReadGuest, ReadHost, ShrinkBuffer, ReadRaises, HostUnchanged, At, TracerState
<1>8. CASE CopyMaps \/ TeardownVM
  BY <1>8, <1>t DEF CopyMaps, TeardownVM, At, TracerState
<1>9. CASE DisableAllEvents
  <2>1. PICK done \in BOOLEAN : ftrace' = Disabled(done)
    BY <1>9 DEF DisableAllEvents
  <2>2. CASE RaisesAgain
    BY <1>9, <2>2, <1>i DEF DisableAllEvents, Ends
  <2>3. CASE ~RaisesAgain
    <3>1. ftrace'.on = ftrace.on
      BY <2>1, <1>t DEF Disabled
    <3>2. stage = "disable" /\ stage' = "merge" /\ raising = FALSE /\ raising' = FALSE
          /\ tracer' = tracer /\ guestOn' = guestOn
      BY <1>9, <2>3, <1>t DEF DisableAllEvents, RaisesAgain
    <3>3. QED
      BY <3>1, <3>2 DEF TracerState
  <2>4. QED
    BY <2>2, <2>3
<1>10. CASE MergeTraces \/ Stats \/ FinallyRaises \/ MergeOrStatsRaises
  BY <1>10, <1>t, <1>i DEF MergeTraces, Stats, FinallyRaises, MergeOrStatsRaises, Ends, TracerState
<1>11. CASE TryRaises
  BY <1>11, <1>t DEF TryRaises, TracerState
<1>12. CASE Reboot
  BY <1>12, <1>i DEF Reboot
<1>13. CASE Overruns \/ UNCHANGED vars \/ \E p \in Pid : Boots(p) \/ GuestResets(p) \/ Ended(p)
  <2>1. /\ UNCHANGED <<stage, raising, tracer>>
        /\ ftrace'.on = ftrace.on /\ ftrace'.events = ftrace.events
    BY <1>13, <1>t DEF Overruns, RestUnchanged, vars, traceVars, Boots, GuestResets, Ended, Recorded
  <2>2. guestOn' = guestOn \/ guestOn' = NoPid
    BY <1>13 DEF Overruns, vars, traceVars, Boots, GuestResets, Ended
  <2>3. QED
    BY <2>1, <2>2 DEF TracerState
<1>14. QED
  BY <1>1, <1>2, <1>3, <1>4, <1>5, <1>6, <1>7, <1>8, <1>9, <1>10, <1>11, <1>12, <1>13
  DEF Next, Progress, TryBlock, Finally, Fault, Guests

-----------------------------------------------------------------------------
(* The host's buffer: what appending to it and overwriting it do. *)

(* t is s with r after it. *)
IsExtended(t, s, r) ==
    /\ DOMAIN t = DOMAIN s \cup {Len(s) + 1}
    /\ \A i \in DOMAIN s : t[i] = s[i]
    /\ t[Len(s) + 1] = r

(* Appending extends a sequence, however it is written. *)
LEMMA AppendExtends ==
  ASSUME NEW s \in Seq(Record), NEW r \in Record
  PROVE  IsExtended(Append(s, r), s, r) /\ IsExtended(s \o <<r>>, s, r)
<1>1. Len(s) \in Nat /\ DOMAIN s = 1 .. Len(s)
  BY LenProperties
<1>2. IsExtended(Append(s, r), s, r)
  BY <1>1, AppendProperties DEF IsExtended
<1>3. IsExtended(s \o <<r>>, s, r)
  <2> DEFINE t == s \o <<r>>
  <2>1. <<r>> \in Seq(Record) /\ Len(<<r>>) = 1 /\ <<r>>[1] = r
    OBVIOUS
  <2>2. /\ t \in Seq(Record) /\ Len(t) = Len(s) + 1
        /\ \A i \in 1 .. Len(t) : t[i] = IF i <= Len(s) THEN s[i] ELSE <<r>>[i - Len(s)]
    BY <1>1, <2>1, ConcatProperties
  <2>3. DOMAIN t = 1 .. Len(s) + 1
    BY <2>2, LenProperties
  <2>4. QED
    BY <1>1, <2>1, <2>2, <2>3 DEF IsExtended
<1>4. QED
  BY <1>2, <1>3

(* An element that would be a second marker of its kind is never appended. *)
LEMMA AppendKeeps ==
  ASSUME NEW s \in Seq(Record), NEW p, OneTest(s, p), p \notin {"begin", "end"},
         NEW r \in {p, "begin", "end"}, NEW t, IsExtended(t, s, r),
         r = "begin" => ~Contains(s, "begin") /\ ~Contains(s, "end"),
         r = "end" => ~Contains(s, "end")
  PROVE  /\ OneTest(t, p)
         /\ Contains(t, r)
         /\ \A q : Contains(s, q) => Contains(t, q)
         /\ \A q : q # r /\ ~Contains(s, q) => ~Contains(t, q)
<1>1. Len(s) \in Nat /\ DOMAIN s = 1 .. Len(s)
  BY LenProperties
<1>2. OneTest(t, p)
  BY <1>1 DEF OneTest, Contains, IsExtended
<1>3. QED
  BY <1>1, <1>2 DEF Contains, IsExtended

(* What is appended is there, and nothing is lost. *)
LEMMA ExtendedContains ==
  ASSUME NEW s \in Seq(Record), NEW r, NEW t, IsExtended(t, s, r)
  PROVE  Contains(t, r) /\ \A q : Contains(s, q) => Contains(t, q)
BY LenProperties DEF Contains, IsExtended

(* An overrun never makes the buffer look like another test. *)
LEMMA TailKeeps ==
  ASSUME NEW s \in Seq(Record), s # <<>>, NEW p, OneTest(s, p)
  PROVE  /\ OneTest(Tail(s), p)
         /\ \A q : ~Contains(s, q) => ~Contains(Tail(s), q)
<1>1. /\ Len(s) \in Nat /\ DOMAIN s = 1 .. Len(s)
      /\ Tail(s) \in Seq(Record) /\ Len(Tail(s)) = Len(s) - 1
      /\ \A i \in 1 .. Len(Tail(s)) : Tail(s)[i] = s[i + 1]
  BY LenProperties, HeadTailProperties
<1>2. DOMAIN Tail(s) = 1 .. Len(s) - 1
  BY <1>1, LenProperties
<1>3. \A i \in DOMAIN Tail(s) : i + 1 \in DOMAIN s /\ Tail(s)[i] = s[i + 1] /\ i \in Nat
  BY <1>1, <1>2
<1>4. QED
  BY <1>3 DEF OneTest, Contains

(* A set of positions that is not empty has a last one. *)
LEMMA MaxExists ==
  ASSUME NEW n \in Nat, NEW S \in SUBSET (1 .. n), S # {}
  PROVE  \E i \in S : \A j \in S : j <= i
<1> DEFINE T == {n - i : i \in S}
           R == OpToRel(<, Nat)
<1>1. T \subseteq Nat /\ T # {}
  <2>1. \A i \in S : n - i \in Nat
    OBVIOUS
  <2>2. PICK k \in S : TRUE
    OBVIOUS
  <2>3. n - k \in T
    OBVIOUS
  <2>4. QED
    BY <2>1, <2>3
<1>2. IsWellFoundedOn(R, Nat)
  BY NatLessThanWellFounded
<1>3. PICK x \in T : \A y \in T : ~(<<y, x>> \in R)
  <2> HIDE DEF T, R
  <2>1. QED
    BY <1>1, <1>2, WFMin
<1>4. \A y \in T : ~(y < x)
  BY <1>1, <1>3 DEF OpToRel
<1>5. PICK i \in S : x = n - i
  OBVIOUS
<1>6. \A j \in S : n - j \in T /\ j \in 1 .. n
  OBVIOUS
<1>7. \A j \in S : j <= i
  BY <1>4, <1>5, <1>6
<1>8. QED
  BY <1>7

(* The offset found in a buffer of one test is that of its QEMU. *)
LEMMA OffsetOfTest ==
  ASSUME NEW s \in Seq(Record), NEW p \in Pid, OneTest(s, p)
  PROVE  /\ Offsets(s) # {} => LastOffset(s) = p
         /\ Contains(s, p) => Offsets(s) # {}
<1>1. DOMAIN s = 1 .. Len(s) /\ Len(s) \in Nat
  BY LenProperties
<1>2. Contains(s, p) => Offsets(s) # {}
  BY DEF Contains, Offsets
<1>3. ASSUME Offsets(s) # {} PROVE LastOffset(s) = p
  <2>1. \E i \in Offsets(s) : \A j \in Offsets(s) : j <= i
    BY <1>1, <1>3, MaxExists DEF Offsets
  <2>2. PICK k \in Offsets(s) : LastOffset(s) = s[k]
    BY <1>3, <2>1 DEF LastOffset
  <2>3. s[k] \in Pid /\ s[k] \in {p, "begin", "end"}
    BY DEF Offsets, OneTest
  <2>4. QED
    BY <2>2, <2>3, TraceAssumption
<1>4. QED
  BY <1>2, <1>3

(* Two markers in a buffer of one test are its begin and, after it, its end. *)
LEMMA MarkersOfTest ==
  ASSUME NEW s \in Seq(Record), NEW p, OneTest(s, p)
  PROVE  /\ Cardinality(Markers(s)) = 2 =>
              \E i, j \in DOMAIN s :
                i < j /\ Markers(s) = {i, j} /\ s[i] = "begin" /\ s[j] = "end"
         /\ Contains(s, "begin") /\ Contains(s, "end") => Cardinality(Markers(s)) = 2
<1>1. DOMAIN s = 1 .. Len(s) /\ Len(s) \in Nat
  BY LenProperties
<1>2. IsFiniteSet(Markers(s))
  <2>1. IsFiniteSet(1 .. Len(s))
    BY <1>1, FS_Interval
  <2>2. QED
    BY <1>1, <2>1, FS_Subset DEF Markers
<1>3. ASSUME Cardinality(Markers(s)) = 2
      PROVE  \E i, j \in DOMAIN s :
               i < j /\ Markers(s) = {i, j} /\ s[i] = "begin" /\ s[j] = "end"
  <2>1. PICK i \in Markers(s) : TRUE
    BY <1>2, <1>3, FS_EmptySet
  <2>2. PICK j \in Markers(s) : j # i
    <3>1. Cardinality({i}) = 1
      BY FS_Singleton, Zenon
    <3>2. 1 # 2
      OBVIOUS
    <3>3. Markers(s) # {i}
      BY <1>3, <3>1, <3>2, Zenon
    <3>4. QED
      BY <2>1, <3>3
  <2>3. CASE s[i] = "begin"
    <3>1. s[j] = "end"
      BY <2>1, <2>2, <2>3 DEF Markers, OneTest
    <3>2. i < j /\ Markers(s) = {i, j}
      BY <2>1, <2>2, <2>3, <3>1 DEF Markers, OneTest
    <3>3. QED
      BY <2>1, <2>2, <2>3, <3>1, <3>2 DEF Markers
  <2>4. CASE s[i] = "end"
    <3>1. s[j] = "begin"
      BY <2>1, <2>2, <2>4 DEF Markers, OneTest
    <3>2. j < i /\ Markers(s) = {j, i}
      BY <2>1, <2>2, <2>4, <3>1 DEF Markers, OneTest
    <3>3. QED
      BY <2>1, <2>2, <2>4, <3>1, <3>2 DEF Markers
  <2>5. QED
    BY <2>1, <2>3, <2>4 DEF Markers
<1>4. ASSUME Contains(s, "begin"), Contains(s, "end") PROVE Cardinality(Markers(s)) = 2
  <2>1. PICK i \in DOMAIN s, j \in DOMAIN s : s[i] = "begin" /\ s[j] = "end"
    BY <1>4 DEF Contains
  <2>2. Markers(s) = {i} \cup {j} /\ i # j
    BY <2>1 DEF Markers, OneTest
  <2>3. IsFiniteSet({i}) /\ Cardinality({i}) = 1 /\ j \notin {i}
    BY <2>2, FS_Singleton
  <2>4. Cardinality({i} \cup {j}) = Cardinality({i}) + 1
    BY <2>3, FS_AddElement
  <2>5. QED
    BY <2>2, <2>3, <2>4
<1>5. QED
  BY <1>3, <1>4

(* An empty buffer holds at most one test, and no record. *)
LEMMA EmptyBuffer == \A p, q : OneTest(<<>>, p) /\ ~Contains(<<>>, q)
BY DEF OneTest, Contains

(* A QEMU that runs while this run holds tap0 was launched by it. *)
LEMMA LiveIsOurs ==
  ASSUME TypeOK, HostSafe, NEW p \in Live,
         \/ stage \in HostStages \cup GuestStages \cup AfterStages \cup {"run", "teardown"}
         \/ stage \in ReadStages /\ ~raising
  PROVE  p = own[vm] /\ p \in Pid /\ pc[vm] # "launch" /\ stage \notin HostStages
BY HostAssumption DEF HostSafe, PcOfStage, TapZero, LiveIsOwn, Live

(* What the buffer and the files hold is of one test, step by step. *)
LEMMA BufferStep ==
  TypeOK /\ HostSafe /\ TracerState /\ BufferAndFiles /\ [Next]_vars => BufferAndFiles'
<1> SUFFICES ASSUME TypeOK, HostSafe, TracerState, BufferAndFiles, [Next]_vars
             PROVE  BufferAndFiles'
  OBVIOUS
<1> USE DEF Completed, FinallyStages, TryStages, GuestStages
<1>t. /\ ftrace \in [events : BOOLEAN, on : BOOLEAN, big : BOOLEAN, buf : Seq(Record)]
      /\ files \in [guest : Pid \cup {NoPid}, host : Seq(Record), merged : BOOLEAN]
      /\ raising \in BOOLEAN
      /\ raising => stage \in FinallyStages
  BY DEF TypeOK
<1>i. stage' = "idle" => BufferAndFiles'
  BY DEF BufferAndFiles
<1>1. CASE StartRun
  BY <1>1 DEF StartRun, At, NoFiles, BufferAndFiles
<1>2. CASE SetupAndRun
  <2>1. /\ UNCHANGED <<ftrace, files, vm>> /\ files = NoFiles /\ raising = FALSE
        /\ stage \in {"setup", "run"}
    BY <1>2, <1>t DEF SetupAndRun, BufferAndFiles
  <2>2. CASE Launch(vm)
    <3>1. stage = "run" /\ pc[vm] = "launch" /\ stage' = "run" /\ pc'[vm] # "launch"
      BY <1>2, <2>2, CommandStage DEF Launch, RunStages, HostSafe
    <3>2. ftrace.buf = <<>>
      BY <3>1 DEF BufferAndFiles
    <3>3. QED
      BY <2>1, <3>1, <3>2, EmptyBuffer DEF BufferAndFiles, NoFiles
  <2>3. CASE ~Launch(vm)
    <3>1. own' = own
      BY <1>2, <2>3 DEF SetupAndRun, Setup, Run, RestartNetserver, LoadKvm, CreateTun, LinkUp,
         ConfigureHost, ChangeParameters, PinProcess, Connect, ConfigureGuest
    <3>2. pc'[vm] = "launch" => stage = "setup"
      BY <1>2, <2>3 DEF SetupAndRun, Run, ChangeParameters, PinProcess, Connect, ConfigureGuest,
         Step, TypeOK, VMTypeOK
    <3>3. pc'[vm] = "test" => stage = "run"
      BY <1>2, <2>3 DEF SetupAndRun, Setup, RestartNetserver, LoadKvm, CreateTun, TunOutcome, LinkUp,
         ConfigureHost, Step, TypeOK, VMTypeOK
    <3>4. \/ stage' = "readguest" /\ raising' = TRUE
          \/ stage' \in {"events", "setup"}
          \/ stage' \in {"guest", "run"} /\ stage = "run" /\ pc'[vm] # "launch"
      BY <1>2, <2>1, <3>2, <3>3 DEF SetupAndRun
    <3>5. QED
      BY <2>1, <3>1, <3>4 DEF BufferAndFiles, NoFiles
  <2>4. QED
    BY <2>2, <2>3
<1>3. CASE HostTraces
  <2>1. /\ UNCHANGED <<files, vm, own, pc, raising>> /\ files = NoFiles
        /\ stage \in HostStages /\ stage' \in HostStages \cup {"run"}
        /\ stage' = "on" => ftrace'.buf = <<>>
        /\ stage' = "run" => stage = "on" /\ ftrace'.buf = ftrace.buf
    BY <1>3, <1>t DEF HostTraces, DisableEvents, GrowBuffer, EnableEvents, EmptyTrace, BufferEmptied,
       TraceOn, HostUnchanged, vmVars, objVars, At, HostStages, BufferAndFiles
  <2>2. QED
    BY <2>1, EmptyBuffer DEF BufferAndFiles, HostStages, NoFiles
<1>4. CASE MarkBegin \/ MarkEnd
  <2> DEFINE r == IF stage = "begin" THEN "begin" ELSE "end"
  <2>1. /\ UNCHANGED <<files, vm, own, pc, raising>> /\ raising = FALSE /\ files = NoFiles
        /\ \/ stage = "begin" /\ stage' = "traced"
           \/ stage = "end" /\ stage' = "hostoff"
    BY <1>4, <1>t DEF MarkBegin, MarkEnd, HostUnchanged, vmVars, objVars, At, BufferAndFiles
  <2>2. ftrace'.buf = ftrace.buf \o <<r>>
    <3>1. tracer.on = TRUE
      BY <1>t, <2>1 DEF TracerState, TracingOn, TypeOK
    <3>2. CASE MarkBegin
      BY <1>t, <3>1, <3>2 DEF MarkBegin, Marked, WritesMarker, At
    <3>3. CASE MarkEnd
      BY <1>t, <3>1, <3>3 DEF MarkEnd, Marked, WritesMarker, At
    <3>4. QED
      BY <1>4, <3>2, <3>3
  <2>3. r \in {own[vm], "begin", "end"} /\ r \in Record
    BY DEF Record
  <2>4. OneTest(ftrace.buf, own[vm]) /\ ~Contains(ftrace.buf, "end")
        /\ (stage = "begin" => ~Contains(ftrace.buf, "begin"))
    BY <2>1 DEF BufferAndFiles
  <2>5. own[vm] \notin {"begin", "end"}
    BY <2>1, TraceAssumption DEF HostSafe, LiveIsOwn, TypeOK, VMTypeOK
  <2>6. /\ OneTest(ftrace'.buf, own[vm])
        /\ stage = "begin" => ~Contains(ftrace'.buf, "end")
    <3> HIDE DEF r
    <3>1. r = "begin" => stage = "begin"
      BY DEF r
    <3>2. r # "end" <=> stage = "begin"
      BY DEF r
    <3>3. IsExtended(ftrace'.buf, ftrace.buf, r)
      BY <1>t, <2>2, <2>3, AppendExtends
    <3>4. QED
      BY <1>t, <2>3, <2>4, <2>5, <3>1, <3>2, <3>3, AppendKeeps
  <2>7. QED
    BY <2>1, <2>6 DEF BufferAndFiles, NoFiles
<1>5. CASE GuestTraces \/ TracedNetperf \/ HostTraceOff \/ GuestTraceOff \/ UntracedNetperf
  <2>1. /\ UNCHANGED <<files, vm, own, pc, raising>> /\ raising = FALSE /\ files = NoFiles
        /\ \/ stage = "guest" /\ stage' = "gueston"
           \/ stage = "gueston" /\ stage' = "begin"
           \/ stage = "traced" /\ stage' = "end"
           \/ stage = "hostoff" /\ stage' = "guestoff"
           \/ stage = "guestoff" /\ stage' = "untraced"
           \/ stage = "untraced" /\ stage' = "readguest"
    BY <1>5, <1>t DEF GuestTraces, GuestTracer, GuestTraceOn, TracedNetperf, HostTraceOff,
       GuestTraceOff, UntracedNetperf, HostUnchanged, vmVars, objVars, At, BufferAndFiles
  <2>2. ftrace'.buf = ftrace.buf
    BY <1>5, <1>t DEF GuestTraces, GuestTracer, GuestTraceOn, TracedNetperf, HostTraceOff,
       GuestTraceOff, UntracedNetperf, Marked, WritesMarker, HostUnchanged, At, TracerState, TracingOff
  <2>3. QED
    BY <2>1, <2>2, EmptyBuffer DEF BufferAndFiles, NoFiles
<1>6. CASE ReadGuest
  <2>1. PICK p \in Up : files' = [files EXCEPT !.guest = p]
    BY <1>6 DEF ReadGuest
  <2>2. ~raising => p = own[vm]
    BY <1>6, LiveIsOurs DEF ReadGuest, At, Up, Live, ReadStages
  <2>3. /\ files'.guest = p /\ files'.host = files.host /\ files'.merged = files.merged
        /\ files.host = <<>> /\ files.merged = FALSE
    BY <1>6, <1>t, <2>1 DEF ReadGuest, At, BufferAndFiles, NoFiles
  <2>4. stage = "readguest" /\ stage' = "readhost" /\ UNCHANGED <<vm, own, pc, raising, ftrace>>
    BY <1>6 DEF ReadGuest, At, vmVars, objVars
  <2>5. QED
    BY <2>2, <2>3, <2>4, EmptyBuffer DEF BufferAndFiles
<1>7. CASE ReadHost
  <2>1. /\ stage = "readhost" /\ stage' = "shrink" /\ UNCHANGED <<vm, own, pc, raising, ftrace>>
        /\ files'.host = ftrace.buf /\ files'.guest = files.guest /\ files'.merged = files.merged
    BY <1>7, <1>t DEF ReadHost, At, vmVars, objVars
  <2>2. QED
    BY <2>1 DEF BufferAndFiles
<1>8. CASE ShrinkBuffer \/ ReadRaises \/ CopyMaps \/ TeardownVM
  <2>1. UNCHANGED <<files, vm, own, raising>>
    BY <1>8 DEF ShrinkBuffer, ReadRaises, CopyMaps, TeardownVM, Teardown, Shutdown,
       ResetHostConfiguration, DeleteTun, UnloadKvm, StopNetserver, HostUnchanged, vmVars, objVars
  <2>2. stage \in FinallyStages /\ stage' \in {"maps", "teardown", "disable"}
    BY <1>8 DEF ShrinkBuffer, ReadRaises, CopyMaps, TeardownVM, At
  <2>3. QED
    BY <2>1, <2>2 DEF BufferAndFiles
<1>9. CASE DisableAllEvents
  <2>1. CASE RaisesAgain
    BY <1>9, <1>i, <2>1 DEF DisableAllEvents, Ends
  <2>2. CASE ~RaisesAgain
    <3>1. stage = "disable" /\ stage' = "merge" /\ UNCHANGED <<files, vm, own, raising>> /\ raising = FALSE
      BY <1>9, <1>t, <2>2 DEF DisableAllEvents, RaisesAgain, vmVars, objVars
    <3>2. QED
      BY <3>1 DEF BufferAndFiles
  <2>3. QED
    BY <2>1, <2>2
<1>10. CASE MergeTraces
  <2>1. CASE Parses
    <3>1. /\ stage = "merge" /\ stage' = "stats" /\ UNCHANGED <<vm, own, raising>>
          /\ files'.guest = files.guest /\ files'.host = files.host
      BY <1>10, <1>t, <2>1 DEF MergeTraces, vmVars, objVars
    <3>2. Parses'
      BY <2>1, <3>1 DEF Parses, Markers, Offsets
    <3>3. QED
      BY <3>1, <3>2 DEF BufferAndFiles
  <2>2. CASE ~Parses
    BY <1>10, <1>i, <2>2 DEF MergeTraces, Ends
  <2>3. QED
    BY <2>1, <2>2
<1>11. CASE Stats \/ FinallyRaises \/ MergeOrStatsRaises \/ Reboot
  BY <1>11, <1>i DEF Stats, FinallyRaises, MergeOrStatsRaises, Ends, Reboot
<1>12. CASE TryRaises
  BY <1>12, <1>t DEF TryRaises, BufferAndFiles, NoFiles
<1>13. CASE Overruns
  <2>1. /\ UNCHANGED <<stage, vm, raising, files, own, pc>> /\ ftrace.buf # <<>>
        /\ ftrace'.buf = Tail(ftrace.buf) /\ Parses' = Parses
    BY <1>13, <1>t DEF Overruns, RestUnchanged, objVars, Parses
  <2>2. OneTest(ftrace.buf, own[vm]) => OneTest(ftrace'.buf, own[vm])
    BY <1>t, <2>1, TailKeeps
  <2>3. OneTest(ftrace.buf, own[vm]) => \A q : ~Contains(ftrace.buf, q) => ~Contains(ftrace'.buf, q)
    BY <1>t, <2>1, TailKeeps
  <2>4. QED
    BY <2>1, <2>2, <2>3 DEF BufferAndFiles
<1>14. ASSUME NEW p \in Pid, Boots(p) \/ GuestResets(p) PROVE BufferAndFiles'
  <2>1. /\ UNCHANGED <<stage, vm, raising, files, own, pc>> /\ p \in Live
        /\ ftrace'.buf = IF Recording THEN Append(ftrace.buf, p) ELSE ftrace.buf
        /\ Parses' = Parses
    BY <1>14, <1>t DEF Boots, GuestResets, QemuStarts, RestUnchanged, objVars, Recorded, Live, Parses
  <2>2. CASE stage \in {"on", "run"} \cup GuestStages \/ (~raising /\ stage \in {"readguest", "readhost"})
    <3>1. p = own[vm] /\ p \notin {"begin", "end"} /\ p \in Record /\ pc[vm] # "launch" /\ stage # "on"
      BY <2>1, <2>2, LiveIsOurs, TraceAssumption DEF HostStages, ReadStages, Record
    <3>2. OneTest(ftrace.buf, own[vm])
      BY <2>2, <3>1 DEF BufferAndFiles
    <3>3. /\ OneTest(ftrace'.buf, own[vm])
          /\ ~Contains(ftrace.buf, "begin") => ~Contains(ftrace'.buf, "begin")
          /\ ~Contains(ftrace.buf, "end") => ~Contains(ftrace'.buf, "end")
      <4>1. Recording => IsExtended(ftrace'.buf, ftrace.buf, p)
        BY <1>t, <2>1, <3>1, AppendExtends
      <4>2. ftrace.buf \in Seq(Record) /\ OneTest(ftrace.buf, p) /\ p # "begin" /\ p # "end"
        BY <1>t, <3>1, <3>2
      <4>3. Recording =>
              /\ OneTest(ftrace'.buf, p)
              /\ \A q : q # p /\ ~Contains(ftrace.buf, q) => ~Contains(ftrace'.buf, q)
        BY <4>1, <4>2, AppendKeeps
      <4>4. QED
        BY <2>1, <3>1, <3>2, <4>3
    <3>4. QED
      BY <2>1, <3>1, <3>3 DEF BufferAndFiles
  <2>3. CASE ~(stage \in {"on", "run"} \cup GuestStages \/ (~raising /\ stage \in {"readguest", "readhost"}))
    BY <2>1, <2>3 DEF BufferAndFiles
  <2>4. QED
    BY <2>2, <2>3
<1>15. CASE UNCHANGED vars \/ \E p \in Pid : Ended(p)
  <2>1. UNCHANGED <<stage, vm, raising, files, own, pc, ftrace>> /\ Parses' = Parses
    BY <1>15 DEF vars, vmVars, traceVars, Ended, QemuExits, RestUnchanged, objVars, Parses
  <2>2. QED
    BY <2>1 DEF BufferAndFiles
<1>16. QED
  BY <1>1, <1>2, <1>3, <1>4, <1>5, <1>6, <1>7, <1>8, <1>9, <1>10, <1>11, <1>12, <1>13, <1>14, <1>15
  DEF Next, Progress, TryBlock, Netperf, Finally, Fault, Guests

-----------------------------------------------------------------------------
(* The failures that are counted. *)

(* Nothing that run() is about to do must fail unless something failed before. *)
LEMMA CountedPositive ==
  ASSUME TypeOK, HostSafe, TracerState, NoFault
  PROVE  Counted > 0
<1> SUFFICES ASSUME faults = 0, CannotSucceed, Up # {} PROVE FALSE
  BY CountType DEF Counted, TypeOK
<1>1. PICK p \in Up : TRUE
  OBVIOUS
<1>2. p \in Live /\ raising = FALSE /\ 0 \in Tap
  BY HostAssumption DEF Up, Live, NoFault, TypeOK, Tap
<1>3. MarkerAccepted
  BY DEF MarkerAccepted, WritesMarker, TracerState
<1>4. stage \in {"run", "maps"} => GetPid(vm) \in Live
  <2>1. stage \in {"run", "maps"} => p = own[vm] /\ p # NoPid
    BY <1>2, LiveIsOurs, HostAssumption DEF ReadStages
  <2>2. stage \in {"run", "maps"} => GetPid(vm) = own[vm]
    BY <1>2, <2>1 DEF HostSafe, LiveIsOwn, GetPid
  <2>3. QED
    BY <1>2, <2>1, <2>2
<1>5. stage = "readguest" => tracer.guest
  BY <1>2 DEF TracerState
<1>6. stage \in {"setup", "run"} => ~MustRaise(vm)
  BY <1>2, <1>4 DEF MustRaise, NoFault, HostSafe, PcOfStage, SetupStages, RunStages
<1>7. QED
  BY <1>1, <1>3, <1>4, <1>5, <1>6 DEF CannotSucceed, CanReadMaps

(* What a session has left behind shows on the host after every step. *)
LEMMA LeftStep == IInv /\ HostSafe' /\ TracerState' /\ [Next]_vars => Left'
<1> SUFFICES ASSUME IInv, HostSafe', TracerState', [Next]_vars PROVE Left'
  OBVIOUS
<1>t. /\ ftrace \in [events : BOOLEAN, on : BOOLEAN, big : BOOLEAN, buf : Seq(Record)]
      /\ raising \in BOOLEAN /\ faults \in Nat
      /\ raising => stage \in FinallyStages
      /\ TypeOK
  BY TraceAssumption DEF IInv, TypeOK
<1>c. /\ OneMore \in Nat /\ OneMore >= faults /\ OneMore > 0
      /\ faults >= 1 => OneMore >= 2
      /\ Counted \in {faults, OneMore} /\ Counted > 0
  BY CountType, CountedPositive, TraceAssumption DEF IInv
<1>r. raising => faults >= 1
  BY <1>t DEF IInv, NoFault
<1>l. Recording /\ faults = 0 => 0 \in taps
  BY <1>t DEF IInv, Left
(* tap0 is there as long as this run has it. *)
<1>h. ASSUME \/ stage' \in HostStages \cup GuestStages \cup {"run"}
             \/ stage' \in ReadStages /\ ~raising'
      PROVE  Left'
  <2>1. pc'[vm'] \notin {"unload", "stopns"} /\ stage' # "idle" /\ stage' \notin AfterStages
    BY <1>h DEF HostSafe, PcOfStage, HostStages, GuestStages, ReadStages, AfterStages, RunStages
  <2>2. 0 \in taps'
    BY <1>h, <2>1 DEF HostSafe, TapZero, HasTap, Returned
  <2>3. QED
    BY <2>1, <2>2 DEF Left
<1>q. ASSUME ~Recording', stage' # "idle" \/ outcome' # "finished" PROVE Left'
  BY <1>q DEF Left
<1>1. CASE StartRun
  <2>1. /\ Recording' = Recording /\ taps' = taps /\ stage' = "setup" /\ stage = "idle"
        /\ faults' = IF taps = {} /\ ~Recording THEN 0 ELSE faults
    BY <1>1 DEF StartRun, At, Recording, hostVars
  <2>2. QED
    BY <2>1 DEF IInv, Left
<1>2. CASE SetupAndRun
  <2>1. /\ Recording' = Recording /\ faults' = faults /\ stage \in {"setup", "run"}
        /\ stage' # "idle" /\ taps \subseteq taps'
    BY <1>2 DEF SetupAndRun, Recording, Setup, Run, RestartNetserver, LoadKvm, CreateTun, LinkUp,
       ConfigureHost, Launch, ChangeParameters, PinProcess, Connect, ConfigureGuest, hostVars
  <2>2. raising = FALSE
    BY <1>t, <2>1 DEF FinallyStages
  <2>3. QED
    BY <2>1, <2>2 DEF IInv, Left
<1>3. CASE HostTraces \/ GuestTraces \/ MarkBegin \/ TracedNetperf \/ MarkEnd \/ HostTraceOff
           \/ GuestTraceOff
  <2>1. stage' \in HostStages \cup GuestStages \cup {"run"}
    BY <1>3 DEF HostTraces, DisableEvents, GrowBuffer, EnableEvents, EmptyTrace, TraceOn,
       GuestTraces, GuestTracer, GuestTraceOn, MarkBegin, TracedNetperf, MarkEnd, HostTraceOff,
       GuestTraceOff, At, HostStages, GuestStages
  <2>2. QED
    BY <2>1, <1>h
<1>4. CASE UntracedNetperf
  BY <1>4, <1>t, <1>h DEF UntracedNetperf, At, HostUnchanged, ReadStages, FinallyStages
<1>5. CASE TryRaises
  <2>1. /\ Recording' = Recording /\ taps' = taps /\ stage' = "readguest" /\ raising = FALSE
        /\ faults' = Counted
    BY <1>5, <1>t DEF TryRaises, Recording, hostVars, TryStages, FinallyStages
  <2>2. QED
    BY <2>1, <1>t, <1>c DEF IInv, Left
<1>6. CASE ReadGuest \/ ReadHost \/ ShrinkBuffer \/ ReadRaises \/ CopyMaps
  <2>1. /\ Recording' = Recording /\ taps' = taps /\ faults' \in {faults, Counted}
        /\ stage \in ReadStages /\ stage' # "idle"
    BY <1>6, <1>t DEF ReadGuest, ReadHost, ShrinkBuffer, ReadRaises, CopyMaps, HostUnchanged, At,
       vmVars, hostVars, Recording, ReadStages
  <2>2. ~Returned
    BY <2>1 DEF IInv, HostSafe, PcOfStage, Returned, ReadStages, AfterStages
  <2>3. QED
    BY <2>1, <2>2, <1>t, <1>c DEF IInv, Left
<1>7. CASE TeardownVM
  <2>1. /\ UNCHANGED <<ftrace, faults, raising>> /\ stage' \in {"teardown", "disable"}
    BY <1>7 DEF TeardownVM
  <2>2. CASE raising
    <3>1. HasTap'
      BY <2>1 DEF HostSafe, TapZero, AfterStages
    <3>2. 0 \in taps' \/ Returned'
      BY <3>1 DEF HostSafe, TapZero
    <3>3. QED
      BY <2>1, <2>2, <3>2, <1>r, <1>t DEF Left
  <2>3. CASE ~raising
    <3>1. ~ftrace'.on
      BY <2>1, <2>3 DEF TracerState, Completed, FinallyStages
    <3>2. QED
      BY <2>1, <3>1, <1>q DEF Recording
  <2>4. QED
    BY <2>2, <2>3
<1>8. CASE DisableAllEvents
  <2>1. PICK done \in BOOLEAN :
          ftrace' = Disabled(done) /\ faults' = IF done THEN faults ELSE OneMore
    BY <1>8 DEF DisableAllEvents
  <2>2. CASE done
    <3>1. ~ftrace'.events
      BY <2>1, <2>2, <1>t DEF Disabled
    <3>2. stage' # "idle" \/ outcome' = "aborted"
      BY <1>8 DEF DisableAllEvents, Ends
    <3>3. QED
      BY <3>1, <3>2, <1>q DEF Recording
  <2>3. CASE ~done /\ raising
    <3>1. faults' >= 2 /\ outcome' = "aborted"
      BY <1>8, <2>1, <2>3, <1>c, <1>r DEF DisableAllEvents, RaisesAgain, Ends
    <3>2. QED
      BY <2>1, <2>3, <3>1, <1>c DEF Left
  <2>4. CASE ~done /\ ~raising
    <3>1. ~ftrace'.on /\ stage' = "merge"
      BY <1>8, <2>4 DEF DisableAllEvents, RaisesAgain, TracerState, TracingOff
    <3>2. QED
      BY <3>1, <1>q DEF Recording
  <2>5. QED
    BY <2>2, <2>3, <2>4
<1>9. CASE MergeTraces \/ MergeOrStatsRaises
  <2>1. ~ftrace.on /\ ftrace' = ftrace
    BY <1>9 DEF MergeTraces, MergeOrStatsRaises, IInv, TracerState, TracingOff
  <2>2. stage' # "idle" \/ outcome' = "aborted"
    BY <1>9 DEF MergeTraces, MergeOrStatsRaises, Ends
  <2>3. QED
    BY <2>1, <2>2, <1>q DEF Recording
<1>10. CASE Stats
  <2>1. ~ftrace.on /\ ftrace' = ftrace /\ stage = "stats" /\ faults' = faults
        /\ UNCHANGED hostVars
    BY <1>10 DEF Stats, Ends, IInv, TracerState, TracingOff
  <2>2. HostIsClean'
    BY <2>1 DEF IInv, HostSafe, Sysctl, AfterStages, HostIsClean, RestoredOrSlipped, hostVars, Live
  <2>3. faults = 0 => ~ftrace.events /\ ~ftrace.big
    BY <2>1 DEF IInv, NoFault
  <2>4. QED
    BY <2>1, <2>2, <2>3 DEF Left, Recording
<1>11. CASE FinallyRaises
  <2>1. /\ Recording' = Recording /\ taps' = taps /\ stage' = "idle" /\ outcome' = "aborted"
        /\ faults' = Counted /\ stage \in {"maps", "teardown"}
    BY <1>11 DEF FinallyRaises, Ends, Recording, hostVars
  <2>2. CASE stage = "maps"
    <3>1. ~Returned
      BY <2>2 DEF IInv, HostSafe, PcOfStage, Returned, ReadStages, AfterStages
    <3>2. QED
      BY <2>1, <3>1, <1>c, <1>t DEF IInv, Left
  <2>3. CASE stage = "teardown" /\ raising
    <3>1. Counted = OneMore
      BY <2>3 DEF Counted, CannotSucceed
    <3>2. faults' >= 2
      BY <2>1, <2>3, <3>1, <1>c, <1>r
    <3>3. QED
      BY <2>1, <3>1, <3>2, <1>c DEF Left
  <2>4. CASE stage = "teardown" /\ ~raising
    <3>1. ~Recording
      BY <2>4 DEF IInv, TracerState, Completed, FinallyStages, Recording
    <3>2. QED
      BY <2>1, <3>1, <1>q
  <2>5. QED
    BY <2>1, <2>2, <2>3, <2>4
<1>12. CASE Reboot
  BY <1>12, <1>q DEF Reboot, BootFtrace, Recording
<1>13. CASE Overruns
  <2>1. /\ Recording /\ Recording' = Recording /\ taps' = taps /\ faults' = OneMore
        /\ UNCHANGED <<stage, outcome, raising, pc, vm>>
    BY <1>13, <1>t DEF Overruns, RestUnchanged, Recording, hostVars, objVars
  <2>2. QED
    BY <2>1, <1>c, <1>t, <1>l DEF IInv, Left
<1>14. ASSUME NEW p \in Pid, Boots(p) \/ GuestResets(p) \/ Ended(p) PROVE Left'
  <2>1. /\ Recording' = Recording /\ faults' \in {faults, OneMore}
        /\ UNCHANGED <<stage, outcome, raising, pc, vm, taps>>
        /\ p \in Live
    BY <1>14, <1>t DEF Boots, GuestResets, Ended, QemuStarts, QemuExits, RestUnchanged, Recorded,
       Recording, hostVars, objVars, Live
  <2>2. ~(stage = "idle" /\ outcome = "finished")
    BY <2>1 DEF IInv, Left, HostIsClean
  <2>3. Returned' = Returned
    BY <2>1 DEF Returned
  <2>4. QED
    BY <2>1, <2>2, <2>3, <1>c, <1>t, <1>l DEF IInv, Left
<1>15. CASE UNCHANGED vars
  <2>1. /\ Recording' = Recording /\ Returned' = Returned /\ HostIsClean' = HostIsClean
        /\ UNCHANGED <<stage, outcome, raising, taps, faults, ftrace>>
    BY <1>15 DEF vars, vmVars, traceVars, hostVars, objVars, Recording, Returned, HostIsClean,
       RestoredOrSlipped, Live
  <2>2. QED
    BY <2>1 DEF IInv, Left
<1>16. QED
  BY <1>1, <1>2, <1>3, <1>4, <1>5, <1>6, <1>7, <1>8, <1>9, <1>10, <1>11, <1>12, <1>13, <1>14, <1>15
  DEF Next, Progress, TryBlock, Netperf, Finally, Fault, Guests

-----------------------------------------------------------------------------
(* What every step of a run without failures keeps. *)

(* As long as nothing has failed, nothing is left to fail. *)
LEMMA NoFaultStep ==
  IInv /\ TypeOK' /\ HostSafe' /\ [Next]_vars => NoFault'
<1> SUFFICES ASSUME IInv, TypeOK', HostSafe', [Next]_vars, faults' = 0 PROVE NoFault'
  BY DEF NoFault
<1> USE DEF FinallyStages, TryStages, GuestStages
<1>t. /\ ftrace \in [events : BOOLEAN, on : BOOLEAN, big : BOOLEAN, buf : Seq(Record)]
      /\ files \in [guest : Pid \cup {NoPid}, host : Seq(Record), merged : BOOLEAN]
      /\ raising \in BOOLEAN /\ faults \in Nat
      /\ raising => stage \in FinallyStages
      /\ vm \in VM
      /\ TypeOK
  BY TraceAssumption DEF IInv, TypeOK
<1>c. OneMore > 0 /\ Counted > 0
  BY CountType, CountedPositive, TraceAssumption DEF IInv
<1>o. ASSUME NEW p \in Live,
             \/ stage \in HostStages \cup GuestStages \cup {"run"}
             \/ faults = 0 /\ stage \in ReadStages \cup {"teardown"}
      PROVE  p = own[vm]
  BY <1>o, LiveIsOurs DEF IInv, NoFault
<1>1. CASE StartRun
  <2>1. taps = {} /\ ~Recording
    <3>1. CASE taps # {} \/ Recording
      <4>1. faults = 0 /\ stage = "idle"
        BY <1>1, <3>1 DEF StartRun, At
      <4>2. outcome \in {"none", "finished"}
        BY <4>1, <1>t DEF IInv, NoFault, TypeOK
      <4>3. QED
        BY <4>1, <4>2, <3>1 DEF IInv, Left, Booted, HostIsClean
    <3>2. QED
      BY <3>1
  <2>2. /\ taps' = taps /\ Recording' = Recording /\ stage' = "setup" /\ raising' = raising
        /\ stage = "idle" /\ pc'[vm'] = "netserver"
    BY <1>1, <1>t DEF StartRun, At, hostVars, Recording, TypeOK, VMTypeOK
  <2>3. QED
    BY <2>1, <2>2, <1>t DEF NoFault
<1>2. CASE SetupAndRun
  <2>1. /\ UNCHANGED <<ftrace, guestOn, files, faults, vm>> /\ faults = 0 /\ Recording' = Recording
        /\ stage \in {"setup", "run"} /\ raising = FALSE
    BY <1>2, <1>t DEF SetupAndRun, Recording
  <2>2. CASE RestartNetserver(vm) \/ LoadKvm(vm)
    <3>1. /\ pc[vm] \in {"netserver", "kvm"} /\ pc'[vm] \in {"kvm", "tun"}
          /\ stage = "setup" /\ stage' = "setup" /\ raising' = FALSE /\ taps' = taps
      BY <1>2, <2>2, <1>t, CommandStage DEF RestartNetserver, LoadKvm, SetupStages, IInv, HostSafe
    <3>2. QED
      BY <2>1, <3>1 DEF IInv, NoFault
  <2>3. CASE CreateTun(vm)
    <3>1. PICK t \in Tap : IsFirstFreeTap(t) /\ Step(vm, "tun", TunOutcome(t))
      BY <2>3 DEF CreateTun
    <3>2. pc[vm] = "tun" /\ stage = "setup"
      BY <2>1, <3>1 DEF Step, IInv, HostSafe, PcOfStage, RunStages
    <3>3. t = 0
      BY <2>1, <3>1, <3>2, HostAssumption DEF IInv, NoFault, IsFirstFreeTap, Tap
    <3>4. pc'[vm] = "link" /\ stage' = "setup" /\ raising' = FALSE
      BY <1>2, <1>t, <3>1, <3>3, CommandStage DEF TunOutcome, SetupStages, IInv, HostSafe
    <3>5. QED
      BY <2>1, <3>4 DEF NoFault
  <2>4. CASE LinkUp(vm) \/ ConfigureHost(vm)
    <3>1. /\ pc'[vm] \in {"hostcfg", "launch"} /\ stage' \in {"setup", "events"} /\ raising' = FALSE
      <4>1. CASE LinkUp(vm)
        BY <1>2, <4>1, <1>t, CommandStage DEF LinkUp, SetupStages, IInv, HostSafe
      <4>2. CASE ConfigureHost(vm)
        <5>1. Step(vm, "hostcfg", "launch")
          BY <4>2 DEF ConfigureHost
        <5>2. QED
          BY <1>2, <5>1, <1>t, CommandStage DEF SetupStages, IInv, HostSafe
      <4>3. QED
        BY <4>1, <4>2, <2>4
    <3>2. QED
      BY <2>1, <3>1 DEF NoFault
  <2>5. CASE Launch(vm)
    <3>1. /\ pc'[vm] = "params" /\ stage' = "run" /\ raising' = FALSE
      BY <1>2, <2>5, <1>t, CommandStage DEF Launch, RunStages, IInv, HostSafe
    <3>2. PICK p \in Pid \ Live :
            qemu' = [qemu EXCEPT ![p] = "starting"] /\ own' = [own EXCEPT ![vm] = p]
      BY <2>5 DEF Launch
    <3>3. own'[vm] = p /\ p \in Live' /\ qemu'[p] = "starting" /\ p \notin Up'
      BY <1>t, <3>2 DEF TypeOK, VMTypeOK, HostTypeOK, Live, Up
    <3>4. QED
      BY <2>1, <3>1, <3>3 DEF NoFault
  <2>6. CASE ChangeParameters(vm) \/ PinProcess(vm) \/ Connect(vm) \/ ConfigureGuest(vm)
    <3>1. /\ pc[vm] \in {"params", "pin", "connect", "boot"} /\ stage = "run"
          /\ stage' \in {"run", "guest"} /\ raising' = FALSE
          /\ pc'[vm] \in {"pin", "connect", "boot", "test"} /\ pc'[vm] = "test" => pc[vm] = "boot"
      BY <1>2, <2>6, <1>t, CommandStage DEF ChangeParameters, PinProcess, Connect, ConfigureGuest,
         RunStages, IInv, HostSafe
    <3>2. UNCHANGED <<own, qemu>> /\ Live' = Live /\ Up' = Up
      BY <2>6 DEF ChangeParameters, PinProcess, Connect, ConfigureGuest, hostVars, Live, Up
    <3>3. pc'[vm] = "boot" => own[vm] \in Up
      <4>1. ASSUME pc'[vm] = "boot" PROVE \E p \in Listening : TRUE
        BY <2>6, <4>1, <1>t DEF ChangeParameters, PinProcess, Connect, ConfigureGuest, Step, TypeOK, VMTypeOK
      <4>2. \A p \in Listening : p \in Live /\ p = own[vm]
        BY <1>o, <3>1 DEF Listening, Live
      <4>3. qemu[own[vm]] # "stopping"
        BY <2>1, <3>1 DEF IInv, NoFault
      <4>4. QED
        BY <4>1, <4>2, <4>3 DEF Listening, Up
    <3>4. own[vm] \in Live /\ qemu[own[vm]] # "stopping"
          /\ (pc'[vm] = "test" => own[vm] \in Up)
          /\ (own[vm] \in Up => Contains(ftrace.buf, own[vm]))
      BY <2>1, <3>1 DEF IInv, NoFault
    <3>5. QED
      BY <2>1, <3>1, <3>2, <3>3, <3>4 DEF NoFault
  <2>7. QED
    BY <1>2, <2>2, <2>3, <2>4, <2>5, <2>6 DEF SetupAndRun, Setup, Run
<1>3. CASE HostTraces
  <2>1. /\ stage \in HostStages /\ stage' \in {"buffer", "enable", "empty", "on", "run"}
        /\ raising' = FALSE /\ UNCHANGED <<pc, vm>>
    BY <1>3, <1>t DEF HostTraces, DisableEvents, GrowBuffer, EnableEvents, EmptyTrace, TraceOn,
       HostUnchanged, vmVars, objVars, At, HostStages
  <2>2. pc'[vm'] = "launch" /\ own'[vm'] \notin Up'
    <3>1. pc[vm] = "launch" /\ own[vm] = NoPid
      BY <2>1 DEF IInv, HostSafe, PcOfStage, LiveIsOwn
    <3>2. own' = own
      BY <1>3 DEF HostTraces, DisableEvents, GrowBuffer, EnableEvents, EmptyTrace, TraceOn,
         HostUnchanged, vmVars, objVars
    <3>3. QED
      BY <2>1, <3>1, <3>2, HostAssumption DEF Up
  <2>3. QED
    BY <2>1, <2>2 DEF NoFault, HostStages
<1>4. CASE GuestTraces \/ TracedNetperf \/ HostTraceOff \/ GuestTraceOff \/ UntracedNetperf
  <2>1. /\ UNCHANGED <<files, vm, own, pc, qemu, raising, faults>> /\ raising = FALSE /\ Up' = Up
        /\ \/ stage = "guest" /\ stage' = "gueston"
           \/ stage = "gueston" /\ stage' = "begin" /\ guestOn' \in Up
           \/ stage = "traced" /\ stage' = "end" /\ guestOn' = guestOn
           \/ stage = "hostoff" /\ stage' = "guestoff" /\ guestOn' = guestOn
           \/ stage = "guestoff" /\ stage' = "untraced"
           \/ stage = "untraced" /\ stage' = "readguest"
    BY <1>4, <1>t DEF GuestTraces, GuestTracer, GuestTraceOn, TracedNetperf, HostTraceOff,
       GuestTraceOff, UntracedNetperf, HostUnchanged, vmVars, hostVars, objVars, At, Up
  <2>2. ftrace'.buf = ftrace.buf
    BY <1>4, <1>t DEF GuestTraces, GuestTracer, GuestTraceOn, TracedNetperf, HostTraceOff,
       GuestTraceOff, UntracedNetperf, Marked, WritesMarker, HostUnchanged, At, IInv, TracerState, TracingOff
  <2>3. pc[vm] = "test"
    BY <2>1 DEF IInv, HostSafe, PcOfStage
  <2>4. \A p \in Up : p = own[vm]
    BY <1>o, <2>1 DEF Up, Live
  <2>5. QED
    BY <2>1, <2>2, <2>3, <2>4 DEF IInv, NoFault
<1>5. CASE MarkBegin \/ MarkEnd
  <2> DEFINE r == IF stage = "begin" THEN "begin" ELSE "end"
  <2>1. /\ UNCHANGED <<files, vm, own, pc, qemu, raising, faults, guestOn>> /\ raising = FALSE /\ Up' = Up
        /\ \/ stage = "begin" /\ stage' = "traced"
           \/ stage = "end" /\ stage' = "hostoff"
    BY <1>5, <1>t DEF MarkBegin, MarkEnd, HostUnchanged, vmVars, hostVars, objVars, At, Up
  <2>2. ftrace'.buf = ftrace.buf \o <<r>>
    <3>1. tracer.on = TRUE
      BY <2>1 DEF IInv, TracerState, TracingOn, TypeOK
    <3>2. CASE MarkBegin
      BY <1>t, <3>1, <3>2 DEF MarkBegin, Marked, WritesMarker, At
    <3>3. CASE MarkEnd
      BY <1>t, <3>1, <3>3 DEF MarkEnd, Marked, WritesMarker, At
    <3>4. QED
      BY <1>5, <3>2, <3>3
  <2>3. IsExtended(ftrace'.buf, ftrace.buf, r) /\ r \in Record
    BY <1>t, <2>2, AppendExtends DEF Record
  <2>4. Contains(ftrace'.buf, r) /\ \A q : Contains(ftrace.buf, q) => Contains(ftrace'.buf, q)
    BY <1>t, <2>3, ExtendedContains
  <2>5. pc[vm] = "test"
    BY <2>1 DEF IInv, HostSafe, PcOfStage
  <2>6. QED
    BY <2>1, <2>4, <2>5 DEF IInv, NoFault
<1>6. CASE ReadGuest
  <2>1. PICK p \in Up : files' = [files EXCEPT !.guest = p]
    BY <1>6 DEF ReadGuest
  <2>2. files'.guest = p /\ p # NoPid
    BY <1>t, <2>1, HostAssumption DEF Up
  <2>3. /\ stage = "readguest" /\ stage' = "readhost"
        /\ UNCHANGED <<vm, own, pc, qemu, raising, ftrace, faults>> /\ Up' = Up
    BY <1>6 DEF ReadGuest, At, vmVars, hostVars, objVars, Up
  <2>4. pc[vm] \in {"raised", "test"}
    BY <2>3 DEF IInv, HostSafe, PcOfStage, ReadStages
  <2>5. QED
    BY <2>2, <2>3, <2>4 DEF IInv, NoFault
<1>7. CASE ReadHost
  <2>1. /\ stage = "readhost" /\ stage' = "shrink" /\ files'.host = ftrace.buf
        /\ files'.guest = files.guest
        /\ UNCHANGED <<vm, own, pc, qemu, raising, faults>> /\ Up' = Up
    BY <1>7, <1>t DEF ReadHost, At, vmVars, hostVars, objVars, Up
  <2>2. faults = 0 => pc[vm] = "test"
    BY <2>1 DEF IInv, NoFault, HostSafe, PcOfStage, ReadStages
  <2>3. QED
    BY <2>1, <2>2 DEF IInv, NoFault
<1>8. CASE ShrinkBuffer \/ CopyMaps \/ TeardownVM
  <2>1. /\ \/ stage = "shrink" /\ stage' = "maps" /\ pc' = pc /\ ~ftrace'.big
           \/ stage = "maps" /\ stage' = "teardown" /\ ftrace' = ftrace
           \/ stage = "teardown" /\ stage' \in {"teardown", "disable"} /\ ftrace' = ftrace
        /\ UNCHANGED <<vm, own, raising, files, faults>>
    BY <1>8, <1>t DEF ShrinkBuffer, CopyMaps, TeardownVM, Teardown, Shutdown,
       ResetHostConfiguration, DeleteTun, UnloadKvm, StopNetserver, HostUnchanged, vmVars, objVars, At
  <2>2. pc'[vm'] \in {"boot", "test"} => stage = "shrink"
    BY <2>1 DEF HostSafe, PcOfStage, TeardownStages, AfterStages
  <2>3. stage = "shrink" => Up' = Up
    BY <1>8, <2>1 DEF ShrinkBuffer, CopyMaps, TeardownVM, HostUnchanged, vmVars, hostVars, At, Up
  <2>4. QED
    BY <2>1, <2>2, <2>3 DEF IInv, NoFault
<1>9. CASE DisableAllEvents
  <2>1. PICK done \in BOOLEAN :
          ftrace' = Disabled(done) /\ faults' = IF done THEN faults ELSE OneMore
    BY <1>9 DEF DisableAllEvents
  <2>2. done /\ faults = 0 /\ raising = FALSE
    BY <2>1, <1>c, <1>t DEF IInv, NoFault
  <2>3. ~ftrace'.events /\ ftrace'.big = ftrace.big
    BY <2>1, <2>2, <1>t DEF Disabled
  <2>4. /\ stage = "disable" /\ stage' = "merge" /\ UNCHANGED <<vm, own, pc, raising, files>>
    BY <1>9, <2>2 DEF DisableAllEvents, RaisesAgain, vmVars, objVars
  <2>5. pc'[vm'] = "idle"
    BY <2>4 DEF HostSafe, PcOfStage, AfterStages
  <2>6. QED
    BY <2>2, <2>3, <2>4, <2>5 DEF IInv, NoFault
<1>10. CASE MergeTraces
  <2>1. stage = "merge" /\ faults = 0 /\ raising = FALSE /\ ftrace' = ftrace
    BY <1>10, <1>t DEF MergeTraces
  <2>2. Parses
    <3>1. /\ files.guest # NoPid /\ Contains(files.host, own[vm])
          /\ Contains(files.host, "begin") /\ Contains(files.host, "end")
      BY <2>1 DEF IInv, NoFault
    <3>2. files.guest = own[vm] /\ OneTest(files.host, own[vm])
      BY <2>1, <3>1 DEF IInv, BufferAndFiles, Completed
    <3>3. own[vm] \in Pid /\ files.host \in Seq(Record)
      BY <1>t, <3>1, <3>2
    <3>4. Offsets(files.host) # {} /\ Cardinality(Markers(files.host)) = 2
      BY <3>1, <3>2, <3>3, OffsetOfTest, MarkersOfTest
    <3>5. QED
      BY <3>1, <3>4 DEF Parses
  <2>3. stage' = "stats" /\ raising' = FALSE
    BY <1>10, <2>1, <2>2 DEF MergeTraces
  <2>4. pc'[vm'] = "idle"
    BY <2>3 DEF HostSafe, PcOfStage, AfterStages
  <2>5. QED
    BY <2>1, <2>3, <2>4 DEF IInv, NoFault
<1>11. CASE Stats
  <2>1. stage' = "idle" /\ outcome' = "finished" /\ raising' = FALSE
    BY <1>11 DEF Stats, Ends
  <2>2. pc'[vm'] = "idle"
    BY <2>1 DEF HostSafe, PcOfStage, FreshObjects, TypeOK
  <2>3. QED
    BY <2>1, <2>2 DEF NoFault
<1>12. CASE TryRaises \/ ReadRaises \/ FinallyRaises \/ MergeOrStatsRaises \/ Overruns \/ Reboot
  BY <1>12, <1>c DEF TryRaises, ReadRaises, FinallyRaises, MergeOrStatsRaises, Overruns, Reboot
<1>13. ASSUME NEW p \in Pid, Boots(p) PROVE NoFault'
  <2>1. /\ UNCHANGED <<stage, vm, raising, files, own, pc, outcome, guestOn, faults, taps>>
        /\ p \in Live /\ p \notin Up /\ Live' = Live /\ Up' = Up \cup {p}
        /\ \A q \in Pid : q # p => qemu'[q] = qemu[q]
        /\ qemu'[p] = "up"
        /\ ftrace'.buf = IF Recording THEN Append(ftrace.buf, p) ELSE ftrace.buf
        /\ ftrace'.big = ftrace.big /\ ftrace'.events = ftrace.events /\ Recording' = Recording
    BY <1>13, <1>t DEF Boots, QemuStarts, RestUnchanged, objVars, Recorded, Recording, Live, Up,
       TypeOK, VMTypeOK, HostTypeOK
  <2>2. Recording => IsExtended(ftrace'.buf, ftrace.buf, p)
    BY <1>t, <2>1, AppendExtends DEF Record
  <2>3. Recording => Contains(ftrace'.buf, p)
    BY <1>t, <2>2, ExtendedContains
  <2>4. \A q : Contains(ftrace.buf, q) => Contains(ftrace'.buf, q)
    BY <1>t, <2>1, <2>2, ExtendedContains
  <2>5. stage = "run" => Recording
    BY DEF IInv, TracerState, TracingOn, Recording
  <2>6. stage \in {"readguest", "readhost"} \cup GuestStages => pc[vm] = "test"
    BY <2>1 DEF IInv, NoFault, HostSafe, PcOfStage, ReadStages
  <2>7. own[vm] \in Live => own[vm] \in Pid
    BY DEF Live
  <2>8. QED
    BY <2>1, <2>3, <2>4, <2>5, <2>6, <2>7 DEF IInv, NoFault
<1>14. ASSUME NEW p \in Pid, GuestResets(p) PROVE NoFault'
  <2>1. /\ UNCHANGED <<stage, vm, raising, files, own, pc, outcome, guestOn, faults, taps, qemu>>
        /\ Live' = Live /\ Up' = Up /\ Recording' = Recording
        /\ ftrace'.buf = Append(ftrace.buf, p)
        /\ ftrace'.big = ftrace.big /\ ftrace'.events = ftrace.events
    BY <1>14, <1>t DEF GuestResets, RestUnchanged, objVars, hostVars, Recorded, Recording, Live, Up
  <2>2. \A q : Contains(ftrace.buf, q) => Contains(ftrace'.buf, q)
    <3>1. IsExtended(ftrace'.buf, ftrace.buf, p)
      BY <1>t, <2>1, AppendExtends DEF Record
    <3>2. QED
      BY <1>t, <3>1, ExtendedContains
  <2>3. QED
    BY <2>1, <2>2 DEF IInv, NoFault
<1>15. ASSUME NEW p \in Pid, Ended(p) PROVE NoFault'
  <2>1. /\ UNCHANGED <<stage, vm, raising, files, own, pc, outcome, faults, taps, ftrace>>
        /\ p \in Live /\ Live' = Live \ {p} /\ Up' = Up \ {p} /\ Recording' = Recording
        /\ \A q \in Pid : q # p => qemu'[q] = qemu[q]
        /\ p = own[vm] => qemu[p] = "stopping"
        /\ guestOn' = IF guestOn = p THEN NoPid ELSE guestOn
    BY <1>15, <1>t, <1>c DEF Ended, QemuExits, RestUnchanged, objVars, Live, Up, Recording,
       TypeOK, VMTypeOK, HostTypeOK
  <2>2. stage \in {"begin", "traced", "end", "hostoff", "guestoff"} => pc[vm] = "test"
    BY DEF IInv, HostSafe, PcOfStage
  <2>3. own[vm] \in Up => own[vm] # p /\ own[vm] \in Live /\ own[vm] \in Pid
    BY <2>1 DEF Up, Live
  <2>4. own[vm] \in Live => own[vm] \in Pid
    BY DEF Live
  <2>5. QED
    BY <2>1, <2>2, <2>3, <2>4 DEF IInv, NoFault
<1>16. CASE UNCHANGED vars
  <2>1. /\ UNCHANGED <<stage, vm, raising, files, own, pc, outcome, guestOn, faults, taps, qemu, ftrace>>
        /\ Live' = Live /\ Up' = Up /\ Recording' = Recording
    BY <1>16 DEF vars, vmVars, traceVars, hostVars, objVars, Live, Up, Recording
  <2>2. QED
    BY <2>1 DEF IInv, NoFault
<1>17. QED
  BY <1>1, <1>2, <1>3, <1>4, <1>5, <1>6, <1>7, <1>8, <1>9, <1>10, <1>11, <1>12, <1>13, <1>14, <1>15, <1>16
  DEF Next, Progress, TryBlock, Netperf, Finally, Fault, Guests

-----------------------------------------------------------------------------
(* The invariants of the model. *)

(* Before the first session the inductive invariant holds. *)
LEMMA InitInv == Init => IInv
<1> SUFFICES ASSUME Init PROVE IInv
  OBVIOUS
<1> USE HostAssumption, VMAssumption, TraceAssumption
<1>1. TypeOK
  BY InitType
<1>2. /\ stage = "idle" /\ FreshObjects /\ raising = FALSE /\ Live = {} /\ taps = {} /\ ~SetByRun
      /\ ~Recording /\ HostIsClean /\ pc[vm] = "idle" /\ faults = 0 /\ outcome = "none"
      /\ ~files.merged /\ ~ftrace.events /\ ~ftrace.big /\ ~tracer.on
  BY DEF Init, HostBooted, FreshObjects, Live, Recording, BootFtrace, NoFiles, NoTracer, HostIsClean,
     RestoredOrSlipped, SetByRun
<1>3. HostSafe
  BY <1>2 DEF HostSafe, PcOfStage, LiveHaveTap, TapZero, LiveIsOwn, Sysctl, HasTap, HostStages,
     GuestStages, ReadStages, AfterStages
<1>4. TracerState /\ BufferAndFiles /\ NoFault /\ Left /\ Booted
  BY <1>2 DEF TracerState, BufferAndFiles, NoFault, Left, Booted, TracingOn, TracingOff, Completed,
     FinallyStages, TryStages, GuestStages
<1>5. QED
  BY <1>1, <1>3, <1>4 DEF IInv

(* Nothing is started before the first session. *)
LEMMA BootedStep == IInv /\ [Next]_vars => Booted'
<1> SUFFICES ASSUME IInv, [Next]_vars PROVE Booted'
  OBVIOUS
<1>f. ftrace \in [events : BOOLEAN, on : BOOLEAN, big : BOOLEAN, buf : Seq(Record)]
  BY DEF IInv, TypeOK
<1>1. CASE Reboot
  BY <1>1 DEF Reboot, HostReboots, Live, Booted, Recording, BootFtrace
<1>2. CASE stage' # "idle" \/ outcome' # "none"
  BY <1>2 DEF Booted
<1>3. ASSUME UNCHANGED <<stage, outcome, taps, Recording>>, Live' \subseteq Live PROVE Booted'
  BY <1>3 DEF Booted, IInv
<1>4. CASE SetupAndRun \/ TeardownVM
  BY <1>4, <1>2 DEF SetupAndRun, TeardownVM
<1>5. CASE \/ StartRun \/ HostTraces \/ GuestTraces \/ Netperf \/ HostTraceOff \/ GuestTraceOff
           \/ ReadGuest \/ ReadHost \/ ShrinkBuffer \/ CopyMaps \/ TryRaises \/ ReadRaises
  BY <1>5, <1>2 DEF StartRun, HostTraces, DisableEvents, GrowBuffer, EnableEvents, EmptyTrace, TraceOn,
       GuestTraces, GuestTracer, GuestTraceOn, Netperf, MarkBegin, TracedNetperf, MarkEnd,
       UntracedNetperf, HostTraceOff, GuestTraceOff, ReadGuest, ReadHost, ShrinkBuffer, CopyMaps,
       TryRaises, ReadRaises, At
<1>6. CASE DisableAllEvents \/ MergeTraces \/ Stats \/ FinallyRaises \/ MergeOrStatsRaises
  BY <1>6, <1>2 DEF DisableAllEvents, MergeTraces, Stats, FinallyRaises, MergeOrStatsRaises, Ends
<1>7. CASE Overruns \/ UNCHANGED vars
  <2>1. UNCHANGED <<stage, outcome, taps, qemu>>
    BY <1>7 DEF Overruns, RestUnchanged, vars, vmVars, traceVars, hostVars
  <2>2. Recording' = Recording
    BY <1>7, <1>f DEF Overruns, vars, traceVars, Recording
  <2>3. QED
    BY <2>1, <2>2, <1>3 DEF Live
<1>8. ASSUME NEW p \in Pid, Boots(p) \/ GuestResets(p) \/ Ended(p) PROVE Booted'
  <2>1. UNCHANGED <<stage, outcome, taps>> /\ Live' \subseteq Live
    BY <1>8 DEF Boots, GuestResets, Ended, QemuStarts, QemuExits, RestUnchanged, hostVars, Live,
       IInv, TypeOK, VMTypeOK, HostTypeOK
  <2>2. Recording' = Recording
    BY <1>8, <1>f DEF Boots, GuestResets, Ended, RestUnchanged, Recorded, Recording
  <2>3. QED
    BY <2>1, <2>2, <1>3
<1>9. QED
  BY <1>1, <1>4, <1>5, <1>6, <1>7, <1>8 DEF Next, Progress, TryBlock, Finally, Fault, Guests

(* Every step keeps the inductive invariant. *)
LEMMA StepInv == IInv /\ [Next]_vars => IInv'
<1> SUFFICES ASSUME IInv, [Next]_vars PROVE IInv'
  OBVIOUS
<1>1. TypeOK' /\ HostSafe'
  BY TypeStep, HostStep DEF IInv
<1>2. TracerState' /\ BufferAndFiles'
  BY TracerStep, BufferStep DEF IInv
<1>3. NoFault' /\ Left'
  BY <1>1, <1>2, NoFaultStep, LeftStep
<1>4. QED
  BY <1>1, <1>2, <1>3, BootedStep DEF IInv

(* The inductive invariant holds whatever sessions, failures and reboots there are. *)
THEOREM Invariance == Spec => []IInv
BY InitInv, StepInv, PTL DEF Spec

(* RunsAsAnnounced: while run() measures, host and guest trace, or do not,  *)
(* as it has arranged, and the guest under test is the QEMU it launched.    *)
THEOREM Announced == Spec => []RunsAsAnnounced
<1>1. IInv => RunsAsAnnounced
  <2> SUFFICES ASSUME IInv PROVE RunsAsAnnounced
    OBVIOUS
  <2>1. stage \in {"traced", "untraced"} => Live \subseteq {own[vm]} /\ pc[vm] = "test"
    BY DEF IInv, HostSafe, PcOfStage, TapZero, LiveIsOwn, GuestStages
  <2>2. stage = "traced" => Recording
    BY DEF IInv, TracerState, TracingOn, Recording
  <2>3. stage = "untraced" => ~Recording /\ guestOn = NoPid
    BY DEF IInv, TracerState, TracingOff, Recording
  <2>4. ASSUME stage = "traced", faults = 0
        PROVE  guestOn = own[vm] /\ LastOffset(ftrace.buf) = own[vm]
    <3>1. guestOn = own[vm] /\ own[vm] \in Up /\ Contains(ftrace.buf, own[vm])
      BY <2>1, <2>4 DEF IInv, NoFault, GuestStages
    <3>2. ftrace.buf \in Seq(Record) /\ own[vm] \in Pid /\ OneTest(ftrace.buf, own[vm])
      BY <2>4, <3>1 DEF IInv, TypeOK, Up, BufferAndFiles, GuestStages
    <3>3. QED
      BY <3>1, <3>2, OffsetOfTest
  <2>5. QED
    BY <2>1, <2>2, <2>3, <2>4 DEF RunsAsAnnounced
<1>2. QED
  BY <1>1, Invariance, PTL

(* MergesOwnTest: a merged trace is one begin and one end of this run, and  *)
(* its guest part is shifted by the offset of its own guest.                *)
THEOREM OwnTest == Spec => []MergesOwnTest
<1>1. IInv => MergesOwnTest
  <2> SUFFICES ASSUME IInv, files.merged, stage = "stats"
               PROVE  /\ \E i, j \in DOMAIN files.host :
                           /\ i < j /\ Markers(files.host) = {i, j}
                           /\ files.host[i] = "begin" /\ files.host[j] = "end"
                      /\ LastOffset(files.host) = own[vm]
                      /\ files.guest = own[vm]
    BY DEF MergesOwnTest
  <2>1. Parses /\ Completed
    BY DEF IInv, BufferAndFiles, TypeOK, Completed, FinallyStages
  <2>2. /\ files.guest = own[vm] /\ own[vm] \in Pid /\ files.host \in Seq(Record)
        /\ OneTest(files.host, own[vm])
    BY <2>1 DEF Parses, IInv, BufferAndFiles, TypeOK
  <2>3. LastOffset(files.host) = own[vm]
    BY <2>1, <2>2, OffsetOfTest DEF Parses
  <2>4. \E i, j \in DOMAIN files.host :
          /\ i < j /\ Markers(files.host) = {i, j}
          /\ files.host[i] = "begin" /\ files.host[j] = "end"
    BY <2>1, <2>2, MarkersOfTest DEF Parses
  <2>5. QED
    BY <2>2, <2>3, <2>4
<1>2. QED
  BY <1>1, Invariance, PTL

(* HostAfterRun: what a run that returned, and one that raised, leave. *)
THEOREM AfterRun == Spec => []HostAfterRun
<1>1. IInv => HostAfterRun
  BY DEF IInv, Left, HostAfterRun
<1>2. QED
  BY <1>1, Invariance, PTL

(* NoFaultNoAbort: run() raises only if something failed. *)
THEOREM AbortsForAReason == Spec => []NoFaultNoAbort
<1>1. IInv => NoFaultNoAbort
  BY TraceAssumption DEF IInv, NoFault, NoFaultNoAbort, TypeOK
<1>2. QED
  BY <1>1, Invariance, PTL

-----------------------------------------------------------------------------
(* Refinement: every step of run() and of the host is a step of the lease,  *)
(* or leaves it alone.                                                      *)

(* What the lease is, read off the taps. *)
TapLease == IF 0 \notin taps THEN "free" ELSE IF HasTap THEN "held" ELSE "lost"
AfterBoot == stage = "idle" /\ outcome = "none"

LEMMA LeaseOf ==
  ASSUME IInv
  PROVE  /\ lease = IF AfterBoot THEN "booted" ELSE TapLease
         /\ measuring => lease = "held"
         /\ occupied => lease \in {"held", "lost"}
         /\ csumOff => slipped \/ 0 \in taps
         /\ occupied \in BOOLEAN /\ slipped \in BOOLEAN /\ measuring \in BOOLEAN
         /\ csumOff \in BOOLEAN
<1>1. lease = IF AfterBoot THEN "booted" ELSE TapLease
  BY DEF lease, HasTap, AfterBoot, TapLease
<1>2. measuring => HasTap /\ 0 \in taps /\ ~AfterBoot
  BY DEF measuring, IInv, HostSafe, PcOfStage, TapZero, GuestStages, AfterStages, Returned, AfterBoot
<1>3. occupied => 0 \in taps /\ ~AfterBoot
  BY DEF occupied, IInv, HostSafe, LiveHaveTap, Booted, AfterBoot
<1>4. csumOff => slipped \/ 0 \in taps
  BY DEF slipped, IInv, HostSafe, Sysctl, SetByRun
<1>5. occupied \in BOOLEAN /\ slipped \in BOOLEAN /\ measuring \in BOOLEAN /\ csumOff \in BOOLEAN
  BY DEF occupied, slipped, measuring, IInv, TypeOK, VMTypeOK, HostTypeOK
<1>6. QED
  BY <1>1, <1>2, <1>3, <1>4, <1>5 DEF TapLease

(* The same after a step. *)
LEMMA LeaseOfNext ==
  ASSUME IInv'
  PROVE  /\ lease' = IF AfterBoot' THEN "booted" ELSE TapLease'
         /\ measuring' => lease' = "held"
         /\ occupied' \in BOOLEAN /\ slipped' \in BOOLEAN /\ measuring' \in BOOLEAN
         /\ csumOff' \in BOOLEAN
<1>1. lease' = IF AfterBoot' THEN "booted" ELSE TapLease'
  BY DEF lease, HasTap, AfterBoot, TapLease
<1>2. measuring' => HasTap' /\ 0 \in taps' /\ ~AfterBoot'
  BY DEF measuring, IInv, HostSafe, PcOfStage, TapZero, GuestStages, AfterStages, Returned, AfterBoot
<1>3. /\ occupied' \in BOOLEAN /\ slipped' \in BOOLEAN /\ measuring' \in BOOLEAN
      /\ csumOff' \in BOOLEAN
  BY DEF occupied, slipped, measuring, IInv, TypeOK, VMTypeOK, HostTypeOK
<1>4. QED
  BY <1>1, <1>2, <1>3 DEF TapLease

(* A command of a VM method is a step of the lease, or leaves it alone. *)
LEMMA CommandOnLease ==
  ASSUME IInv, IInv', SetupAndRun \/ TeardownVM
  PROVE  Lease!Next \/ UNCHANGED Lease!leaseVars
<1> USE DEF Lease!leaseVars, Lease!hostState, Lease!Clean
<1> USE DEF SetupStages, RunStages, TeardownStages
<1>m. measuring = FALSE /\ measuring' = FALSE /\ stage # "idle" /\ stage' # "idle" /\ vm' = vm
  BY DEF SetupAndRun, TeardownVM, measuring
<1>b. /\ lease = IF 0 \notin taps THEN "free" ELSE IF HasTap THEN "held" ELSE "lost"
      /\ lease' = IF 0 \notin taps' THEN "free" ELSE IF HasTap' THEN "held" ELSE "lost"
      /\ occupied => lease # "free"
      /\ csumOff => slipped \/ 0 \in taps
      /\ occupied \in BOOLEAN /\ occupied' \in BOOLEAN
      /\ slipped \in BOOLEAN /\ slipped' \in BOOLEAN
      /\ csumOff \in BOOLEAN /\ csumOff' \in BOOLEAN
  BY <1>m, LeaseOf, LeaseOfNext DEF TapLease, AfterBoot
<1>s. TypeOK /\ PcOfStage /\ vm \in VM
  BY DEF IInv, HostSafe, TypeOK
<1>1. CASE CreateTun(vm)
  <2>1. PICK t \in Tap :
          /\ IsFirstFreeTap(t)
          /\ Step(vm, "tun", TunOutcome(t))
          /\ taps' = taps \cup {t}
          /\ tapDevice' = [tapDevice EXCEPT ![vm] = t]
          /\ UNCHANGED <<csumOff, qemu, slips>>
    BY <1>1 DEF CreateTun
  <2>2. /\ UNCHANGED <<occupied, csumOff, slipped>> /\ tapDevice'[vm] = t
        /\ stage = "setup" /\ pc[vm] = "tun"
    BY <2>1, <1>s DEF occupied, slipped, Live, Step, TypeOK, VMTypeOK, SetupAndRun, TeardownVM, PcOfStage
  <2>3. ~HasTap
    BY <2>2, HostAssumption DEF HasTap, IInv, HostSafe, TapZero, NoTap
  <2>4. CASE t = 0
    <3>1. lease = "free" /\ lease' = "held" /\ occupied = FALSE /\ (csumOff => slipped)
      BY <2>1, <2>2, <2>4, <1>b, <1>m DEF IsFirstFreeTap, HasTap
    <3>2. Lease!Acquire
      BY <3>1, <2>2, <1>m DEF Lease!Acquire
    <3>3. QED
      BY <3>2 DEF Lease!Next
  <2>5. CASE t # 0
    <3>1. 0 \in taps /\ 0 \in taps' /\ ~HasTap'
      BY <2>1, <2>2, <2>5, <1>m, HostAssumption DEF IsFirstFreeTap, Tap, HasTap
    <3>2. QED
      BY <3>1, <2>2, <2>3, <1>b, <1>m
  <2>6. QED
    BY <2>4, <2>5
<1>2. CASE DeleteTun(vm)
  <2>1. pc[vm] = "deltun" /\ stage = "teardown" /\ UNCHANGED <<occupied, csumOff, slipped>>
        /\ pc'[vm] = "unload" /\ stage' = "teardown"
    BY <1>2, <1>s, CommandStage DEF DeleteTun, Live, occupied, slipped
  <2>2. HasTap /\ HasTap' /\ 0 \in taps /\ 0 \notin taps'
    <3>1. HasTap /\ taps = {0}
      BY <2>1 DEF IInv, HostSafe, TapZero, Returned, AfterStages
    <3>2. UNCHANGED tapDevice /\ taps' = taps \ {tapDevice[vm]}
      BY <1>2 DEF DeleteTun
    <3>3. QED
      BY <2>1, <3>1, <3>2, <1>m DEF HasTap
  <2>3. ~occupied /\ (csumOff => slipped)
    BY <1>2, <2>1, <2>2 DEF DeleteTun, TapFree, HoldersOf, IInv, HostSafe, LiveHaveTap, Sysctl,
       SetByRun, HasTap, occupied, slipped
  <2>4. Lease!Release
    BY <2>1, <2>2, <2>3, <1>b, <1>m DEF Lease!Release
  <2>5. QED
    BY <2>4 DEF Lease!Next
<1>3. CASE RestartNetserver(vm) \/ LoadKvm(vm) \/ UnloadKvm(vm) \/ StopNetserver(vm)
  <2>1. UNCHANGED <<taps, csumOff, slipped, qemu, tapDevice>>
    BY <1>3 DEF RestartNetserver, LoadKvm, UnloadKvm, StopNetserver, Works, Slips, slipped
  <2>2. HasTap' = HasTap /\ occupied' = occupied
    BY <2>1, <1>m DEF HasTap, occupied, Live
  <2>3. QED
    BY <2>1, <2>2, <1>b, <1>m
<1>4. CASE LinkUp(vm) \/ ConfigureHost(vm) \/ Launch(vm) \/ ChangeParameters(vm) \/ PinProcess(vm)
           \/ Connect(vm) \/ ConfigureGuest(vm) \/ Shutdown(vm) \/ ResetHostConfiguration(vm)
  <2>1. /\ UNCHANGED <<taps, tapDevice>>
        /\ pc[vm] \in {"link", "hostcfg", "shutdown", "reset"} \cup RunStages
    BY <1>4 DEF LinkUp, ConfigureHost, Launch, ChangeParameters, PinProcess, Connect,
       ConfigureGuest, Shutdown, ResetHostConfiguration, Step, hostVars
  <2>2. stage \in {"setup", "run", "teardown"}
    BY DEF SetupAndRun, TeardownVM
  <2>3. HasTap /\ ~Returned
    BY <2>1, <2>2 DEF IInv, HostSafe, PcOfStage, TapZero, Returned, AfterStages
  <2>4. 0 \in taps /\ HasTap'
    BY <2>1, <2>3, <1>m DEF IInv, HostSafe, TapZero, HasTap
  <2>5. Lease!Use
    BY <2>1, <2>3, <2>4, <1>b, <1>m DEF Lease!Use
  <2>6. QED
    BY <2>5 DEF Lease!Next
<1>5. QED
  BY <1>1, <1>2, <1>3, <1>4 DEF SetupAndRun, TeardownVM, Setup, Run, Teardown

(* So is every step of run() and of the host. *)
LEMMA StepOnLease ==
  ASSUME IInv, IInv', [Next]_vars
  PROVE  [Lease!Next]_Lease!leaseVars
<1> DEFINE Stutter == UNCHANGED Lease!leaseVars
<1> USE DEF Lease!leaseVars, Lease!hostState, Lease!Clean
<1>b. /\ lease = IF AfterBoot THEN "booted" ELSE TapLease
      /\ lease' = IF AfterBoot' THEN "booted" ELSE TapLease'
      /\ measuring => lease = "held"
      /\ measuring' => lease' = "held"
      /\ occupied => lease \in {"held", "lost"}
      /\ occupied \in BOOLEAN /\ occupied' \in BOOLEAN /\ measuring \in BOOLEAN /\ measuring' \in BOOLEAN
      /\ slipped \in BOOLEAN /\ slipped' \in BOOLEAN /\ csumOff \in BOOLEAN /\ csumOff' \in BOOLEAN
  BY LeaseOf, LeaseOfNext
(* run() goes on, the host as it is. *)
<1>g. ASSUME UNCHANGED <<taps, csumOff, slips, qemu, tapDevice, vm>>,
             stage = "idle" <=> stage' = "idle", stage = "idle" => outcome' = outcome
      PROVE  Lease!Next \/ Stutter
  <2>1. HasTap' = HasTap /\ UNCHANGED <<occupied, slipped>> /\ AfterBoot' = AfterBoot
    BY <1>g DEF HasTap, occupied, slipped, Live, AfterBoot
  <2>2. lease' = lease
    BY <2>1, <1>g, <1>b DEF TapLease
  <2>3. CASE measuring' = measuring
    BY <2>1, <2>2, <2>3, <1>g
  <2>4. CASE measuring' # measuring
    <3>1. Lease!Measure
      BY <2>1, <2>2, <2>4, <1>b, <1>g DEF Lease!Measure
    <3>2. QED
      BY <3>1 DEF Lease!Next
  <2>5. QED
    BY <2>3, <2>4
(* run() is left. *)
<1>e. ASSUME UNCHANGED <<taps, csumOff, slips, qemu>>, stage # "idle",
             stage' = "idle", outcome' # "none", ~measuring
      PROVE  Lease!Next \/ Stutter
  <2>1. /\ ~HasTap' /\ ~AfterBoot /\ ~AfterBoot'
        /\ UNCHANGED <<occupied, slipped>> /\ measuring' = measuring
    BY <1>e DEF HasTap, occupied, slipped, Live, measuring, AfterBoot
  <2>2. CASE lease = "held"
    <3>1. lease' = "lost"
      BY <2>1, <2>2, <1>e, <1>b DEF TapLease
    <3>2. Lease!Lose
      BY <2>1, <2>2, <3>1, <1>e DEF Lease!Lose
    <3>3. QED
      BY <3>2 DEF Lease!Next
  <2>3. CASE lease # "held"
    BY <2>1, <2>3, <1>e, <1>b DEF TapLease
  <2>4. QED
    BY <2>2, <2>3
<1>1. CASE StartRun
  <2>1. UNCHANGED <<taps, csumOff, occupied, slipped>> /\ ~HasTap /\ ~measuring /\ ~measuring'
    BY <1>1 DEF StartRun, At, hostVars, HasTap, measuring, occupied, slipped, Live
  <2>2. ~HasTap' /\ ~AfterBoot'
    <3>1. tapDevice'[vm'] = NoTap /\ NoTap # 0 /\ stage' = "setup"
      BY <1>1, HostAssumption DEF StartRun, At, IInv, HostSafe, PcOfStage, FreshObjects, NoTap
    <3>2. QED
      BY <3>1 DEF HasTap, AfterBoot
  <2>3. CASE AfterBoot
    <3>1. lease = "booted" /\ lease' = "free"
      BY <2>1, <2>2, <2>3, <1>b DEF TapLease, IInv, Booted, AfterBoot
    <3>2. Lease!Begin
      <4>1. measuring' = measuring
        BY <2>1, <1>b
      <4>2. QED
        BY <2>1, <3>1, <4>1 DEF Lease!Begin
    <3>3. QED
      BY <3>2 DEF Lease!Next
  <2>4. CASE ~AfterBoot
    BY <2>1, <2>2, <2>4, <1>b DEF TapLease
  <2>5. QED
    BY <2>3, <2>4
<1>2. CASE SetupAndRun \/ TeardownVM
  BY <1>2, CommandOnLease
<1>3. CASE HostTraces \/ GuestTraces \/ Netperf \/ HostTraceOff \/ GuestTraceOff
           \/ ReadGuest \/ ReadHost \/ ShrinkBuffer \/ CopyMaps \/ TryRaises \/ ReadRaises
  <2>1. UNCHANGED <<taps, csumOff, slips, qemu, tapDevice, vm>>
    BY <1>3 DEF HostTraces, DisableEvents, GrowBuffer, EnableEvents, EmptyTrace, TraceOn,
       GuestTraces, GuestTracer, GuestTraceOn, Netperf, MarkBegin, TracedNetperf, MarkEnd,
       UntracedNetperf, HostTraceOff, GuestTraceOff, ReadGuest, ReadHost, ShrinkBuffer, CopyMaps,
       TryRaises, ReadRaises, HostUnchanged, vmVars, hostVars, objVars
  <2>2. stage # "idle" /\ stage' # "idle"
    BY <1>3 DEF HostTraces, DisableEvents, GrowBuffer, EnableEvents, EmptyTrace, TraceOn,
       GuestTraces, GuestTracer, GuestTraceOn, Netperf, MarkBegin, TracedNetperf, MarkEnd,
       UntracedNetperf, HostTraceOff, GuestTraceOff, ReadGuest, ReadHost, ShrinkBuffer, CopyMaps,
       TryRaises, ReadRaises, At, TryStages
  <2>3. QED
    BY <2>1, <2>2, <1>g
<1>4. CASE DisableAllEvents \/ MergeTraces \/ Stats \/ FinallyRaises \/ MergeOrStatsRaises
  <2>1. stage \in {"maps", "teardown"} \cup AfterStages
    BY <1>4 DEF DisableAllEvents, MergeTraces, Stats, FinallyRaises, MergeOrStatsRaises, AfterStages
  <2>2. \/ stage' = "idle" /\ outcome' # "none" /\ UNCHANGED hostVars
        \/ stage' \in {"merge", "stats"} /\ UNCHANGED <<hostVars, tapDevice, vm>>
    BY <1>4 DEF DisableAllEvents, MergeTraces, Stats, FinallyRaises, MergeOrStatsRaises, Ends,
       vmVars, objVars
  <2>3. CASE stage' = "idle" /\ outcome' # "none" /\ UNCHANGED hostVars
    BY <2>1, <2>3, <1>e DEF hostVars, measuring, AfterStages
  <2>4. CASE stage' \in {"merge", "stats"} /\ UNCHANGED <<hostVars, tapDevice, vm>>
    BY <2>1, <2>4, <1>g DEF hostVars, AfterStages
  <2>5. QED
    BY <2>2, <2>3, <2>4
<1>5. CASE Reboot
  <2>1. ~occupied' /\ ~csumOff' /\ ~slipped' /\ ~measuring' /\ AfterBoot'
    BY <1>5 DEF Reboot, HostReboots, occupied, slipped, Live, measuring, AfterBoot
  <2>2. Lease!Reboot
    BY <2>1, <1>b DEF Lease!Reboot
  <2>3. QED
    BY <2>2 DEF Lease!Next
<1>6. CASE Overruns \/ UNCHANGED vars \/ \E p \in Pid : GuestResets(p)
  BY <1>6, <1>g DEF Overruns, GuestResets, RestUnchanged, vars, vmVars, traceVars, hostVars, objVars
<1>7. ASSUME NEW p \in Pid, Boots(p) \/ Ended(p) PROVE Lease!Next \/ Stutter
  <2>1. /\ UNCHANGED <<taps, csumOff, slips, tapDevice, vm, stage, outcome>> /\ Live' \subseteq Live
    BY <1>7 DEF Boots, Ended, QemuStarts, QemuExits, RestUnchanged, objVars, Live, IInv, TypeOK,
       VMTypeOK, HostTypeOK
  <2>2. /\ HasTap' = HasTap /\ measuring' = measuring /\ slipped' = slipped
        /\ AfterBoot' = AfterBoot /\ (occupied' => occupied)
    BY <2>1 DEF HasTap, measuring, occupied, slipped, AfterBoot
  <2>3. lease' = lease
    BY <2>1, <2>2, <1>b DEF TapLease
  <2>4. CASE occupied' = occupied
    BY <2>1, <2>2, <2>3, <2>4
  <2>5. CASE occupied' # occupied
    <3>1. lease \in {"held", "lost"} /\ occupied /\ ~occupied'
      BY <2>2, <2>5, <1>b
    <3>2. Lease!Use \/ Lease!Decay
      BY <2>1, <2>2, <2>3, <3>1, <1>b DEF Lease!Use, Lease!Decay
    <3>3. QED
      BY <3>2 DEF Lease!Next
  <2>6. QED
    BY <2>4, <2>5
<1>8. QED
  BY <1>1, <1>2, <1>3, <1>4, <1>5, <1>6, <1>7
  DEF Next, Progress, TryBlock, Finally, Fault, Guests

(* TraceRun implements HostLease: tracing sessions and the test harness     *)
(* take turns on a host, and neither measures on what the other has lost.   *)
THEOREM ImplementsLease == Spec => LeaseSpec
<1>1. Init => Lease!Init
  BY DEF Init, HostBooted, Live, lease, occupied, slipped, measuring, Lease!Init
<1>2. IInv /\ IInv' /\ [Next]_vars => [Lease!Next]_Lease!leaseVars
  BY StepOnLease
<1>3. QED
  BY <1>1, <1>2, Invariance, PTL DEF Spec, LeaseSpec, Lease!Spec
=============================================================================
