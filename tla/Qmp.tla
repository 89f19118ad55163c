--------------------------------- MODULE Qmp ---------------------------------
(***************************************************************************)
(* qemu/qmp.py: one connection of a QEMUMonitorProtocol object to the QMP  *)
(* monitor of a QEMU, from connect() in Qemu._run to close() in teardown,  *)
(* as the sensors of sensors/qemu_batch.py use it.  Commands carry no id:  *)
(* the first line that is not an event is the answer, whatever it answers. *)
(*                                                                         *)
(* Call 1 is qmp_capabilities; after it, one sensor calls command() right  *)
(* before and right after each test.  An answer is named by the call it    *)
(* answers; that it may be an error makes no difference to the protocol.   *)
(***************************************************************************)
EXTENDS Naturals, Sequences, FiniteSets

CONSTANTS
    MaxCalls,       \* bound: calls of cmd_obj on the connection
    MaxEvents       \* bound: events the monitor emits

ASSUME QmpAssumption == MaxCalls \in Nat /\ MaxEvents \in Nat

VARIABLES
    conn,           \* the client's socket
    reading,        \* what the client is blocked on in __json_read
    toServer,       \* the calls whose commands the monitor has not read yet
    toClient,       \* the lines the client has not read yet
    sent,           \* the calls whose command went out
    outcome,        \* what each call so far returned: an answer, or None
    interrupted,    \* the calls that Ctrl-C took out of __json_read
    cached,         \* the length of __events, which nothing in the harness reads
    server,         \* is the QEMU at the other end alive
    emitted         \* the events emitted so far

vars == <<conn, reading, toServer, toClient, sent, outcome, interrupted,
          cached, server, emitted>>

Calls    == 1 .. MaxCalls
None     == 0
Greeting == 0
Event    == MaxCalls + 1
Line     == {Greeting, Event} \cup Calls

TypeOK ==
    /\ conn \in {"new", "open", "closed"}
    /\ reading \in {"nothing", "greeting", "answer"}
    /\ toServer \in Seq(Calls)
    /\ toClient \in Seq(Line)
    /\ sent \subseteq Calls
    /\ outcome \in Seq({None} \cup Calls)
    /\ interrupted \subseteq Calls
    /\ Len(outcome) + (IF reading = "answer" THEN 1 ELSE 0) <= MaxCalls
    /\ cached \in Nat
    /\ server \in BOOLEAN
    /\ emitted \in 0 .. MaxEvents

Init ==
    /\ conn = "new"
    /\ reading = "nothing"
    /\ toServer = <<>>
    /\ toClient = <<>>
    /\ sent = {}
    /\ outcome = <<>>
    /\ interrupted = {}
    /\ cached = 0
    /\ server = TRUE
    /\ emitted = 0

-----------------------------------------------------------------------------
(* The monitor answers in order; events are emitted once it has answered   *)
(* qmp_capabilities.  When QEMU ends, the lines already sent can be read.  *)

Serve ==
    /\ server
    /\ toServer # <<>>
    /\ toClient' = Append(toClient, Head(toServer))
    /\ toServer' = Tail(toServer)
    /\ UNCHANGED <<conn, reading, sent, outcome, interrupted, cached, server, emitted>>

Emit ==
    /\ server
    /\ 1 \in sent /\ \A k \in 1 .. Len(toServer) : toServer[k] # 1
    /\ emitted < MaxEvents
    /\ emitted' = emitted + 1
    /\ toClient' = Append(toClient, Event)
    /\ UNCHANGED <<conn, reading, toServer, sent, outcome, interrupted, cached, server>>

ServerEnds ==
    /\ server
    /\ server' = FALSE
    /\ UNCHANGED <<conn, reading, toServer, toClient, sent, outcome, interrupted, cached, emitted>>

-----------------------------------------------------------------------------
Current == Len(outcome) + 1         \* the call in progress, or else the next one

Connect ==
    /\ conn = "new" /\ server
    /\ conn' = "open"
    /\ reading' = "greeting"
    /\ toClient' = <<Greeting>>
    /\ UNCHANGED <<toServer, sent, outcome, interrupted, cached, server, emitted>>

(* cmd_obj up to the end of sendall. *)
Send ==
    /\ Current <= MaxCalls
    /\ reading' = "answer"
    /\ toServer' = Append(toServer, Current)
    /\ sent' = sent \cup {Current}

(* __negotiate_capabilities: the greeting is read, qmp_capabilities is sent. *)
ReadGreeting ==
    /\ reading = "greeting"
    /\ toClient' = Tail(toClient)
    /\ Send
    /\ UNCHANGED <<conn, outcome, interrupted, cached, server, emitted>>

(* The sensor calls command(); what test_func does meanwhile is not here. *)
Call ==
    /\ conn = "open" /\ reading = "nothing"
    /\ Send
    /\ UNCHANGED <<conn, toClient, outcome, interrupted, cached, server, emitted>>

ReturnReadsOn(answer) ==            \* mutant: __json_read does not return
    /\ outcome' = Append(outcome, answer)
    /\ UNCHANGED <<reading, conn>>

(* The call ends.  What connect() raises leaves Qemu.run and the session;  *)
(* a sensor catches everything, answers zeros and goes on.                 *)
Return(answer) ==
    /\ outcome' = Append(outcome, answer)
    /\ reading' = "nothing"
    /\ conn' = IF Current = 1 /\ answer = None THEN "closed" ELSE conn

(* No greeting, a broken pipe (whose handler raises too), or Ctrl-C before  *)
(* sendall: nothing goes out.                                              *)
SendRaises ==
    /\ conn = "open" /\ reading \in {"nothing", "greeting"}
    /\ Current <= MaxCalls
    /\ Return(None)
    /\ UNCHANGED <<toServer, toClient, sent, interrupted, cached, server, emitted>>

(* __json_read: an event is cached and the loop goes on. *)
AfterEventReturns == Return(None)   \* mutant: an event ends the read (only_event)
AfterEvent        == UNCHANGED <<conn, reading, outcome>>

ReadEvent ==
    /\ reading = "answer"
    /\ toClient # <<>> /\ Head(toClient) = Event
    /\ toClient' = Tail(toClient)
    /\ cached' = cached + 1
    /\ AfterEvent
    /\ UNCHANGED <<toServer, sent, interrupted, server, emitted>>

(* The first line that is not an event is returned. *)
ReadAnswer ==
    /\ reading = "answer"
    /\ toClient # <<>> /\ Head(toClient) # Event
    /\ toClient' = Tail(toClient)
    /\ Return(Head(toClient))
    /\ UNCHANGED <<toServer, sent, interrupted, cached, server, emitted>>

(* readline returns '' at the end of the stream: "None", and command() raises. *)
EndOfStreamIgnored == FALSE         \* mutant: the loop reads again
EndOfStream        == toClient = <<>> /\ ~server

ReadEnd ==
    /\ reading = "answer"
    /\ EndOfStream
    /\ Return(None)
    /\ UNCHANGED <<toServer, toClient, sent, interrupted, cached, server, emitted>>

(* Ctrl-C while the client waits: the answer is still to come. *)
Interrupt ==
    /\ reading = "answer"
    /\ Return(None)
    /\ interrupted' = interrupted \cup {Current}
    /\ UNCHANGED <<toServer, toClient, sent, cached, server, emitted>>

(* teardown: shutdown() and close(). *)
Close ==
    /\ conn = "open" /\ reading = "nothing"
    /\ conn' = "closed"
    /\ UNCHANGED <<reading, toServer, toClient, sent, outcome, interrupted, cached, server, emitted>>

Monitor == Serve \/ Emit \/ ServerEnds
Read    == ReadGreeting \/ ReadEvent \/ ReadAnswer \/ ReadEnd
Client  == Connect \/ Call \/ SendRaises \/ Read \/ Interrupt \/ Close

Next == Monitor \/ Client

Spec == Init /\ [][Next]_vars

(* The monitor answers what it has read unless its QEMU ends; a client that *)
(* is waiting reads what there is.                                          *)
FairSpec == Spec /\ WF_vars(Serve) /\ WF_vars(Read)

-----------------------------------------------------------------------------
(***************************************************************************)
(* Answers are matched by order alone: through events, failures to send    *)
(* and the end of QEMU a call gets its own answer, and after Ctrl-C it     *)
(* gets one that lags behind by exactly as many commands as reads were     *)
(* interrupted before it.                                                  *)
(***************************************************************************)
AnswersLagByInterrupts ==
    \A c \in 1 .. Len(outcome) : outcome[c] # None =>
        /\ outcome[c] \in sent
        /\ Cardinality({b \in sent : outcome[c] < b /\ b <= c}) =
             Cardinality({b \in interrupted : b < c})

(* Nobody waits for ever: a call ends when the monitor answers or ends. *)
CallsReturn == reading # "nothing" ~> reading = "nothing"
=============================================================================
