------------------------------ MODULE QmpProofs ------------------------------
(***************************************************************************)
(* Proofs that in Qmp an answer lags behind its call by the interrupted    *)
(* reads and by nothing else, for any number of calls and events.          *)
(***************************************************************************)
EXTENDS Qmp, FiniteSetTheorems, TLAPS

(* The commands whose answers the client has not read. *)
InClient(b) == \E k \in 1 .. Len(toClient) : toClient[k] = b
InServer(b) == \E k \in 1 .. Len(toServer) : toServer[k] = b
Pending     == {b \in Calls : InClient(b) \/ InServer(b)}

(* Answers are sent and read in the order of their commands. *)
InOrder ==
    /\ \A i, j \in 1 .. Len(toServer) : i < j => toServer[i] < toServer[j]
    /\ \A i, j \in 1 .. Len(toClient) :
         i < j /\ toClient[i] \in Calls /\ toClient[j] \in Calls => toClient[i] < toClient[j]
    /\ \A i \in 1 .. Len(toClient), j \in 1 .. Len(toServer) :
         toClient[i] \in Calls => toClient[i] < toServer[j]

(* The greeting is read before anything is sent, and never as an answer. *)
GreetingFirst ==
    /\ conn = "new" => reading = "nothing" /\ toClient = <<>>
    /\ conn = "closed" => reading = "nothing"
    /\ reading = "greeting" => toClient = <<Greeting>>
    /\ reading = "greeting" \/ conn = "new" => toServer = <<>> /\ outcome = <<>> /\ sent = {}
    /\ conn = "open" /\ reading # "greeting" => ~InClient(Greeting)

(* Calls are numbered as they are made; answered ones come before pending ones. *)
Numbered ==
    /\ \A b \in sent : b <= Len(outcome) \/ (reading = "answer" /\ b = Len(outcome) + 1)
    /\ \A b \in interrupted : b <= Len(outcome)
    /\ Pending \subseteq sent
    /\ \A b \in sent \ Pending, p \in Pending : b < p

(* As long as answers can be read, one is pending for each interrupted read, *)
(* and one for the call in progress.                                         *)
PendingCount ==
    server \/ toClient # <<>> =>
        Cardinality(Pending) =
            Cardinality(interrupted) + (IF reading = "answer" THEN 1 ELSE 0)

(* The inductive invariant. *)
IInv ==
    /\ TypeOK /\ InOrder /\ GreetingFirst /\ Numbered /\ PendingCount
    /\ AnswersLagByInterrupts

-----------------------------------------------------------------------------
(* What each kind of step does to the two streams. *)

(* The lines that are no answers have none of the numbers of the calls. *)
LEMMA LineFacts ==
    ASSUME QmpAssumption
    PROVE  /\ None \notin Calls /\ Greeting \notin Calls /\ Event \notin Calls
           /\ Calls \subseteq Nat /\ Line \subseteq Nat
BY DEF QmpAssumption, None, Greeting, Event, Calls, Line

(* What reading the first line of a stream leaves. *)
LEMMA HeadTail ==
    ASSUME NEW S, NEW q \in Seq(S), q # <<>>
    PROVE  /\ Head(q) \in S /\ Head(q) = q[1] /\ Tail(q) \in Seq(S) /\ 1 \in 1 .. Len(q)
           /\ Len(Tail(q)) = Len(q) - 1 /\ Len(q) \in Nat \ {0}
           /\ \A k \in 1 .. Len(q) - 1 : Tail(q)[k] = q[k + 1] /\ k + 1 \in 1 .. Len(q)
OBVIOUS

(* What writing a line to a stream makes of it. *)
LEMMA AppendFacts ==
    ASSUME NEW S, NEW q \in Seq(S), NEW e \in S
    PROVE  /\ Append(q, e) \in Seq(S) /\ Len(Append(q, e)) = Len(q) + 1 /\ Len(q) \in Nat
           /\ \A k \in 1 .. Len(q) : Append(q, e)[k] = q[k] /\ k \in 1 .. Len(q) + 1
           /\ Append(q, e)[Len(q) + 1] = e
OBVIOUS

(* An element is in a non-empty queue iff it is its head or in its tail. *)
LEMMA InTail ==
    ASSUME NEW S, NEW q \in Seq(S), q # <<>>, NEW b
    PROVE  (\E k \in 1 .. Len(q) : q[k] = b) <=>
             b = Head(q) \/ \E k \in 1 .. Len(Tail(q)) : Tail(q)[k] = b
<1>1. ASSUME NEW k \in 1 .. Len(q), q[k] = b, b # Head(q)
      PROVE  \E j \in 1 .. Len(Tail(q)) : Tail(q)[j] = b
  <2>1. k # 1
    BY <1>1, HeadTail
  <2>2. k - 1 \in 1 .. Len(Tail(q)) /\ Tail(q)[k - 1] = q[k]
    BY <1>1, <2>1, HeadTail
  <2> QED BY <1>1, <2>2
<1>2. b = Head(q) => \E k \in 1 .. Len(q) : q[k] = b
  BY HeadTail
<1>3. ASSUME NEW j \in 1 .. Len(Tail(q)), Tail(q)[j] = b
      PROVE  \E k \in 1 .. Len(q) : q[k] = b
  BY <1>3, HeadTail
<1> QED BY <1>1, <1>2, <1>3

(* A stream that is written to holds what it held, and the new line. *)
LEMMA InAppend ==
    ASSUME NEW S, NEW q \in Seq(S), NEW e \in S, NEW b
    PROVE  (\E k \in 1 .. Len(Append(q, e)) : Append(q, e)[k] = b) <=>
             b = e \/ \E k \in 1 .. Len(q) : q[k] = b
<1>1. ASSUME NEW k \in 1 .. Len(Append(q, e)), Append(q, e)[k] = b, b # e
      PROVE  \E j \in 1 .. Len(q) : q[j] = b
  <2>1. k # Len(q) + 1
    BY <1>1, AppendFacts
  <2>2. k \in 1 .. Len(q)
    BY <1>1, <2>1, AppendFacts
  <2> QED BY <1>1, <2>2, AppendFacts
<1>2. b = e => \E k \in 1 .. Len(Append(q, e)) : Append(q, e)[k] = b
  BY AppendFacts
<1>3. ASSUME NEW j \in 1 .. Len(q), q[j] = b
      PROVE  \E k \in 1 .. Len(Append(q, e)) : Append(q, e)[k] = b
  BY <1>3, AppendFacts
<1> QED BY <1>1, <1>2, <1>3

(* The monitor moves one command from its stream to an answer in the client's. *)
LEMMA ServeEffect ==
    ASSUME QmpAssumption, TypeOK, InOrder, Serve
    PROVE  /\ InOrder' /\ Pending' = Pending
           /\ toServer' \in Seq(Calls) /\ toClient' \in Seq(Line)
           /\ InClient(Greeting)' => InClient(Greeting)
<1> DEFINE h == Head(toServer)
<1>1. toServer \in Seq(Calls) /\ toServer # <<>> /\ toClient \in Seq(Line)
  BY DEF TypeOK, Serve
<1>2. h \in Calls /\ h \in Line /\ h = toServer[1] /\ toServer' = Tail(toServer)
      /\ toClient' = Append(toClient, h)
  BY <1>1, HeadTail DEF Serve, Line
<1>3. ASSUME NEW b
      PROVE  InServer(b) <=> b = h \/ InServer(b)'
  <2>1. (\E k \in 1 .. Len(toServer) : toServer[k] = b) <=>
          b = h \/ \E k \in 1 .. Len(Tail(toServer)) : Tail(toServer)[k] = b
    BY <1>1, InTail
  <2> QED BY <2>1, <1>2 DEF InServer
<1>4. \A b : InClient(b)' <=> b = h \/ InClient(b)
  BY <1>1, <1>2, InAppend DEF InClient
<1>5. Pending' = Pending
  BY <1>3, <1>4 DEF Pending
<1>6. InClient(Greeting)' => InClient(Greeting)
  BY <1>2, <1>4, LineFacts
<1>7. toServer' \in Seq(Calls) /\ toClient' \in Seq(Line)
  BY <1>1, <1>2, HeadTail, AppendFacts
<1>8. InOrder'
  <2> DEFINE n == Len(toClient)
             m == Len(toServer)
  <2>1. Len(toServer') = m - 1 /\ m \in Nat \ {0}
        /\ \A k \in 1 .. m - 1 : toServer'[k] = toServer[k + 1] /\ k + 1 \in 1 .. m
    BY <1>1, <1>2, HeadTail
  <2>2. Len(toClient') = n + 1 /\ n \in Nat /\ toClient'[n + 1] = h
        /\ \A k \in 1 .. n : toClient'[k] = toClient[k]
    BY <1>1, <1>2, AppendFacts
  <2>3. \A j \in 1 .. m - 1 : h < toServer[j + 1]
    BY <1>2, <2>1 DEF InOrder
  <2>4. \A i \in 1 .. n : toClient[i] \in Calls => toClient[i] < h
    BY <1>2, <2>1 DEF InOrder
  <2>5. \A i, j \in 1 .. m - 1 : i < j => toServer'[i] < toServer'[j]
    BY <2>1 DEF InOrder
  <2>6. \A i, j \in 1 .. n + 1 :
          i < j /\ toClient'[i] \in Calls /\ toClient'[j] \in Calls => toClient'[i] < toClient'[j]
    <3> SUFFICES ASSUME NEW i \in 1 .. n + 1, NEW j \in 1 .. n + 1, i < j,
                        toClient'[i] \in Calls, toClient'[j] \in Calls
                 PROVE  toClient'[i] < toClient'[j]
      OBVIOUS
    <3>1. i \in 1 .. n /\ toClient'[i] = toClient[i]
      BY <2>2
    <3>2. CASE j = n + 1
      BY <3>1, <3>2, <2>2, <2>4
    <3>3. CASE j # n + 1
      <4>1. j \in 1 .. n /\ toClient'[j] = toClient[j]
        BY <3>3, <2>2
      <4> QED BY <3>1, <4>1 DEF InOrder
    <3> QED BY <3>2, <3>3
  <2>7. \A i \in 1 .. n + 1, j \in 1 .. m - 1 : toClient'[i] \in Calls => toClient'[i] < toServer'[j]
    <3> SUFFICES ASSUME NEW i \in 1 .. n + 1, NEW j \in 1 .. m - 1, toClient'[i] \in Calls
                 PROVE  toClient'[i] < toServer'[j]
      OBVIOUS
    <3>1. CASE i = n + 1
      BY <3>1, <2>1, <2>2, <2>3
    <3>2. CASE i # n + 1
      <4>1. i \in 1 .. n /\ toClient'[i] = toClient[i]
        BY <3>2, <2>2
      <4> QED BY <4>1, <2>1 DEF InOrder
    <3> QED BY <3>1, <3>2
  <2> QED BY <2>1, <2>2, <2>5, <2>6, <2>7 DEF InOrder
<1> QED BY <1>5, <1>6, <1>7, <1>8

(* An event joins or leaves the stream to the client. *)
LEMMA EmitEffect ==
    ASSUME QmpAssumption, TypeOK, InOrder, Emit
    PROVE  /\ InOrder' /\ Pending' = Pending /\ toClient' \in Seq(Line)
           /\ InClient(Greeting)' => InClient(Greeting)
<1>1. toClient \in Seq(Line) /\ Event \in Line /\ Event \notin Calls
      /\ toClient' = Append(toClient, Event) /\ toServer' = toServer
  BY LineFacts DEF TypeOK, Emit, Line
<1>2. \A b : InClient(b)' <=> b = Event \/ InClient(b)
  BY <1>1, InAppend DEF InClient
<1>3. \A b : InServer(b)' <=> InServer(b)
  BY <1>1 DEF InServer
<1>4. Pending' = Pending
  BY <1>1, <1>2, <1>3 DEF Pending
<1>5. InClient(Greeting)' => InClient(Greeting)
  <2>1. Greeting # Event
    BY DEF Greeting, Event, QmpAssumption
  <2> QED BY <2>1, <1>2
<1>6. toClient' \in Seq(Line)
  BY <1>1
<1>7. InOrder'
  <2> DEFINE n == Len(toClient)
  <2>1. Len(toClient') = n + 1 /\ n \in Nat /\ toClient'[n + 1] = Event
        /\ \A k \in 1 .. n : toClient'[k] = toClient[k]
    BY <1>1, AppendFacts
  <2>2. \A k \in 1 .. n + 1 : toClient'[k] \in Calls => k \in 1 .. n /\ toClient'[k] = toClient[k]
    BY <2>1, <1>1
  <2>3. \A i, j \in 1 .. n + 1 :
          i < j /\ toClient'[i] \in Calls /\ toClient'[j] \in Calls => toClient'[i] < toClient'[j]
    BY <2>2 DEF InOrder
  <2>4. \A i \in 1 .. n + 1, j \in 1 .. Len(toServer) : toClient'[i] \in Calls => toClient'[i] < toServer[j]
    BY <2>2 DEF InOrder
  <2> QED BY <1>1, <2>1, <2>3, <2>4 DEF InOrder
<1> QED BY <1>4, <1>5, <1>6, <1>7

(* The client reads a line; if it is an answer, it is the least pending one. *)
LEMMA LineReadEffect ==
    ASSUME QmpAssumption, TypeOK, InOrder,
           toClient # <<>>, toClient' = Tail(toClient), toServer' = toServer
    PROVE  /\ InOrder' /\ toClient' \in Seq(Line) /\ Head(toClient) \in Line
           /\ InClient(Head(toClient))
           /\ InClient(Greeting)' => InClient(Greeting)
           /\ Head(toClient) \notin Calls => Pending' = Pending
           /\ Head(toClient) \in Calls =>
                /\ Head(toClient) \in Pending
                /\ Pending' = Pending \ {Head(toClient)}
                /\ \A b \in Pending' : Head(toClient) < b
<1> DEFINE h == Head(toClient)
           n == Len(toClient)
<1>1. toClient \in Seq(Line) /\ toServer \in Seq(Calls) /\ Calls \subseteq Nat
  BY LineFacts DEF TypeOK
<1>2. h \in Line /\ h = toClient[1] /\ 1 \in 1 .. n /\ toClient' \in Seq(Line)
      /\ Len(toClient') = n - 1 /\ n \in Nat \ {0}
      /\ \A k \in 1 .. n - 1 : toClient'[k] = toClient[k + 1] /\ k + 1 \in 1 .. n
  BY <1>1, HeadTail
<1>3. \A b : InClient(b) <=> b = h \/ InClient(b)'
  BY <1>1, InTail DEF InClient
<1>4. \A b : InServer(b)' <=> InServer(b)
  BY DEF InServer
<1>5. InOrder'
  <2>1. \A i, j \in 1 .. n - 1 :
          i < j /\ toClient'[i] \in Calls /\ toClient'[j] \in Calls => toClient'[i] < toClient'[j]
    BY <1>2 DEF InOrder
  <2>2. \A i \in 1 .. n - 1, j \in 1 .. Len(toServer) : toClient'[i] \in Calls => toClient'[i] < toServer[j]
    BY <1>2 DEF InOrder
  <2> QED BY <1>2, <2>1, <2>2 DEF InOrder
<1>6. h \notin Calls => Pending' = Pending
  BY <1>3, <1>4 DEF Pending
<1>7. ASSUME h \in Calls, NEW b \in Pending'
      PROVE  h < b
  <2>1. CASE InClient(b)'
    <3>1. PICK k \in 1 .. n - 1 : toClient'[k] = b
      BY <2>1, <1>2 DEF InClient
    <3>2. toClient[k + 1] = b /\ k + 1 \in 1 .. n /\ 1 < k + 1 /\ b \in Calls
      BY <1>7, <3>1, <1>2 DEF Pending
    <3> QED BY <1>7, <3>2, <1>2 DEF InOrder
  <2>2. CASE InServer(b)'
    <3>1. PICK k \in 1 .. Len(toServer) : toServer[k] = b
      BY <2>2 DEF InServer
    <3> QED BY <1>7, <3>1, <1>2 DEF InOrder
  <2> QED BY <1>7, <2>1, <2>2 DEF Pending
<1>7a. h \in Calls => \A b \in Pending' : h < b
  BY <1>7
<1>8. ASSUME h \in Calls
      PROVE  h \in Pending /\ Pending' = Pending \ {h}
  <2>1. h \in Pending
    BY <1>8, <1>3 DEF Pending
  <2>2. h \notin Pending'
    <3> HIDE DEF h
    <3>1. h \in Nat
      BY <1>8, <1>1
    <3>2. ~(h < h)
      BY <3>1
    <3> QED BY <1>8, <1>7a, <3>2
  <2> QED BY <2>1, <2>2, <1>3, <1>4 DEF Pending
<1>9. InClient(h) /\ (InClient(Greeting)' => InClient(Greeting))
  BY <1>3
<1> QED BY <1>2, <1>5, <1>6, <1>8, <1>9, <1>7a

(* A command goes out, numbered above all others. *)
LEMMA SendEffect ==
    ASSUME QmpAssumption, TypeOK, InOrder, Numbered, Send, reading # "answer",
           toClient' \in Seq(Line), toClient' = toClient \/ (toClient = <<Greeting>> /\ toClient' = <<>>)
    PROVE  /\ InOrder' /\ toServer' \in Seq(Calls) /\ Current \in Calls
           /\ Pending' = Pending \cup {Current}
           /\ \A b \in sent : b < Current
<1> DEFINE c == Current
<1>1. Len(outcome) \in Nat
  BY DEF TypeOK
<1>2. c \in Calls /\ c = Len(outcome) + 1
  BY <1>1 DEF Send, Current, Calls, QmpAssumption
<1>3. \A b \in sent : b \in Nat /\ b < c
  BY <1>1, <1>2, LineFacts DEF Numbered, TypeOK
<1>4. toServer \in Seq(Calls) /\ toServer' = Append(toServer, c)
  BY DEF TypeOK, Send
<1>5. \A b : InServer(b)' <=> b = c \/ InServer(b)
  BY <1>2, <1>4, InAppend DEF InServer
<1>6. \A b \in Calls : InClient(b)' <=> InClient(b)
  <2>1. CASE toClient' = toClient
    BY <2>1 DEF InClient
  <2>2. CASE toClient = <<Greeting>> /\ toClient' = <<>>
    BY <2>2, LineFacts DEF InClient
  <2> QED BY <2>1, <2>2
<1>7. Pending' = Pending \cup {c}
  BY <1>2, <1>5, <1>6 DEF Pending
<1>8. InOrder'
  <2> DEFINE m == Len(toServer)
  <2>1. Len(toServer') = m + 1 /\ m \in Nat /\ toServer'[m + 1] = c
        /\ \A k \in 1 .. m : toServer'[k] = toServer[k]
    BY <1>2, <1>4, AppendFacts
  <2>2. \A k \in 1 .. m : toServer[k] < c
    <3> TAKE k \in 1 .. m
    <3>1. toServer[k] \in Pending
      BY <1>4 DEF Pending, InServer
    <3> QED BY <3>1, <1>3 DEF Numbered
  <2>3. \A i, j \in 1 .. m + 1 : i < j => toServer'[i] < toServer'[j]
    <3> SUFFICES ASSUME NEW i \in 1 .. m + 1, NEW j \in 1 .. m + 1, i < j
                 PROVE  toServer'[i] < toServer'[j]
      OBVIOUS
    <3>1. i \in 1 .. m
      BY <2>1
    <3>2. CASE j = m + 1
      BY <3>1, <3>2, <2>1, <2>2
    <3>3. CASE j # m + 1
      <4>1. j \in 1 .. m
        BY <3>3, <2>1
      <4> QED BY <3>1, <4>1, <2>1 DEF InOrder
    <3> QED BY <3>2, <3>3
  <2>4. \A i, j \in 1 .. Len(toClient') :
          i < j /\ toClient'[i] \in Calls /\ toClient'[j] \in Calls => toClient'[i] < toClient'[j]
    <3>1. CASE toClient' = toClient
      BY <3>1 DEF InOrder
    <3>2. CASE toClient' = <<>>
      BY <3>2
    <3> QED BY <3>1, <3>2
  <2>5. \A i \in 1 .. Len(toClient'), j \in 1 .. m + 1 : toClient'[i] \in Calls => toClient'[i] < toServer'[j]
    <3>1. CASE toClient' = toClient
      <4> SUFFICES ASSUME NEW i \in 1 .. Len(toClient), NEW j \in 1 .. m + 1, toClient[i] \in Calls
                   PROVE  toClient[i] < toServer'[j]
        BY <3>1
      <4>1. CASE j = m + 1
        <5>1. toClient[i] \in Pending
          BY DEF Pending, InClient
        <5> QED BY <5>1, <4>1, <2>1, <1>3 DEF Numbered
      <4>2. CASE j # m + 1
        <5>1. j \in 1 .. m
          BY <4>2, <2>1
        <5> QED BY <5>1, <2>1 DEF InOrder
      <4> QED BY <4>1, <4>2
    <3>2. CASE toClient' = <<>>
      BY <3>2
    <3> QED BY <3>1, <3>2
  <2> QED BY <2>1, <2>3, <2>4, <2>5 DEF InOrder
<1>9. toServer' \in Seq(Calls)
  BY <1>2, <1>4
<1> QED BY <1>2, <1>3, <1>7, <1>8, <1>9

-----------------------------------------------------------------------------
(* There are finitely many calls, so their counts are numbers. *)
LEMMA Finite ==
    ASSUME QmpAssumption, TypeOK
    PROVE  IsFiniteSet(Calls) /\ IsFiniteSet(Pending) /\ IsFiniteSet(interrupted)
<1>1. IsFiniteSet(1 .. MaxCalls)
  BY FS_Interval DEF QmpAssumption
<1>2. Pending \subseteq 1 .. MaxCalls /\ interrupted \subseteq 1 .. MaxCalls
  BY DEF Pending, TypeOK, Calls
<1> QED BY <1>1, <1>2, FS_Subset DEF Calls

(* A call that ends adds its outcome and changes no earlier one. *)
LEMMA ReturnEffect ==
    ASSUME QmpAssumption, TypeOK, NEW answer \in {None} \cup Calls, Return(answer),
           Current <= MaxCalls
    PROVE  /\ outcome' \in Seq({None} \cup Calls)
           /\ Len(outcome) \in Nat /\ Len(outcome') = Len(outcome) + 1
           /\ Len(outcome') <= MaxCalls /\ Current \in Calls
           /\ \A c \in 1 .. Len(outcome) : outcome'[c] = outcome[c]
           /\ outcome'[Len(outcome) + 1] = answer
           /\ reading' = "nothing" /\ conn' \in {conn, "closed"}
<1>1. outcome \in Seq({None} \cup Calls) /\ outcome' = Append(outcome, answer)
  BY DEF TypeOK, Return
<1>2. Len(outcome) \in Nat /\ Current = Len(outcome) + 1 /\ Current \in Calls
  BY <1>1 DEF Current, Calls, QmpAssumption
<1>3. reading' = "nothing" /\ conn' \in {conn, "closed"}
  BY DEF Return
<1> QED BY <1>1, <1>2, <1>3, AppendFacts

(* How many commands back the answer of a call lies. *)
Lag(c) ==
    /\ outcome[c] \in sent
    /\ Cardinality({b \in sent : outcome[c] < b /\ b <= c}) =
         Cardinality({b \in interrupted : b < c})

(* What comes later is numbered higher, and does not touch the lag of a call. *)
LEMMA LagKept ==
    ASSUME QmpAssumption, TypeOK, AnswersLagByInterrupts,
           \A c \in 1 .. Len(outcome) : outcome'[c] = outcome[c],
           sent \subseteq sent', sent' \subseteq sent \cup {Current},
           interrupted \subseteq interrupted', interrupted' \subseteq interrupted \cup {Current},
           NEW c \in 1 .. Len(outcome), outcome'[c] # None
    PROVE  Lag(c)'
<1>1. outcome'[c] = outcome[c] /\ Lag(c)
  BY DEF AnswersLagByInterrupts, Lag
<1>2. Len(outcome) \in Nat /\ ~(Current <= c) /\ ~(Current < c)
  BY DEF TypeOK, Current
<1>3. {b \in sent' : outcome[c] < b /\ b <= c} = {b \in sent : outcome[c] < b /\ b <= c}
  BY <1>2
<1>4. {b \in interrupted' : b < c} = {b \in interrupted : b < c}
  BY <1>2
<1> QED BY <1>1, <1>3, <1>4 DEF Lag

(* Steps of the monitor that keep what is pending keep the numbering. *)
LEMMA MonitorKeeps ==
    ASSUME QmpAssumption, IInv, InOrder', Pending' = Pending,
           toServer' \in Seq(Calls), toClient' \in Seq(Line),
           UNCHANGED <<conn, reading, sent, outcome, interrupted, cached>>,
           InClient(Greeting)' => InClient(Greeting),
           conn # "new" /\ reading # "greeting",
           server' \/ toClient' # <<>> => server \/ toClient # <<>>,
           server' \in BOOLEAN, emitted' \in 0 .. MaxEvents
    PROVE  IInv'
<1>1. TypeOK'
  BY DEF IInv, TypeOK
<1>2. GreetingFirst'
  BY DEF IInv, GreetingFirst
<1>3. Numbered'
  BY DEF IInv, Numbered
<1>4. PendingCount'
  BY DEF IInv, PendingCount
<1>5. AnswersLagByInterrupts'
  BY DEF IInv, AnswersLagByInterrupts
<1> QED BY <1>1, <1>2, <1>3, <1>4, <1>5 DEF IInv

(* Sending from connect() or command() keeps the invariant. *)
LEMMA SendKeeps ==
    ASSUME QmpAssumption, IInv, Send, reading # "answer", conn = "open",
           toClient' = toClient \/ (toClient = <<Greeting>> /\ toClient' = <<>>),
           reading = "greeting" => toClient' = <<>>,
           UNCHANGED <<conn, outcome, interrupted, cached, server, emitted>>
    PROVE  IInv'
<1> DEFINE c == Current
<1>1. TypeOK /\ InOrder /\ Numbered /\ GreetingFirst /\ PendingCount /\ AnswersLagByInterrupts
  BY DEF IInv
<1>2. toClient' \in Seq(Line)
  <2>1. toClient \in Seq(Line) /\ <<>> \in Seq(Line)
    BY <1>1 DEF TypeOK
  <2> QED BY <2>1
<1>3. /\ InOrder' /\ toServer' \in Seq(Calls) /\ c \in Calls
      /\ Pending' = Pending \cup {c} /\ \A b \in sent : b < c
  BY <1>1, <1>2, SendEffect
<1>4. Len(outcome) \in Nat /\ c = Len(outcome) + 1 /\ c <= MaxCalls /\ c \in Nat
  BY <1>1 DEF TypeOK, Current, Send
<1>5. reading' = "answer" /\ sent' = sent \cup {c}
  BY DEF Send
<1>6. TypeOK'
  BY <1>1, <1>2, <1>3, <1>4, <1>5 DEF TypeOK
<1>7. GreetingFirst'
  <2>1. ~InClient(Greeting)'
    <3>1. CASE toClient' = <<>>
      BY <3>1 DEF InClient
    <3>2. CASE toClient' = toClient /\ reading # "greeting"
      BY <3>2, <1>1 DEF GreetingFirst, InClient
    <3> QED BY <3>1, <3>2
  <2> QED BY <2>1, <1>5 DEF GreetingFirst
<1>8. Numbered'
  <2>1. \A b \in sent' : b <= Len(outcome') \/ (reading' = "answer" /\ b = Len(outcome') + 1)
    BY <1>1, <1>4, <1>5 DEF Numbered
  <2>2. Pending' \subseteq sent'
    BY <1>1, <1>3, <1>5 DEF Numbered
  <2>3. \A b \in sent' \ Pending', p \in Pending' : b < p
    BY <1>1, <1>3, <1>5 DEF Numbered
  <2>4. \A b \in interrupted' : b <= Len(outcome')
    BY <1>1 DEF Numbered
  <2> QED BY <2>1, <2>2, <2>3, <2>4 DEF Numbered
<1>9. PendingCount'
  <2>1. c \notin Pending
    <3>1. ~(c < c)
      BY <1>4
    <3> QED BY <3>1, <1>1, <1>3 DEF Numbered
  <2>2. Cardinality(Pending') = Cardinality(Pending) + 1 /\ Cardinality(Pending) \in Nat
        /\ Cardinality(interrupted) \in Nat
    BY <1>1, <1>3, <2>1, Finite, FS_AddElement, FS_CardinalityType
  <2>3. (server' \/ toClient' # <<>>) => (server \/ toClient # <<>>)
    OBVIOUS
  <2> QED BY <2>2, <2>3, <1>1, <1>5 DEF PendingCount
<1>10. AnswersLagByInterrupts'
  <2> SUFFICES ASSUME NEW k \in 1 .. Len(outcome'), outcome'[k] # None
               PROVE  Lag(k)'
    BY DEF AnswersLagByInterrupts, Lag
  <2> QED BY <1>1, <1>5, LagKept
<1> QED BY <1>3, <1>6, <1>7, <1>8, <1>9, <1>10 DEF IInv

(* So does a call that ends without having read an answer. *)
LEMMA NoneKeeps ==
    ASSUME QmpAssumption, IInv, Return(None), Current <= MaxCalls,
           conn = "open", reading # "greeting" \/ Current = 1,
           UNCHANGED <<toServer, sent, emitted, server>>,
           InOrder', Pending' = Pending, toClient' \in Seq(Line),
           InClient(Greeting)' => InClient(Greeting),
           cached' \in Nat,
           interrupted \subseteq interrupted', interrupted' \subseteq interrupted \cup {Current},
           server' \/ toClient' # <<>> =>
             /\ server \/ toClient # <<>>
             /\ interrupted' = IF reading = "answer" THEN interrupted \cup {Current} ELSE interrupted
    PROVE  IInv'
<1> DEFINE c == Current
<1>1. TypeOK /\ InOrder /\ Numbered /\ GreetingFirst /\ PendingCount /\ AnswersLagByInterrupts
  BY DEF IInv
<1>2. /\ outcome' \in Seq({None} \cup Calls)
      /\ Len(outcome) \in Nat /\ Len(outcome') = Len(outcome) + 1
      /\ Len(outcome') <= MaxCalls /\ c \in Calls
      /\ \A k \in 1 .. Len(outcome) : outcome'[k] = outcome[k]
      /\ outcome'[Len(outcome) + 1] = None
      /\ reading' = "nothing" /\ conn' \in {conn, "closed"}
  BY <1>1, ReturnEffect
<1>3. c = Len(outcome) + 1
  BY DEF Current
<1>4. TypeOK'
  BY <1>1, <1>2 DEF TypeOK
<1>5. GreetingFirst'
  <2>1. conn' = "open" => reading # "greeting"
    BY DEF Return
  <2> QED BY <2>1, <1>1, <1>2 DEF GreetingFirst
<1>6. Numbered'
  <2>1. ASSUME NEW b \in sent'
        PROVE  b <= Len(outcome')
    <3>1. b \in Nat /\ (b <= Len(outcome) \/ b = Len(outcome) + 1)
      BY <1>1, LineFacts DEF Numbered, TypeOK
    <3> QED BY <3>1, <1>2
  <2>2. \A b \in interrupted' : b <= Len(outcome')
    BY <1>1, <1>2, <1>3, LineFacts DEF Numbered, TypeOK
  <2>3. Pending' \subseteq sent' /\ \A b \in sent' \ Pending', p \in Pending' : b < p
    BY <1>1 DEF Numbered
  <2> QED BY <2>1, <2>2, <2>3 DEF Numbered
<1>7. PendingCount'
  <2>1. c \notin interrupted
    BY <1>1, <1>2, <1>3 DEF Numbered
  <2>2. Cardinality(interrupted \cup {c}) = Cardinality(interrupted) + 1
        /\ Cardinality(Pending) \in Nat /\ Cardinality(interrupted) \in Nat
    BY <1>1, <2>1, Finite, FS_AddElement, FS_CardinalityType
  <2> SUFFICES ASSUME server' \/ toClient' # <<>>
               PROVE  Cardinality(Pending') =
                        Cardinality(interrupted') + (IF reading' = "answer" THEN 1 ELSE 0)
    BY DEF PendingCount
  <2>3. Cardinality(Pending) =
          Cardinality(interrupted) + (IF reading = "answer" THEN 1 ELSE 0)
    BY <1>1 DEF PendingCount
  <2>4. CASE reading = "answer"
    <3>1. interrupted' = interrupted \cup {c}
      BY <2>4
    <3> QED BY <3>1, <2>2, <2>3, <2>4, <1>2
  <2>5. CASE reading # "answer"
    <3>1. interrupted' = interrupted
      BY <2>5
    <3> QED BY <3>1, <2>2, <2>3, <2>5, <1>2
  <2> QED BY <2>4, <2>5
<1>8. AnswersLagByInterrupts'
  <2> SUFFICES ASSUME NEW k \in 1 .. Len(outcome'), outcome'[k] # None
               PROVE  Lag(k)'
    BY DEF AnswersLagByInterrupts, Lag
  <2>1. k \in 1 .. Len(outcome)
    BY <1>2
  <2> QED BY <2>1, <1>1, <1>2, LagKept
<1> QED BY <1>4, <1>5, <1>6, <1>7, <1>8 DEF IInv

(* The first line that is not an event ends the call with the least pending answer. *)
LEMMA ReadAnswerKeeps ==
    ASSUME QmpAssumption, IInv, ReadAnswer
    PROVE  IInv'
<1> DEFINE c == Current
           h == Head(toClient)
<1>1. TypeOK /\ InOrder /\ Numbered /\ GreetingFirst /\ PendingCount /\ AnswersLagByInterrupts
  BY DEF IInv
<1>2. reading = "answer" /\ conn = "open" /\ ~InClient(Greeting)
  BY <1>1 DEF ReadAnswer, GreetingFirst, TypeOK
<1>3. /\ InOrder' /\ toClient' \in Seq(Line) /\ h \in Line /\ InClient(h)
      /\ InClient(Greeting)' => InClient(Greeting)
      /\ h \in Calls => h \in Pending /\ Pending' = Pending \ {h} /\ \A b \in Pending' : h < b
  BY <1>1, LineReadEffect DEF ReadAnswer
<1>4. h \in Calls
  BY <1>2, <1>3 DEF ReadAnswer, Line
<1>5. Current <= MaxCalls
  BY <1>1, <1>2 DEF TypeOK, Current
<1>6. /\ outcome' \in Seq({None} \cup Calls)
      /\ Len(outcome) \in Nat /\ Len(outcome') = Len(outcome) + 1
      /\ Len(outcome') <= MaxCalls /\ c \in Calls
      /\ \A k \in 1 .. Len(outcome) : outcome'[k] = outcome[k]
      /\ outcome'[Len(outcome) + 1] = h
      /\ reading' = "nothing" /\ conn' \in {conn, "closed"}
  BY <1>1, <1>4, <1>5, ReturnEffect DEF ReadAnswer
<1>7. c = Len(outcome) + 1 /\ UNCHANGED <<toServer, sent, interrupted, cached, server, emitted>>
  BY DEF Current, ReadAnswer
<1>8. TypeOK'
  BY <1>1, <1>3, <1>6, <1>7 DEF TypeOK
<1>9. GreetingFirst'
  BY <1>1, <1>2, <1>3, <1>6 DEF GreetingFirst
<1>10. Numbered'
  <2>1. \A b \in sent' : b <= Len(outcome')
    BY <1>1, <1>6, <1>7, LineFacts DEF Numbered, TypeOK
  <2>2. \A b \in interrupted' : b <= Len(outcome')
    BY <1>1, <1>6, <1>7, LineFacts DEF Numbered, TypeOK
  <2>3. Pending' \subseteq sent'
    BY <1>1, <1>3, <1>4, <1>7 DEF Numbered
  <2>4. \A b \in sent' \ Pending', p \in Pending' : b < p
    BY <1>1, <1>3, <1>4, <1>7 DEF Numbered
  <2> QED BY <2>1, <2>2, <2>3, <2>4 DEF Numbered
<1>11. Cardinality(Pending') = Cardinality(interrupted)
  <2>1. server \/ toClient # <<>>
    BY DEF ReadAnswer
  <2>2. Cardinality(Pending) = Cardinality(interrupted) + 1
    BY <1>1, <1>2, <2>1 DEF PendingCount
  <2>3. Cardinality(Pending') = Cardinality(Pending) - 1 /\ Cardinality(interrupted) \in Nat
    BY <1>1, <1>3, <1>4, Finite, FS_RemoveElement, FS_CardinalityType
  <2> QED BY <2>2, <2>3
<1>12. PendingCount'
  <2>1. Cardinality(interrupted) \in Nat
    BY <1>1, Finite, FS_CardinalityType
  <2> QED BY <2>1, <1>6, <1>7, <1>11 DEF PendingCount
<1>13. {b \in sent : h < b /\ b <= c} = Pending'
  <2>1. ASSUME NEW b \in sent, h < b
        PROVE  b \in Pending'
    <3>1. b \in Nat /\ h \in Nat
      BY <1>1, <1>4, LineFacts DEF TypeOK
    <3>2. ~(b < h) /\ b # h
      BY <2>1, <3>1
    <3>3. b \in Pending
      BY <3>2, <1>1, <1>3, <1>4 DEF Numbered
    <3> QED BY <3>2, <3>3, <1>3, <1>4
  <2>2. ASSUME NEW b \in Pending'
        PROVE  b \in sent /\ h < b /\ b <= c
    <3>1. b \in sent /\ h < b
      BY <1>1, <1>3, <1>4 DEF Numbered
    <3>2. b \in Nat
      BY <3>1, <1>1, LineFacts DEF TypeOK
    <3> QED BY <3>1, <3>2, <1>1, <1>6, <1>7 DEF Numbered
  <2> QED BY <2>1, <2>2
<1>14. {b \in interrupted : b < c} = interrupted
  <2>1. ASSUME NEW b \in interrupted
        PROVE  b < c
    <3>1. b \in Nat /\ b <= Len(outcome)
      BY <1>1, LineFacts DEF Numbered, TypeOK
    <3> QED BY <3>1, <1>6, <1>7
  <2> QED BY <2>1
<1>15. AnswersLagByInterrupts'
  <2> SUFFICES ASSUME NEW k \in 1 .. Len(outcome'), outcome'[k] # None
               PROVE  Lag(k)'
    BY DEF AnswersLagByInterrupts, Lag
  <2>1. CASE k \in 1 .. Len(outcome)
    BY <2>1, <1>1, <1>6, <1>7, LagKept
  <2>2. CASE k \notin 1 .. Len(outcome)
    <3>1. k = c /\ outcome'[k] = h
      BY <2>2, <1>6, <1>7
    <3>2. h \in sent
      BY <1>1, <1>3, <1>4 DEF Numbered
    <3> QED BY <3>1, <3>2, <1>7, <1>11, <1>13, <1>14 DEF Lag
  <2> QED BY <2>1, <2>2
<1> QED BY <1>3, <1>8, <1>9, <1>10, <1>12, <1>15 DEF IInv

-----------------------------------------------------------------------------
(* Before the first command the streams are empty. *)
LEMMA InitIInv == QmpAssumption /\ Init => IInv
<1> SUFFICES ASSUME QmpAssumption, Init PROVE IInv
  OBVIOUS
<1>1. TypeOK
  BY DEF Init, TypeOK, QmpAssumption
<1>2. InOrder /\ GreetingFirst
  BY DEF Init, InOrder, GreetingFirst
<1>3. Pending = {} /\ interrupted = {}
  BY DEF Init, Pending, InClient, InServer
<1>4. Numbered
  BY <1>3 DEF Init, Numbered
<1>5. PendingCount
  BY <1>3, FS_EmptySet DEF Init, PendingCount
<1>6. AnswersLagByInterrupts
  BY DEF Init, AnswersLagByInterrupts
<1> QED BY <1>1, <1>2, <1>4, <1>5, <1>6 DEF IInv

(* Every step of client and monitor keeps the inductive invariant. *)
LEMMA StepIInv == QmpAssumption /\ IInv /\ [Next]_vars => IInv'
<1> SUFFICES ASSUME QmpAssumption, IInv, [Next]_vars PROVE IInv'
  OBVIOUS
<1>1. TypeOK /\ InOrder /\ Numbered /\ GreetingFirst /\ PendingCount /\ AnswersLagByInterrupts
  BY DEF IInv
<1>2. CASE Serve
  <2>1. conn # "new" /\ reading # "greeting"
    BY <1>1, <1>2 DEF GreetingFirst, Serve
  <2> QED BY <1>1, <1>2, <2>1, ServeEffect, MonitorKeeps DEF Serve, TypeOK
<1>3. CASE Emit
  <2>1. conn # "new" /\ reading # "greeting"
    BY <1>1, <1>3 DEF GreetingFirst, Emit
  <2>2. emitted' \in 0 .. MaxEvents
    BY <1>1, <1>3 DEF Emit, TypeOK, QmpAssumption
  <2> QED BY <1>1, <1>3, <2>1, <2>2, EmitEffect, MonitorKeeps DEF Emit, TypeOK
<1>4. CASE ServerEnds
  <2>1. TypeOK'
    BY <1>1, <1>4 DEF TypeOK, ServerEnds
  <2>2. InOrder' /\ GreetingFirst' /\ AnswersLagByInterrupts'
    BY <1>1, <1>4 DEF InOrder, GreetingFirst, InClient, AnswersLagByInterrupts, ServerEnds
  <2>3. Pending' = Pending
    BY <1>4 DEF Pending, InClient, InServer, ServerEnds
  <2>4. Numbered' /\ PendingCount'
    BY <1>1, <1>4, <2>3 DEF Numbered, PendingCount, ServerEnds
  <2> QED BY <2>1, <2>2, <2>4 DEF IInv
<1>5. CASE Connect
  <2>1. toServer = <<>> /\ outcome = <<>> /\ sent = {} /\ toClient = <<>>
    BY <1>1, <1>5 DEF GreetingFirst, Connect
  <2>2. Pending = {} /\ Pending' = {}
    BY <2>1, <1>5, LineFacts DEF Pending, InClient, InServer, Connect
  <2>3. TypeOK'
    <3>1. <<Greeting>> \in Seq(Line)
      BY DEF Line
    <3> QED BY <3>1, <2>1, <1>1, <1>5 DEF TypeOK, Connect
  <2>4. InOrder' /\ GreetingFirst' /\ AnswersLagByInterrupts'
    BY <2>1, <1>1, <1>5 DEF InOrder, GreetingFirst, AnswersLagByInterrupts, Connect
  <2>5. Numbered'
    BY <2>1, <2>2, <1>1, <1>5 DEF Numbered, Connect
  <2>6. PendingCount'
    BY <2>2, <1>1, <1>5 DEF PendingCount, GreetingFirst, Connect
  <2> QED BY <2>3, <2>4, <2>5, <2>6 DEF IInv
<1>6. CASE Call
  BY <1>6, SendKeeps DEF Call
<1>7. CASE ReadGreeting
  <2>1. toClient = <<Greeting>> /\ conn = "open"
    BY <1>1, <1>7 DEF GreetingFirst, TypeOK, ReadGreeting
  <2>2. toClient' = <<>>
    BY <2>1, <1>7 DEF ReadGreeting
  <2> QED BY <2>1, <2>2, <1>7, SendKeeps DEF ReadGreeting
<1>8. CASE SendRaises
  <2>1. InOrder' /\ (InClient(Greeting)' => InClient(Greeting))
    BY <1>1, <1>8 DEF InOrder, InClient, SendRaises
  <2>2. Pending' = Pending
    BY <1>8 DEF Pending, InClient, InServer, SendRaises
  <2>3. reading # "greeting" \/ Current = 1
    BY <1>1 DEF GreetingFirst, Current
  <2> QED BY <2>1, <2>2, <2>3, <1>1, <1>8, NoneKeeps DEF SendRaises, TypeOK
<1>9. CASE ReadEvent
  <2>1. /\ InOrder' /\ toClient' \in Seq(Line)
        /\ InClient(Greeting)' => InClient(Greeting)
        /\ Pending' = Pending
    BY <1>1, <1>9, LineReadEffect, LineFacts DEF ReadEvent
  <2>2. UNCHANGED <<conn, reading, outcome, toServer, sent, interrupted, server, emitted>>
        /\ reading = "answer" /\ toClient # <<>>
    BY <1>9 DEF ReadEvent, AfterEvent
  <2>3. TypeOK'
    BY <1>1, <1>9, <2>1, <2>2 DEF TypeOK, ReadEvent
  <2>4. GreetingFirst' /\ AnswersLagByInterrupts'
    BY <1>1, <2>1, <2>2 DEF GreetingFirst, AnswersLagByInterrupts
  <2>5. Numbered' /\ PendingCount'
    BY <1>1, <2>1, <2>2 DEF Numbered, PendingCount
  <2> QED BY <2>1, <2>3, <2>4, <2>5 DEF IInv
<1>10. CASE ReadAnswer
  BY <1>10, ReadAnswerKeeps
<1>11. CASE ReadEnd \/ Interrupt
  <2>1. UNCHANGED <<toServer, toClient, sent, cached, server, emitted>>
        /\ reading = "answer" /\ Return(None)
    BY <1>11 DEF ReadEnd, Interrupt
  <2>2. InOrder' /\ (InClient(Greeting)' => InClient(Greeting))
    BY <1>1, <2>1 DEF InOrder, InClient
  <2>3. Pending' = Pending
    BY <2>1 DEF Pending, InClient, InServer
  <2>4. conn = "open" /\ Current <= MaxCalls
    BY <1>1, <2>1 DEF GreetingFirst, TypeOK, Current
  <2>5. CASE ReadEnd
    <3>1. interrupted' = interrupted /\ ~(server' \/ toClient' # <<>>)
      BY <2>1, <2>5 DEF ReadEnd, EndOfStream
    <3> QED BY <3>1, <2>1, <2>2, <2>3, <2>4, <1>1, NoneKeeps DEF TypeOK
  <2>6. CASE Interrupt
    <3>1. interrupted' = interrupted \cup {Current}
      BY <2>6 DEF Interrupt
    <3> QED BY <3>1, <2>1, <2>2, <2>3, <2>4, <1>1, NoneKeeps DEF TypeOK
  <2> QED BY <1>11, <2>5, <2>6
<1>12. CASE Close \/ UNCHANGED vars
  <2>1. UNCHANGED <<reading, toServer, toClient, sent, outcome, interrupted, cached, server, emitted>>
        /\ conn' \in {conn, "closed"} /\ (conn' # conn => reading = "nothing")
    BY <1>12 DEF Close, vars
  <2>2. Pending' = Pending
    BY <2>1 DEF Pending, InClient, InServer
  <2>3. TypeOK' /\ InOrder' /\ AnswersLagByInterrupts'
    BY <1>1, <2>1 DEF TypeOK, InOrder, AnswersLagByInterrupts
  <2>4. GreetingFirst'
    BY <1>1, <2>1 DEF GreetingFirst, InClient
  <2>5. Numbered' /\ PendingCount'
    BY <1>1, <2>1, <2>2 DEF Numbered, PendingCount
  <2> QED BY <2>3, <2>4, <2>5 DEF IInv
<1> QED
  BY <1>2, <1>3, <1>4, <1>5, <1>6, <1>7, <1>8, <1>9, <1>10, <1>11, <1>12
  DEF Next, Monitor, Client, Read

(* The invariant of the two ends of a connection and the streams between them. *)
THEOREM Invariance == Spec => []IInv
<1>1. Init => IInv
  BY QmpAssumption, InitIInv
<1>2. IInv /\ [Next]_vars => IInv'
  BY QmpAssumption, StepIInv
<1> QED BY <1>1, <1>2, PTL DEF Spec

(* The variables of both ends keep their types. *)
THEOREM TypeCorrect == Spec => []TypeOK
<1>1. IInv => TypeOK
  BY DEF IInv
<1> QED BY <1>1, Invariance, PTL

(* An answer lags behind its call by the interrupted reads and nothing else. *)
THEOREM ExactLag == Spec => []AnswersLagByInterrupts
<1>1. IInv => AnswersLagByInterrupts
  BY DEF IInv
<1> QED BY <1>1, Invariance, PTL
=============================================================================
