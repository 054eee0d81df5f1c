---------------------------- MODULE StringProofs ----------------------------
(***************************************************************************)
(* For any clients, with any number of lines, and any number of slots: no  *)
(* line is lost between a client and the server, a client that returns has *)
(* printed every answer, and only a client that was killed, or whose count *)
(* went wrong, takes the server with it.                                   *)
(***************************************************************************)
EXTENDS StringServer, SequenceTheorems, WellFoundedInduction, TLAPS

-----------------------------------------------------------------------------
(* The invariant. *)

ClientTypes ==
    /\ status \in [Clients -> {"off", "running", "ok", "error", "killed"}]
    /\ main \in [Clients -> {"read", "count", "push", "joinSender", "joinReceiver"}]
    /\ mainReg \in [Clients -> Int]
    /\ receiver \in [Clients -> {"check", "receive", "count", "done"}]
    /\ recvReg \in [Clients -> Int]
    /\ sendingDone \in [Clients -> BOOLEAN]
    /\ linesRead \in [Clients -> Nat]
    /\ finished_reading \in [Clients -> BOOLEAN]
    /\ msg_count \in [Clients -> Int]
    /\ msg_queue \in [Clients -> Seq(Nat)]
    /\ printed \in [Clients -> Seq(Nat)]
    /\ raced \in [Clients -> BOOLEAN]
    /\ toServer \in [Clients -> Seq(Nat)]
    /\ toClient \in [Clients -> Seq(Nat)]
    /\ backlog \in Seq(Clients)
    /\ serverUp \in BOOLEAN
    /\ killed \in Nat

ServerTypes ==
    /\ client_socket \in [Slots -> Clients \union {None}]
    /\ ready \subseteq {i \in Slots : client_socket[i] \in Clients}

TypeOK == ClientTypes /\ ServerTypes

\* s holds the lines that follow line n.
Follows(s, n) == \A i \in 1 .. Len(s) : s[i] = n + i

\* The answers that have come back, printed or not.
Back(c) == Len(printed[c]) + Len(toClient[c])

\* What has come back is in order, also when the server is down or the client gone.
Answers(c) ==
    /\ Follows(printed[c], 0)
    /\ Follows(toClient[c], Len(printed[c]))
    /\ Back(c) <= Pushed(c)

\* While both ends run the lines that have not come back are on their way.
Way(c) ==
    /\ Follows(toServer[c], Back(c))
    /\ Follows(msg_queue[c], Back(c) + Len(toServer[c]))
    /\ Back(c) + Len(toServer[c]) + Len(msg_queue[c]) = Pushed(c)

\* Lines that msg_count includes, and answers.
Counted(c) == linesRead[c] - (IF main[c] = "count" THEN 1 ELSE 0)
Uncounted(c) == Len(printed[c]) - (IF receiver[c] = "count" THEN 1 ELSE 0)

\* Without a lost update msg_count is the number of unanswered lines.
Count(c) ==
    /\ ~raced[c] => msg_count[c] = Counted(c) - Uncounted(c)
    /\ receiver[c] = "done" /\ ~raced[c] => msg_count[c] = 0
    /\ receiver[c] = "done" => finished_reading[c]
    /\ finished_reading[c] => main[c] \in {"joinSender", "joinReceiver"}

\* How the process ended, and what it left behind.
Ended(c) ==
    /\ status[c] = "error" => ~serverUp
    /\ status[c] = "ok" /\ ~raced[c] => Len(printed[c]) = linesRead[c]
    /\ status[c] = "ok" /\ ~raced[c] /\ serverUp => toServer[c] = << >>

ClientInv(c) ==
    /\ Answers(c)
    /\ serverUp /\ ~Gone(c) => Way(c)
    /\ ~Gone(c) => Count(c)
    /\ Ended(c)

IInv ==
    /\ TypeOK
    /\ \A c \in Clients : ClientInv(c)
    /\ ServerOutlivesOrderlyClients

-----------------------------------------------------------------------------
(* Sequences of lines. *)

LEMMA Appended ==
    ASSUME NEW s \in Seq(Nat), NEW n \in Nat, Follows(s, n)
    PROVE  /\ Append(s, n + Len(s) + 1) \in Seq(Nat)
           /\ Len(Append(s, n + Len(s) + 1)) = Len(s) + 1
           /\ Follows(Append(s, n + Len(s) + 1), n)
<1> DEFINE e == n + Len(s) + 1
<1>1. e \in Nat /\ Len(s) \in Nat
  BY LenProperties
<1> HIDE DEF e
<1>2. /\ Append(s, e) \in Seq(Nat) /\ Len(Append(s, e)) = Len(s) + 1
      /\ \A i \in 1 .. Len(s) : Append(s, e)[i] = s[i]
      /\ Append(s, e)[Len(s) + 1] = e
  BY <1>1, AppendProperties
<1>3. ASSUME NEW i \in 1 .. Len(s) + 1 PROVE Append(s, e)[i] = n + i
  <2>1. CASE i \in 1 .. Len(s)
    BY <1>2, <2>1 DEF Follows
  <2>2. CASE i = Len(s) + 1
    BY <1>1, <1>2, <2>2 DEF e
  <2> QED BY <1>1, <2>1, <2>2
<1>4. Follows(Append(s, e), n)
  BY <1>2, <1>3 DEF Follows
<1> QED BY <1>2, <1>4 DEF e

LEMMA FirstTaken ==
    ASSUME NEW s \in Seq(Nat), s # << >>
    PROVE  /\ Head(s) \in Nat /\ Tail(s) \in Seq(Nat)
           /\ Len(s) \in Nat \ {0} /\ Len(Tail(s)) = Len(s) - 1
           /\ \A n \in Nat : Follows(s, n) => Head(s) = n + 1 /\ Follows(Tail(s), n + 1)
<1>1. /\ Head(s) \in Nat /\ Tail(s) \in Seq(Nat) /\ Head(s) = s[1]
      /\ Len(Tail(s)) = Len(s) - 1
      /\ \A i \in 1 .. Len(Tail(s)) : Tail(s)[i] = s[i + 1]
  BY HeadTailProperties
<1>2. Len(s) \in Nat \ {0}
  BY EmptySeq
<1>3. ASSUME NEW n \in Nat, Follows(s, n) PROVE Head(s) = n + 1 /\ Follows(Tail(s), n + 1)
  <2>1. 1 \in 1 .. Len(s)
    BY <1>2
  <2>2. Head(s) = n + 1
    BY <1>1, <1>3, <2>1 DEF Follows
  <2>3. ASSUME NEW i \in 1 .. Len(Tail(s)) PROVE Tail(s)[i] = n + 1 + i
    <3>1. i + 1 \in 1 .. Len(s)
      BY <1>1, <1>2
    <3> QED BY <1>1, <1>3, <3>1 DEF Follows
  <2> QED BY <2>2, <2>3 DEF Follows
<1> QED BY <1>1, <1>2, <1>3

LEMMA NothingFollows ==
    /\ << >> \in Seq(Nat) /\ Len(<< >>) = 0
    /\ \A n : Follows(<< >>, n)
<1>1. << >> \in Seq(Nat) /\ Len(<< >>) = 0
  BY EmptySeq
<1>2. 1 .. 0 = {}
  OBVIOUS
<1> QED BY <1>1, <1>2 DEF Follows

LEMMA Joined ==
    ASSUME NEW s \in Seq(Nat), NEW t \in Seq(Nat), NEW n \in Nat,
           Follows(s, n), Follows(t, n + Len(s))
    PROVE  s \o t \in Seq(Nat) /\ Len(s \o t) = Len(s) + Len(t) /\ Follows(s \o t, n)
<1>1. Len(s) \in Nat /\ Len(t) \in Nat
  BY LenProperties
<1>2. /\ s \o t \in Seq(Nat) /\ Len(s \o t) = Len(s) + Len(t)
      /\ \A i \in 1 .. Len(s) + Len(t) :
            (s \o t)[i] = IF i <= Len(s) THEN s[i] ELSE t[i - Len(s)]
  BY ConcatProperties
<1>3. ASSUME NEW i \in 1 .. Len(s) + Len(t) PROVE (s \o t)[i] = n + i
  <2>1. CASE i <= Len(s)
    <3>1. i \in 1 .. Len(s)
      BY <1>1, <2>1
    <3> QED BY <1>2, <2>1, <3>1 DEF Follows
  <2>2. CASE ~(i <= Len(s))
    <3> DEFINE k == i - Len(s)
    <3>1. k \in 1 .. Len(t)
      BY <1>1, <2>2
    <3>2. (s \o t)[i] = t[k]
      BY <1>2, <2>2
    <3>3. t[k] = n + Len(s) + k
      BY <3>1 DEF Follows
    <3> QED BY <1>1, <3>2, <3>3
  <2> QED BY <2>1, <2>2
<1> QED BY <1>2, <1>3 DEF Follows

LEMMA AllLines ==
    ASSUME NEW s \in Seq(Nat), Follows(s, 0)
    PROVE  s = [i \in 1 .. Len(s) |-> i]
<1>1. s \in [1 .. Len(s) -> Nat]
  BY LenProperties
<1>2. \A i \in 1 .. Len(s) : s[i] = i
  BY DEF Follows
<1> QED BY <1>1, <1>2

-----------------------------------------------------------------------------
(* What a step of one client leaves alone. *)

Same(d) ==
    /\ status'[d] = status[d] /\ main'[d] = main[d] /\ receiver'[d] = receiver[d]
    /\ linesRead'[d] = linesRead[d] /\ finished_reading'[d] = finished_reading[d]
    /\ msg_count'[d] = msg_count[d] /\ msg_queue'[d] = msg_queue[d]
    /\ printed'[d] = printed[d] /\ raced'[d] = raced[d]
    /\ toServer'[d] = toServer[d] /\ toClient'[d] = toClient[d]

\* The step of one client.
Framed(c) ==
    /\ TypeOK'
    /\ \A d \in Clients : d # c => Same(d)
    /\ ~Gone(c)
    /\ serverUp' = serverUp

LEMMA SameKept ==
    ASSUME NEW d \in Clients, Same(d), ClientInv(d), serverUp' => serverUp
    PROVE  ClientInv(d)'
<1>1. Answers(d)'
  BY DEF ClientInv, Same, Answers, Back, Pushed
<1>2. serverUp' /\ ~Gone(d)' => Way(d)'
  BY DEF ClientInv, Same, Way, Back, Pushed, Gone
<1>3. ~Gone(d)' => Count(d)'
  BY DEF ClientInv, Same, Count, Counted, Uncounted, Gone
<1>4. Ended(d)'
  BY DEF ClientInv, Same, Ended
<1> QED BY <1>1, <1>2, <1>3, <1>4 DEF ClientInv

LEMMA ClientSteps ==
    ASSUME IInv, NEW c \in Clients, Framed(c), ClientInv(c)'
    PROVE  IInv'
<1>1. \A d \in Clients : ClientInv(d)'
  BY SameKept DEF IInv, Framed
<1>2. ServerOutlivesOrderlyClients'
  <2> SUFFICES ASSUME ~serverUp'
               PROVE  \E d \in Clients : Gone(d)' /\ (status'[d] = "killed" \/ raced'[d])
    BY DEF ServerOutlivesOrderlyClients
  <2>1. PICK d \in Clients : Gone(d) /\ (status[d] = "killed" \/ raced[d])
    BY DEF IInv, ServerOutlivesOrderlyClients, Framed
  <2>2. Same(d)
    BY <2>1 DEF Framed
  <2> QED BY <2>1, <2>2 DEF Same, Gone
<1> QED BY <1>1, <1>2 DEF IInv, Framed

LEMMA EndFramed ==
    ASSUME TypeOK, NEW c \in Clients, NEW how \in {"ok", "error", "killed"}, Running(c),
           EndProcess(c, how), killed' \in Nat, UNCHANGED backlog, UNCHANGED serverVars
    PROVE  Framed(c)
<1>1. TypeOK'
  <2>1. ClientTypes'
    BY NothingFollows DEF TypeOK, ClientTypes, EndProcess
  <2> QED BY <2>1 DEF TypeOK, ServerTypes, serverVars
<1>2. \A d \in Clients : d # c => Same(d)
  BY DEF TypeOK, ClientTypes, EndProcess, Same
<1> QED BY <1>1, <1>2 DEF Framed, Running, Gone, EndProcess

LEMMA StepFramed ==
    ASSUME TypeOK, NEW c \in Clients, ClientStep(c), UNCHANGED serverVars
    PROVE  Framed(c)
<1> USE DEF threadVars, lineVars, netVars
<1>0. ClientTypes /\ (ClientTypes' => TypeOK')
  BY DEF TypeOK, ServerTypes, serverVars
<1>1. CASE Connect(c)
  <2>1. ClientTypes'
    <3>1. backlog' \in Seq(Clients)
      BY <1>0, <1>1, AppendProperties DEF ClientTypes, Connect
    <3> QED BY <1>0, <1>1, <3>1 DEF ClientTypes, Connect
  <2>2. \A d \in Clients : d # c => Same(d)
    BY <1>0, <1>1 DEF ClientTypes, Connect, Same
  <2> QED BY <1>0, <1>1, <2>1, <2>2 DEF Framed, Connect, Gone
<1>2. CASE ReadLine(c)
  <2>1. ClientTypes'
    BY <1>0, <1>2 DEF ClientTypes, ReadLine
  <2>2. \A d \in Clients : d # c => Same(d)
    BY <1>0, <1>2 DEF ClientTypes, ReadLine, Same
  <2> QED BY <1>0, <1>2, <2>1, <2>2 DEF Framed, ReadLine, Running, Gone
<1>3. CASE CountLine(c)
  <2>1. ClientTypes'
    BY <1>0, <1>3 DEF ClientTypes, CountLine
  <2>2. \A d \in Clients : d # c => Same(d)
    BY <1>0, <1>3 DEF ClientTypes, CountLine, Same
  <2> QED BY <1>0, <1>3, <2>1, <2>2 DEF Framed, CountLine, Running, Gone
<1>4. CASE PushLine(c)
  <2>1. ClientTypes'
    <3>1. msg_queue' \in [Clients -> Seq(Nat)]
      <4>1. Append(msg_queue[c], linesRead[c]) \in Seq(Nat)
        BY <1>0, AppendProperties DEF ClientTypes
      <4> QED BY <1>0, <1>4, <4>1 DEF ClientTypes, PushLine
    <3> QED BY <1>0, <1>4, <3>1 DEF ClientTypes, PushLine
  <2>2. \A d \in Clients : d # c => Same(d)
    BY <1>0, <1>4 DEF ClientTypes, PushLine, Same
  <2> QED BY <1>0, <1>4, <2>1, <2>2 DEF Framed, PushLine, Running, Gone
<1>5. CASE EndOfInput(c)
  <2>1. ClientTypes'
    BY <1>0, <1>5 DEF ClientTypes, EndOfInput
  <2>2. \A d \in Clients : d # c => Same(d)
    BY <1>0, <1>5 DEF ClientTypes, EndOfInput, Same
  <2> QED BY <1>0, <1>5, <2>1, <2>2 DEF Framed, EndOfInput, Running, Gone
<1>6. CASE JoinSender(c)
  <2>1. CASE msg_count[c] = 0
    <3>1. Running(c) /\ EndProcess(c, "ok") /\ killed' \in Nat /\ UNCHANGED backlog
      BY <1>0, <1>6, <2>1 DEF JoinSender, ClientTypes
    <3> QED BY <3>1, EndFramed
  <2>2. CASE msg_count[c] # 0
    <3>1. ClientTypes'
      BY <1>0, <1>6, <2>2 DEF ClientTypes, JoinSender
    <3>2. \A d \in Clients : d # c => Same(d)
      BY <1>0, <1>6, <2>2 DEF ClientTypes, JoinSender, Same
    <3> QED BY <1>0, <1>6, <2>2, <3>1, <3>2 DEF Framed, JoinSender, Running, Gone
  <2> QED BY <2>1, <2>2
<1>7. CASE JoinReceiver(c)
  <2>1. Running(c) /\ EndProcess(c, "ok") /\ killed' \in Nat /\ UNCHANGED backlog
    BY <1>0, <1>7 DEF JoinReceiver, ClientTypes
  <2> QED BY <2>1, EndFramed
<1>8. CASE SendLine(c)
  <2>1. /\ Head(msg_queue[c]) \in Nat /\ Tail(msg_queue[c]) \in Seq(Nat)
        /\ Append(toServer[c], Head(msg_queue[c])) \in Seq(Nat)
    BY <1>0, <1>8, FirstTaken, AppendProperties DEF SendLine, ClientTypes
  <2>2. msg_queue' \in [Clients -> Seq(Nat)] /\ toServer' \in [Clients -> Seq(Nat)]
    BY <1>0, <1>8, <2>1 DEF SendLine, ClientTypes
  <2>3. ClientTypes'
    BY <1>0, <1>8, <2>2 DEF ClientTypes, SendLine
  <2>4. \A d \in Clients : d # c => Same(d)
    BY <1>0, <1>8 DEF ClientTypes, SendLine, Same
  <2> QED BY <1>0, <1>8, <2>3, <2>4 DEF Framed, SendLine, Running, Gone
<1>9. CASE SendFails(c)
  <2>1. Running(c) /\ EndProcess(c, "error") /\ killed' \in Nat /\ UNCHANGED backlog
    BY <1>0, <1>9 DEF SendFails, ClientTypes
  <2> QED BY <2>1, EndFramed
<1>10. CASE SendingEnds(c)
  <2>1. ClientTypes'
    BY <1>0, <1>10 DEF ClientTypes, SendingEnds
  <2>2. \A d \in Clients : d # c => Same(d)
    BY <1>0, <1>10 DEF ClientTypes, SendingEnds, Same
  <2> QED BY <1>0, <1>10, <2>1, <2>2 DEF Framed, SendingEnds, Running, Gone
<1>11. CASE CheckFinished(c)
  <2>1. ClientTypes'
    BY <1>0, <1>11 DEF ClientTypes, CheckFinished
  <2>2. \A d \in Clients : d # c => Same(d)
    BY <1>0, <1>11 DEF ClientTypes, CheckFinished, Same
  <2> QED BY <1>0, <1>11, <2>1, <2>2 DEF Framed, CheckFinished, Running, Gone
<1>12. CASE ReceiveAnswer(c)
  <2>1. /\ Tail(toClient[c]) \in Seq(Nat)
        /\ Append(printed[c], Head(toClient[c])) \in Seq(Nat)
    BY <1>0, <1>12, FirstTaken, AppendProperties DEF ReceiveAnswer, ClientTypes
  <2>2. toClient' \in [Clients -> Seq(Nat)] /\ printed' \in [Clients -> Seq(Nat)]
    BY <1>0, <1>12, <2>1 DEF ReceiveAnswer, ClientTypes
  <2>3. ClientTypes'
    BY <1>0, <1>12, <2>2 DEF ClientTypes, ReceiveAnswer
  <2>4. \A d \in Clients : d # c => Same(d)
    BY <1>0, <1>12 DEF ClientTypes, ReceiveAnswer, Same
  <2> QED BY <1>0, <1>12, <2>3, <2>4 DEF Framed, ReceiveAnswer, Running, Gone
<1>13. CASE CountAnswer(c)
  <2>1. ClientTypes'
    <3>1. msg_count' \in [Clients -> Int] /\ raced' \in [Clients -> BOOLEAN]
      BY <1>0, <1>13 DEF ClientTypes, CountAnswer
    <3> QED BY <1>0, <1>13, <3>1 DEF ClientTypes, CountAnswer
  <2>2. \A d \in Clients : d # c => Same(d)
    BY <1>0, <1>13 DEF ClientTypes, CountAnswer, Same
  <2> QED BY <1>0, <1>13, <2>1, <2>2 DEF Framed, CountAnswer, Running, Gone
<1>14. CASE ServerDisconnected(c)
  <2>1. Running(c) /\ EndProcess(c, "error") /\ killed' \in Nat /\ UNCHANGED backlog
    BY <1>0, <1>14 DEF ServerDisconnected, ClientTypes
  <2> QED BY <2>1, EndFramed
<1>15. CASE KillClient(c)
  <2>1. Running(c) /\ EndProcess(c, "killed") /\ killed' \in Nat /\ UNCHANGED backlog
    BY <1>0, <1>15 DEF KillClient, ClientTypes
  <2> QED BY <2>1, EndFramed
<1> QED BY <1>1, <1>2, <1>3, <1>4, <1>5, <1>6, <1>7, <1>8, <1>9, <1>10, <1>11, <1>12, <1>13,
           <1>14, <1>15 DEF ClientStep, MainStep, SendingStep, ReceivingStep

-----------------------------------------------------------------------------
(* Steps of a client. *)

LEMMA Within ==
    ASSUME NEW p \in Nat, NEW b \in Nat, NEW n \in Int, NEW m \in Int, p + b <= n, n <= m
    PROVE  p <= m
OBVIOUS

LEMMA NoneLeft ==
    ASSUME NEW p \in Nat, NEW b \in Nat, NEW n \in Nat, NEW u \in {0, 1},
           n - (p - u) = 0, p + b <= n
    PROVE  p = n /\ b = 0
OBVIOUS

LEMMA Lengths ==
    ASSUME TypeOK, NEW c \in Clients
    PROVE  /\ printed[c] \in Seq(Nat) /\ Len(printed[c]) \in Nat
           /\ toClient[c] \in Seq(Nat) /\ Len(toClient[c]) \in Nat
           /\ toServer[c] \in Seq(Nat) /\ Len(toServer[c]) \in Nat
           /\ msg_queue[c] \in Seq(Nat) /\ Len(msg_queue[c]) \in Nat
           /\ linesRead[c] \in Nat /\ msg_count[c] \in Int /\ Back(c) \in Nat
           /\ raced[c] \in BOOLEAN
BY LenProperties DEF TypeOK, ClientTypes, Back

\* The steps of the main thread and of Connect that leave the four sequences alone.
LEMMA QuietClient ==
    ASSUME TypeOK, NEW c \in Clients, ClientInv(c), ~Gone(c), serverUp' = serverUp,
           printed'[c] = printed[c], toClient'[c] = toClient[c],
           toServer'[c] = toServer[c], msg_queue'[c] = msg_queue[c],
           Pushed(c)' = Pushed(c), ~Gone(c)' => Count(c)', Ended(c)'
    PROVE  ClientInv(c)'
<1>1. Answers(c)'
  BY DEF ClientInv, Answers, Back
<1>2. serverUp' => Way(c)'
  BY DEF ClientInv, Way, Back
<1> QED BY <1>1, <1>2 DEF ClientInv

LEMMA ConnectInv ==
    ASSUME TypeOK, NEW c \in Clients, ClientInv(c), Connect(c)
    PROVE  ClientInv(c)'
<1> USE DEF threadVars, lineVars, netVars
<1>1. /\ ~Gone(c)
      /\ status'[c] = IF serverUp THEN "running" ELSE "error"
      /\ UNCHANGED <<threadVars, lineVars, toServer, toClient, serverUp>>
  BY DEF Connect, Gone, TypeOK, ClientTypes
<1>2. Count(c)'
  BY <1>1 DEF ClientInv, Count, Counted, Uncounted
<1>3. Ended(c)'
  BY <1>1 DEF Ended
<1>4. Pushed(c)' = Pushed(c)
  BY <1>1 DEF Pushed
<1> QED BY <1>1, <1>2, <1>3, <1>4, QuietClient

LEMMA ReadLineInv ==
    ASSUME TypeOK, NEW c \in Clients, ClientInv(c), ReadLine(c)
    PROVE  ClientInv(c)'
<1> USE DEF netVars
<1>1. /\ ~Gone(c) /\ main[c] = "read" /\ main'[c] = "count"
      /\ linesRead'[c] = linesRead[c] + 1
      /\ UNCHANGED <<status, receiver, finished_reading, msg_count, msg_queue, printed, raced,
                     toServer, toClient, serverUp>>
  BY DEF ReadLine, Running, Gone, TypeOK, ClientTypes
<1>2. Pushed(c)' = Pushed(c) /\ Counted(c)' = Counted(c)
  BY <1>1, Lengths DEF Pushed, Counted
<1>3. ~Gone(c)' /\ Ended(c)'
  BY DEF ReadLine, Running, Gone, Ended
<1>4. Count(c)'
  BY <1>1, <1>2 DEF ClientInv, Count, Uncounted
<1> QED BY <1>1, <1>2, <1>3, <1>4, QuietClient

LEMMA CountLineInv ==
    ASSUME TypeOK, NEW c \in Clients, ClientInv(c), CountLine(c)
    PROVE  ClientInv(c)'
<1> USE DEF netVars
<1>1. /\ ~Gone(c) /\ main[c] = "count" /\ main'[c] = "push"
      /\ ~raced'[c] => ~raced[c] /\ msg_count'[c] = msg_count[c] + 1
      /\ UNCHANGED <<status, receiver, finished_reading, linesRead, msg_queue, printed,
                     toServer, toClient, serverUp>>
  BY DEF CountLine, Running, Gone, TypeOK, ClientTypes
<1>2. Pushed(c)' = Pushed(c) /\ Counted(c)' = Counted(c) + 1
  BY <1>1, Lengths DEF Pushed, Counted
<1>3. ~Gone(c)' /\ Ended(c)'
  BY DEF CountLine, Running, Gone, Ended
<1>4. Count(c)'
  <2>1. Uncounted(c)' = Uncounted(c) /\ Uncounted(c) \in Int /\ Counted(c) \in Int
    BY <1>1, Lengths DEF Uncounted, Counted
  <2>2. ~raced'[c] => msg_count'[c] = Counted(c)' - Uncounted(c)'
    BY <1>1, <1>2, <2>1 DEF ClientInv, Count
  <2>3. ~finished_reading[c] /\ receiver[c] # "done"
    BY <1>1 DEF ClientInv, Count
  <2> QED BY <1>1, <2>2, <2>3 DEF Count
<1> QED BY <1>1, <1>2, <1>3, <1>4, QuietClient

LEMMA PushLineInv ==
    ASSUME TypeOK, NEW c \in Clients, ClientInv(c), PushLine(c)
    PROVE  ClientInv(c)'
<1> USE DEF netVars
<1>1. /\ ~Gone(c) /\ main[c] = "push" /\ main'[c] = "read"
      /\ msg_queue'[c] = Append(msg_queue[c], linesRead[c])
      /\ UNCHANGED <<status, receiver, finished_reading, linesRead, msg_count, printed, raced,
                     toServer, toClient, serverUp>>
  BY DEF PushLine, Running, Gone, TypeOK, ClientTypes
<1>2. Pushed(c)' = Pushed(c) + 1 /\ Pushed(c) = linesRead[c] - 1 /\ Counted(c)' = Counted(c)
  BY <1>1, Lengths DEF Pushed, Counted
<1>3. ~Gone(c)' /\ Ended(c)'
  BY DEF PushLine, Running, Gone, Ended
<1>4. Count(c)'
  BY <1>1, <1>2 DEF ClientInv, Count, Uncounted
<1>5. Answers(c)'
  <2>1. Back(c)' = Back(c)
    BY <1>1 DEF Back
  <2>2. Back(c) <= Pushed(c)'
    BY <1>2, Lengths DEF ClientInv, Answers
  <2> QED BY <1>1, <2>1, <2>2 DEF ClientInv, Answers
<1>6. serverUp' => Way(c)'
  <2> SUFFICES ASSUME serverUp' PROVE Way(c)'
    OBVIOUS
  <2> DEFINE n == Back(c) + Len(toServer[c])
  <2>1. /\ Follows(toServer[c], Back(c)) /\ Follows(msg_queue[c], n)
        /\ n + Len(msg_queue[c]) = Pushed(c)
    BY <1>1 DEF ClientInv, Way
  <2>2. Back(c)' = Back(c)
    BY <1>1 DEF Back
  <2>3. n \in Nat /\ n' = n
    BY <1>1, <2>2, Lengths
  <2>4. n + Len(msg_queue[c]) + 1 = linesRead[c]
    BY <1>2, <2>1, <2>3, Lengths
  <2> HIDE DEF n
  <2>5. Follows(msg_queue'[c], n) /\ Len(msg_queue'[c]) = Len(msg_queue[c]) + 1
    BY <1>1, <2>1, <2>3, <2>4, Lengths, Appended
  <2>6. n + Len(msg_queue'[c]) = Pushed(c)'
    BY <1>2, <2>1, <2>3, <2>5, Lengths
  <2> QED BY <1>1, <2>1, <2>2, <2>5, <2>6 DEF Way, n
<1> QED BY <1>3, <1>4, <1>5, <1>6 DEF ClientInv

LEMMA EndOfInputInv ==
    ASSUME TypeOK, NEW c \in Clients, ClientInv(c), EndOfInput(c)
    PROVE  ClientInv(c)'
<1> USE DEF netVars
<1>1. /\ ~Gone(c) /\ main[c] = "read" /\ main'[c] = "joinSender"
      /\ UNCHANGED <<status, receiver, linesRead, msg_count, msg_queue, printed, raced,
                     toServer, toClient, serverUp>>
  BY DEF EndOfInput, Running, Gone, TypeOK, ClientTypes
<1>2. Pushed(c)' = Pushed(c) /\ Counted(c)' = Counted(c)
  BY <1>1 DEF Pushed, Counted
<1>3. ~Gone(c)' /\ Ended(c)'
  BY DEF EndOfInput, Running, Gone, Ended
<1>4. Count(c)'
  <2>1. receiver[c] # "done"
    BY <1>1 DEF ClientInv, Count
  <2> QED BY <1>1, <1>2, <2>1 DEF ClientInv, Count, Uncounted
<1> QED BY <1>1, <1>2, <1>3, <1>4, QuietClient

\* The process ends, with an outcome that fits what it has seen.
LEMMA EndInv ==
    ASSUME TypeOK, NEW c \in Clients, ClientInv(c), Running(c),
           NEW how \in {"ok", "error", "killed"}, EndProcess(c, how),
           how = "error" => ~serverUp,
           how = "ok" /\ ~raced[c] =>
               Len(printed[c]) = linesRead[c] /\ (serverUp => toServer[c] = << >>)
    PROVE  ClientInv(c)'
<1>1. /\ status'[c] = how /\ main'[c] = "read" /\ toClient'[c] = << >>
      /\ UNCHANGED <<linesRead, printed, raced, toServer, serverUp>>
  BY DEF EndProcess, TypeOK, ClientTypes
<1>2. Gone(c)'
  BY <1>1 DEF Gone
<1>3. Answers(c)'
  <2>1. Pushed(c)' = linesRead[c] /\ Pushed(c) <= linesRead[c] /\ Pushed(c) \in Int
    BY <1>1, Lengths DEF Pushed
  <2>2. Back(c)' = Len(printed[c])
    BY <1>1, Lengths, NothingFollows DEF Back
  <2>3. Len(printed[c]) <= linesRead[c]
    <3>1. Len(printed[c]) + Len(toClient[c]) <= Pushed(c)
      BY DEF ClientInv, Answers, Back
    <3>2. /\ Len(printed[c]) \in Nat /\ Len(toClient[c]) \in Nat
          /\ linesRead[c] \in Nat
      BY Lengths
    <3>3. linesRead[c] \in Int
      BY <3>2
    <3> QED BY <2>1, <3>1, <3>2, <3>3, Within
  <2> QED BY <1>1, <2>1, <2>2, <2>3, NothingFollows DEF ClientInv, Answers
<1>4. Ended(c)'
  BY <1>1 DEF Ended
<1> QED BY <1>2, <1>3, <1>4 DEF ClientInv

\* main returns with nothing awaited: every answer is printed.
LEMMA ReturnInv ==
    ASSUME TypeOK, NEW c \in Clients, ClientInv(c), Running(c), EndProcess(c, "ok"),
           main[c] \in {"joinSender", "joinReceiver"}, ~raced[c] => msg_count[c] = 0
    PROVE  ClientInv(c)'
<1>1. ASSUME ~raced[c]
      PROVE  Len(printed[c]) = linesRead[c] /\ (serverUp => toServer[c] = << >>)
  <2>1. ~Gone(c)
    BY DEF Running, Gone
  <2>2. Pushed(c) = linesRead[c] /\ Counted(c) = linesRead[c]
    BY Lengths DEF Pushed, Counted
  <2>3. 0 = linesRead[c] - Uncounted(c)
    BY <1>1, <2>1, <2>2 DEF ClientInv, Count
  <2>4. Len(printed[c]) + Len(toClient[c]) <= linesRead[c]
    BY <2>2 DEF ClientInv, Answers, Back
  <2>5. Len(printed[c]) = linesRead[c] /\ Len(toClient[c]) = 0
    <3>1. /\ Len(printed[c]) \in Nat /\ Len(toClient[c]) \in Nat
          /\ linesRead[c] \in Nat
      BY Lengths
    <3> DEFINE u == IF receiver[c] = "count" THEN 1 ELSE 0
    <3>2. u \in {0, 1}
      OBVIOUS
    <3>3. linesRead[c] - (Len(printed[c]) - u) = 0
      BY <2>3 DEF Uncounted
    <3> HIDE DEF u
    <3> QED BY <2>4, <3>1, <3>2, <3>3, NoneLeft
  <2>6. ASSUME serverUp PROVE toServer[c] = << >>
    <3>1. Len(toServer[c]) = 0
      BY <2>1, <2>2, <2>5, <2>6, Lengths DEF ClientInv, Way, Back
    <3> QED BY <3>1, Lengths, EmptySeq
  <2> QED BY <2>5, <2>6
<1> QED BY <1>1, EndInv

LEMMA JoinSenderInv ==
    ASSUME TypeOK, NEW c \in Clients, ClientInv(c), JoinSender(c)
    PROVE  ClientInv(c)'
<1> USE DEF lineVars
<1>1. CASE msg_count[c] = 0
  <2>1. Running(c) /\ EndProcess(c, "ok") /\ main[c] = "joinSender"
    BY <1>1 DEF JoinSender
  <2> QED BY <1>1, <2>1, ReturnInv
<1>2. CASE msg_count[c] # 0
  <2>1. /\ ~Gone(c) /\ main[c] = "joinSender" /\ main'[c] = "joinReceiver"
        /\ UNCHANGED <<status, receiver, lineVars, toServer, toClient, serverUp>>
    BY <1>2 DEF JoinSender, Running, Gone, TypeOK, ClientTypes
  <2>2. Pushed(c)' = Pushed(c) /\ Counted(c)' = Counted(c)
    BY <2>1 DEF Pushed, Counted
  <2>3. Count(c)'
    BY <2>1, <2>2 DEF ClientInv, Count, Uncounted
  <2>4. Ended(c)'
    BY <2>1 DEF ClientInv, Ended
  <2> QED BY <2>1, <2>2, <2>3, <2>4, QuietClient
<1> QED BY <1>1, <1>2

LEMMA JoinReceiverInv ==
    ASSUME TypeOK, NEW c \in Clients, ClientInv(c), JoinReceiver(c)
    PROVE  ClientInv(c)'
<1>1. /\ Running(c) /\ EndProcess(c, "ok") /\ main[c] = "joinReceiver"
      /\ receiver[c] = "done"
  BY DEF JoinReceiver
<1>2. ~raced[c] => msg_count[c] = 0
  BY <1>1 DEF ClientInv, Count, Running, Gone
<1> QED BY <1>1, <1>2, ReturnInv

LEMMA SendLineInv ==
    ASSUME TypeOK, NEW c \in Clients, ClientInv(c), SendLine(c)
    PROVE  ClientInv(c)'
<1> USE DEF threadVars
<1>1. /\ ~Gone(c) /\ status[c] = "running" /\ msg_queue[c] # << >>
      /\ msg_queue'[c] = Tail(msg_queue[c])
      /\ serverUp => toServer'[c] = Append(toServer[c], Head(msg_queue[c]))
      /\ UNCHANGED <<status, main, receiver, linesRead, finished_reading, msg_count, printed,
                     raced, toClient, serverUp>>
  BY DEF SendLine, Running, Gone, TypeOK, ClientTypes
<1>2. Pushed(c)' = Pushed(c) /\ Back(c)' = Back(c)
  BY <1>1 DEF Pushed, Back
<1>3. Count(c)' /\ Ended(c)'
  BY <1>1 DEF ClientInv, Count, Counted, Uncounted, Ended
<1>4. Answers(c)'
  BY <1>1, <1>2 DEF ClientInv, Answers
<1>5. serverUp' => Way(c)'
  <2> SUFFICES ASSUME serverUp PROVE Way(c)'
    BY <1>1
  <2> DEFINE b == Back(c)
             k == Len(toServer[c])
  <2>1. /\ Follows(toServer[c], b) /\ Follows(msg_queue[c], b + k)
        /\ b + k + Len(msg_queue[c]) = Pushed(c)
    BY <1>1 DEF ClientInv, Way
  <2>2. b \in Nat /\ k \in Nat /\ b + k \in Nat /\ b' = b
    BY <1>2, Lengths
  <2> HIDE DEF b
  <2>3. /\ Head(msg_queue[c]) = b + k + 1 /\ Follows(msg_queue'[c], b + k + 1)
        /\ Len(msg_queue[c]) \in Nat \ {0}
        /\ Len(msg_queue'[c]) = Len(msg_queue[c]) - 1
    BY <1>1, <2>1, <2>2, Lengths, FirstTaken
  <2>4. Follows(toServer'[c], b) /\ Len(toServer'[c]) = k + 1
    <3>1. toServer'[c] = Append(toServer[c], b + k + 1)
      BY <1>1, <2>3
    <3>2. toServer[c] \in Seq(Nat)
      BY Lengths
    <3> QED BY <2>1, <2>2, <3>1, <3>2, Appended
  <2> HIDE DEF k
  <2>5. b + Len(toServer'[c]) = b + k + 1
    BY <2>2, <2>4
  <2>6. b + Len(toServer'[c]) + Len(msg_queue'[c]) = Pushed(c)
    <3> DEFINE q == Len(msg_queue[c])
               r == Len(msg_queue'[c])
               u == Len(toServer'[c])
    <3>1. q \in Nat \ {0} /\ r = q - 1 /\ u = k + 1 /\ b + k + q = Pushed(c)
      BY <2>1, <2>3, <2>4
    <3> HIDE DEF q, r, u
    <3>2. b + u + r = b + k + q
      BY <2>2, <3>1
    <3> QED BY <3>1, <3>2 DEF r, u
  <2> QED BY <1>2, <2>2, <2>3, <2>4, <2>5, <2>6 DEF Way, b
<1> QED BY <1>3, <1>4, <1>5 DEF ClientInv

LEMMA SendingEndsInv ==
    ASSUME TypeOK, NEW c \in Clients, ClientInv(c), SendingEnds(c)
    PROVE  ClientInv(c)'
<1> USE DEF lineVars, netVars
<1>1. Same(c) /\ serverUp' = serverUp
  BY DEF SendingEnds, Same
<1> QED BY <1>1, SameKept

LEMMA CheckFinishedInv ==
    ASSUME TypeOK, NEW c \in Clients, ClientInv(c), CheckFinished(c)
    PROVE  ClientInv(c)'
<1> USE DEF lineVars, netVars
<1>1. /\ ~Gone(c) /\ receiver[c] = "check"
      /\ \/ receiver'[c] = "done" /\ finished_reading[c] /\ msg_count[c] = 0
         \/ receiver'[c] = "receive"
      /\ UNCHANGED <<status, main, lineVars, toServer, toClient, serverUp>>
  BY DEF CheckFinished, Running, Gone, TypeOK, ClientTypes
<1>2. Pushed(c)' = Pushed(c) /\ Counted(c)' = Counted(c) /\ Uncounted(c)' = Uncounted(c)
  BY <1>1 DEF Pushed, Counted, Uncounted
<1>3. Count(c)'
  BY <1>1, <1>2 DEF ClientInv, Count
<1>4. Ended(c)'
  BY <1>1 DEF ClientInv, Ended
<1> QED BY <1>1, <1>2, <1>3, <1>4, QuietClient

LEMMA ReceiveAnswerInv ==
    ASSUME TypeOK, NEW c \in Clients, ClientInv(c), ReceiveAnswer(c)
    PROVE  ClientInv(c)'
<1>1. /\ ~Gone(c) /\ status[c] = "running" /\ receiver[c] = "receive" /\ receiver'[c] = "count"
      /\ toClient[c] # << >> /\ toClient'[c] = Tail(toClient[c])
      /\ printed'[c] = Append(printed[c], Head(toClient[c]))
      /\ UNCHANGED <<status, main, linesRead, finished_reading, msg_count, msg_queue, raced,
                     toServer, serverUp>>
  BY DEF ReceiveAnswer, Running, Gone, TypeOK, ClientTypes
<1> DEFINE p == Len(printed[c])
<1>2. p \in Nat /\ Follows(printed[c], 0) /\ Follows(toClient[c], p)
  BY Lengths DEF ClientInv, Answers
<1>3. /\ Head(toClient[c]) = p + 1 /\ Follows(toClient'[c], p + 1)
      /\ Len(toClient[c]) \in Nat \ {0} /\ Len(toClient'[c]) = Len(toClient[c]) - 1
  BY <1>1, <1>2, Lengths, FirstTaken
<1>4. Follows(printed'[c], 0) /\ Len(printed'[c]) = p + 1
  <2>1. 0 + p + 1 = p + 1
    BY <1>2
  <2> QED BY <1>1, <1>2, <1>3, <2>1, Lengths, Appended
<1>5. Back(c)' = Back(c) /\ Pushed(c)' = Pushed(c)
  <2>1. Len(printed'[c]) + Len(toClient'[c]) = p + Len(toClient[c])
    <3> DEFINE a == Len(toClient[c])
               b == Len(toClient'[c])
               q == Len(printed'[c])
    <3>1. p \in Nat /\ q = p + 1 /\ a \in Nat \ {0} /\ b = a - 1
      BY <1>2, <1>3, <1>4
    <3> HIDE DEF p, a, b, q
    <3>2. q + b = p + a
      BY <3>1
    <3> QED BY <3>2 DEF a, b, q
  <2> QED BY <1>1, <2>1 DEF Back, Pushed
<1>6. Answers(c)'
  BY <1>3, <1>4, <1>5 DEF ClientInv, Answers
<1>7. serverUp' => Way(c)'
  BY <1>1, <1>5 DEF ClientInv, Way
<1>8. Count(c)'
  <2>1. Uncounted(c)' = Len(printed'[c]) - 1 /\ Uncounted(c) = p - 0
    BY <1>1 DEF Uncounted
  <2> HIDE DEF p
  <2>2. Uncounted(c)' = Uncounted(c)
    BY <1>2, <1>4, <2>1
  <2> QED BY <1>1, <2>2 DEF ClientInv, Count, Counted
<1>9. Ended(c)'
  BY <1>1 DEF Ended
<1> QED BY <1>6, <1>7, <1>8, <1>9 DEF ClientInv

LEMMA CountAnswerInv ==
    ASSUME TypeOK, NEW c \in Clients, ClientInv(c), CountAnswer(c)
    PROVE  ClientInv(c)'
<1> USE DEF netVars
<1>1. /\ ~Gone(c) /\ status[c] = "running" /\ receiver[c] = "count" /\ receiver'[c] = "check"
      /\ ~raced'[c] => ~raced[c] /\ msg_count'[c] = msg_count[c] - 1
      /\ UNCHANGED <<status, main, linesRead, finished_reading, msg_queue, printed,
                     toServer, toClient, serverUp>>
  BY DEF CountAnswer, Running, Gone, TypeOK, ClientTypes
<1>2. Pushed(c)' = Pushed(c) /\ Counted(c)' = Counted(c)
  BY <1>1 DEF Pushed, Counted
<1>3. Count(c)'
  <2> DEFINE p == Len(printed[c])
  <2>1. p \in Nat /\ msg_count[c] \in Int /\ Counted(c) \in Int
    BY Lengths DEF Counted
  <2>2. Uncounted(c) = p - 1 /\ Uncounted(c)' = p - 0
    BY <1>1 DEF Uncounted
  <2>3. ~raced[c] => msg_count[c] = Counted(c) - Uncounted(c)
    BY <1>1 DEF ClientInv, Count
  <2> HIDE DEF p
  <2>4. ~raced'[c] => msg_count'[c] = Counted(c)' - Uncounted(c)'
    BY <1>1, <1>2, <2>1, <2>2, <2>3
  <2> QED BY <1>1, <2>4 DEF ClientInv, Count
<1>4. Ended(c)'
  BY <1>1 DEF Ended
<1> QED BY <1>1, <1>2, <1>3, <1>4, QuietClient

LEMMA ClientStepInv ==
    ASSUME IInv, NEW c \in Clients, ClientStep(c), UNCHANGED serverVars
    PROVE  IInv'
<1>1. TypeOK /\ ClientInv(c)
  BY DEF IInv
<1>2. Framed(c)
  BY <1>1, StepFramed
<1>3. SendFails(c) => ClientInv(c)'
  BY <1>1, EndInv DEF SendFails
<1>4. ServerDisconnected(c) => ClientInv(c)'
  BY <1>1, EndInv DEF ServerDisconnected
<1>5. KillClient(c) => ClientInv(c)'
  BY <1>1, EndInv DEF KillClient
<1>6. ClientInv(c)'
  BY <1>1, <1>3, <1>4, <1>5, ConnectInv, ReadLineInv, CountLineInv, PushLineInv, EndOfInputInv,
     JoinSenderInv, JoinReceiverInv, SendLineInv, SendingEndsInv, CheckFinishedInv,
     ReceiveAnswerInv, CountAnswerInv
     DEF ClientStep, MainStep, SendingStep, ReceivingStep
<1> QED BY <1>2, <1>6, ClientSteps

-----------------------------------------------------------------------------
(* Steps of the server. *)

\* Min is an element: a set of slots has a least one.
LEMMA LeastSlot ==
    ASSUME NEW S \in SUBSET Slots, S # {}
    PROVE  Min(S) \in S
<1> DEFINE R == {e \in Nat \X Nat : e[1] < e[2]}
<1>1. R = OpToRel(<, Nat)
  BY DEF OpToRel
<1>2. IsWellFoundedOn(R, Nat)
  BY <1>1, NatLessThanWellFounded
<1>3. S \subseteq Nat
  BY MaxClientsAssumption DEF Slots
<1> HIDE DEF R
<1>4. \E i \in S : \A j \in S : ~ (<<j, i>> \in R)
  BY <1>2, <1>3, WFMin
<1>5. \E i \in S : \A j \in S : i =< j
  <2>1. \A i \in S : \A j \in S : ~ (<<j, i>> \in R) => i =< j
    BY <1>3 DEF R
  <2> QED BY <1>4, <2>1
<1> QED BY <1>5 DEF Min

\* A slot that is ready holds a client.
LEMMA ReadySlot ==
    ASSUME TypeOK, ready # {}
    PROVE  /\ Min(ready) \in ready /\ Min(ready) \in Slots
           /\ client_socket[Min(ready)] \in Clients
<1>1. ready \in SUBSET Slots
  BY DEF TypeOK, ServerTypes
<1>2. Min(ready) \in ready
  BY <1>1, LeastSlot
<1> QED BY <1>1, <1>2 DEF TypeOK, ServerTypes

\* Steps that touch no client.
LEMMA QuietServer ==
    ASSUME IInv, UNCHANGED <<status, threadVars, lineVars, toServer, toClient, serverUp, killed>>,
           backlog' \in Seq(Clients), ServerTypes'
    PROVE  IInv'
<1> USE DEF threadVars, lineVars
<1>1. ClientTypes'
  BY DEF IInv, TypeOK, ClientTypes
<1>2. \A d \in Clients : Same(d)
  BY DEF Same
<1>3. \A d \in Clients : ClientInv(d)'
  BY <1>2, SameKept DEF IInv
<1>4. ServerOutlivesOrderlyClients'
  BY DEF IInv, ServerOutlivesOrderlyClients, Gone
<1> QED BY <1>1, <1>3, <1>4 DEF IInv, TypeOK

LEMMA SelectStep == ASSUME IInv, Select PROVE IInv'
<1> DEFINE active == {i \in Slots \ Free : Readable(client_socket[i])}
<1>1. /\ backlog \in Seq(Clients) /\ client_socket \in [Slots -> Clients \union {None}]
      /\ ready' = active
  BY DEF IInv, TypeOK, ClientTypes, ServerTypes, Select
<1>2. \A i \in active : i \in Slots /\ i \notin Free /\ client_socket[i] \in Clients
  BY <1>1 DEF Free
<1> HIDE DEF active
<1>3. backlog' \in Seq(Clients) /\ ServerTypes'
  <2>1. CASE backlog = << >>
    <3>1. UNCHANGED <<backlog, client_socket>>
      BY <2>1 DEF Select
    <3> QED BY <1>1, <1>2, <3>1 DEF ServerTypes
  <2>2. CASE backlog # << >> /\ Free = {}
    <3>1. backlog' = Tail(backlog) /\ client_socket' = client_socket
      BY <2>2 DEF Select
    <3>2. Tail(backlog) \in Seq(Clients)
      BY <1>1, <2>2, HeadTailProperties
    <3> QED BY <1>1, <1>2, <3>1, <3>2 DEF ServerTypes
  <2>3. CASE backlog # << >> /\ Free # {}
    <3> DEFINE m == Min(Free)
    <3>1. backlog' = Tail(backlog) /\ client_socket' = [client_socket EXCEPT ![m] = Head(backlog)]
      BY <2>3 DEF Select
    <3>2. Tail(backlog) \in Seq(Clients) /\ Head(backlog) \in Clients
      BY <1>1, <2>3, HeadTailProperties
    <3>3. m \in Free
      <4>1. Free \in SUBSET Slots
        BY DEF Free
      <4> QED BY <2>3, <4>1, LeastSlot
    <3> HIDE DEF m
    <3>4. client_socket' \in [Slots -> Clients \union {None}]
      BY <1>1, <3>1, <3>2
    <3>5. \A i \in active : client_socket'[i] \in Clients
      BY <1>1, <1>2, <3>1, <3>3
    <3> QED BY <1>1, <1>2, <3>1, <3>2, <3>4, <3>5 DEF ServerTypes
  <2> QED BY <2>1, <2>2, <2>3
<1> QED BY <1>3, QuietServer DEF Select

LEMMA AcceptFailsStep == ASSUME IInv, AcceptFails PROVE IInv'
<1>1. backlog' \in Seq(Clients)
  <2>1. backlog \in Seq(Clients) /\ backlog # << >> /\ backlog' = Tail(backlog)
    BY DEF IInv, TypeOK, ClientTypes, AcceptFails
  <2> QED BY <2>1, HeadTailProperties
<1>2. ServerTypes'
  BY DEF IInv, TypeOK, ServerTypes, AcceptFails, serverVars
<1> QED BY <1>1, <1>2, QuietServer DEF AcceptFails

LEMMA CloseClientStep == ASSUME IInv, CloseClient PROVE IInv'
<1> USE DEF threadVars, lineVars
<1> DEFINE i == Min(ready)
           c == client_socket[i]
<1>1. i \in Slots /\ c \in Clients
  BY ReadySlot DEF IInv, CloseClient
<1>2. /\ Gone(c) /\ serverUp
      /\ client_socket' = [client_socket EXCEPT ![i] = None]
      /\ toServer' = [toServer EXCEPT ![c] = << >>]
      /\ ready' = {}
      /\ UNCHANGED <<status, threadVars, lineVars, toClient, backlog, serverUp, killed>>
  BY DEF CloseClient
<1> HIDE DEF i, c
<1>3. TypeOK'
  <2>1. toServer' \in [Clients -> Seq(Nat)]
    BY <1>2, NothingFollows DEF IInv, TypeOK, ClientTypes
  <2>2. ClientTypes'
    BY <1>2, <2>1 DEF IInv, TypeOK, ClientTypes
  <2>3. ServerTypes'
    BY <1>1, <1>2 DEF IInv, TypeOK, ServerTypes
  <2> QED BY <2>2, <2>3 DEF TypeOK
<1>4. ASSUME NEW d \in Clients PROVE ClientInv(d)'
  <2>1. ClientInv(d)
    BY DEF IInv
  <2>2. CASE d # c
    <3>1. Same(d)
      BY <1>1, <1>2, <2>2 DEF IInv, TypeOK, ClientTypes, Same
    <3> QED BY <1>2, <2>1, <3>1, SameKept
  <2>3. CASE d = c
    <3>1. Gone(d)' /\ Answers(d)'
      BY <1>2, <2>1, <2>3 DEF Gone, ClientInv, Answers, Back, Pushed
    <3>2. toServer'[d] = << >>
      BY <1>1, <1>2, <2>3 DEF IInv, TypeOK, ClientTypes
    <3>3. Ended(d)'
      BY <1>2, <2>1, <3>2 DEF ClientInv, Ended
    <3> QED BY <3>1, <3>3 DEF ClientInv
  <2> QED BY <2>2, <2>3
<1>5. ServerOutlivesOrderlyClients'
  BY <1>2 DEF ServerOutlivesOrderlyClients
<1> QED BY <1>3, <1>4, <1>5 DEF IInv

\* A line of a client that goes on, on its way back.
LEMMA Answered ==
    ASSUME TypeOK, NEW c \in Clients, ClientInv(c), serverUp, ~Gone(c), toServer[c] # << >>,
           toServer'[c] = Tail(toServer[c]),
           toClient'[c] = Append(toClient[c], Head(toServer[c])),
           UNCHANGED <<status, threadVars, lineVars>>
    PROVE  ClientInv(c)'
<1> USE DEF threadVars, lineVars
<1> DEFINE p == Len(printed[c])
           k == Len(toClient[c])
           t == Len(toServer[c])
<1>1. p \in Nat /\ k \in Nat /\ Back(c) = p + k /\ Back(c) \in Nat
  BY Lengths DEF Back
<1>2. /\ Follows(toClient[c], p) /\ Follows(toServer[c], p + k)
      /\ Follows(msg_queue[c], p + k + t)
      /\ p + k + t + Len(msg_queue[c]) = Pushed(c)
  BY <1>1 DEF ClientInv, Answers, Way
<1>3. /\ Head(toServer[c]) = p + k + 1 /\ Follows(toServer'[c], p + k + 1)
      /\ t \in Nat \ {0} /\ Len(toServer'[c]) = t - 1
  BY <1>1, <1>2, Lengths, FirstTaken
<1>4. Follows(toClient'[c], p) /\ Len(toClient'[c]) = k + 1
  <2>1. toClient'[c] = Append(toClient[c], p + k + 1) /\ toClient[c] \in Seq(Nat)
    BY <1>3, Lengths
  <2> QED BY <1>1, <1>2, <2>1, Appended
<1>5. Pushed(c)' = Pushed(c) /\ Len(msg_queue[c]) \in Nat
  BY Lengths DEF Pushed
<1>6. Back(c)' = p + Len(toClient'[c])
  BY DEF Back
<1> HIDE DEF p, k, t
<1>7. Back(c)' = p + k + 1
  BY <1>1, <1>4, <1>6
<1>8. /\ Back(c)' <= Pushed(c)'
      /\ Back(c)' + Len(toServer'[c]) = p + k + t
      /\ Back(c)' + Len(toServer'[c]) + Len(msg_queue[c]) = Pushed(c)'
  <2> DEFINE q == Len(msg_queue[c])
             u == Len(toServer'[c])
  <2>1. q \in Nat /\ u = t - 1 /\ p + k + t + q = Pushed(c)
    BY <1>2, <1>3, <1>5
  <2> HIDE DEF q, u
  <2>2. /\ p + k + 1 <= Pushed(c) /\ p + k + 1 + u = p + k + t
        /\ p + k + 1 + u + q = Pushed(c)
    BY <1>1, <1>3, <2>1
  <2> QED BY <1>5, <1>7, <2>2 DEF q, u
<1>9. Answers(c)'
  BY <1>4, <1>8 DEF ClientInv, Answers, p
<1>10. Way(c)'
  BY <1>2, <1>3, <1>7, <1>8 DEF Way
<1>11. Count(c)'
  BY DEF ClientInv, Count, Counted, Uncounted
<1>12. Ended(c)'
  BY DEF Ended, Gone
<1> QED BY <1>9, <1>10, <1>11, <1>12 DEF ClientInv

\* A server that ends does so on the answer to a client that has left a line unanswered.
LEMMA AnswerLineStep == ASSUME IInv, AnswerLine PROVE IInv'
<1> USE DEF threadVars, lineVars
<1>1. PICK i \in Slots, c \in Clients :
          i \in ready /\ i = Min(ready) /\ c = client_socket[i]
  BY ReadySlot DEF IInv, AnswerLine
<1>2. /\ serverUp /\ toServer[c] # << >>
      /\ toServer' = [toServer EXCEPT ![c] = Tail(@)]
      /\ Gone(c) => serverUp' \in BOOLEAN /\ toClient' = toClient
      /\ ~Gone(c) => /\ toClient' = [toClient EXCEPT ![c] = Append(@, Head(toServer[c]))]
                     /\ serverUp' = serverUp
      /\ ready' = ready \ {i}
      /\ UNCHANGED <<status, threadVars, lineVars, backlog, killed, client_socket>>
  BY <1>1 DEF AnswerLine
<1>3. TypeOK'
  <2>1. /\ Tail(toServer[c]) \in Seq(Nat)
        /\ Append(toClient[c], Head(toServer[c])) \in Seq(Nat)
    <3>1. toServer[c] \in Seq(Nat) /\ toClient[c] \in Seq(Nat)
      BY DEF IInv, TypeOK, ClientTypes
    <3> QED BY <1>2, <3>1, FirstTaken, AppendProperties
  <2>2. toServer' \in [Clients -> Seq(Nat)] /\ toClient' \in [Clients -> Seq(Nat)]
    <3>1. toServer \in [Clients -> Seq(Nat)] /\ toClient \in [Clients -> Seq(Nat)]
      BY DEF IInv, TypeOK, ClientTypes
    <3>2. toServer' \in [Clients -> Seq(Nat)]
      BY <1>2, <2>1, <3>1
    <3>3. CASE Gone(c)
      BY <1>2, <3>1, <3>2, <3>3
    <3>4. CASE ~Gone(c)
      BY <1>2, <2>1, <3>1, <3>2, <3>4
    <3> QED BY <3>3, <3>4
  <2>3. serverUp' \in BOOLEAN
    BY <1>2
  <2>4. ClientTypes'
    BY <1>2, <2>2, <2>3 DEF IInv, TypeOK, ClientTypes
  <2>5. ServerTypes'
    BY <1>1, <1>2 DEF IInv, TypeOK, ServerTypes
  <2> QED BY <2>4, <2>5 DEF TypeOK
<1>4. toServer'[c] = Tail(toServer[c])
  BY <1>1, <1>2 DEF IInv, TypeOK, ClientTypes
<1>5. ClientInv(c)'
  <2>1. CASE Gone(c)
    <3>1. Gone(c)' /\ Answers(c)'
      BY <1>2, <2>1 DEF IInv, Gone, ClientInv, Answers, Back, Pushed
    <3>2. Ended(c)'
      BY <1>1, <1>2, <2>1 DEF IInv, ClientInv, Ended
    <3> QED BY <3>1, <3>2 DEF ClientInv
  <2>2. CASE ~Gone(c)
    <3>1. toClient'[c] = Append(toClient[c], Head(toServer[c]))
      BY <1>1, <1>2, <2>2 DEF IInv, TypeOK, ClientTypes
    <3> QED BY <1>1, <1>2, <1>4, <2>2, <3>1, Answered DEF IInv
  <2> QED BY <2>1, <2>2
<1>6. ASSUME NEW d \in Clients, d # c PROVE ClientInv(d)'
  <2>1. Same(d)
    BY <1>1, <1>2, <1>6 DEF IInv, TypeOK, ClientTypes, Same
  <2> QED BY <1>2, <2>1, SameKept DEF IInv
<1>7. ServerOutlivesOrderlyClients'
  <2> SUFFICES ASSUME ~serverUp'
               PROVE  Gone(c)' /\ (status'[c] = "killed" \/ raced'[c])
    BY <1>1 DEF ServerOutlivesOrderlyClients
  <2>1. Gone(c) /\ Gone(c)'
    BY <1>2 DEF Gone
  <2>2. status[c] # "error" /\ ~(status[c] = "ok" /\ ~raced[c])
    BY <1>1, <1>2 DEF IInv, ClientInv, Ended
  <2> QED BY <1>2, <2>1, <2>2 DEF Gone
<1> QED BY <1>3, <1>5, <1>6, <1>7 DEF IInv

-----------------------------------------------------------------------------
(* Theorems. *)

LEMMA Started == Init => IInv
<1> SUFFICES ASSUME Init PROVE IInv
  OBVIOUS
<1>1. ClientTypes
  BY NothingFollows, EmptySeq DEF Init, ClientInit, ClientTypes
<1>2. ServerTypes
  BY DEF Init, ServerTypes
<1>3. ASSUME NEW c \in Clients PROVE ClientInv(c)
  <2>1. /\ linesRead[c] = 0 /\ main[c] = "read" /\ receiver[c] = "check" /\ msg_count[c] = 0
        /\ printed[c] = << >> /\ toClient[c] = << >> /\ toServer[c] = << >>
        /\ msg_queue[c] = << >> /\ status[c] = "off" /\ ~finished_reading[c]
    BY DEF Init, ClientInit
  <2>2. Pushed(c) = 0 /\ Back(c) = 0
    BY <2>1, NothingFollows DEF Pushed, Back
  <2>3. Answers(c) /\ Way(c)
    BY <2>1, <2>2, NothingFollows DEF Answers, Way
  <2>4. Count(c)
    <3>1. Counted(c) = 0 /\ Uncounted(c) = 0
      BY <2>1, NothingFollows DEF Counted, Uncounted
    <3> QED BY <2>1, <3>1 DEF Count
  <2>5. Ended(c)
    BY <2>1 DEF Ended
  <2> QED BY <2>3, <2>4, <2>5 DEF ClientInv
<1>4. ServerOutlivesOrderlyClients
  BY DEF Init, ClientInit, ServerOutlivesOrderlyClients
<1> QED BY <1>1, <1>2, <1>3, <1>4 DEF IInv, TypeOK

LEMMA Stepped == IInv /\ [Next]_vars => IInv'
<1> SUFFICES ASSUME IInv, [Next]_vars PROVE IInv'
  OBVIOUS
<1>1. CASE ServerStep
  BY <1>1, SelectStep, AcceptFailsStep, AnswerLineStep, CloseClientStep DEF ServerStep
<1>2. ASSUME NEW c \in Clients, ClientStep(c), UNCHANGED serverVars PROVE IInv'
  BY <1>2, ClientStepInv
<1>3. CASE UNCHANGED vars
  <2>1. /\ UNCHANGED <<status, threadVars, lineVars, toServer, toClient, serverUp, killed>>
        /\ UNCHANGED backlog /\ UNCHANGED serverVars
    BY <1>3 DEF vars, clientVars, netVars
  <2>2. backlog' \in Seq(Clients) /\ ServerTypes'
    BY <2>1 DEF IInv, TypeOK, ClientTypes, ServerTypes, serverVars
  <2> QED BY <2>1, <2>2, QuietServer
<1> QED BY <1>1, <1>2, <1>3 DEF Next

LEMMA IInvHolds == Spec => []IInv
BY Started, Stepped, PTL DEF Spec

\* Every variable keeps its type; a slot that is ready holds a client
\* (stringServer.cpp:125-142).
THEOREM TypeCorrect == Spec => []TypeOK
<1>1. IInv => TypeOK
  BY DEF IInv
<1> QED BY IInvHolds, <1>1, PTL

\* For any clients, lines and slots, while both ends run no line is lost, doubled or
\* overtaken on its way through the queue, the server and back to the screen
\* (stringClient.cpp:49-51, 69-82, 104-110, stringServer.cpp:137-153).
THEOREM LinesKept == Spec => []NothingLost
<1>1. IInv => NothingLost
  <2> SUFFICES ASSUME IInv, serverUp, NEW c \in Clients, Running(c)
               PROVE  printed[c] \o toClient[c] \o toServer[c] \o msg_queue[c]
                          = [n \in 1 .. Pushed(c) |-> n]
    BY DEF NothingLost
  <2> DEFINE s1 == printed[c] \o toClient[c]
             s2 == s1 \o toServer[c]
             s3 == s2 \o msg_queue[c]
  <2>1. TypeOK /\ Answers(c) /\ Way(c)
    BY DEF IInv, ClientInv, Running, Gone
  <2>2. /\ printed[c] \in Seq(Nat) /\ Len(printed[c]) \in Nat /\ toClient[c] \in Seq(Nat)
        /\ toServer[c] \in Seq(Nat) /\ msg_queue[c] \in Seq(Nat)
    BY <2>1, Lengths
  <2>3. s1 \in Seq(Nat) /\ Len(s1) = Back(c) /\ Follows(s1, 0)
    <3>1. Follows(printed[c], 0) /\ Follows(toClient[c], 0 + Len(printed[c]))
      BY <2>1, <2>2 DEF Answers
    <3> QED BY <2>2, <3>1, Joined DEF Back
  <2>4. Back(c) \in Nat /\ Len(toServer[c]) \in Nat
    BY <2>1, Lengths
  <2> HIDE DEF s1
  <2>5. s2 \in Seq(Nat) /\ Len(s2) = Back(c) + Len(toServer[c]) /\ Follows(s2, 0)
    <3>1. Follows(toServer[c], 0 + Len(s1))
      BY <2>1, <2>3, <2>4 DEF Way
    <3>2. s2 \in Seq(Nat) /\ Len(s2) = Len(s1) + Len(toServer[c]) /\ Follows(s2, 0)
      BY <2>2, <2>3, <3>1, Joined
    <3> QED BY <2>3, <3>2
  <2> HIDE DEF s2
  <2>6. s3 \in Seq(Nat) /\ Len(s3) = Pushed(c) /\ Follows(s3, 0)
    <3>1. Follows(msg_queue[c], 0 + Len(s2))
      BY <2>1, <2>4, <2>5 DEF Way
    <3>2. s3 \in Seq(Nat) /\ Len(s3) = Len(s2) + Len(msg_queue[c]) /\ Follows(s3, 0)
      BY <2>2, <2>5, <3>1, Joined
    <3> QED BY <2>1, <2>5, <3>2 DEF Way
  <2> HIDE DEF s3
  <2>7. s3 = [n \in 1 .. Pushed(c) |-> n]
    BY <2>6, AllLines
  <2> QED BY <2>7 DEF s1, s2, s3
<1> QED BY IInvHolds, <1>1, PTL

\* For any clients, lines and slots, a client that returns from main has printed the
\* answer to every line it read, unless an update of msg_count got lost
\* (stringClient.cpp:97, 160).
THEOREM AllPrinted == Spec => []ReturnsAnswered
<1>1. IInv => ReturnsAnswered
  <2> SUFFICES ASSUME IInv, NEW c \in Clients, status[c] = "ok", ~raced[c]
               PROVE  AllAnswered(c)
    BY DEF ReturnsAnswered
  <2>1. Len(printed[c]) = linesRead[c] /\ Follows(printed[c], 0)
    BY DEF IInv, ClientInv, Ended, Answers
  <2>2. printed[c] \in Seq(Nat)
    BY Lengths DEF IInv
  <2> QED BY <2>1, <2>2, AllLines DEF AllAnswered
<1> QED BY IInvHolds, <1>1, PTL

\* For any clients, lines and slots, only a client that was killed, or whose count went
\* wrong, takes the server with it (stringServer.cpp:153).
THEOREM ServerOutlives == Spec => []ServerOutlivesOrderlyClients
<1>1. IInv => ServerOutlivesOrderlyClients
  BY DEF IInv
<1> QED BY IInvHolds, <1>1, PTL
=============================================================================
