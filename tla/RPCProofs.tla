----------------------------- MODULE RPCProofs -----------------------------
(***************************************************************************)
(* What module RemoteCalls keeps for any servers, clients, functions and   *)
(* offers, and for any number of calls and of killed processes: types, the *)
(* removal of servers that have left, honest results, and, unless a thread *)
(* of the binder misreads its first message, locations that are right.     *)
(* That the binder implements module Registry comes last.                  *)
(***************************************************************************)
EXTENDS RemoteCalls, SequenceTheorems, FiniteSetTheorems, WellFoundedInduction, TLAPS

-----------------------------------------------------------------------------
(* The invariants. *)

LinkStates == {"open", "closed", "reset"}

\* Whoever the binder knows has connected; a server that is off has not.
ConnectionsKnown ==
    /\ \A p \in Processes : p \in ToSet(queue) \/ reading = p => link[p] \in LinkStates
    /\ \A s \in Servers : thread[s] \in ThreadStates => link[s] \in LinkStates
    /\ \A s \in Servers : server[s] = "off" =>
          s \notin ToSet(queue) /\ reading # s /\ thread[s] \notin ThreadStates

\* A message names a server together with a function of it.
MessageOK(m) ==
    /\ m \in Block
    /\ m.server # None => m.function \in ToSet(Offers[m.server])

\* Servers register what they have, and a thread that has not read its message
\* finds one, its own or another.
RegistersItsFunctions ==
    \A s \in Servers :
        /\ request[s] \in ToSet(Offers[s]) \union {None}
        /\ thread[s] \in {"starting", "named"} => MessageOK(block[s])

\* What the binder reads and answers is what the client still wants.
AsksWhatItWants ==
    \A c \in Clients :
        /\ binder = "running" /\ request[c] # None =>
              /\ client[c] \in {"asked", "gone"}
              /\ request[c] = want[c]
              /\ answer[c] = None
        /\ client[c] = "connected" => answer[c] = None
        /\ answer[c] \in Servers => want[c] \in Functions
        /\ client[c] \in {"located", "calling"} => location[c] \in Servers /\ want[c] \in Functions

\* The runs of a call agree with what the server says, r.
RanAsReported(c, r) ==
    /\ r \in {"EXECUTE_SUCCESS", "EXECUTE_FAILURE"} => ranAt[c] = {location[c]}
    /\ r \in {"sent", "SERVER_FUNCTION_NOT_FOUND"} => ranAt[c] = {}

RunsOnce(c) ==
    /\ client[c] \in {"connected", "asked", "located"} => ranAt[c] = {}
    /\ client[c] \in {"idle", "connected", "asked", "located"} => call[c] = None /\ response[c] = None
    /\ client[c] = "calling" =>
          /\ call[c] # None =>
                /\ response[c] = None
                /\ call[c].at = location[c]
                /\ RanAsReported(c, call[c].state)
          /\ response[c] # None => RanAsReported(c, response[c])
CallsRunOnce == \A c \in Clients : RunsOnce(c)

\* Without a misread message the database is true, and so is what comes of it.
DatabaseRight ==
    /\ \A d \in database : d[1] \in ToSet(Offers[d[2]])
    /\ binder = "running" => \A d \in database : address[d[2]] = d[2]
    /\ \A s \in Servers : thread[s] \in {"named", "waiting"} => address[s] = s
CallRight(c) ==
    /\ answer[c] \in Servers => want[c] \in ToSet(Offers[answer[c]])
    /\ client[c] = "located" => want[c] \in ToSet(Offers[location[c]])
    /\ call[c] # None =>
          /\ call[c].function \in ToSet(Offers[call[c].at])
          /\ call[c].state # "SERVER_FUNCTION_NOT_FOUND"
    /\ response[c] # "SERVER_FUNCTION_NOT_FOUND"
    /\ result[c] # "SERVER_FUNCTION_NOT_FOUND"
RightServers == ~misread => DatabaseRight /\ \A c \in Clients : CallRight(c)

-----------------------------------------------------------------------------
(* Steps of the parts. *)

\* Reused memory holds messages.
LEMMA ReusedTyped ==
    ASSUME BinderTypeOK, NEW m \in Block, NEW memory \in Reused(m)
    PROVE  memory \in [Servers -> Block \union {None}]
PROOF
<1>1. PICK S \in SUBSET NotRead : memory = [t \in Servers |-> IF t \in S THEN m ELSE block[t]]
  BY DEF Reused
<1>2. QED
  BY <1>1 DEF BinderTypeOK

\* Nothing is in an empty queue.
LEMMA EmptySet == ToSet(<< >>) = {}
BY DEF ToSet

\* A queue and its elements.
LEMMA QueueSets ==
    ASSUME NEW S, NEW q \in Seq(S), NEW x \in S
    PROVE  /\ ToSet(Append(q, x)) = ToSet(q) \union {x}
           /\ q # << >> => Head(q) \in ToSet(q) /\ ToSet(Tail(q)) \subseteq ToSet(q)
PROOF
<1>2. ToSet(Append(q, x)) = ToSet(q) \union {x}
  <2>1. ASSUME NEW y \in ToSet(Append(q, x))  PROVE y \in ToSet(q) \union {x}
    BY DEF ToSet
  <2>2. ASSUME NEW y \in ToSet(q)  PROVE y \in ToSet(Append(q, x))
    <3>1. PICK i \in 1 .. Len(q) : q[i] = y
      BY <2>2 DEF ToSet
    <3>2. i \in 1 .. Len(Append(q, x)) /\ Append(q, x)[i] = y
      BY <3>1
    <3>3. QED
      BY <3>2 DEF ToSet
  <2>3. x \in ToSet(Append(q, x))
    <3>1. Len(q) + 1 \in 1 .. Len(Append(q, x)) /\ Append(q, x)[Len(q) + 1] = x
      OBVIOUS
    <3>2. QED
      BY <3>1 DEF ToSet
  <2>4. QED
    BY <2>1, <2>2, <2>3
<1>3. ASSUME q # << >>  PROVE Head(q) \in ToSet(q) /\ ToSet(Tail(q)) \subseteq ToSet(q)
  <2>1. Head(q) \in ToSet(q)
    <3>1. 1 \in 1 .. Len(q) /\ Head(q) = q[1]
      BY <1>3
    <3>2. QED
      BY <3>1 DEF ToSet
  <2>2. ASSUME NEW y \in ToSet(Tail(q))  PROVE y \in ToSet(q)
    <3>1. PICK i \in 1 .. Len(Tail(q)) : Tail(q)[i] = y
      BY <2>2, <1>3 DEF ToSet
    <3>2. i + 1 \in 1 .. Len(q) /\ q[i + 1] = y
      BY <3>1, <1>3
    <3>3. QED
      BY <3>2 DEF ToSet
  <2>3. QED
    BY <2>1, <2>2
<1>4. QED
  BY <1>2, <1>3

\* What the processes send is well typed: a server sends a function it has, and a
\* client calls a server with a function.
LEMMA NetTypeStep ==
    ASSUME TypeOK, RegistersItsFunctions, AsksWhatItWants, Next
    PROVE  NetTypeOK'
PROOF
<1> USE OffersAssumption, NoneAssumption DEF RegistersItsFunctions, AsksWhatItWants, Processes,
        Responses, TypeOK, NetTypeOK, BinderTypeOK, ServerTypeOK, ClientTypeOK, netVars,
        binderVars, serverVars, clientVars
<1>1. ASSUME AcceptConnection, UNCHANGED <<serverVars, clientVars>>  PROVE NetTypeOK'
  BY <1>1 DEF AcceptConnection
<1>2. ASSUME NEW p \in Processes, FirstMessageMissing(p), UNCHANGED <<serverVars, clientVars>>
      PROVE  NetTypeOK'
  BY <1>2 DEF FirstMessageMissing, BinderExits
<1>3. ASSUME NEW s \in Servers, StartServerThread(s), UNCHANGED <<serverVars, clientVars>>
      PROVE  NetTypeOK'
  BY <1>3 DEF StartServerThread, ReceiveFirst, Reused
<1>4. ASSUME NEW c \in Clients, LookupFails(c), UNCHANGED <<serverVars, clientVars>>
      PROVE  NetTypeOK'
  BY <1>4 DEF LookupFails, ReceiveFirst, Reused
<1>5. ASSUME NEW c \in Clients, TerminateServers(c), UNCHANGED <<serverVars, clientVars>>
      PROVE  NetTypeOK'
  <2>1. request' = [request EXCEPT ![c] = None] /\ queue' = << >>
    BY <1>5 DEF TerminateServers, ReceiveFirst, BinderExits
  <2>2. UNCHANGED <<link, answer, call, response>>
    BY <1>5 DEF TerminateServers
  <2>3. PICK n \in 0 .. Len(serverSockets) :
          inbox' = [t \in Servers |->
                IF link[t] = "open" /\ \E i \in 1 .. n : serverSockets[i] = t
                THEN Append(inbox[t], Terminate) ELSE inbox[t]]
    BY <1>5 DEF TerminateServers
  <2>4. inbox' \in [Servers -> Seq({"REGISTER_SUCCESS", Terminate})]
    <3>1. \A t \in Servers : inbox[t] \in Seq({"REGISTER_SUCCESS", Terminate})
      OBVIOUS
    <3>2. \A t \in Servers : Append(inbox[t], Terminate) \in Seq({"REGISTER_SUCCESS",
            Terminate})
      BY <3>1
    <3>3. QED
      BY <2>3, <3>1, <3>2
  <2>5. QED
    BY <2>1, <2>2, <2>4
<1>6. ASSUME NEW c \in Clients, NEW s \in Servers, LookupSucceeds(c, s), UNCHANGED <<serverVars, clientVars>>
      PROVE  NetTypeOK'
  <2>1. answer' = [answer EXCEPT ![c] = address[s]] /\ address[s] \in Servers
    BY <1>6 DEF LookupSucceeds
  <2>2. request' = [request EXCEPT ![c] = None] /\ UNCHANGED <<queue, link, inbox, call,
          response>>
    BY <1>6 DEF LookupSucceeds, ReceiveFirst
  <2>3. QED
    BY <2>1, <2>2
<1>7. ASSUME NEW c \in Clients, NEW s \in Servers, LookupCrashes(c, s), UNCHANGED <<serverVars, clientVars>>
      PROVE  NetTypeOK'
  BY <1>7 DEF LookupCrashes, ReceiveFirst, BinderExits
<1>8. ASSUME NEW s \in Servers, RegisterFirst(s), UNCHANGED <<serverVars, clientVars>>
      PROVE  NetTypeOK'
  <2>1. inbox' = inbox \/ inbox' = [inbox EXCEPT ![s] = Append(inbox[s], "REGISTER_SUCCESS")]
    <3>1. CASE link[s] = "open"
      BY <1>8, <3>1 DEF RegisterFirst, Reply
    <3>2. CASE link[s] # "open"
      BY <1>8, <3>2 DEF RegisterFirst, Reply
    <3>3. QED
      BY <3>1, <3>2
  <2>2. inbox' \in [Servers -> Seq({"REGISTER_SUCCESS", Terminate})]
    <3> DEFINE more == Append(inbox[s], "REGISTER_SUCCESS")
    <3>1. more \in Seq({"REGISTER_SUCCESS", Terminate})
      <4>1. inbox[s] \in Seq({"REGISTER_SUCCESS", Terminate})
        OBVIOUS
      <4>2. QED
        BY <4>1
    <3>2. inbox' = inbox \/ inbox' = [inbox EXCEPT ![s] = more]
      BY <2>1
    <3> HIDE DEF more
    <3>3. QED
      BY <3>1, <3>2
  <2>3. request' \in [Processes -> Functions \union {None, Terminate}]
    BY <1>8 DEF RegisterFirst
  <2>4. UNCHANGED <<queue, link, answer, call, response>>
    BY <1>8 DEF RegisterFirst
  <2>5. QED
    BY <2>2, <2>3, <2>4
<1>9. ASSUME NEW s \in Servers, ThreadCrashes(s), UNCHANGED <<serverVars, clientVars>>
      PROVE  NetTypeOK'
  BY <1>9 DEF ThreadCrashes, BinderExits
<1>10. ASSUME NEW s \in Servers, RegisterNext(s), UNCHANGED <<serverVars, clientVars>>
       PROVE  NetTypeOK'
  <2>1. inbox' = inbox \/ inbox' = [inbox EXCEPT ![s] = Append(inbox[s], "REGISTER_SUCCESS")]
    <3>1. CASE link[s] = "open"
      BY <1>10, <3>1 DEF RegisterNext, Reply
    <3>2. CASE link[s] # "open"
      BY <1>10, <3>2 DEF RegisterNext, Reply
    <3>3. QED
      BY <3>1, <3>2
  <2>2. inbox' \in [Servers -> Seq({"REGISTER_SUCCESS", Terminate})]
    <3> DEFINE more == Append(inbox[s], "REGISTER_SUCCESS")
    <3>1. more \in Seq({"REGISTER_SUCCESS", Terminate})
      <4>1. inbox[s] \in Seq({"REGISTER_SUCCESS", Terminate})
        OBVIOUS
      <4>2. QED
        BY <4>1
    <3>2. inbox' = inbox \/ inbox' = [inbox EXCEPT ![s] = more]
      BY <2>1
    <3> HIDE DEF more
    <3>3. QED
      BY <3>1, <3>2
  <2>3. request' \in [Processes -> Functions \union {None, Terminate}]
    BY <1>10 DEF RegisterNext
  <2>4. UNCHANGED <<queue, link, answer, call, response>>
    BY <1>10 DEF RegisterNext
  <2>5. QED
    BY <2>2, <2>3, <2>4
<1>11. ASSUME NEW s \in Servers, RpcInit(s), UNCHANGED clientVars  PROVE NetTypeOK'
  <2>1. queue' = Append(queue, s) /\ link' = [link EXCEPT ![s] = "open"]
    BY <1>11 DEF RpcInit, ConnectToBinder
  <2>2. UNCHANGED <<request, inbox, answer, call, response>>
    BY <1>11 DEF RpcInit
  <2>3. queue' \in Seq(Processes)
    BY <2>1
  <2>4. link' \in [Processes -> {None, "open", "closed", "reset"}]
    BY <2>1
  <2>5. QED
    BY <2>2, <2>3, <2>4
<1>12. ASSUME NEW s \in Servers, SendRegister(s), UNCHANGED clientVars  PROVE NetTypeOK'
  <2>1. Offers[s] \in Seq(Functions) /\ next[s] \in 1 .. Len(Offers[s])
    BY <1>12 DEF SendRegister
  <2>2. Offers[s][next[s]] \in Functions
    BY <2>1
  <2>3. /\ request' = [request EXCEPT ![s] = Offers[s][next[s]]]
        /\ UNCHANGED <<queue, link, inbox, answer, call, response>>
    BY <1>12 DEF SendRegister
  <2>4. QED
    BY <2>2, <2>3
<1>13. ASSUME NEW s \in Servers, RegisterReturns(s), UNCHANGED clientVars  PROVE NetTypeOK'
  <2>1. UNCHANGED inbox \/ (inbox[s] # << >> /\ inbox' = [inbox EXCEPT ![s] = Tail(inbox[s])])
    BY <1>13 DEF RegisterReturns
  <2>2. inbox' \in [Servers -> Seq({"REGISTER_SUCCESS", Terminate})]
    <3> DEFINE more == IF inbox[s] = << >> THEN inbox[s] ELSE Tail(inbox[s])
    <3>1. more \in Seq({"REGISTER_SUCCESS", Terminate})
      <4>1. inbox[s] \in Seq({"REGISTER_SUCCESS", Terminate})
        OBVIOUS
      <4>2. QED
        BY <4>1
    <3>2. inbox' = inbox \/ inbox' = [inbox EXCEPT ![s] = more]
      BY <2>1
    <3> HIDE DEF more
    <3>3. QED
      BY <3>1, <3>2
  <2>3. UNCHANGED <<queue, link, request, answer, call, response>>
    BY <1>13 DEF RegisterReturns
  <2>4. QED
    BY <2>2, <2>3
<1>14. ASSUME NEW s \in Servers, Exit(s), UNCHANGED clientVars  PROVE NetTypeOK'
  BY <1>14 DEF Exit, Disconnect
<1>15. ASSUME NEW s \in Servers, ServerKilled(s), UNCHANGED clientVars  PROVE NetTypeOK'
  BY <1>15 DEF ServerKilled, Disconnect
<1>16. ASSUME NEW s \in Servers, NEW c \in Clients, RunFunction(s, c), UNCHANGED clientVars
       PROVE  NetTypeOK'
  <2>1. call[c] \in [at : Servers, function : Functions, state : Responses \union {"sent"}]
    BY <1>16 DEF RunFunction, Handles
  <2>2. PICK outcome \in Responses :
          call' = [call EXCEPT ![c] = [at |-> s, function |-> call[c].function,
          state |-> outcome]]
    BY <1>16 DEF RunFunction, Outcomes
  <2> DEFINE new == [at |-> s, function |-> call[c].function, state |-> outcome]
  <2>3. new \in [at : Servers, function : Functions, state : Responses \union {"sent"}]
    BY <2>1
  <2>4. call' = [call EXCEPT ![c] = new] /\ UNCHANGED <<queue, link, request, inbox, answer,
          response>>
    BY <1>16, <2>2 DEF RunFunction
  <2> HIDE DEF new
  <2>5. QED
    BY <2>3, <2>4
<1>17. ASSUME NEW s \in Servers, NEW c \in Clients, SendResult(s, c), UNCHANGED clientVars
       PROVE  NetTypeOK'
  <2>1. call[c].state \in Responses
    BY <1>17 DEF SendResult, Handles
  <2>2. /\ response' = [response EXCEPT ![c] = call[c].state]
        /\ call' = [call EXCEPT ![c] = None]
        /\ UNCHANGED <<queue, link, request, inbox, answer>>
    BY <1>17 DEF SendResult
  <2>3. QED
    BY <2>1, <2>2
<1>18. ASSUME NEW c \in Clients, NEW w \in Functions \union {Terminate}, Connect(c, w)
       PROVE  NetTypeOK'
  BY <1>18 DEF Connect, ConnectToBinder
<1>19. ASSUME NEW c \in Clients, Ask(c)  PROVE NetTypeOK'
  BY <1>19 DEF Ask
<1>20. ASSUME NEW c \in Clients, Execute(c)  PROVE NetTypeOK'
  <2>1. CASE server[location[c]] \in {"registering", "serving"}
    <3> DEFINE new == [at |-> location[c], function |-> want[c], state |-> "sent"]
    <3>1. new \in [at : Servers, function : Functions, state : Responses \union {"sent"}]
      BY <1>20 DEF Execute
    <3>2. call' = [call EXCEPT ![c] = new] /\ UNCHANGED <<queue, link, request, inbox, answer,
            response>>
      BY <1>20, <2>1 DEF Execute
    <3> HIDE DEF new
    <3>3. QED
      BY <3>1, <3>2
  <2>2. CASE server[location[c]] \notin {"registering", "serving"}
    BY <1>20, <2>2 DEF Execute
  <2>3. QED
    BY <2>1, <2>2
<1>21. ASSUME NEW c \in Clients, GetResult(c)  PROVE NetTypeOK'
  BY <1>21 DEF GetResult, Return
<1>22. ASSUME NEW c \in Clients, ClientKilled(c)  PROVE NetTypeOK'
  BY <1>22 DEF ClientKilled, Disconnect
<1>23. ASSUME UNCHANGED netVars  PROVE NetTypeOK'
  BY <1>23
<1>24. QED
  BY <1>1, <1>2, <1>3, <1>4, <1>5, <1>6, <1>7, <1>8, <1>9, <1>10, <1>11, <1>12, <1>13, <1>14,
          <1>15, <1>16, <1>17, <1>18, <1>19, <1>20, <1>21, <1>22, <1>23
  DEF Next, BinderStep, BinderMain, BinderThread, ServerStep, HandlerStep, ClientStep, CallStep,
      ReadIdentifier, ServerGone, RpcExecute, GetLocation, BinderGone

\* The binder stores functions with servers: a thread takes no REGISTER but that of
\* a server, be it another one's.
LEMMA BinderTypeStep ==
    ASSUME TypeOK, RegistersItsFunctions, Next
    PROVE  BinderTypeOK'
PROOF
<1> USE NoneAssumption, ProcessesAssumption, OffersAssumption DEF RegistersItsFunctions,
        MessageOK, Processes, ThreadStates, Block, Responses, TypeOK, NetTypeOK, BinderTypeOK,
        ServerTypeOK, ClientTypeOK, netVars, binderVars, serverVars, clientVars
<1>1. ASSUME AcceptConnection, UNCHANGED <<serverVars, clientVars>>  PROVE BinderTypeOK'
  BY <1>1 DEF AcceptConnection
<1>2. ASSUME NEW p \in Processes, FirstMessageMissing(p), UNCHANGED <<serverVars, clientVars>>
      PROVE  BinderTypeOK'
  BY <1>2 DEF FirstMessageMissing, BinderExits
<1>3. ASSUME NEW s \in Servers, StartServerThread(s), UNCHANGED <<serverVars, clientVars>>
      PROVE  BinderTypeOK'
  <2>1. Message(s) \in Block
    <3>1. Message(s) = [server |-> s, function |-> request[s]]
      BY DEF Message
    <3>2. request[s] \in ToSet(Offers[s]) /\ Offers[s] \in Seq(Functions)
      BY <1>3 DEF StartServerThread, ReceiveFirst
    <3>3. request[s] \in Functions
      BY <3>2 DEF ToSet
    <3>4. QED
      BY <3>1, <3>3
  <2>2. block' \in [Servers -> Block \union {None}]
    <3>1. PICK memory \in Reused(Message(s)) : block' = [memory EXCEPT ![s] = Message(s)]
      BY <1>3 DEF StartServerThread
    <3>2. memory \in [Servers -> Block \union {None}]
      BY <2>1, ReusedTyped
    <3>3. QED
      BY <2>1, <3>1, <3>2
  <2>3. serverSockets' \in Seq(Servers) /\ thread' \in [Servers -> ThreadStates \union {None}]
    BY <1>3 DEF StartServerThread
  <2>4. reading' = None /\ UNCHANGED <<binder, database, address, lastExecuted, clock, misread>>
    BY <1>3 DEF StartServerThread
  <2>5. QED
    BY <2>2, <2>3, <2>4
<1>4. ASSUME NEW c \in Clients, LookupFails(c), UNCHANGED <<serverVars, clientVars>>
      PROVE  BinderTypeOK'
  <2>1. block' \in [Servers -> Block \union {None}]
    <3>1. Message(c) = [server |-> None, function |-> None]
      BY DEF Message
    <3>2. Message(c) \in Block
      BY <3>1
    <3>3. block' \in Reused(Message(c))
      BY <1>4 DEF LookupFails
    <3>4. QED
      BY <3>2, <3>3, ReusedTyped
  <2>2. reading' = None /\ UNCHANGED <<binder, database, address, lastExecuted, clock, thread,
          serverSockets, misread>>
    BY <1>4 DEF LookupFails
  <2>3. QED
    BY <2>1, <2>2
<1>5. ASSUME NEW c \in Clients, TerminateServers(c), UNCHANGED <<serverVars, clientVars>>
      PROVE  BinderTypeOK'
  BY <1>5 DEF TerminateServers, ReceiveFirst, BinderExits
<1>6. ASSUME NEW c \in Clients, NEW s \in Servers, LookupSucceeds(c, s), UNCHANGED <<serverVars, clientVars>>
      PROVE  BinderTypeOK'
  <2>1. clock' = clock + 1 /\ lastExecuted' = [lastExecuted EXCEPT ![s] = clock + 1]
    BY <1>6 DEF LookupSucceeds
  <2>2. clock' \in Nat /\ lastExecuted' \in [Servers -> 0 .. clock']
    BY <2>1
  <2>3. block' \in [Servers -> Block \union {None}]
    <3>1. Message(c) = [server |-> None, function |-> None]
      BY DEF Message
    <3>2. Message(c) \in Block
      BY <3>1
    <3>3. block' \in Reused(Message(c))
      BY <1>6 DEF LookupSucceeds
    <3>4. QED
      BY <3>2, <3>3, ReusedTyped
  <2>4. reading' = None /\ UNCHANGED <<binder, database, address, thread, serverSockets,
          misread>>
    BY <1>6 DEF LookupSucceeds
  <2>5. QED
    BY <2>2, <2>3, <2>4
<1>7. ASSUME NEW c \in Clients, NEW s \in Servers, LookupCrashes(c, s), UNCHANGED <<serverVars, clientVars>>
      PROVE  BinderTypeOK'
  BY <1>7 DEF LookupCrashes, ReceiveFirst, BinderExits
<1>8. ASSUME NEW s \in Servers, ReadIdentifier(s), UNCHANGED <<serverVars, clientVars>>
      PROVE  BinderTypeOK'
  BY <1>8 DEF ReadIdentifier
<1>9. ASSUME NEW s \in Servers, RegisterFirst(s), UNCHANGED <<serverVars, clientVars>>
      PROVE  BinderTypeOK'
  <2>1. block[s] \in Block /\ block[s].function \in ToSet(Offers[block[s].server]) /\ block[s].server \in Servers
    BY <1>9 DEF RegisterFirst
  <2>2. block[s].function \in Functions
    <3>1. Offers[block[s].server] \in Seq(Functions)
      BY <2>1
    <3>2. QED
      BY <2>1, <3>1 DEF ToSet
  <2>3. database' \subseteq Functions \X Servers
    <3>1. database' = database \union {<<block[s].function, s>>}
      BY <1>9 DEF RegisterFirst
    <3>2. QED
      BY <2>2, <3>1
  <2>4. thread' \in [Servers -> ThreadStates \union {None}] /\ block' \in [Servers -> Block \union {None}]
    BY <1>9 DEF RegisterFirst
  <2>5. misread' \in BOOLEAN
    BY <1>9 DEF RegisterFirst
  <2>6. UNCHANGED <<binder, reading, address, lastExecuted, clock, serverSockets>>
    BY <1>9 DEF RegisterFirst
  <2>7. QED
    BY <2>3, <2>4, <2>5, <2>6
<1>10. ASSUME NEW s \in Servers, ThreadCrashes(s), UNCHANGED <<serverVars, clientVars>>
       PROVE  BinderTypeOK'
  BY <1>10 DEF ThreadCrashes, BinderExits
<1>11. ASSUME NEW s \in Servers, RegisterNext(s), UNCHANGED <<serverVars, clientVars>>
       PROVE  BinderTypeOK'
  <2>1. request[s] \in Functions
    <3>1. request[s] \in ToSet(Offers[s]) /\ Offers[s] \in Seq(Functions)
      BY <1>11 DEF RegisterNext
    <3>2. QED
      BY <3>1 DEF ToSet
  <2>2. database' = database \union {<<request[s], s>>}
    BY <1>11 DEF RegisterNext
  <2>3. UNCHANGED <<binder, reading, address, lastExecuted, clock, thread, block,
          serverSockets, misread>>
    BY <1>11 DEF RegisterNext
  <2>4. QED
    BY <2>1, <2>2, <2>3
<1>12. ASSUME NEW s \in Servers, ServerGone(s), UNCHANGED <<serverVars, clientVars>>
       PROVE  BinderTypeOK'
  BY <1>12 DEF ServerGone, Remaining
<1>13. ASSUME UNCHANGED binderVars  PROVE BinderTypeOK'
  BY <1>13
<1>14. QED
  BY <1>1, <1>2, <1>3, <1>4, <1>5, <1>6, <1>7, <1>8, <1>9, <1>10, <1>11, <1>12, <1>13
  DEF Next, BinderStep, BinderMain, BinderThread, ServerStep, HandlerStep, ClientStep, CallStep,
      RpcInit, SendRegister, RegisterReturns, RpcExecute, Exit, ServerKilled, RunFunction,
              SendResult, Connect, Ask, GetLocation, BinderGone, Execute, GetResult,
              ClientKilled

\* The servers' variables keep their types.
LEMMA ServerTypeStep ==
    ASSUME TypeOK, Next
    PROVE  ServerTypeOK'
PROOF
<1> USE MaxKilledAssumption DEF Responses, TypeOK, NetTypeOK, BinderTypeOK, ServerTypeOK,
        ClientTypeOK, netVars, binderVars, serverVars, clientVars
<1>1. ASSUME NEW s \in Servers, RpcInit(s), UNCHANGED clientVars  PROVE ServerTypeOK'
  BY <1>1 DEF RpcInit, ConnectToBinder
<1>2. ASSUME NEW s \in Servers, SendRegister(s), UNCHANGED clientVars  PROVE ServerTypeOK'
  BY <1>2 DEF SendRegister
<1>3. ASSUME NEW s \in Servers, RegisterReturns(s), UNCHANGED clientVars  PROVE ServerTypeOK'
  BY <1>3 DEF RegisterReturns
<1>4. ASSUME NEW s \in Servers, RpcExecute(s), UNCHANGED clientVars  PROVE ServerTypeOK'
  BY <1>4 DEF RpcExecute
<1>5. ASSUME NEW s \in Servers, Exit(s), UNCHANGED clientVars  PROVE ServerTypeOK'
  BY <1>5 DEF Exit, Disconnect
<1>6. ASSUME NEW s \in Servers, ServerKilled(s), UNCHANGED clientVars  PROVE ServerTypeOK'
  BY <1>6 DEF ServerKilled, Disconnect
<1>7. ASSUME NEW s \in Servers, NEW c \in Clients, RunFunction(s, c), UNCHANGED clientVars
      PROVE  ServerTypeOK'
  BY <1>7 DEF RunFunction, Handles, Outcomes
<1>8. ASSUME NEW c \in Clients, NEW w \in Functions \union {Terminate}, Connect(c, w)
      PROVE  ServerTypeOK'
  BY <1>8 DEF Connect, ConnectToBinder
<1>9. ASSUME NEW c \in Clients, ClientKilled(c)  PROVE ServerTypeOK'
  BY <1>9 DEF ClientKilled, Disconnect
<1>10. ASSUME UNCHANGED serverVars  PROVE ServerTypeOK'
  BY <1>10
<1>11. QED
  BY <1>1, <1>2, <1>3, <1>4, <1>5, <1>6, <1>7, <1>8, <1>9, <1>10
  DEF Next, BinderStep, BinderMain, BinderThread, ServerStep, HandlerStep, ClientStep, CallStep,
      AcceptConnection, FirstMessageMissing, StartServerThread, LookupFails, TerminateServers,
              LookupSucceeds, LookupCrashes, ReadIdentifier, RegisterFirst, ThreadCrashes,
              RegisterNext, ServerGone, SendResult, Ask, GetLocation, BinderGone, Execute,
              GetResult

\* The clients' variables keep their types.
LEMMA ClientTypeStep ==
    ASSUME TypeOK, AsksWhatItWants, Next
    PROVE  ClientTypeOK'
PROOF
<1> USE NoneAssumption, MaxCallsAssumption DEF AsksWhatItWants, Results, Responses, TypeOK,
        NetTypeOK, BinderTypeOK, ServerTypeOK, ClientTypeOK, netVars, binderVars, serverVars,
        clientVars
<1>1. ASSUME NEW c \in Clients, NEW w \in Functions \union {Terminate}, Connect(c, w)
      PROVE  ClientTypeOK'
  <2>1. calls'[c] = calls[c] + 1 /\ calls[c] < MaxCalls
    BY <1>1 DEF Connect
  <2>2. calls' \in [Clients -> 0 .. MaxCalls]
    BY <1>1, <2>1 DEF Connect
  <2>3. /\ client' \in [Clients -> {"idle", "connected", "asked", "located", "calling", "gone"}]
        /\ want' \in [Clients -> Functions \union {None, Terminate}]
    BY <1>1 DEF Connect
  <2>4. location' \in [Clients -> Servers \union {None}] /\ result' \in [Clients -> Results \union {None}]
    BY <1>1 DEF Connect
  <2>5. QED
    BY <2>2, <2>3, <2>4
<1>2. ASSUME NEW c \in Clients, Ask(c)  PROVE ClientTypeOK'
  BY <1>2 DEF Ask
<1>3. ASSUME NEW c \in Clients, GetLocation(c)  PROVE ClientTypeOK'
  <2>1. UNCHANGED <<want, calls>>
    BY <1>3 DEF GetLocation
  <2>2. CASE answer[c] = "LOC_FAILURE"
    <3>1. /\ client' = [client EXCEPT ![c] = "idle"]
          /\ result' = [result EXCEPT ![c] = "BINDER_FUNCTION_NOT_FOUND"]
          /\ location' = location
      BY <1>3, <2>2 DEF GetLocation, Return
    <3>2. QED
      BY <2>1, <3>1
  <2>3. CASE answer[c] # "LOC_FAILURE"
    <3>1. /\ client' = [client EXCEPT ![c] = "located"]
          /\ location' = [location EXCEPT ![c] = answer[c]]
          /\ result' = result
      BY <1>3, <2>3 DEF GetLocation
    <3>2. answer[c] \in Servers
      BY <1>3, <2>3 DEF GetLocation
    <3>3. QED
      BY <2>1, <3>1, <3>2
  <2>4. QED
    BY <2>2, <2>3
<1>4. ASSUME NEW c \in Clients, BinderGone(c)  PROVE ClientTypeOK'
  BY <1>4 DEF BinderGone, Return
<1>5. ASSUME NEW c \in Clients, Execute(c)  PROVE ClientTypeOK'
  <2>1. UNCHANGED <<want, location, calls>>
    BY <1>5 DEF Execute
  <2>2. \/ client' = [client EXCEPT ![c] = "calling"] /\ result' = result
        \/ client' = [client EXCEPT ![c] = "idle"] /\ result' = [result EXCEPT ![c] = "ERROR"]
    BY <1>5 DEF Execute, Return
  <2>3. QED
    BY <2>1, <2>2
<1>6. ASSUME NEW c \in Clients, GetResult(c)  PROVE ClientTypeOK'
  <2>1. UNCHANGED <<want, location, calls>>
    BY <1>6 DEF GetResult
  <2>2. PICK r \in Results : client' = [client EXCEPT ![c] = "idle"] /\ result' = [result EXCEPT ![c] = r]
    <3>1. CASE response[c] # None /\ Return(c, response[c])
      <4>1. response[c] \in Responses
        BY <3>1
      <4>2. response[c] \in Results
        BY <4>1
      <4>3. QED
        BY <3>1, <4>2 DEF Return
    <3>2. CASE Return(c, "ERROR")
      BY <3>2 DEF Return
    <3>3. QED
      BY <1>6, <3>1, <3>2 DEF GetResult
  <2>3. QED
    BY <2>1, <2>2
<1>7. ASSUME NEW c \in Clients, ClientKilled(c)  PROVE ClientTypeOK'
  BY <1>7 DEF ClientKilled, Disconnect
<1>8. ASSUME UNCHANGED clientVars  PROVE ClientTypeOK'
  BY <1>8
<1>9. QED
  BY <1>1, <1>2, <1>3, <1>4, <1>5, <1>6, <1>7, <1>8
  DEF Next, BinderStep, BinderMain, BinderThread, ServerStep, HandlerStep, ClientStep, CallStep,
      AcceptConnection, FirstMessageMissing, StartServerThread, LookupFails, TerminateServers,
              LookupSucceeds, LookupCrashes, ReadIdentifier, RegisterFirst, ThreadCrashes,
              RegisterNext, ServerGone, RpcInit, SendRegister, RegisterReturns, RpcExecute,
              Exit, ServerKilled, RunFunction, SendResult

\* A connection that the binder knows was made, and is never made a second time.
LEMMA ConnectionsStep ==
    ASSUME TypeOK, ConnectionsKnown, Next
    PROVE  ConnectionsKnown'
PROOF
<1> USE NoneAssumption, ProcessesAssumption DEF ConnectionsKnown, Responses, TypeOK, NetTypeOK,
        BinderTypeOK, ServerTypeOK, ClientTypeOK, LinkStates, Processes, ThreadStates, netVars,
        binderVars, serverVars, clientVars
<1>1. ASSUME AcceptConnection, UNCHANGED <<serverVars, clientVars>>  PROVE ConnectionsKnown'
  BY <1>1, QueueSets DEF AcceptConnection
<1>2. ASSUME NEW p \in Processes, FirstMessageMissing(p), UNCHANGED <<serverVars, clientVars>>
      PROVE  ConnectionsKnown'
  BY <1>2, EmptySet DEF FirstMessageMissing, BinderExits
<1>3. ASSUME NEW s \in Servers, StartServerThread(s), UNCHANGED <<serverVars, clientVars>>
      PROVE  ConnectionsKnown'
  BY <1>3 DEF StartServerThread, ReceiveFirst, Reused
<1>4. ASSUME NEW c \in Clients, LookupFails(c), UNCHANGED <<serverVars, clientVars>>
      PROVE  ConnectionsKnown'
  BY <1>4 DEF LookupFails, ReceiveFirst, Reused
<1>5. ASSUME NEW c \in Clients, TerminateServers(c), UNCHANGED <<serverVars, clientVars>>
      PROVE  ConnectionsKnown'
  BY <1>5, EmptySet DEF TerminateServers, ReceiveFirst, BinderExits
<1>6. ASSUME NEW c \in Clients, NEW s \in Servers, LookupSucceeds(c, s), UNCHANGED <<serverVars, clientVars>>
      PROVE  ConnectionsKnown'
  BY <1>6 DEF LookupSucceeds, ReceiveFirst, Reused, MostStaleServers, Offering
<1>7. ASSUME NEW c \in Clients, NEW s \in Servers, LookupCrashes(c, s), UNCHANGED <<serverVars, clientVars>>
      PROVE  ConnectionsKnown'
  BY <1>7, EmptySet DEF LookupCrashes, ReceiveFirst, BinderExits
<1>8. ASSUME NEW s \in Servers, ReadIdentifier(s), UNCHANGED <<serverVars, clientVars>>
      PROVE  ConnectionsKnown'
  BY <1>8 DEF ReadIdentifier
<1>9. ASSUME NEW s \in Servers, RegisterFirst(s), UNCHANGED <<serverVars, clientVars>>
      PROVE  ConnectionsKnown'
  BY <1>9 DEF RegisterFirst, Reply
<1>10. ASSUME NEW s \in Servers, ThreadCrashes(s), UNCHANGED <<serverVars, clientVars>>
       PROVE  ConnectionsKnown'
  BY <1>10, EmptySet DEF ThreadCrashes, BinderExits
<1>11. ASSUME NEW s \in Servers, ServerGone(s), UNCHANGED <<serverVars, clientVars>>
       PROVE  ConnectionsKnown'
  BY <1>11 DEF ServerGone, Remaining
<1>12. ASSUME NEW s \in Servers, RpcInit(s), UNCHANGED clientVars  PROVE ConnectionsKnown'
  BY <1>12, QueueSets DEF RpcInit, ConnectToBinder
<1>13. ASSUME NEW s \in Servers, RpcExecute(s), UNCHANGED clientVars  PROVE ConnectionsKnown'
  BY <1>13 DEF RpcExecute
<1>14. ASSUME NEW s \in Servers, Exit(s), UNCHANGED clientVars  PROVE ConnectionsKnown'
  BY <1>14 DEF Exit, Disconnect
<1>15. ASSUME NEW s \in Servers, ServerKilled(s), UNCHANGED clientVars  PROVE ConnectionsKnown'
  BY <1>15 DEF ServerKilled, Disconnect
<1>16. ASSUME NEW c \in Clients, NEW w \in Functions \union {Terminate}, Connect(c, w)
       PROVE  ConnectionsKnown'
  BY <1>16, QueueSets DEF Connect, ConnectToBinder
<1>17. ASSUME NEW c \in Clients, ClientKilled(c)  PROVE ConnectionsKnown'
  BY <1>17 DEF ClientKilled, Disconnect
<1>18. ASSUME UNCHANGED <<queue, reading, link, thread, server>>  PROVE ConnectionsKnown'
  BY <1>18
<1>19. QED
  BY <1>1, <1>2, <1>3, <1>4, <1>5, <1>6, <1>7, <1>8, <1>9, <1>10, <1>11, <1>12, <1>13, <1>14,
          <1>15, <1>16, <1>17, <1>18
  DEF Next, BinderStep, BinderMain, BinderThread, ServerStep, HandlerStep, ClientStep, CallStep,
      RegisterNext, SendRegister, RegisterReturns, RunFunction, SendResult, Ask, GetLocation,
              BinderGone, Execute, GetResult

\* removeServer leaves nothing behind (Binder.cpp:112-123).
LEMMA RemovedStep ==
    ASSUME TypeOK, ConnectionsKnown, RemovedUnlessReset, Next
    PROVE  RemovedUnlessReset'
PROOF
<1> USE NoneAssumption, ProcessesAssumption DEF RemovedUnlessReset, ConnectionsKnown,
        Responses, TypeOK, NetTypeOK, BinderTypeOK, ServerTypeOK, ClientTypeOK, LinkStates,
        Processes, ThreadStates, netVars, binderVars, serverVars, clientVars
<1>1. ASSUME NEW p \in Processes, FirstMessageMissing(p), UNCHANGED <<serverVars, clientVars>>
      PROVE  RemovedUnlessReset'
  BY <1>1 DEF FirstMessageMissing, BinderExits
<1>2. ASSUME NEW s \in Servers, StartServerThread(s), UNCHANGED <<serverVars, clientVars>>
      PROVE  RemovedUnlessReset'
  BY <1>2 DEF StartServerThread, ReceiveFirst, Reused
<1>3. ASSUME NEW c \in Clients, TerminateServers(c), UNCHANGED <<serverVars, clientVars>>
      PROVE  RemovedUnlessReset'
  BY <1>3 DEF TerminateServers, ReceiveFirst, BinderExits
<1>4. ASSUME NEW c \in Clients, NEW s \in Servers, LookupCrashes(c, s), UNCHANGED <<serverVars, clientVars>>
      PROVE  RemovedUnlessReset'
  BY <1>4 DEF LookupCrashes, ReceiveFirst, BinderExits
<1>5. ASSUME NEW s \in Servers, ReadIdentifier(s), UNCHANGED <<serverVars, clientVars>>
      PROVE  RemovedUnlessReset'
  BY <1>5 DEF ReadIdentifier
<1>6. ASSUME NEW s \in Servers, RegisterFirst(s), UNCHANGED <<serverVars, clientVars>>
      PROVE  RemovedUnlessReset'
  BY <1>6 DEF RegisterFirst, Reply
<1>7. ASSUME NEW s \in Servers, ThreadCrashes(s), UNCHANGED <<serverVars, clientVars>>
      PROVE  RemovedUnlessReset'
  BY <1>7 DEF ThreadCrashes, BinderExits
<1>8. ASSUME NEW s \in Servers, RegisterNext(s), UNCHANGED <<serverVars, clientVars>>
      PROVE  RemovedUnlessReset'
  BY <1>8 DEF RegisterNext, Reply
<1>9. ASSUME NEW s \in Servers, ServerGone(s), UNCHANGED <<serverVars, clientVars>>
      PROVE  RemovedUnlessReset'
  BY <1>9 DEF ServerGone, Remaining
<1>10. ASSUME NEW s \in Servers, RpcInit(s), UNCHANGED clientVars  PROVE RemovedUnlessReset'
  BY <1>10 DEF RpcInit, ConnectToBinder
<1>11. ASSUME NEW s \in Servers, Exit(s), UNCHANGED clientVars  PROVE RemovedUnlessReset'
  BY <1>11 DEF Exit, Disconnect
<1>12. ASSUME NEW s \in Servers, ServerKilled(s), UNCHANGED clientVars
       PROVE  RemovedUnlessReset'
  BY <1>12 DEF ServerKilled, Disconnect
<1>13. ASSUME NEW c \in Clients, NEW w \in Functions \union {Terminate}, Connect(c, w)
       PROVE  RemovedUnlessReset'
  BY <1>13 DEF Connect, ConnectToBinder
<1>14. ASSUME NEW c \in Clients, ClientKilled(c)  PROVE RemovedUnlessReset'
  BY <1>14 DEF ClientKilled, Disconnect
<1>15. ASSUME UNCHANGED <<database, thread, link>>  PROVE RemovedUnlessReset'
  BY <1>15
<1>16. QED
  BY <1>1, <1>2, <1>3, <1>4, <1>5, <1>6, <1>7, <1>8, <1>9, <1>10, <1>11, <1>12, <1>13, <1>14,
          <1>15
  DEF Next, BinderStep, BinderMain, BinderThread, ServerStep, HandlerStep, ClientStep, CallStep,
      AcceptConnection, LookupFails, LookupSucceeds, SendRegister, RegisterReturns, RpcExecute,
              RunFunction, SendResult, Ask, GetLocation, BinderGone, Execute, GetResult

\* Whatever memory is reused for, it holds a message of one server or of none.
LEMMA RegistersStep ==
    ASSUME TypeOK, RegistersItsFunctions, Next
    PROVE  RegistersItsFunctions'
PROOF
<1> USE NoneAssumption, ProcessesAssumption, OffersAssumption DEF RegistersItsFunctions,
        MessageOK, Block, Responses, TypeOK, NetTypeOK, BinderTypeOK, ServerTypeOK,
        ClientTypeOK, Processes, ThreadStates, netVars, binderVars, serverVars, clientVars
<1>1. ASSUME NEW p \in Processes, FirstMessageMissing(p), UNCHANGED <<serverVars, clientVars>>
      PROVE  RegistersItsFunctions'
  BY <1>1 DEF FirstMessageMissing, BinderExits
<1>2. ASSUME NEW s \in Servers, StartServerThread(s), UNCHANGED <<serverVars, clientVars>>
      PROVE  RegistersItsFunctions'
  <2>1. MessageOK(Message(s))
    <3>1. Message(s) = [server |-> s, function |-> request[s]]
      BY DEF Message
    <3>2. request[s] \in ToSet(Offers[s])
      BY <1>2 DEF StartServerThread, ReceiveFirst
    <3>3. request[s] \in Functions \union {None}
      <4>1. Offers[s] \in Seq(Functions)
        OBVIOUS
      <4>2. QED
        BY <3>2, <4>1 DEF ToSet
    <3>4. QED
      BY <3>1, <3>2, <3>3
  <2>2. \A t \in Servers : thread'[t] \in {"starting",
          "named"} => block'[t] = Message(s) \/ (thread[t] \in {"starting",
          "named"} /\ block'[t] = block[t])
    BY <1>2 DEF StartServerThread, Reused
  <2>3. \A t \in Servers : request'[t] \in {request[t], None}
    BY <1>2 DEF StartServerThread, ReceiveFirst
  <2>4. ASSUME NEW t \in Servers  PROVE request'[t] \in ToSet(Offers[t]) \union {None}
    BY <2>3, <2>4
  <2>5. ASSUME NEW t \in Servers, thread'[t] \in {"starting",
          "named"}  PROVE MessageOK(block'[t])
    <3>1. CASE block'[t] = Message(s)
      BY <2>1, <3>1
    <3>2. CASE thread[t] \in {"starting", "named"} /\ block'[t] = block[t]
      BY <3>2
    <3>3. QED
      BY <2>2, <2>5, <3>1, <3>2
  <2>6. QED
    BY <2>4, <2>5
<1>3. ASSUME NEW c \in Clients, LookupFails(c), UNCHANGED <<serverVars, clientVars>>
      PROVE  RegistersItsFunctions'
  <2>1. MessageOK(Message(c))
    <3>1. Message(c) = [server |-> None, function |-> None]
      BY DEF Message
    <3>2. QED
      BY <3>1
  <2>2. \A t \in Servers : thread'[t] \in {"starting",
          "named"} => block'[t] = Message(c) \/ (thread[t] \in {"starting",
          "named"} /\ block'[t] = block[t])
    BY <1>3 DEF LookupFails, Reused
  <2>3. \A t \in Servers : request'[t] \in {request[t], None}
    BY <1>3 DEF LookupFails, ReceiveFirst
  <2>4. ASSUME NEW t \in Servers  PROVE request'[t] \in ToSet(Offers[t]) \union {None}
    BY <2>3, <2>4
  <2>5. ASSUME NEW t \in Servers, thread'[t] \in {"starting",
          "named"}  PROVE MessageOK(block'[t])
    <3>1. CASE block'[t] = Message(c)
      BY <2>1, <3>1
    <3>2. CASE thread[t] \in {"starting", "named"} /\ block'[t] = block[t]
      BY <3>2
    <3>3. QED
      BY <2>2, <2>5, <3>1, <3>2
  <2>6. QED
    BY <2>4, <2>5
<1>4. ASSUME NEW c \in Clients, TerminateServers(c), UNCHANGED <<serverVars, clientVars>>
      PROVE  RegistersItsFunctions'
  BY <1>4 DEF TerminateServers, ReceiveFirst, BinderExits
<1>5. ASSUME NEW c \in Clients, NEW s \in Servers, LookupSucceeds(c, s), UNCHANGED <<serverVars, clientVars>>
      PROVE  RegistersItsFunctions'
  <2>1. MessageOK(Message(c))
    <3>1. Message(c) = [server |-> None, function |-> None]
      BY DEF Message
    <3>2. QED
      BY <3>1
  <2>2. \A t \in Servers : thread'[t] \in {"starting",
          "named"} => block'[t] = Message(c) \/ (thread[t] \in {"starting",
          "named"} /\ block'[t] = block[t])
    BY <1>5 DEF LookupSucceeds, Reused
  <2>3. \A t \in Servers : request'[t] \in {request[t], None}
    BY <1>5 DEF LookupSucceeds, ReceiveFirst
  <2>4. ASSUME NEW t \in Servers  PROVE request'[t] \in ToSet(Offers[t]) \union {None}
    BY <2>3, <2>4
  <2>5. ASSUME NEW t \in Servers, thread'[t] \in {"starting",
          "named"}  PROVE MessageOK(block'[t])
    <3>1. CASE block'[t] = Message(c)
      BY <2>1, <3>1
    <3>2. CASE thread[t] \in {"starting", "named"} /\ block'[t] = block[t]
      BY <3>2
    <3>3. QED
      BY <2>2, <2>5, <3>1, <3>2
  <2>6. QED
    BY <2>4, <2>5
<1>6. ASSUME NEW c \in Clients, NEW s \in Servers, LookupCrashes(c, s), UNCHANGED <<serverVars, clientVars>>
      PROVE  RegistersItsFunctions'
  BY <1>6 DEF LookupCrashes, ReceiveFirst, BinderExits
<1>7. ASSUME NEW s \in Servers, ReadIdentifier(s), UNCHANGED <<serverVars, clientVars>>
      PROVE  RegistersItsFunctions'
  BY <1>7 DEF ReadIdentifier
<1>8. ASSUME NEW s \in Servers, RegisterFirst(s), UNCHANGED <<serverVars, clientVars>>
      PROVE  RegistersItsFunctions'
  BY <1>8 DEF RegisterFirst, Reply
<1>9. ASSUME NEW s \in Servers, ThreadCrashes(s), UNCHANGED <<serverVars, clientVars>>
      PROVE  RegistersItsFunctions'
  BY <1>9 DEF ThreadCrashes, BinderExits
<1>10. ASSUME NEW s \in Servers, RegisterNext(s), UNCHANGED <<serverVars, clientVars>>
       PROVE  RegistersItsFunctions'
  BY <1>10 DEF RegisterNext, Reply
<1>11. ASSUME NEW s \in Servers, ServerGone(s), UNCHANGED <<serverVars, clientVars>>
       PROVE  RegistersItsFunctions'
  BY <1>11 DEF ServerGone, Remaining
<1>12. ASSUME NEW s \in Servers, SendRegister(s), UNCHANGED clientVars
       PROVE  RegistersItsFunctions'
  <2>1. Offers[s][next[s]] \in ToSet(Offers[s])
    <3>1. Offers[s] \in Seq(Functions) /\ next[s] \in 1 .. Len(Offers[s])
      BY <1>12 DEF SendRegister
    <3>2. QED
      BY <3>1 DEF ToSet
  <2>2. request' = [request EXCEPT ![s] = Offers[s][next[s]]] /\ UNCHANGED <<thread, block>>
    BY <1>12 DEF SendRegister
  <2>3. QED
    BY <2>1, <2>2
<1>13. ASSUME NEW c \in Clients, Ask(c)  PROVE RegistersItsFunctions'
  BY <1>13 DEF Ask
<1>14. ASSUME UNCHANGED <<request, thread, block>>  PROVE RegistersItsFunctions'
  BY <1>14
<1>15. QED
  BY <1>1, <1>2, <1>3, <1>4, <1>5, <1>6, <1>7, <1>8, <1>9, <1>10, <1>11, <1>12, <1>13, <1>14
  DEF Next, BinderStep, BinderMain, BinderThread, ServerStep, HandlerStep, ClientStep, CallStep,
      AcceptConnection, RpcInit, RegisterReturns, RpcExecute, Exit, ServerKilled, RunFunction,
              SendResult, Connect, GetLocation, BinderGone, Execute, GetResult, ClientKilled

\* No lookup answers a question that the client has given up.
LEMMA AsksStep ==
    ASSUME TypeOK, AsksWhatItWants, Next
    PROVE  AsksWhatItWants'
PROOF
<1> USE NoneAssumption, ProcessesAssumption, NamesAssumption DEF AsksWhatItWants, Responses,
        TypeOK, NetTypeOK, BinderTypeOK, ServerTypeOK, ClientTypeOK, Processes, netVars,
        binderVars, serverVars, clientVars
<1>1. ASSUME NEW p \in Processes, FirstMessageMissing(p), UNCHANGED <<serverVars, clientVars>>
      PROVE  AsksWhatItWants'
  BY <1>1 DEF FirstMessageMissing, BinderExits
<1>2. ASSUME NEW s \in Servers, StartServerThread(s), UNCHANGED <<serverVars, clientVars>>
      PROVE  AsksWhatItWants'
  BY <1>2 DEF StartServerThread, ReceiveFirst, Reused
<1>3. ASSUME NEW c \in Clients, LookupFails(c), UNCHANGED <<serverVars, clientVars>>
      PROVE  AsksWhatItWants'
  BY <1>3 DEF LookupFails, ReceiveFirst, Reused
<1>4. ASSUME NEW c \in Clients, TerminateServers(c), UNCHANGED <<serverVars, clientVars>>
      PROVE  AsksWhatItWants'
  BY <1>4 DEF TerminateServers, ReceiveFirst, BinderExits
<1>5. ASSUME NEW c \in Clients, NEW s \in Servers, LookupSucceeds(c, s), UNCHANGED <<serverVars, clientVars>>
      PROVE  AsksWhatItWants'
  BY <1>5 DEF LookupSucceeds, ReceiveFirst, Reused, MostStaleServers, Offering
<1>6. ASSUME NEW c \in Clients, NEW s \in Servers, LookupCrashes(c, s), UNCHANGED <<serverVars, clientVars>>
      PROVE  AsksWhatItWants'
  BY <1>6 DEF LookupCrashes, ReceiveFirst, BinderExits
<1>7. ASSUME NEW s \in Servers, RegisterFirst(s), UNCHANGED <<serverVars, clientVars>>
      PROVE  AsksWhatItWants'
  BY <1>7 DEF RegisterFirst, Reply
<1>8. ASSUME NEW s \in Servers, ThreadCrashes(s), UNCHANGED <<serverVars, clientVars>>
      PROVE  AsksWhatItWants'
  BY <1>8 DEF ThreadCrashes, BinderExits
<1>9. ASSUME NEW s \in Servers, RegisterNext(s), UNCHANGED <<serverVars, clientVars>>
      PROVE  AsksWhatItWants'
  BY <1>9 DEF RegisterNext, Reply
<1>10. ASSUME NEW s \in Servers, SendRegister(s), UNCHANGED clientVars  PROVE AsksWhatItWants'
  BY <1>10 DEF SendRegister
<1>11. ASSUME NEW c \in Clients, NEW w \in Functions \union {Terminate}, Connect(c, w)
       PROVE  AsksWhatItWants'
  BY <1>11 DEF Connect, ConnectToBinder
<1>12. ASSUME NEW c \in Clients, Ask(c)  PROVE AsksWhatItWants'
  BY <1>12 DEF Ask
<1>13. ASSUME NEW c \in Clients, GetLocation(c)  PROVE AsksWhatItWants'
  BY <1>13 DEF GetLocation, Return
<1>14. ASSUME NEW c \in Clients, BinderGone(c)  PROVE AsksWhatItWants'
  BY <1>14 DEF BinderGone, Return
<1>15. ASSUME NEW c \in Clients, Execute(c)  PROVE AsksWhatItWants'
  BY <1>15 DEF Execute, Return
<1>16. ASSUME NEW c \in Clients, GetResult(c)  PROVE AsksWhatItWants'
  BY <1>16 DEF GetResult, Return
<1>17. ASSUME NEW c \in Clients, ClientKilled(c)  PROVE AsksWhatItWants'
  BY <1>17 DEF ClientKilled, Disconnect
<1>18. ASSUME UNCHANGED <<binder, request, answer, client, want, location>>
       PROVE  AsksWhatItWants'
  BY <1>18
<1>19. QED
  BY <1>1, <1>2, <1>3, <1>4, <1>5, <1>6, <1>7, <1>8, <1>9, <1>10, <1>11, <1>12, <1>13, <1>14,
          <1>15, <1>16, <1>17, <1>18
  DEF Next, BinderStep, BinderMain, BinderThread, ServerStep, HandlerStep, ClientStep, CallStep,
      AcceptConnection, ReadIdentifier, ServerGone, RpcInit, RegisterReturns, RpcExecute, Exit,
              ServerKilled, RunFunction, SendResult

\* One call, one run at most, and what is reported of it is right.
LEMMA RunOnceStep ==
    ASSUME TypeOK, AsksWhatItWants, CallsRunOnce, Next
    PROVE  CallsRunOnce'
PROOF
<1> USE NoneAssumption DEF CallsRunOnce, RunsOnce, RanAsReported, AsksWhatItWants, Responses,
        TypeOK, NetTypeOK, BinderTypeOK, ServerTypeOK, ClientTypeOK, Results, netVars,
        binderVars, serverVars, clientVars
<1>1. ASSUME NEW s \in Servers, NEW c \in Clients, RunFunction(s, c), UNCHANGED clientVars
      PROVE  CallsRunOnce'
  <2> SUFFICES ASSUME NEW d \in Clients  PROVE RunsOnce(d)'
    OBVIOUS
  <2>1. CASE d # c
    BY <1>1, <2>1 DEF RunFunction, Handles
  <2>2. CASE d = c
    <3>1. /\ call[c] # None /\ call[c].state = "sent" /\ call[c].at = s
          /\ UNCHANGED <<client, response, location>>
      BY <1>1 DEF RunFunction, Handles
    <3>2. CASE client[c] = "calling"
      <4>1. location[c] = s /\ ranAt[c] = {} /\ response[c] = None
        BY <3>1, <3>2
      <4>2. CASE call[c].function \in ToSet(Offers[s])
        <5>1. ranAt'[c] = {s}
          BY <1>1, <4>1, <4>2 DEF RunFunction
        <5>2. call'[c].at = s /\ call'[c].state \in {"EXECUTE_SUCCESS", "EXECUTE_FAILURE"}
          BY <1>1, <4>2 DEF RunFunction, Outcomes
        <5>3. client'[c] = "calling" /\ location'[c] = s /\ response'[c] = None
          BY <3>1, <3>2, <4>1
        <5> HIDE DEF TypeOK, AsksWhatItWants
        <5>4. QED
          BY <2>2, <5>1, <5>2, <5>3
      <4>3. CASE call[c].function \notin ToSet(Offers[s])
        <5>1. ranAt'[c] = {}
          BY <1>1, <4>1, <4>3 DEF RunFunction
        <5>2. call'[c].at = s /\ call'[c].state = "SERVER_FUNCTION_NOT_FOUND"
          BY <1>1, <4>3 DEF RunFunction, Outcomes
        <5>3. client'[c] = "calling" /\ location'[c] = s /\ response'[c] = None
          BY <3>1, <3>2, <4>1
        <5> HIDE DEF TypeOK, AsksWhatItWants
        <5>4. QED
          BY <2>2, <5>1, <5>2, <5>3
      <4>4. QED
        BY <4>2, <4>3
    <3>3. CASE client[c] # "calling"
      BY <2>2, <3>1, <3>3
    <3>4. QED
      BY <3>2, <3>3
  <2>3. QED
    BY <2>1, <2>2
<1>2. ASSUME NEW s \in Servers, NEW c \in Clients, SendResult(s, c), UNCHANGED clientVars
      PROVE  CallsRunOnce'
  BY <1>2 DEF SendResult, Handles
<1>3. ASSUME NEW c \in Clients, NEW w \in Functions \union {Terminate}, Connect(c, w)
      PROVE  CallsRunOnce'
  BY <1>3 DEF Connect, ConnectToBinder
<1>4. ASSUME NEW c \in Clients, Ask(c)  PROVE CallsRunOnce'
  BY <1>4 DEF Ask
<1>5. ASSUME NEW c \in Clients, GetLocation(c)  PROVE CallsRunOnce'
  BY <1>5 DEF GetLocation, Return
<1>6. ASSUME NEW c \in Clients, BinderGone(c)  PROVE CallsRunOnce'
  BY <1>6 DEF BinderGone, Return
<1>7. ASSUME NEW c \in Clients, Execute(c)  PROVE CallsRunOnce'
  <2>1. CASE server[location[c]] \in {"registering", "serving"}
    <3> SUFFICES ASSUME NEW d \in Clients  PROVE RunsOnce(d)'
      OBVIOUS
    <3>1. CASE d # c
      BY <1>7, <2>1, <3>1 DEF Execute
    <3>2. CASE d = c
      <4>1. call'[c] = [at |-> location[c], function |-> want[c], state |-> "sent"]
        BY <1>7, <2>1 DEF Execute
      <4>2. ranAt'[c] = {} /\ response'[c] = None /\ client'[c] = "calling"
        BY <1>7, <2>1 DEF Execute
      <4>3. location'[c] = location[c]
        BY <1>7 DEF Execute
      <4>4. call'[c].at = location[c] /\ call'[c].state = "sent"
        BY <4>1
      <4>5. QED
        BY <3>2, <4>2, <4>3, <4>4
    <3>3. QED
      BY <3>1, <3>2
  <2>2. CASE server[location[c]] \notin {"registering", "serving"}
    BY <1>7, <2>2 DEF Execute, Return
  <2>3. QED
    BY <2>1, <2>2
<1>8. ASSUME NEW c \in Clients, GetResult(c)  PROVE CallsRunOnce'
  BY <1>8 DEF GetResult, Return
<1>9. ASSUME NEW c \in Clients, ClientKilled(c)  PROVE CallsRunOnce'
  BY <1>9 DEF ClientKilled, Disconnect
<1>10. ASSUME UNCHANGED <<call, response, client, location, ranAt>>  PROVE CallsRunOnce'
  BY <1>10
<1>11. QED
  BY <1>1, <1>2, <1>3, <1>4, <1>5, <1>6, <1>7, <1>8, <1>9, <1>10
  DEF Next, BinderStep, BinderMain, BinderThread, ServerStep, HandlerStep, ClientStep, CallStep,
      AcceptConnection, FirstMessageMissing, StartServerThread, LookupFails, TerminateServers,
              LookupSucceeds, LookupCrashes, ReadIdentifier, RegisterFirst, ThreadCrashes,
              RegisterNext, ServerGone, RpcInit, SendRegister, RegisterReturns, RpcExecute,
              Exit, ServerKilled

\* What a call returns is right, until the next call.
LEMMA ResultStep ==
    ASSUME TypeOK, CallsRunOnce, ResultIsHonest, Next
    PROVE  ResultIsHonest'
PROOF
<1> USE NoneAssumption DEF ResultIsHonest, Honest, CallsRunOnce, RunsOnce, RanAsReported,
        Results, netVars, binderVars, serverVars, clientVars
<1>1. ASSUME NEW p \in Processes, FirstMessageMissing(p), UNCHANGED <<serverVars, clientVars>>
      PROVE  ResultIsHonest'
  BY <1>1 DEF FirstMessageMissing, BinderExits
<1>2. ASSUME NEW c \in Clients, TerminateServers(c), UNCHANGED <<serverVars, clientVars>>
      PROVE  ResultIsHonest'
  BY <1>2 DEF TerminateServers, ReceiveFirst, BinderExits
<1>3. ASSUME NEW c \in Clients, NEW s \in Servers, LookupCrashes(c, s), UNCHANGED <<serverVars, clientVars>>
      PROVE  ResultIsHonest'
  BY <1>3 DEF LookupCrashes, ReceiveFirst, BinderExits
<1>4. ASSUME NEW s \in Servers, ThreadCrashes(s), UNCHANGED <<serverVars, clientVars>>
      PROVE  ResultIsHonest'
  BY <1>4 DEF ThreadCrashes, BinderExits
<1>5. ASSUME NEW s \in Servers, NEW c \in Clients, RunFunction(s, c), UNCHANGED clientVars
      PROVE  ResultIsHonest'
  BY <1>5 DEF RunFunction, Handles, Outcomes, Responses, TypeOK, NetTypeOK, BinderTypeOK,
          ServerTypeOK, ClientTypeOK
<1>6. ASSUME NEW c \in Clients, NEW w \in Functions \union {Terminate}, Connect(c, w)
      PROVE  ResultIsHonest'
  BY <1>6 DEF Connect, ConnectToBinder, Responses, TypeOK, NetTypeOK, BinderTypeOK,
          ServerTypeOK, ClientTypeOK
<1>7. ASSUME NEW c \in Clients, Ask(c)  PROVE ResultIsHonest'
  BY <1>7 DEF Ask, Responses, TypeOK, NetTypeOK, BinderTypeOK, ServerTypeOK, ClientTypeOK
<1>8. ASSUME NEW c \in Clients, GetLocation(c)  PROVE ResultIsHonest'
  <2>1. \A d \in Clients \ {c} : UNCHANGED <<client[d], result[d]>>
    BY <1>8 DEF Responses, TypeOK, NetTypeOK, BinderTypeOK, ServerTypeOK, ClientTypeOK,
            GetLocation, Return
  <2>2. UNCHANGED <<binder, ranAt>> /\ \A d \in Clients \ {c} : location'[d] = location[d]
    BY <1>8 DEF GetLocation, Responses, TypeOK, NetTypeOK, BinderTypeOK, ServerTypeOK,
            ClientTypeOK
  <2>3. CASE answer[c] = "LOC_FAILURE"
    <3>1. result'[c] = "BINDER_FUNCTION_NOT_FOUND" /\ ranAt'[c] = {}
      BY <1>8, <2>3 DEF Responses, TypeOK, NetTypeOK, BinderTypeOK, ServerTypeOK, ClientTypeOK,
              GetLocation, Return
    <3>2. QED
      BY <2>1, <2>2, <3>1
  <2>4. CASE answer[c] # "LOC_FAILURE"
    <3>1. client'[c] = "located"
      BY <1>8, <2>4 DEF GetLocation, Responses, TypeOK, NetTypeOK, BinderTypeOK, ServerTypeOK,
              ClientTypeOK
    <3>2. QED
      BY <2>1, <2>2, <3>1
  <2>5. QED
    BY <2>3, <2>4
<1>9. ASSUME NEW c \in Clients, BinderGone(c)  PROVE ResultIsHonest'
  BY <1>9 DEF BinderGone, Return, Responses, TypeOK, NetTypeOK, BinderTypeOK, ServerTypeOK,
          ClientTypeOK
<1>10. ASSUME NEW c \in Clients, Execute(c)  PROVE ResultIsHonest'
  <2>1. \A d \in Clients \ {c} : UNCHANGED <<client[d], result[d]>>
    BY <1>10 DEF Responses, TypeOK, NetTypeOK, BinderTypeOK, ServerTypeOK, ClientTypeOK,
            Execute, Return
  <2>2. UNCHANGED <<binder, ranAt>> /\ \A d \in Clients \ {c} : location'[d] = location[d]
    BY <1>10 DEF Execute, Responses, TypeOK, NetTypeOK, BinderTypeOK, ServerTypeOK, ClientTypeOK
  <2>3. client'[c] = "calling" \/ result'[c] = "ERROR"
    BY <1>10 DEF Responses, TypeOK, NetTypeOK, BinderTypeOK, ServerTypeOK, ClientTypeOK,
            Execute, Return
  <2>4. QED
    BY <2>1, <2>2, <2>3
<1>11. ASSUME NEW c \in Clients, GetResult(c)  PROVE ResultIsHonest'
  <2>1. \A d \in Clients \ {c} : UNCHANGED <<client[d], result[d]>>
    BY <1>11 DEF Responses, TypeOK, NetTypeOK, BinderTypeOK, ServerTypeOK, ClientTypeOK,
            GetResult, Return
  <2>2. UNCHANGED <<binder, ranAt>> /\ \A d \in Clients \ {c} : location'[d] = location[d]
    BY <1>11 DEF GetResult
  <2>3. CASE response[c] # None /\ Return(c, response[c])
    <3>1. result'[c] = response[c] /\ client[c] = "calling" /\ location' = location
      BY <1>11, <2>3 DEF Responses, TypeOK, NetTypeOK, BinderTypeOK, ServerTypeOK,
              ClientTypeOK, GetResult, Return
    <3>2. response[c] \in {"EXECUTE_SUCCESS", "EXECUTE_FAILURE", "SERVER_FUNCTION_NOT_FOUND"}
      BY <2>3 DEF Responses, TypeOK, NetTypeOK, BinderTypeOK, ServerTypeOK, ClientTypeOK
    <3>3. RanAsReported(c, response[c])
      BY <2>3, <3>1
    <3>4. Honest(c, result[c])'
      BY <2>2, <3>1, <3>2, <3>3
    <3>5. QED
      BY <2>1, <2>2, <3>4
  <2>4. CASE Return(c, "ERROR")
    <3>1. result'[c] = "ERROR"
      BY <2>4 DEF Return, Responses, TypeOK, NetTypeOK, BinderTypeOK, ServerTypeOK, ClientTypeOK
    <3>2. QED
      BY <2>1, <2>2, <3>1
  <2>5. QED
    BY <1>11, <2>3, <2>4 DEF GetResult
<1>12. ASSUME NEW c \in Clients, ClientKilled(c)  PROVE ResultIsHonest'
  BY <1>12 DEF ClientKilled, Disconnect
<1>13. ASSUME UNCHANGED <<binder, client, result, ranAt, location>>  PROVE ResultIsHonest'
  BY <1>13
<1>14. QED
  BY <1>1, <1>2, <1>3, <1>4, <1>5, <1>6, <1>7, <1>8, <1>9, <1>10, <1>11, <1>12, <1>13
  DEF Next, BinderStep, BinderMain, BinderThread, ServerStep, HandlerStep, ClientStep, CallStep,
      AcceptConnection, StartServerThread, LookupFails, LookupSucceeds, ReadIdentifier,
              RegisterFirst, RegisterNext, ServerGone, RpcInit, SendRegister, RegisterReturns,
              RpcExecute, Exit, ServerKilled, SendResult

\* Unless a message is misread the database, answers and calls name servers that
\* have the function.
LEMMA RightStep ==
    ASSUME TypeOK, RegistersItsFunctions, AsksWhatItWants, RightServers, Next
    PROVE  RightServers'
PROOF
<1> USE NoneAssumption, NamesAssumption, OffersAssumption DEF RightServers, DatabaseRight,
        CallRight, RegistersItsFunctions, MessageOK, Block, AsksWhatItWants, Responses, TypeOK,
        NetTypeOK, BinderTypeOK, ServerTypeOK, ClientTypeOK, Results, ThreadStates, OwnMessage,
        netVars, binderVars, serverVars, clientVars
<1>1. ASSUME NEW p \in Processes, FirstMessageMissing(p), UNCHANGED <<serverVars, clientVars>>
      PROVE  RightServers'
  BY <1>1 DEF FirstMessageMissing, BinderExits
<1>2. ASSUME NEW s \in Servers, StartServerThread(s), UNCHANGED <<serverVars, clientVars>>
      PROVE  RightServers'
  BY <1>2 DEF StartServerThread, ReceiveFirst, Reused
<1>3. ASSUME NEW c \in Clients, LookupFails(c), UNCHANGED <<serverVars, clientVars>>
      PROVE  RightServers'
  BY <1>3 DEF LookupFails, ReceiveFirst, Reused
<1>4. ASSUME NEW c \in Clients, TerminateServers(c), UNCHANGED <<serverVars, clientVars>>
      PROVE  RightServers'
  BY <1>4 DEF TerminateServers, ReceiveFirst, BinderExits
<1>5. ASSUME NEW c \in Clients, NEW s \in Servers, LookupSucceeds(c, s), UNCHANGED <<serverVars, clientVars>>
      PROVE  RightServers'
  <2> SUFFICES ASSUME ~misread  PROVE DatabaseRight' /\ \A d \in Clients : CallRight(d)'
    BY <1>5 DEF LookupSucceeds
  <2>1. DatabaseRight'
    BY <1>5 DEF LookupSucceeds
  <2>2. want[c] \in ToSet(Offers[s]) /\ answer'[c] = s
    <3>1. <<want[c], s>> \in database /\ binder = "running"
      BY <1>5 DEF LookupSucceeds, ReceiveFirst, MostStaleServers, Offering
    <3>2. want[c] \in ToSet(Offers[s]) /\ address[s] = s
      BY <3>1
    <3>3. QED
      BY <1>5, <3>2 DEF LookupSucceeds
  <2>3. ASSUME NEW d \in Clients  PROVE CallRight(d)'
    <3>1. UNCHANGED <<client[d], want[d], location[d], call[d], response[d], result[d]>>
      BY <1>5 DEF LookupSucceeds
    <3>2. d # c => answer'[d] = answer[d]
      BY <1>5 DEF LookupSucceeds
    <3>3. QED
      BY <2>2, <3>1, <3>2
  <2>4. QED
    BY <2>1, <2>3
<1>6. ASSUME NEW c \in Clients, NEW s \in Servers, LookupCrashes(c, s), UNCHANGED <<serverVars, clientVars>>
      PROVE  RightServers'
  BY <1>6 DEF LookupCrashes, ReceiveFirst, BinderExits
<1>7. ASSUME NEW s \in Servers, ReadIdentifier(s), UNCHANGED <<serverVars, clientVars>>
      PROVE  RightServers'
  <2> SUFFICES ASSUME ~misread'  PROVE DatabaseRight' /\ \A d \in Clients : CallRight(d)'
    OBVIOUS
  <2>1. ~misread /\ block[s] = OwnMessage(s)
    BY <1>7 DEF ReadIdentifier
  <2>2. block[s].server = s
    BY <2>1
  <2>3. address' = [address EXCEPT ![s] = s] /\ thread' = [thread EXCEPT ![s] = "named"]
    BY <1>7, <2>2 DEF ReadIdentifier
  <2>4. DatabaseRight'
    BY <1>7, <2>1, <2>3 DEF ReadIdentifier
  <2>5. \A d \in Clients : CallRight(d)'
    BY <1>7, <2>1 DEF ReadIdentifier
  <2>6. QED
    BY <2>4, <2>5
<1>8. ASSUME NEW s \in Servers, RegisterFirst(s), UNCHANGED <<serverVars, clientVars>>
      PROVE  RightServers'
  <2> SUFFICES ASSUME ~misread'  PROVE DatabaseRight' /\ \A d \in Clients : CallRight(d)'
    OBVIOUS
  <2>1. ~misread /\ block[s] = OwnMessage(s)
    BY <1>8 DEF RegisterFirst
  <2>2. Offers[s][1] \in ToSet(Offers[s])
    <3>1. Offers[s] \in Seq(Functions) /\ Offers[s] # << >>
      OBVIOUS
    <3>2. 1 \in 1 .. Len(Offers[s])
      BY <3>1
    <3>3. QED
      BY <3>1, <3>2 DEF ToSet
  <2>3. database' = database \union {<<Offers[s][1], s>>}
    BY <1>8, <2>1 DEF RegisterFirst
  <2>4. thread[s] = "named" /\ thread' = [thread EXCEPT ![s] = "waiting"] /\ UNCHANGED <<binder, address>>
    BY <1>8 DEF RegisterFirst
  <2>5. DatabaseRight'
    BY <2>1, <2>2, <2>3, <2>4
  <2>6. \A d \in Clients : CallRight(d)'
    BY <1>8, <2>1 DEF RegisterFirst
  <2>7. QED
    BY <2>5, <2>6
<1>9. ASSUME NEW s \in Servers, ThreadCrashes(s), UNCHANGED <<serverVars, clientVars>>
      PROVE  RightServers'
  BY <1>9 DEF ThreadCrashes, BinderExits
<1>10. ASSUME NEW s \in Servers, RegisterNext(s), UNCHANGED <<serverVars, clientVars>>
       PROVE  RightServers'
  BY <1>10 DEF RegisterNext, Reply
<1>11. ASSUME NEW s \in Servers, ServerGone(s), UNCHANGED <<serverVars, clientVars>>
       PROVE  RightServers'
  BY <1>11 DEF ServerGone, Remaining
<1>12. ASSUME NEW s \in Servers, NEW c \in Clients, RunFunction(s, c), UNCHANGED clientVars
       PROVE  RightServers'
  BY <1>12 DEF RunFunction, Handles, Outcomes
<1>13. ASSUME NEW s \in Servers, NEW c \in Clients, SendResult(s, c), UNCHANGED clientVars
       PROVE  RightServers'
  BY <1>13 DEF SendResult, Handles
<1>14. ASSUME NEW c \in Clients, NEW w \in Functions \union {Terminate}, Connect(c, w)
       PROVE  RightServers'
  BY <1>14 DEF Connect, ConnectToBinder
<1>15. ASSUME NEW c \in Clients, Ask(c)  PROVE RightServers'
  BY <1>15 DEF Ask
<1>16. ASSUME NEW c \in Clients, GetLocation(c)  PROVE RightServers'
  BY <1>16 DEF GetLocation, Return
<1>17. ASSUME NEW c \in Clients, BinderGone(c)  PROVE RightServers'
  BY <1>17 DEF BinderGone, Return
<1>18. ASSUME NEW c \in Clients, Execute(c)  PROVE RightServers'
  <2>1. CASE server[location[c]] \in {"registering", "serving"}
    <3> SUFFICES ASSUME ~misread, NEW d \in Clients  PROVE CallRight(d)'
      BY <1>18 DEF Execute
    <3>1. CASE d # c
      BY <1>18, <2>1, <3>1 DEF Execute
    <3>2. CASE d = c
      <4>1. call'[c] = [at |-> location[c], function |-> want[c], state |-> "sent"]
        BY <1>18, <2>1 DEF Execute
      <4>2. call'[c].at = location[c] /\ call'[c].function = want[c] /\ call'[c].state = "sent"
        BY <4>1
      <4>3. want[c] \in ToSet(Offers[location[c]])
        BY <1>18 DEF Execute
      <4>4. UNCHANGED <<answer, want, location, response, result>> /\ client'[c] = "calling"
        BY <1>18, <2>1 DEF Execute
      <4>5. QED
        BY <3>2, <4>2, <4>3, <4>4
    <3>3. QED
      BY <3>1, <3>2
  <2>2. CASE server[location[c]] \notin {"registering", "serving"}
    <3>1. client'[c] = "idle" /\ result'[c] = "ERROR"
      BY <1>18, <2>2 DEF Execute, Return
    <3>2. \A d \in Clients \ {c} : UNCHANGED <<client[d], result[d]>>
      BY <1>18, <2>2 DEF Execute, Return
    <3>3. UNCHANGED <<answer, want, location, call, response, misread, database, address,
            thread, binder>>
      BY <1>18, <2>2 DEF Execute
    <3>4. ASSUME ~misread, NEW d \in Clients  PROVE CallRight(d)'
      BY <3>1, <3>2, <3>3, <3>4
    <3>5. QED
      BY <3>3, <3>4
  <2>3. QED
    BY <2>1, <2>2
<1>19. ASSUME NEW c \in Clients, GetResult(c)  PROVE RightServers'
  BY <1>19 DEF GetResult, Return
<1>20. ASSUME NEW c \in Clients, ClientKilled(c)  PROVE RightServers'
  BY <1>20 DEF ClientKilled, Disconnect
<1>21. ASSUME UNCHANGED <<misread, database, address, thread, binder, answer, client, want, location, call, response, result>>
       PROVE  RightServers'
  BY <1>21
<1>22. QED
  BY <1>1, <1>2, <1>3, <1>4, <1>5, <1>6, <1>7, <1>8, <1>9, <1>10, <1>11, <1>12, <1>13, <1>14,
          <1>15, <1>16, <1>17, <1>18, <1>19, <1>20, <1>21
  DEF Next, BinderStep, BinderMain, BinderThread, ServerStep, HandlerStep, ClientStep, CallStep,
      AcceptConnection, RpcInit, SendRegister, RegisterReturns, RpcExecute, Exit, ServerKilled

-----------------------------------------------------------------------------
(* The inductive invariant and the theorems. *)

IInv ==
    /\ TypeOK
    /\ ConnectionsKnown
    /\ RegistersItsFunctions
    /\ AsksWhatItWants
    /\ CallsRunOnce
    /\ RightServers
    /\ RemovedUnlessReset
    /\ ResultIsHonest

\* It holds when nobody has started.
LEMMA InitIInv == Init => IInv
PROOF
<1> SUFFICES ASSUME Init  PROVE IInv
  OBVIOUS
<1> USE NoneAssumption, NamesAssumption, MaxCallsAssumption, MaxKilledAssumption
    DEF Init, NetInit, BinderInit, ServerInit, ClientInit
<1>1. TypeOK
  <2>1. NetTypeOK
    BY DEF NetTypeOK
  <2>2. BinderTypeOK
    <3>1. lastExecuted \in [Servers -> 0 .. clock] /\ clock \in Nat
      OBVIOUS
    <3>2. misread \in BOOLEAN
      OBVIOUS
    <3>3. /\ address \in [Servers -> Servers \union {None}]
          /\ thread \in [Servers -> ThreadStates \union {None}]
          /\ block \in [Servers -> Block \union {None}]
      OBVIOUS
    <3>4. serverSockets \in Seq(Servers) /\ database \subseteq Functions \X Servers
      OBVIOUS
    <3>5. binder \in {"running", "down"} /\ reading \in Processes \union {None}
      OBVIOUS
    <3>6. QED
      BY <3>1, <3>2, <3>3, <3>4, <3>5 DEF BinderTypeOK
  <2>3. ServerTypeOK
    BY DEF ServerTypeOK
  <2>4. ClientTypeOK
    BY DEF ClientTypeOK
  <2>5. QED
    BY <2>1, <2>2, <2>3, <2>4 DEF TypeOK
<1>2. ConnectionsKnown
  BY EmptySet DEF ConnectionsKnown, Processes, ThreadStates
<1>3. RegistersItsFunctions
  BY DEF RegistersItsFunctions, Processes, ThreadStates
<1>4. AsksWhatItWants
  BY DEF AsksWhatItWants, Processes
<1>5. CallsRunOnce
  BY DEF CallsRunOnce, RunsOnce
<1>6. RightServers
  BY DEF RightServers, DatabaseRight, CallRight, ThreadStates, Results
<1>7. RemovedUnlessReset
  BY DEF RemovedUnlessReset
<1>8. ResultIsHonest
  BY DEF ResultIsHonest, Honest, Results
<1>9. QED
  BY <1>1, <1>2, <1>3, <1>4, <1>5, <1>6, <1>7, <1>8 DEF IInv

\* It is inductive.
LEMMA IInvStep == IInv /\ [Next]_vars => IInv'
PROOF
<1>1. ASSUME IInv, Next  PROVE IInv'
  <2> USE DEF IInv
  <2>1. TypeOK'
    BY <1>1, NetTypeStep, BinderTypeStep, ServerTypeStep, ClientTypeStep DEF TypeOK
  <2>2. ConnectionsKnown' /\ RemovedUnlessReset'
    BY <1>1, ConnectionsStep, RemovedStep
  <2>3. RegistersItsFunctions' /\ AsksWhatItWants'
    BY <1>1, RegistersStep, AsksStep
  <2>4. CallsRunOnce' /\ ResultIsHonest'
    BY <1>1, RunOnceStep, ResultStep
  <2>5. RightServers'
    BY <1>1, RightStep
  <2>6. QED
    BY <2>1, <2>2, <2>3, <2>4, <2>5
<1>2. ASSUME IInv, UNCHANGED vars  PROVE IInv'
  <2> USE <1>2 DEF IInv, vars, netVars, binderVars, serverVars, clientVars
  <2>1. TypeOK'
    BY DEF TypeOK, NetTypeOK, BinderTypeOK, ServerTypeOK, ClientTypeOK
  <2>2. ConnectionsKnown' /\ RemovedUnlessReset'
    BY DEF ConnectionsKnown, RemovedUnlessReset
  <2>3. RegistersItsFunctions' /\ AsksWhatItWants'
    BY DEF RegistersItsFunctions, AsksWhatItWants
  <2>4. CallsRunOnce' /\ ResultIsHonest'
    BY DEF CallsRunOnce, RunsOnce, RanAsReported, ResultIsHonest, Honest
  <2>5. RightServers'
    BY DEF RightServers, DatabaseRight, CallRight
  <2>6. QED
    BY <2>1, <2>2, <2>3, <2>4, <2>5
<1>3. QED
  BY <1>1, <1>2

\* The invariant of the whole RPC system.
THEOREM RpcInvariant == Spec => []IInv
PROOF BY InitIInv, IInvStep, PTL DEF Spec

\* Every variable keeps its type (all of CS454/A3).
THEOREM RpcTypeCorrect == Spec => []TypeOK
PROOF
<1>1. IInv => TypeOK
  BY DEF IInv
<1>2. QED
  BY <1>1, RpcInvariant, PTL

\* A client is located at a server that has the function, unless a thread took
\* another message for its own (Binder.cpp:148-170, RPCServer.cpp:181-187).
THEOREM LocationsRight == Spec => []LocatedServerHasIt
PROOF
<1>1. IInv => LocatedServerHasIt
  BY DEF IInv, RightServers, CallRight, LocatedServerHasIt
<1>2. QED
  BY <1>1, RpcInvariant, PTL

\* A server that has left has no function in the database (Binder.cpp:112-123).
THEOREM LeaversRemoved == Spec => []RemovedUnlessReset
PROOF
<1>1. IInv => RemovedUnlessReset
  BY DEF IInv
<1>2. QED
  BY <1>1, RpcInvariant, PTL

\* A call that reports a run had one run, at the server it was located at, and one
\* that reports none had none (rpc.cpp:107-149).
THEOREM ResultsHonest == Spec => []ResultIsHonest
PROOF
<1>1. IInv => ResultIsHonest
  BY DEF IInv
<1>2. QED
  BY <1>1, RpcInvariant, PTL

-----------------------------------------------------------------------------
(* The binder implements module Registry: timestamps are places in a queue. *)

\* q names the servers that have a timestamp, in the order of their timestamps.
IsQueue(q, stamps) ==
    /\ q \in Seq(Servers)
    /\ \A i, j \in 1 .. Len(q) : i < j => stamps[q[i]] < stamps[q[j]]
    /\ \A i \in 1 .. Len(q) : stamps[q[i]] > 0
    /\ \A s \in Servers : stamps[s] > 0 => \E i \in 1 .. Len(q) : q[i] = s

Stamps == [Servers -> Nat]

\* What a set of numbers is never without.
LEMMA SmallestNumber ==
  ASSUME NEW S \in SUBSET Nat, S # {}
  PROVE  \E k \in S : \A i \in S : k <= i
PROOF
<1> DEFINE Below == {p \in Nat \X Nat : p[1] < p[2]}
<1>1. Below = OpToRel(<, Nat)
  BY DEF OpToRel
<1>2. IsWellFoundedOn(Below, Nat)
  BY <1>1, NatLessThanWellFounded
<1> HIDE DEF Below
<1>3. \E k \in S : \A i \in S : ~ (<<i, k>> \in Below)
  BY <1>2, WFMin
<1>4. \A i, k \in S : ~ (<<i, k>> \in Below) => k <= i
  BY DEF Below
<1>5. QED
  BY <1>3, <1>4

\* Queues that agree in the first places agree in the next one: otherwise each
\* would name there a server that the other has later.
LEMMA NextPlace ==
  ASSUME NEW stamps \in Stamps, NEW q, NEW r, IsQueue(q, stamps), IsQueue(r, stamps),
         NEW k \in 1 .. Len(q),
         \A i \in 1 .. k - 1 : i \in 1 .. Len(r) /\ q[i] = r[i]
  PROVE  k \in 1 .. Len(r) /\ q[k] = r[k]
PROOF
<1>1. q \in Seq(Servers) /\ r \in Seq(Servers) /\ Len(q) \in Nat /\ Len(r) \in Nat
  BY DEF IsQueue
<1>2. /\ \A i \in 1 .. Len(q) : q[i] \in Servers /\ stamps[q[i]] \in Nat /\ stamps[q[i]] > 0
      /\ \A i \in 1 .. Len(r) : r[i] \in Servers /\ stamps[r[i]] \in Nat /\ stamps[r[i]] > 0
  BY <1>1 DEF IsQueue, Stamps
<1>3. /\ \A i, j \in 1 .. Len(q) : i < j => stamps[q[i]] < stamps[q[j]]
      /\ \A i, j \in 1 .. Len(r) : i < j => stamps[r[i]] < stamps[r[j]]
  BY DEF IsQueue
<1>4. /\ \A s \in Servers : stamps[s] > 0 => \E i \in 1 .. Len(q) : q[i] = s
      /\ \A s \in Servers : stamps[s] > 0 => \E i \in 1 .. Len(r) : r[i] = s
  BY DEF IsQueue
<1>5. PICK j \in 1 .. Len(r) : r[j] = q[k]
  BY <1>2, <1>4
<1>6. j >= k
  <2>1. SUFFICES ASSUME j < k  PROVE FALSE
    BY <1>1
  <2>2. j \in 1 .. k - 1 /\ j \in 1 .. Len(q)
    BY <1>1, <2>1
  <2>3. q[j] = q[k] /\ stamps[q[j]] < stamps[q[k]]
    BY <1>3, <1>5, <2>1, <2>2
  <2>4. QED
    BY <1>2, <2>2, <2>3
<1>7. k \in 1 .. Len(r)
  BY <1>1, <1>6
<1>8. j <= k
  <2>1. SUFFICES ASSUME j > k  PROVE FALSE
    BY <1>1
  <2>2. stamps[r[k]] < stamps[q[k]]
    BY <1>3, <1>5, <1>7, <2>1
  <2>3. PICK i \in 1 .. Len(q) : q[i] = r[k]
    BY <1>2, <1>4, <1>7
  <2>4. i >= k
    <3>1. SUFFICES ASSUME i < k  PROVE FALSE
      BY <1>1
    <3>2. i \in 1 .. k - 1 /\ i \in 1 .. Len(r)
      BY <1>1, <1>7, <3>1
    <3>3. r[i] = r[k] /\ stamps[r[i]] < stamps[r[k]]
      BY <1>3, <1>7, <2>3, <3>1, <3>2
    <3>4. QED
      BY <1>2, <3>2, <3>3
  <2>5. i # k
    BY <1>2, <2>2, <2>3
  <2>6. stamps[q[k]] < stamps[r[k]]
    BY <1>1, <1>3, <2>3, <2>4, <2>5
  <2>7. QED
    BY <1>2, <1>7, <2>2, <2>6
<1>9. QED
  BY <1>1, <1>5, <1>6, <1>7, <1>8

\* Timestamps make one queue only.
LEMMA OneQueue ==
  ASSUME NEW stamps \in Stamps, NEW q, NEW r, IsQueue(q, stamps), IsQueue(r, stamps)
  PROVE  q = r
PROOF
<1> DEFINE Same(i) == i \in 1 .. Len(q) /\ i \in 1 .. Len(r) /\ q[i] = r[i]
           Differ == {i \in 1 .. Len(q) \union 1 .. Len(r) : ~ Same(i)}
<1>1. q \in Seq(Servers) /\ r \in Seq(Servers)
  BY DEF IsQueue
<1>2. Len(q) \in Nat /\ Len(r) \in Nat
  BY <1>1
<1>3. Differ = {}
  <2>1. SUFFICES ASSUME Differ # {}  PROVE FALSE
    OBVIOUS
  <2>2. Differ \in SUBSET Nat
    BY <1>2
  <2>3. PICK k \in Differ : \A i \in Differ : k <= i
    BY <2>1, <2>2, SmallestNumber
  <2>4. ASSUME NEW i \in 1 .. k - 1  PROVE Same(i)
    <3>1. i \notin Differ
      BY <1>2, <2>3, <2>4
    <3>2. i \in 1 .. Len(q) \union 1 .. Len(r)
      BY <1>2, <2>3, <2>4
    <3>3. QED
      BY <3>1, <3>2
  <2>5. CASE k \in 1 .. Len(q)
    <3>1. k \in 1 .. Len(r) /\ q[k] = r[k]
      BY <2>4, <2>5, NextPlace
    <3>2. QED
      BY <2>3, <2>5, <3>1
  <2>6. CASE k \in 1 .. Len(r)
    <3>1. k \in 1 .. Len(q) /\ r[k] = q[k]
      BY <2>4, <2>6, NextPlace
    <3>2. QED
      BY <2>3, <2>6, <3>1
  <2>7. QED
    BY <2>3, <2>5, <2>6
<1>4. \A i \in 1 .. Len(q) \union 1 .. Len(r) : Same(i)
  BY <1>3
<1> HIDE DEF Differ
<1>5. Len(q) = Len(r)
  BY <1>2, <1>4
<1>6. QED
  BY <1>1, <1>4, <1>5

\* The queue that module RemoteCalls takes is that one.
LEMMA RecencyIsQueue ==
  ASSUME NEW stamps \in Stamps, NEW q, IsQueue(q, stamps)
  PROVE  Recency(stamps) = q
PROOF
<1> DEFINE chosen == {s \in Servers : stamps[s] > 0}
           places == 1 .. Cardinality(chosen)
           Ascends(r) == \A i, j \in places : i < j => stamps[r[i]] < stamps[r[j]]
<1>1. q \in Seq(Servers) /\ Len(q) \in Nat
  BY DEF IsQueue
<1>2. q \in [1 .. Len(q) -> chosen]
  BY <1>1 DEF IsQueue
<1>3. \A i, j \in 1 .. Len(q) : q[i] = q[j] => i = j
  <2>1. SUFFICES ASSUME NEW i \in 1 .. Len(q), NEW j \in 1 .. Len(q), q[i] = q[j], i < j
                 PROVE  FALSE
    BY <1>1
  <2>2. stamps[q[i]] < stamps[q[j]] /\ stamps[q[i]] \in Nat
    BY <1>1, <2>1 DEF IsQueue, Stamps
  <2>3. QED
    BY <2>1, <2>2
<1>4. q \in Bijection(1 .. Len(q), chosen)
  <2>1. q \in Injection(1 .. Len(q), chosen)
    BY <1>2, <1>3 DEF Injection, IsInjective
  <2>2. q \in Surjection(1 .. Len(q), chosen)
    BY <1>2 DEF Surjection, IsQueue
  <2>3. QED
    BY <2>1, <2>2 DEF Bijection
<1>5. Cardinality(chosen) = Len(q)
  <2>1. IsFiniteSet(1 .. Len(q)) /\ Cardinality(1 .. Len(q)) = Len(q)
    BY <1>1, FS_Interval
  <2>2. ExistsBijection(1 .. Len(q), chosen)
    BY <1>4 DEF ExistsBijection
  <2>3. QED
    BY <2>1, <2>2, FS_Bijection
<1>6. q \in [places -> chosen] /\ Ascends(q)
  BY <1>2, <1>5 DEF IsQueue
<1>7. Recency(stamps) = CHOOSE r \in [places -> chosen] : Ascends(r)
  BY DEF Recency
<1>8. Recency(stamps) \in [places -> chosen] /\ Ascends(Recency(stamps))
  BY <1>6, <1>7
<1>9. IsQueue(Recency(stamps), stamps)
  <2> DEFINE r == Recency(stamps)
  <2> HIDE DEF r
  <2>1. r \in [1 .. Len(q) -> chosen] /\ \A i, j \in 1 .. Len(q) : i < j => stamps[r[i]] < stamps[r[j]]
    BY <1>5, <1>8 DEF r
  <2>2. r \in Seq(Servers) /\ Len(r) = Len(q)
    BY <1>1, <2>1
  <2>3. \A s \in chosen : \E i \in 1 .. Len(r) : r[i] = s
    <3>1. \A i, j \in 1 .. Len(q) : r[i] = r[j] => i = j
      <4>1. SUFFICES ASSUME NEW i \in 1 .. Len(q), NEW j \in 1 .. Len(q), r[i] = r[j], i < j
                     PROVE  FALSE
        BY <1>1
      <4>2. stamps[r[i]] < stamps[r[j]] /\ stamps[r[i]] \in Nat
        BY <2>1, <4>1 DEF Stamps
      <4>3. QED
        BY <4>1, <4>2
    <3>2. r \in Injection(1 .. Len(q), chosen)
      BY <2>1, <3>1 DEF Injection, IsInjective
    <3>3. IsFiniteSet(1 .. Len(q)) /\ Cardinality(1 .. Len(q)) = Len(q)
      BY <1>1, FS_Interval
    <3>4. IsFiniteSet(chosen)
      <4>1. ExistsBijection(1 .. Len(q), chosen)
        BY <1>4 DEF ExistsBijection
      <4>2. QED
        BY <3>3, <4>1, FS_Bijection
    <3>5. r \in Surjection(1 .. Len(q), chosen)
      BY <1>5, <3>2, <3>3, <3>4, FS_Injection
    <3>6. QED
      BY <2>2, <3>5 DEF Surjection
  <2>4. QED
    BY <2>1, <2>2, <2>3 DEF r, IsQueue
<1>10. QED
  BY <1>9, OneQueue

\* RemoveAt closes the gap.
LEMMA Removed ==
  ASSUME NEW q \in Seq(Servers), NEW i \in 1 .. Len(q)
  PROVE  /\ RemoveAt(q, i) \in Seq(Servers)
         /\ Len(RemoveAt(q, i)) = Len(q) - 1
         /\ \A j \in 1 .. Len(q) - 1 : RemoveAt(q, i)[j] = IF j < i THEN q[j] ELSE q[j + 1]
PROOF
<1> DEFINE front == SubSeq(q, 1, i - 1)
           back == SubSeq(q, i + 1, Len(q))
<1>1. Len(q) \in Nat /\ i \in Nat /\ i >= 1 /\ i <= Len(q)
  OBVIOUS
<1>2. /\ front \in Seq(Servers)
      /\ Len(front) = i - 1
      /\ \A j \in 1 .. i - 1 : front[j] = q[j]
  <2>1. \A j \in 1 .. i - 1 : q[j] \in Servers
    BY <1>1
  <2>2. QED
    BY <1>1, <2>1, SubSeqProperties
<1>3. /\ back \in Seq(Servers)
      /\ Len(back) = Len(q) - i
      /\ \A j \in 1 .. Len(q) - i : back[j] = q[i + j]
  BY <1>1, SubSeqProperties
<1>4. RemoveAt(q, i) = front \o back
  BY DEF RemoveAt
<1> HIDE DEF front, back
<1>5. front \o back \in Seq(Servers) /\ Len(front \o back) = Len(q) - 1
  <2>1. front \o back \in Seq(Servers) /\ Len(front \o back) = Len(front) + Len(back)
    BY <1>2, <1>3, ConcatProperties
  <2>2. QED
    BY <1>1, <1>2, <1>3, <2>1
<1>6. ASSUME NEW j \in 1 .. Len(q) - 1
      PROVE  (front \o back)[j] = IF j < i THEN q[j] ELSE q[j + 1]
  <2>1. CASE j < i
    <3>1. (front \o back)[j] = front[j]
      BY <1>1, <1>2, <1>3, <1>6, <2>1, ConcatProperties
    <3>2. QED
      BY <1>1, <1>2, <1>6, <2>1, <3>1
  <2>2. CASE j >= i
    <3>1. (front \o back)[j] = back[j - (i - 1)]
      BY <1>1, <1>2, <1>3, <1>6, <2>2, ConcatProperties
    <3>2. j - (i - 1) \in 1 .. Len(q) - i
      BY <1>1, <1>6, <2>2
    <3>3. back[j - (i - 1)] = q[i + (j - (i - 1))] /\ i + (j - (i - 1)) = j + 1
      BY <1>1, <1>3, <1>6, <3>2
    <3>4. QED
      BY <1>1, <1>6, <2>2, <3>1, <3>3
  <2>3. j < i \/ j >= i
    BY <1>1, <1>6
  <2>4. QED
    BY <2>1, <2>2, <2>3
<1>7. QED
  BY <1>4, <1>5, <1>6

\* The parts of IsQueue one by one, with the types that they rest on.
LEMMA QueueFacts ==
  ASSUME NEW stamps \in Stamps, NEW q, IsQueue(q, stamps)
  PROVE  /\ q \in Seq(Servers)
         /\ Len(q) \in Nat
         /\ \A i \in 1 .. Len(q) : q[i] \in Servers /\ stamps[q[i]] \in Nat /\ stamps[q[i]] > 0
         /\ \A i, j \in 1 .. Len(q) : i < j => stamps[q[i]] < stamps[q[j]]
         /\ \A i, j \in 1 .. Len(q) : q[i] = q[j] => i = j
         /\ \A s \in Servers : stamps[s] > 0 => \E i \in 1 .. Len(q) : q[i] = s
PROOF
<1>1. q \in Seq(Servers) /\ Len(q) \in Nat
  BY DEF IsQueue
<1>2. \A i \in 1 .. Len(q) : q[i] \in Servers /\ stamps[q[i]] \in Nat /\ stamps[q[i]] > 0
  BY <1>1 DEF IsQueue, Stamps
<1>3. \A i, j \in 1 .. Len(q) : i < j => stamps[q[i]] < stamps[q[j]]
  BY DEF IsQueue
<1>4. ASSUME NEW i \in 1 .. Len(q), NEW j \in 1 .. Len(q), q[i] = q[j]  PROVE i = j
  <2>1. ~ (i < j) /\ ~ (j < i)
    BY <1>2, <1>3, <1>4
  <2>2. QED
    BY <1>1, <2>1
<1>5. \A s \in Servers : stamps[s] > 0 => \E i \in 1 .. Len(q) : q[i] = s
  BY DEF IsQueue
<1>6. QED
  BY <1>1, <1>2, <1>3, <1>4, <1>5

\* The server with the new timestamp comes last, behind a queue of the others.
LEMMA LastInQueue ==
  ASSUME NEW stamps \in Stamps, NEW s \in Servers, NEW time \in Nat, time > 0,
         \A t \in Servers : stamps[t] < time,
         NEW q \in Seq(Servers),
         \A i \in 1 .. Len(q) : stamps[q[i]] > 0 /\ q[i] # s,
         \A i, j \in 1 .. Len(q) : i < j => stamps[q[i]] < stamps[q[j]],
         \A t \in Servers : stamps[t] > 0 /\ t # s => \E i \in 1 .. Len(q) : q[i] = t
  PROVE  IsQueue(Append(q, s), [stamps EXCEPT ![s] = time])
PROOF
<1> DEFINE later == [stamps EXCEPT ![s] = time]
           long == Append(q, s)
<1>1. Len(q) \in Nat /\ \A i \in 1 .. Len(q) : q[i] \in Servers
  OBVIOUS
<1>2. later[s] = time /\ \A t \in Servers : t # s => later[t] = stamps[t]
  BY DEF Stamps
<1>3. /\ long \in Seq(Servers)
      /\ Len(long) = Len(q) + 1
      /\ long[Len(q) + 1] = s
      /\ \A i \in 1 .. Len(q) : long[i] = q[i]
  BY <1>1
<1> HIDE DEF later, long
<1>4. \A i \in 1 .. Len(q) : later[long[i]] = stamps[q[i]] /\ stamps[q[i]] < time
  BY <1>1, <1>2, <1>3
<1>5. later[long[Len(q) + 1]] = time
  BY <1>2, <1>3
<1>6. \A i \in 1 .. Len(long) : i \in 1 .. Len(q) \/ i = Len(q) + 1
  BY <1>1, <1>3
<1>7. ASSUME NEW i \in 1 .. Len(long), NEW j \in 1 .. Len(long), i < j
      PROVE  later[long[i]] < later[long[j]]
  <2>1. i \in 1 .. Len(q)
    BY <1>1, <1>3, <1>7
  <2>2. CASE j \in 1 .. Len(q)
    <3>1. stamps[q[i]] < stamps[q[j]]
      BY <1>7, <2>1, <2>2
    <3>2. QED
      BY <1>4, <2>1, <2>2, <3>1
  <2>3. CASE j = Len(q) + 1
    BY <1>4, <1>5, <2>1, <2>3
  <2>4. QED
    BY <1>6, <1>7, <2>2, <2>3
<1>8. \A i \in 1 .. Len(long) : later[long[i]] > 0
  <2>1. \A i \in 1 .. Len(q) : later[long[i]] > 0
    BY <1>4
  <2>2. QED
    BY <1>5, <1>6, <2>1
<1>9. ASSUME NEW t \in Servers, later[t] > 0  PROVE \E i \in 1 .. Len(long) : long[i] = t
  <2>1. CASE t = s
    <3>1. Len(q) + 1 \in 1 .. Len(long)
      BY <1>1, <1>3
    <3>2. QED
      BY <1>3, <2>1, <3>1
  <2>2. CASE t # s
    <3>1. stamps[t] > 0
      BY <1>2, <1>9, <2>2
    <3>2. PICK i \in 1 .. Len(q) : q[i] = t
      BY <2>2, <3>1
    <3>3. i \in 1 .. Len(long) /\ long[i] = t
      BY <1>1, <1>3, <3>2
    <3>4. QED
      BY <3>3
  <2>3. QED
    BY <2>1, <2>2
<1>10. IsQueue(long, later)
  BY <1>3, <1>7, <1>8, <1>9 DEF IsQueue
<1>11. QED
  BY <1>10 DEF later, long

\* A new timestamp moves a server to the end of the queue, wherever it was.
LEMMA MovesToEnd ==
  ASSUME NEW stamps \in Stamps, NEW q, IsQueue(q, stamps),
         NEW s \in Servers, NEW time \in Nat, time > 0, \A t \in Servers : stamps[t] < time
  PROVE  /\ stamps[s] = 0 => IsQueue(Append(q, s), [stamps EXCEPT ![s] = time])
         /\ \A i \in 1 .. Len(q) : q[i] = s =>
               IsQueue(Append(RemoveAt(q, i), s), [stamps EXCEPT ![s] = time])
PROOF
<1>1. /\ q \in Seq(Servers)
      /\ Len(q) \in Nat
      /\ \A i \in 1 .. Len(q) : q[i] \in Servers /\ stamps[q[i]] \in Nat /\ stamps[q[i]] > 0
      /\ \A i, j \in 1 .. Len(q) : i < j => stamps[q[i]] < stamps[q[j]]
      /\ \A i, j \in 1 .. Len(q) : q[i] = q[j] => i = j
      /\ \A t \in Servers : stamps[t] > 0 => \E i \in 1 .. Len(q) : q[i] = t
  BY QueueFacts
<1>2. ASSUME stamps[s] = 0  PROVE IsQueue(Append(q, s), [stamps EXCEPT ![s] = time])
  <2>1. \A i \in 1 .. Len(q) : stamps[q[i]] > 0 /\ q[i] # s
    BY <1>1, <1>2
  <2>2. QED
    BY <1>1, <2>1, LastInQueue
<1>3. ASSUME NEW i \in 1 .. Len(q), q[i] = s
      PROVE  IsQueue(Append(RemoveAt(q, i), s), [stamps EXCEPT ![s] = time])
  <2> DEFINE r == RemoveAt(q, i)
             Old(j) == IF j < i THEN j ELSE j + 1
  <2>1. /\ r \in Seq(Servers)
        /\ Len(r) = Len(q) - 1
        /\ \A j \in 1 .. Len(q) - 1 : r[j] = IF j < i THEN q[j] ELSE q[j + 1]
    BY <1>1, <1>3, Removed
  <2> HIDE DEF r
  <2>2. \A j \in 1 .. Len(r) : Old(j) \in 1 .. Len(q) /\ Old(j) # i /\ r[j] = q[Old(j)]
    <3>1. ASSUME NEW j \in 1 .. Len(r)
          PROVE  Old(j) \in 1 .. Len(q) /\ Old(j) # i /\ r[j] = q[Old(j)]
      <4>1. j \in 1 .. Len(q) - 1 /\ j \in Nat /\ i \in Nat
        BY <1>1, <1>3, <2>1, <3>1
      <4>2. r[j] = IF j < i THEN q[j] ELSE q[j + 1]
        BY <2>1, <4>1
      <4>3. QED
        BY <1>1, <1>3, <4>1, <4>2
    <3>2. QED
      BY <3>1
  <2>3. \A j, k \in 1 .. Len(r) : j < k => Old(j) < Old(k)
    BY <1>1, <1>3, <2>1
  <2>4. \A j \in 1 .. Len(q) : j # i => \E k \in 1 .. Len(r) : Old(k) = j
    <3>1. ASSUME NEW j \in 1 .. Len(q), j # i  PROVE \E k \in 1 .. Len(r) : Old(k) = j
      <4>1. CASE j < i
        <5>1. j \in 1 .. Len(r) /\ Old(j) = j
          BY <1>1, <1>3, <2>1, <4>1
        <5>2. QED
          BY <5>1
      <4>2. CASE j > i
        <5>1. j - 1 \in 1 .. Len(r) /\ Old(j - 1) = j
          BY <1>1, <1>3, <2>1, <4>2
        <5>2. QED
          BY <5>1
      <4>3. QED
        BY <1>1, <1>3, <3>1, <4>1, <4>2
    <3>2. QED
      BY <3>1
  <2> HIDE DEF Old
  <2>5. \A j \in 1 .. Len(r) : stamps[r[j]] > 0 /\ r[j] # s
    BY <1>1, <1>3, <2>2
  <2>6. ASSUME NEW j \in 1 .. Len(r), NEW k \in 1 .. Len(r), j < k
        PROVE  stamps[r[j]] < stamps[r[k]]
    <3>1. Old(j) < Old(k)
      BY <2>3, <2>6
    <3>2. Old(j) \in 1 .. Len(q) /\ Old(k) \in 1 .. Len(q)
      BY <2>2, <2>6
    <3>3. stamps[q[Old(j)]] < stamps[q[Old(k)]]
      BY <1>1, <3>1, <3>2
    <3>4. r[j] = q[Old(j)] /\ r[k] = q[Old(k)]
      BY <2>2, <2>6
    <3>5. QED
      BY <3>3, <3>4
  <2>7. ASSUME NEW t \in Servers, stamps[t] > 0, t # s  PROVE \E j \in 1 .. Len(r) : r[j] = t
    <3>1. PICK j \in 1 .. Len(q) : q[j] = t
      BY <1>1, <2>7
    <3>2. PICK k \in 1 .. Len(r) : Old(k) = j
      BY <1>3, <2>4, <2>7, <3>1
    <3>3. QED
      BY <2>2, <3>1, <3>2
  <2>8. IsQueue(Append(r, s), [stamps EXCEPT ![s] = time])
    BY <2>1, <2>5, <2>6, <2>7, LastInQueue
  <2>9. QED
    BY <2>8 DEF r
<1>4. QED
  BY <1>2, <1>3

\* The timestamps are always those of a queue.
Queued == \E q : IsQueue(q, lastExecuted)

LEMMA QueuedRecency ==
  ASSUME BinderTypeOK, Queued
  PROVE  lastExecuted \in Stamps /\ IsQueue(Recency(lastExecuted), lastExecuted)
PROOF
<1>1. lastExecuted \in Stamps
  BY DEF BinderTypeOK, Stamps
<1>2. PICK q : IsQueue(q, lastExecuted)
  BY DEF Queued
<1>3. QED
  BY <1>1, <1>2, RecencyIsQueue

\* Locating a function sends the server that has waited the longest to the end.
LEMMA LookupLocates ==
  ASSUME BinderTypeOK, BinderTypeOK', Queued, NEW c \in Clients, NEW s \in Servers,
         LookupSucceeds(c, s)
  PROVE  Queued' /\ Promised!Locate(request[c], s)
PROOF
<1> DEFINE q == Recency(lastExecuted)
           f == request[c]
<1>1. lastExecuted \in Stamps /\ IsQueue(q, lastExecuted)
  BY QueuedRecency
<1>2. /\ f \in Functions
      /\ s \in Offering(f)
      /\ \A t \in Offering(f) : lastExecuted[s] <= lastExecuted[t]
      /\ lastExecuted' = [lastExecuted EXCEPT ![s] = clock + 1]
      /\ clock' = clock + 1
      /\ database' = database
  BY DEF LookupSucceeds, MostStaleServers
<1>3. clock + 1 \in Nat /\ clock + 1 > 0 /\ \A t \in Servers : lastExecuted[t] < clock + 1
  BY DEF BinderTypeOK
<1>4. lastExecuted' \in Stamps
  BY DEF BinderTypeOK, Stamps
<1> HIDE DEF q, f
<1>5. /\ q \in Seq(Servers)
      /\ Len(q) \in Nat
      /\ \A i \in 1 .. Len(q) : q[i] \in Servers /\ lastExecuted[q[i]] \in Nat /\ lastExecuted[q[i]] > 0
      /\ \A i, j \in 1 .. Len(q) : i < j => lastExecuted[q[i]] < lastExecuted[q[j]]
      /\ \A i, j \in 1 .. Len(q) : q[i] = q[j] => i = j
      /\ \A t \in Servers : lastExecuted[t] > 0 => \E i \in 1 .. Len(q) : q[i] = t
  BY <1>1, QueueFacts
<1>6. DOMAIN q = 1 .. Len(q) /\ ToSet(q) = {q[i] : i \in 1 .. Len(q)}
  BY <1>5 DEF ToSet
<1>7. \A t \in Servers : lastExecuted[t] \in Nat
  BY <1>1 DEF Stamps
<1>8. Promised!Offering(f) = Offering(f) /\ Offering(f) \subseteq Servers
  BY DEF Promised!Offering, Offering
<1>9. /\ Promised!ToSet(q) = ToSet(q)
       /\ \A i \in 1 .. Len(q) : Promised!RemoveAt(q, i) = RemoveAt(q, i)
  BY DEF Promised!ToSet, ToSet, Promised!RemoveAt, RemoveAt
<1>10. Recency(lastExecuted)' = Recency(lastExecuted')
  OBVIOUS
<1>11. CASE lastExecuted[s] = 0
  <2>1. IsQueue(Append(q, s), lastExecuted')
    BY <1>1, <1>2, <1>3, <1>11, MovesToEnd
  <2>2. Queued' /\ Recency(lastExecuted') = Append(q, s)
    BY <1>4, <2>1, RecencyIsQueue DEF Queued
  <2>3. s \notin ToSet(q)
    BY <1>5, <1>6, <1>11
  <2>4. Promised!Locate(f, s)
    BY <1>2, <1>8, <1>9, <1>10, <2>2, <2>3 DEF Promised!Locate, q
  <2>5. QED
    BY <2>2, <2>4 DEF f
<1>12. CASE lastExecuted[s] # 0
  <2>1. lastExecuted[s] > 0
    BY <1>7, <1>12
  <2>2. PICK i \in 1 .. Len(q) : q[i] = s
    BY <1>5, <2>1
  <2>3. IsQueue(Append(RemoveAt(q, i), s), lastExecuted')
    BY <1>1, <1>2, <1>3, <2>2, MovesToEnd
  <2>4. Queued' /\ Recency(lastExecuted') = Append(RemoveAt(q, i), s)
    BY <1>4, <2>3, RecencyIsQueue DEF Queued
  <2>5. Offering(f) \subseteq ToSet(q)
    <3>1. ASSUME NEW t \in Offering(f)  PROVE t \in ToSet(q)
      <4>1. t \in Servers /\ lastExecuted[t] > 0
        BY <1>2, <1>7, <1>8, <2>1, <3>1
      <4>2. QED
        BY <1>5, <1>6, <4>1
    <3>2. QED
      BY <3>1
  <2>6. \A j \in 1 .. i - 1 : q[j] \notin Offering(f)
    <3>1. ASSUME NEW j \in 1 .. i - 1  PROVE q[j] \notin Offering(f)
      <4>1. j \in 1 .. Len(q) /\ j < i
        BY <1>5, <2>2, <3>1
      <4>2. lastExecuted[q[j]] < lastExecuted[s] /\ lastExecuted[q[j]] \in Nat
        BY <1>5, <2>2, <4>1
      <4>3. QED
        BY <1>2, <1>7, <4>2
    <3>2. QED
      BY <3>1
  <2>7. Promised!Locate(f, s)
    <3>1. i \in DOMAIN q
      BY <1>6
    <3>2. QED
      BY <1>2, <1>8, <1>9, <1>10, <2>2, <2>4, <2>5, <2>6, <3>1 DEF Promised!Locate, q
  <2>8. QED
    BY <2>4, <2>7 DEF f
<1>13. QED
  BY <1>11, <1>12

\* Every other step leaves the timestamps alone and offers or withdraws, or
\* touches nothing that Registry speaks of.
LEMMA RegistryStep ==
  ASSUME IInv, IInv', Queued, [Next]_vars
  PROVE  Queued' /\ [Promised!RegistryNext]_Promised!registryVars
PROOF
<1>1. BinderTypeOK /\ BinderTypeOK'
  BY DEF IInv, TypeOK
<1>2. ASSUME UNCHANGED <<database, lastExecuted, clock>>
      PROVE  Queued' /\ UNCHANGED Promised!registryVars
  BY <1>2 DEF Queued, Promised!registryVars
<1>3. ASSUME NEW s \in Servers, RegisterFirst(s)
      PROVE  Queued' /\ [Promised!RegistryNext]_Promised!registryVars
  <2>1. block[s].function \in Functions
    <3>1. MessageOK(block[s]) /\ block[s].server # None
      BY <1>3 DEF IInv, RegistersItsFunctions, RegisterFirst
    <3>2. block[s].server \in Servers /\ block[s].function \in ToSet(Offers[block[s].server])
      BY <3>1 DEF MessageOK, Block
    <3>3. Offers[block[s].server] \in Seq(Functions)
      BY <3>2, OffersAssumption
    <3>4. QED
      BY <3>2, <3>3 DEF ToSet
  <2>2. database' = database \union {<<block[s].function, s>>} /\ UNCHANGED <<lastExecuted, clock>>
    BY <1>3 DEF RegisterFirst
  <2>3. Queued' /\ Promised!Offer(block[s].function, s)
    BY <2>2 DEF Queued, Promised!Offer
  <2>4. QED
    BY <2>1, <2>3 DEF Promised!RegistryNext
<1>4. ASSUME NEW s \in Servers, RegisterNext(s)
      PROVE  Queued' /\ [Promised!RegistryNext]_Promised!registryVars
  <2>1. request[s] \in Functions
    <3>1. request[s] \in ToSet(Offers[s]) /\ Offers[s] \in Seq(Functions)
      BY <1>4, OffersAssumption DEF IInv, RegistersItsFunctions, RegisterNext
    <3>2. QED
      BY <3>1 DEF ToSet
  <2>2. database' = database \union {<<request[s], s>>} /\ UNCHANGED <<lastExecuted, clock>>
    BY <1>4 DEF RegisterNext
  <2>3. Queued' /\ Promised!Offer(request[s], s)
    BY <2>2 DEF Queued, Promised!Offer
  <2>4. QED
    BY <2>1, <2>3 DEF Promised!RegistryNext
<1>5. ASSUME NEW s \in Servers, ServerGone(s)
      PROVE  Queued' /\ [Promised!RegistryNext]_Promised!registryVars
  <2>1. database' = Remaining(s) /\ UNCHANGED <<lastExecuted, clock>>
    BY <1>5 DEF ServerGone
  <2>2. CASE link[s] = "closed"
    <3>1. Queued' /\ Promised!Withdraw(s)
      BY <2>1, <2>2 DEF Queued, Promised!Withdraw, Remaining
    <3>2. QED
      BY <3>1 DEF Promised!RegistryNext
  <2>3. CASE link[s] # "closed"
    BY <1>2, <2>1, <2>3 DEF Remaining
  <2>4. QED
    BY <2>2, <2>3
<1>6. ASSUME NEW c \in Clients, NEW s \in Servers, LookupSucceeds(c, s)
      PROVE  Queued' /\ [Promised!RegistryNext]_Promised!registryVars
  <2>1. Queued' /\ Promised!Locate(request[c], s)
    BY <1>1, <1>6, LookupLocates
  <2>2. request[c] \in Functions
    BY <1>6 DEF LookupSucceeds
  <2>3. QED
    BY <2>1, <2>2 DEF Promised!RegistryNext
<1>7. ASSUME UNCHANGED binderVars
      PROVE  UNCHANGED <<database, lastExecuted, clock>>
  BY <1>7 DEF binderVars
<1>8. ASSUME BinderExits  PROVE UNCHANGED <<database, lastExecuted, clock>>
  BY <1>8 DEF BinderExits
<1>9. ASSUME BinderMain  PROVE Queued' /\ [Promised!RegistryNext]_Promised!registryVars
  <2>1. CASE \E c \in Clients, s \in Servers : LookupSucceeds(c, s)
    BY <1>6, <2>1
  <2>2. CASE \/ AcceptConnection \/ \E p \in Processes : FirstMessageMissing(p)
             \/ \E s \in Servers : StartServerThread(s)
             \/ \E c \in Clients : \/ LookupFails(c) \/ TerminateServers(c)
                                   \/ \E s \in Servers : LookupCrashes(c, s)
    <3>1. UNCHANGED <<database, lastExecuted, clock>>
      BY <1>8, <2>2 DEF AcceptConnection, FirstMessageMissing, StartServerThread, LookupFails,
        TerminateServers, LookupCrashes
    <3>2. QED
      BY <1>2, <3>1
  <2>3. QED
    BY <1>9, <2>1, <2>2 DEF BinderMain
<1>10. ASSUME NEW s \in Servers, BinderThread(s)
       PROVE  Queued' /\ [Promised!RegistryNext]_Promised!registryVars
  <2>1. CASE ReadIdentifier(s) \/ ThreadCrashes(s)
    <3>1. UNCHANGED <<database, lastExecuted, clock>>
      BY <1>8, <2>1 DEF ReadIdentifier, ThreadCrashes
    <3>2. QED
      BY <1>2, <3>1
  <2>2. QED
    BY <1>3, <1>4, <1>5, <1>10, <2>1 DEF BinderThread
<1>11. CASE UNCHANGED binderVars
  BY <1>2, <1>7, <1>11
<1>12. CASE BinderMain \/ \E s \in Servers : BinderThread(s)
  BY <1>9, <1>10, <1>12
<1>13. QED
  <2>1. [Next]_vars =>
          UNCHANGED binderVars \/ BinderMain \/ \E s \in Servers : BinderThread(s)
    BY DEF vars, Next, BinderStep, ServerStep, HandlerStep, ClientStep, CallStep, RpcInit,
      SendRegister, RegisterReturns, RpcExecute, Exit, ServerKilled, RunFunction, SendResult,
      Connect, Ask, GetLocation, BinderGone, Execute, GetResult, ClientKilled
  <2>2. QED
    BY <1>11, <1>12, <2>1

\* The binder locates functions as a queue of servers would: whatever servers
\* come and go, and whichever threads register while the main thread looks up
\* (Binder.cpp:140-170, SystemManual.txt:28-35).
THEOREM BinderIsRegistry == Spec => RegistryFollows
PROOF
<1>1. Init => Queued /\ Promised!RegistryInit
  <2>1. SUFFICES ASSUME Init  PROVE Queued /\ Promised!RegistryInit
    OBVIOUS
  <2>2. database = {} /\ clock = 0 /\ lastExecuted = [s \in Servers |-> 0]
    BY <2>1 DEF Init, BinderInit
  <2>3. lastExecuted \in Stamps /\ IsQueue(<< >>, lastExecuted)
    BY <2>2 DEF Stamps, IsQueue
  <2>4. Recency(lastExecuted) = << >>
    BY <2>3, RecencyIsQueue
  <2>5. QED
    BY <2>2, <2>3, <2>4 DEF Queued, Promised!RegistryInit
<1>2. IInv /\ IInv' /\ Queued /\ [Next]_vars => Queued' /\ [Promised!RegistryNext]_Promised!registryVars
  BY RegistryStep
<1>3. QED
  BY <1>1, <1>2, RpcInvariant, PTL DEF Spec, RegistryFollows, Promised!RegistrySpec
=============================================================================
