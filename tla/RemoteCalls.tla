----------------------------- MODULE RemoteCalls -----------------------------
(***************************************************************************)
(* The whole RPC system of CS454/A3: binder, servers and clients together, *)
(* and what it promises (submit/SystemManual.txt).                         *)
(***************************************************************************)
EXTENDS RPCClient

vars == <<netVars, binderVars, serverVars, clientVars>>

Init == NetInit /\ BinderInit /\ ServerInit /\ ClientInit

BinderStep ==
    /\ BinderMain \/ \E s \in Servers : BinderThread(s)
    /\ UNCHANGED <<serverVars, clientVars>>

Next ==
    \/ BinderStep
    \/ \E s \in Servers : ServerStep(s) /\ UNCHANGED clientVars
    \/ \E s \in Servers, c \in Clients : HandlerStep(s, c) /\ UNCHANGED clientVars
    \/ \E c \in Clients : ClientStep(c)

Spec == Init /\ [][Next]_vars

\* Every thread of the binder is scheduled, every server that has started goes on
\* and so does every call; nothing makes a process start, or be killed.
ServerGoesOn(s) == SendRegister(s) \/ RegisterReturns(s) \/ RpcExecute(s) \/ Exit(s)

Fairness ==
    /\ WF_vars(BinderMain /\ UNCHANGED <<serverVars, clientVars>>)
    /\ \A s \in Servers :
          /\ WF_vars(BinderThread(s) /\ UNCHANGED <<serverVars, clientVars>>)
          /\ WF_vars(ServerGoesOn(s) /\ UNCHANGED clientVars)
          /\ \A c \in Clients : WF_vars(HandlerStep(s, c) /\ UNCHANGED clientVars)
    /\ \A c \in Clients : WF_vars(CallStep(c))

FairSpec == Spec /\ Fairness

-----------------------------------------------------------------------------
(* Properties. *)

\* Types of the variables.
Responses == {"EXECUTE_SUCCESS", "EXECUTE_FAILURE", "SERVER_FUNCTION_NOT_FOUND"}
NetTypeOK ==
    /\ queue \in Seq(Processes)
    /\ link \in [Processes -> {None, "open", "closed", "reset"}]
    /\ request \in [Processes -> Functions \union {None, Terminate}]
    /\ inbox \in [Servers -> Seq({"REGISTER_SUCCESS", Terminate})]
    /\ answer \in [Clients -> Servers \union {None, "LOC_FAILURE"}]
    /\ call \in [Clients ->
                    [at : Servers, function : Functions, state : Responses \union {"sent"}] \union {None}]
    /\ response \in [Clients -> Responses \union {None}]

Block == [server : Servers \union {None}, function : Functions \union {None}]
BinderTypeOK ==
    /\ binder \in {"running", "down"}
    /\ reading \in Processes \union {None}
    /\ database \subseteq Functions \X Servers
    /\ address \in [Servers -> Servers \union {None}]
    /\ clock \in Nat
    /\ lastExecuted \in [Servers -> 0 .. clock]
    /\ thread \in [Servers -> ThreadStates \union {None}]
    /\ block \in [Servers -> Block \union {None}]
    /\ serverSockets \in Seq(Servers)
    /\ misread \in BOOLEAN

ServerTypeOK ==
    /\ server \in [Servers -> {"off", "registering", "serving", "gone"}]
    /\ next \in [Servers -> Nat \ {0}]
    /\ asked \in [Servers -> BOOLEAN]
    /\ ranAt \in [Clients -> SUBSET Servers]
    /\ killed \in 0 .. MaxKilled

ClientTypeOK ==
    /\ client \in [Clients -> {"idle", "connected", "asked", "located", "calling", "gone"}]
    /\ want \in [Clients -> Functions \union {None, Terminate}]
    /\ location \in [Clients -> Servers \union {None}]
    /\ result \in [Clients -> Results \union {None}]
    /\ calls \in [Clients -> 0 .. MaxCalls]

TypeOK == NetTypeOK /\ BinderTypeOK /\ ServerTypeOK /\ ClientTypeOK

\* A client is sent to a server that has the function, whenever in its life the
\* server and the client meet (Binder.cpp:148-170, RPCServer.cpp:181-187), unless
\* a thread of the binder took another message for its server's first one.
LocatedServerHasIt ==
    ~misread => \A c \in Clients : result[c] # "SERVER_FUNCTION_NOT_FOUND"

\* A server that has left is no location any more, for none of its functions,
\* unless its connection broke with an error (Binder.cpp:112-123).
RemovedUnlessReset ==
    \A d \in database : thread[d[2]] = "finished" => link[d[2]] = "reset"

\* What a call returns is what happened: one run if the server says that it ran
\* the function, none if it or the binder does not know the function
\* (rpc.cpp:107-149, RPCServer.cpp:181-203), the end of the binder for
\* rpcTerminate (rpc.cpp:174-184).
Honest(c, r) ==
    /\ r \in {"EXECUTE_SUCCESS", "EXECUTE_FAILURE"} => ranAt[c] = {location[c]}
    /\ r \in {"SERVER_FUNCTION_NOT_FOUND", "BINDER_FUNCTION_NOT_FOUND"} => ranAt[c] = {}
    /\ r = "TERMINATED" => binder = "down"
ResultIsHonest == \A c \in Clients : client[c] = "idle" => Honest(c, result[c])

\* The servers that have been chosen, ordered by their timestamps.
Recency(stamps) ==
    LET chosen == {s \in Servers : stamps[s] > 0}
        places == 1 .. Cardinality(chosen)
    IN  CHOOSE q \in [places -> chosen] :
            \A i, j \in places : i < j => stamps[q[i]] < stamps[q[j]]

\* The binder's timestamps amount to a queue of servers, in which the one that
\* was chosen last goes to the end (SystemManual.txt:28-35).
Promised == INSTANCE Registry WITH recency <- Recency(lastExecuted), lookups <- clock
RegistryFollows == Promised!RegistrySpec

\* Without a binder all servers terminate (SystemManual.txt:36-39).
ServersFollow ==
    (binder = "down") ~> (\A s \in Servers : server[s] \in {"off", "gone"})

\* Every call returns, whoever is killed meanwhile.
CallsReturn ==
    \A c \in Clients : (client[c] \notin {"idle", "gone"}) ~> (client[c] \in {"idle", "gone"})
=============================================================================
