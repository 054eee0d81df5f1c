------------------------------ MODULE RPCClient ------------------------------
(***************************************************************************)
(* A client process of CS454/A3: rpcCall and rpcTerminate of rpc.cpp, one  *)
(* after the other.  It may be killed at any time.                         *)
(***************************************************************************)
EXTENDS RPCServer

VARIABLES
    client,     \* "idle", "connected", "asked", "located", "calling" or "gone"
    want,       \* the function it calls, or Terminate
    location,   \* where the binder located it
    result,     \* of the last call
    calls       \* how many it has begun

clientVars == <<client, want, location, result, calls>>

ClientInit ==
    /\ client = [c \in Clients |-> "idle"]
    /\ want = [c \in Clients |-> None]
    /\ location = [c \in Clients |-> None]
    /\ result = [c \in Clients |-> None]
    /\ calls = [c \in Clients |-> 0]

Return(c, r) ==
    /\ client' = [client EXCEPT ![c] = "idle"]
    /\ result' = [result EXCEPT ![c] = r]

\* rpcCall or rpcTerminate connects to the binder.
Connect(c, w) ==
    /\ client[c] = "idle"
    /\ calls[c] < MaxCalls
    /\ binder = "running"
    /\ ConnectToBinder(c)
    /\ client' = [client EXCEPT ![c] = "connected"]
    /\ want' = [want EXCEPT ![c] = w]
    /\ location' = [location EXCEPT ![c] = None]
    /\ result' = [result EXCEPT ![c] = None]
    /\ calls' = [calls EXCEPT ![c] = @ + 1]
    /\ ranAt' = [ranAt EXCEPT ![c] = {}]
    /\ answer' = [answer EXCEPT ![c] = None]
    /\ UNCHANGED <<request, inbox, call, response, binderVars, server, next, asked, killed>>

\* LOC_REQUEST or TERMINATE.
Ask(c) ==
    /\ client[c] = "connected"
    /\ binder = "running"
    /\ request' = [request EXCEPT ![c] = want[c]]
    /\ client' = [client EXCEPT ![c] = "asked"]
    /\ UNCHANGED <<queue, link, inbox, answer, call, response, binderVars, serverVars, want,
                   location, result, calls>>

\* lookupServerInfo gets the answer.
GetLocation(c) ==
    /\ client[c] = "asked"
    /\ answer[c] # None
    /\ IF answer[c] = "LOC_FAILURE"
       THEN Return(c, "BINDER_FUNCTION_NOT_FOUND") /\ UNCHANGED location
       ELSE /\ client' = [client EXCEPT ![c] = "located"]
            /\ location' = [location EXCEPT ![c] = answer[c]]
            /\ UNCHANGED result
    /\ UNCHANGED <<netVars, binderVars, serverVars, want, calls>>

\* The binder is down without an answer.  rpcTerminate takes a disconnection for
\* success; the connection is reset if the binder had not read the message.
BinderGone(c) ==
    /\ client[c] \in {"connected", "asked"}
    /\ binder = "down"
    /\ answer[c] = None
    /\ Return(c, IF want[c] = Terminate /\ client[c] = "asked" /\ request[c] = None
                 THEN "TERMINATED" ELSE "ERROR")
    /\ UNCHANGED <<netVars, binderVars, serverVars, want, location, calls>>

\* executeOnServer connects and sends EXECUTE.
Execute(c) ==
    /\ client[c] = "located"
    /\ IF server[location[c]] \in {"registering", "serving"}
       THEN /\ call' = [call EXCEPT ![c] = [at |-> location[c], function |-> want[c], state |-> "sent"]]
            /\ client' = [client EXCEPT ![c] = "calling"]
            /\ UNCHANGED result
       ELSE Return(c, "ERROR") /\ UNCHANGED call
    /\ UNCHANGED <<queue, link, request, inbox, answer, response, binderVars, serverVars, want,
                   location, calls>>

\* executeOnServer gets the answer, or the server is gone without one.
GetResult(c) ==
    /\ client[c] = "calling"
    /\ \/ response[c] # None /\ Return(c, response[c])
       \/ response[c] = None /\ server[location[c]] = "gone" /\ Return(c, "ERROR")
    /\ response' = [response EXCEPT ![c] = None]
    /\ call' = [call EXCEPT ![c] = None]
    /\ UNCHANGED <<queue, link, request, inbox, answer, binderVars, serverVars, want, location,
                   calls>>

\* The process is killed; what it has sent remains.
ClientKilled(c) ==
    /\ client[c] \notin {"idle", "gone"}
    /\ killed < MaxKilled
    /\ killed' = killed + 1
    /\ client' = [client EXCEPT ![c] = "gone"]
    /\ Disconnect(c, answer[c] # None)
    /\ UNCHANGED <<queue, request, inbox, answer, call, response, binderVars, server, next,
                   asked, ranAt, want, location, result, calls>>

CallStep(c) == Ask(c) \/ GetLocation(c) \/ BinderGone(c) \/ Execute(c) \/ GetResult(c)

ClientStep(c) ==
    \/ \E w \in Functions \union {Terminate} : Connect(c, w)
    \/ CallStep(c)
    \/ ClientKilled(c)
=============================================================================
