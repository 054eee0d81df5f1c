------------------------------ MODULE RPCServer ------------------------------
(***************************************************************************)
(* A server process of CS454/A3: RPCServer.cpp as server.c uses it, which  *)
(* calls rpcInit, registers its functions one by one and then serves, not  *)
(* looking at the results.  It may be killed at any time.                  *)
(***************************************************************************)
EXTENDS Binder

CONSTANT MaxKilled  \* bound: processes that are killed

ASSUME MaxKilledAssumption == MaxKilled \in Nat

VARIABLES
    server,     \* "off", "registering", "serving" or "gone"
    next,       \* index of the function it registers next
    asked,      \* it waits for the answer to a REGISTER
    ranAt,      \* auxiliary: the servers that ran a client's current call
    killed      \* processes killed so far

serverVars == <<server, next, asked, ranAt, killed>>

ServerInit ==
    /\ server = [s \in Servers |-> "off"]
    /\ next = [s \in Servers |-> 1]
    /\ asked = [s \in Servers |-> FALSE]
    /\ ranAt = [c \in Clients |-> {}]
    /\ killed = 0

RpcInit(s) ==
    /\ server[s] = "off"
    /\ binder = "running"
    /\ server' = [server EXCEPT ![s] = "registering"]
    /\ ConnectToBinder(s)
    /\ UNCHANGED <<request, inbox, answer, call, response, binderVars, next, asked, ranAt, killed>>

\* rpcRegister, until it waits for the answer.
SendRegister(s) ==
    /\ server[s] = "registering"
    /\ binder = "running"
    /\ next[s] <= Len(Offers[s])
    /\ ~asked[s]
    /\ request' = [request EXCEPT ![s] = Offers[s][next[s]]]
    /\ asked' = [asked EXCEPT ![s] = TRUE]
    /\ UNCHANGED <<queue, link, inbox, answer, call, response, binderVars, server, next, ranAt, killed>>

\* The end of rpcRegister: with a message, or without one if the binder is down and
\* sending or receiving fails.  Its result is not looked at.
RegisterReturns(s) ==
    /\ server[s] = "registering"
    /\ next[s] <= Len(Offers[s])
    /\ asked[s] \/ binder = "down"
    /\ \/ inbox[s] # << >> /\ inbox' = [inbox EXCEPT ![s] = Tail(@)]
       \/ binder = "down" /\ (asked[s] => inbox[s] = << >>) /\ UNCHANGED inbox
    /\ next' = [next EXCEPT ![s] = @ + 1]
    /\ asked' = [asked EXCEPT ![s] = FALSE]
    /\ UNCHANGED <<queue, link, request, answer, call, response, binderVars, server, ranAt, killed>>

\* rpcExecute starts.
RpcExecute(s) ==
    /\ server[s] = "registering"
    /\ next[s] > Len(Offers[s])
    /\ server' = [server EXCEPT ![s] = "serving"]
    /\ UNCHANGED <<netVars, binderVars, next, asked, ranAt, killed>>

\* Mutant: only a TERMINATE makes the monitor exit.
ExitRequestedByMessage(s) == inbox[s] # << >>

\* binderMonitorThread stops waiting: a message, or the binder is gone.
ExitRequested(s) == inbox[s] # << >> \/ binder = "down"

\* binderMonitorThread: exit(0), whatever the other threads do.
Exit(s) ==
    /\ server[s] = "serving"
    /\ ExitRequested(s)
    /\ server' = [server EXCEPT ![s] = "gone"]
    /\ Disconnect(s, Len(inbox[s]) > 1)
    /\ UNCHANGED <<queue, request, inbox, answer, call, response, binderVars, next, asked, ranAt, killed>>

\* The process is killed, by a SIGPIPE when it sends to a binder that is down for
\* example.
ServerKilled(s) ==
    /\ server[s] \in {"registering", "serving"}
    /\ killed < MaxKilled
    /\ killed' = killed + 1
    /\ server' = [server EXCEPT ![s] = "gone"]
    /\ Disconnect(s, inbox[s] # << >>)
    /\ UNCHANGED <<queue, request, inbox, answer, call, response, binderVars, next, asked, ranAt>>

-----------------------------------------------------------------------------
(* handleConnectionThread, for a call of client c that came to server s. *)

\* The function wanted, and the server called: they come with the call.
Handles(s, c) == call[c] # None /\ call[c].at = s /\ server[s] = "serving"

\* Mutant: a function is run without looking whether it is there.
OutcomesFound(found) == {"EXECUTE_SUCCESS", "EXECUTE_FAILURE"}

\* What the message to the client can be: a skeleton succeeds or fails.
Outcomes(found) ==
    IF found THEN {"EXECUTE_SUCCESS", "EXECUTE_FAILURE"} ELSE {"SERVER_FUNCTION_NOT_FOUND"}

\* fcnDatabase has all functions before rpcExecute, registered or not.
RunFunction(s, c) ==
    LET found == call[c].function \in ToSet(Offers[s])
    IN  /\ Handles(s, c)
        /\ call[c].state = "sent"
        /\ \E outcome \in Outcomes(found) :
              call' = [call EXCEPT ![c] = [at |-> s, function |-> call[c].function, state |-> outcome]]
        /\ ranAt' = IF found THEN [ranAt EXCEPT ![c] = @ \union {s}] ELSE ranAt
        /\ UNCHANGED <<queue, link, request, inbox, answer, response, binderVars, server, next,
                       asked, killed>>

SendResult(s, c) ==
    /\ Handles(s, c)
    /\ call[c].state # "sent"
    /\ response' = [response EXCEPT ![c] = call[c].state]
    /\ call' = [call EXCEPT ![c] = None]
    /\ UNCHANGED <<queue, link, request, inbox, answer, binderVars, serverVars>>

ServerStep(s) ==
    RpcInit(s) \/ SendRegister(s) \/ RegisterReturns(s) \/ RpcExecute(s) \/ Exit(s) \/ ServerKilled(s)

HandlerStep(s, c) == RunFunction(s, c) \/ SendResult(s, c)
=============================================================================
