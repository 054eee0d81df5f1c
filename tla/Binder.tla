------------------------------- MODULE Binder -------------------------------
(***************************************************************************)
(* The binder of CS454/A3/Binder.cpp: the main thread accepts connections  *)
(* one after the other and reads the first message of each, and every      *)
(* server gets a thread for the rest of its connection.                    *)
(*                                                                         *)
(* The main thread deletes the first message of a server as soon as it has *)
(* started the thread that reads it.  The memory may be reused for the     *)
(* messages received next; "block" is what it holds.                       *)
(***************************************************************************)
EXTENDS RpcNetwork

VARIABLES
    binder,         \* "running" or "down"
    reading,        \* whose first message the main thread waits for, or None
    database,       \* pairs <<function, thread's server>>: a ServerInfo per thread
    address,        \* the server that a thread's ServerInfo names
    lastExecuted,   \* timestamp in a thread's ServerInfo, 0 at first
    clock,          \* the time, as the number of lookups
    thread,         \* a server's thread: "starting", "named", "waiting", "finished"
    block,          \* what a starting thread finds as its first message
    serverSockets,  \* servers in the order of their threads
    misread         \* auxiliary: a thread found another message than its own

binderVars == <<binder, reading, database, address, lastExecuted, clock, thread, block,
                serverSockets, misread>>

BinderInit ==
    /\ binder = "running"
    /\ reading = None
    /\ database = {}
    /\ address = [s \in Servers |-> None]
    /\ lastExecuted = [s \in Servers |-> 0]
    /\ clock = 0
    /\ thread = [s \in Servers |-> None]
    /\ block = [s \in Servers |-> None]
    /\ serverSockets = << >>
    /\ misread = FALSE

\* The process ends: its threads and what is in its memory are gone.  The last
\* database and timestamps are kept for comparison with module Registry.
BinderExits ==
    /\ binder' = "down"
    /\ reading' = None
    /\ queue' = << >>
    /\ address' = [s \in Servers |-> None]
    /\ thread' = [s \in Servers |-> None]
    /\ block' = [s \in Servers |-> None]
    /\ serverSockets' = << >>
    /\ UNCHANGED <<database, lastExecuted, clock, misread>>

\* A message as far as a starting thread looks at it.
Message(p) == IF p \in Servers THEN [server |-> p, function |-> request[p]]
                               ELSE [server |-> None, function |-> None]
OwnMessage(s) == [server |-> s, function |-> Offers[s][1]]

\* The memory of threads that have not read their message yet may be reused.
NotRead == {s \in Servers : thread[s] \in {"starting", "named"}}
Reused(m) == {[s \in Servers |-> IF s \in S THEN m ELSE block[s]] : S \in SUBSET NotRead}

-----------------------------------------------------------------------------
(* The main thread. *)

AcceptConnection ==
    /\ binder = "running"
    /\ reading = None
    /\ queue # << >>
    /\ reading' = Head(queue)
    /\ queue' = Tail(queue)
    /\ UNCHANGED <<link, request, inbox, answer, call, response, binder, database, address,
                   lastExecuted, clock, thread, block, serverSockets, misread>>

\* receiveMessage gets a message of p.
ReceiveFirst(p) ==
    /\ binder = "running"
    /\ reading = p
    /\ request[p] # None
    /\ request' = [request EXCEPT ![p] = None]

StartServerThread(s) ==
    /\ ReceiveFirst(s)
    /\ reading' = None
    /\ \E memory \in Reused(Message(s)) : block' = [memory EXCEPT ![s] = Message(s)]
    /\ thread' = [thread EXCEPT ![s] = "starting"]
    /\ serverSockets' = Append(serverSockets, s)
    /\ UNCHANGED <<queue, link, inbox, answer, call, response, binder, database, address,
                   lastExecuted, clock, misread>>

\* Mutant: the servers of any function.
OfferingAnything(f) == {d[2] : d \in database}

\* The servers from which getMostStaleServer chooses.
Offering(f) == {s \in Servers : <<f, s>> \in database}

\* Mutant: the largest timestamp.
FreshestServers(f) ==
    {s \in Offering(f) : \A t \in Offering(f) : lastExecuted[s] >= lastExecuted[t]}

\* getMostStaleServer: of servers with the same time the first in memory.
MostStaleServers(f) ==
    {s \in Offering(f) : \A t \in Offering(f) : lastExecuted[s] <= lastExecuted[t]}

\* Mutant: nothing is sent.
LookupFailsSilently(c) ==
    /\ ReceiveFirst(c)
    /\ request[c] \in Functions
    /\ Offering(request[c]) = {}
    /\ reading' = None
    /\ block' \in Reused(Message(c))
    /\ UNCHANGED <<queue, link, inbox, answer, call, response, binder, database, address,
                   lastExecuted, clock, thread, serverSockets, misread>>

\* sendLookupResponse, of a function that nobody offers or of one that s offers.
LookupFails(c) ==
    /\ ReceiveFirst(c)
    /\ request[c] \in Functions
    /\ Offering(request[c]) = {}
    /\ reading' = None
    /\ block' \in Reused(Message(c))
    /\ answer' = [answer EXCEPT ![c] = "LOC_FAILURE"]
    /\ UNCHANGED <<queue, link, inbox, call, response, binder, database, address,
                   lastExecuted, clock, thread, serverSockets, misread>>

LookupSucceeds(c, s) ==
    /\ ReceiveFirst(c)
    /\ request[c] \in Functions
    /\ s \in MostStaleServers(request[c])
    /\ address[s] # None
    /\ reading' = None
    /\ block' \in Reused(Message(c))
    /\ lastExecuted' = [lastExecuted EXCEPT ![s] = clock + 1]
    /\ clock' = clock + 1
    /\ answer' = [answer EXCEPT ![c] = address[s]]
    /\ UNCHANGED <<queue, link, inbox, call, response, binder, database, address, thread,
                   serverSockets, misread>>

\* The ServerInfo of s has no address: it is of a message without one.
LookupCrashes(c, s) ==
    /\ ReceiveFirst(c)
    /\ request[c] \in Functions
    /\ s \in MostStaleServers(request[c])
    /\ address[s] = None
    /\ BinderExits
    /\ UNCHANGED <<link, inbox, answer, call, response>>

\* terminateServers: TERMINATE to all servers, but sending to a connection whose
\* other end is gone may raise SIGPIPE, and then those after it get none.
TerminateServers(c) ==
    /\ ReceiveFirst(c)
    /\ request[c] = Terminate
    /\ \E n \in 0 .. Len(serverSockets) :
          /\ n < Len(serverSockets) => link[serverSockets[n + 1]] # "open"
          /\ inbox' = [s \in Servers |->
                IF link[s] = "open" /\ \E i \in 1 .. n : serverSockets[i] = s
                THEN Append(inbox[s], Terminate) ELSE inbox[s]]
    /\ BinderExits
    /\ UNCHANGED <<link, answer, call, response>>

\* receiveMessage throws, and so run returns: p has disconnected.
FirstMessageMissing(p) ==
    /\ binder = "running"
    /\ reading = p
    /\ request[p] = None
    /\ link[p] # "open"
    /\ BinderExits
    /\ UNCHANGED <<link, request, inbox, answer, call, response>>

-----------------------------------------------------------------------------
(* handleServerConnection, the thread of server s. *)

ReadIdentifier(s) ==
    /\ binder = "running"
    /\ thread[s] = "starting"
    /\ address' = [address EXCEPT ![s] = block[s].server]
    /\ thread' = [thread EXCEPT ![s] = "named"]
    /\ misread' = (misread \/ block[s] # OwnMessage(s))
    /\ UNCHANGED <<netVars, binder, reading, database, lastExecuted, clock, block, serverSockets>>

\* REGISTER_SUCCESS, which nobody gets if the server has gone.
Reply(s) == inbox' = [inbox EXCEPT ![s] = IF link[s] = "open" THEN Append(@, "REGISTER_SUCCESS") ELSE @]

\* registerServerFunction with the first message, which must be a REGISTER.
RegisterFirst(s) ==
    /\ binder = "running"
    /\ thread[s] = "named"
    /\ block[s].server # None
    /\ database' = database \union {<<block[s].function, s>>}
    /\ Reply(s)
    /\ thread' = [thread EXCEPT ![s] = "waiting"]
    /\ block' = [block EXCEPT ![s] = None]
    /\ misread' = (misread \/ block[s] # OwnMessage(s))
    /\ UNCHANGED <<queue, link, request, answer, call, response, binder, reading, address,
                   lastExecuted, clock, serverSockets>>

\* The thread finds no REGISTER and throws, or a type or a pointer that free has
\* overwritten.
ThreadCrashes(s) ==
    /\ binder = "running"
    /\ s \in NotRead
    /\ BinderExits
    /\ UNCHANGED <<link, request, inbox, answer, call, response>>

\* The next message of the server.
RegisterNext(s) ==
    /\ binder = "running"
    /\ thread[s] = "waiting"
    /\ request[s] # None
    /\ request' = [request EXCEPT ![s] = None]
    /\ database' = database \union {<<request[s], s>>}
    /\ Reply(s)
    /\ UNCHANGED <<queue, link, answer, call, response, binder, reading, address, lastExecuted,
                   clock, thread, block, serverSockets, misread>>

\* Mutant: the loop leaves after the first function it has erased the server from.
RemainingButFirst(s) == database \ {<<Offers[s][1], s>>}

\* removeServer after a disconnection; after another error nothing is removed.
Remaining(s) == IF link[s] = "closed" THEN {d \in database : d[2] # s} ELSE database

ServerGone(s) ==
    /\ binder = "running"
    /\ thread[s] = "waiting"
    /\ request[s] = None
    /\ link[s] # "open"
    /\ database' = Remaining(s)
    /\ thread' = [thread EXCEPT ![s] = "finished"]
    /\ UNCHANGED <<netVars, binder, reading, address, lastExecuted, clock, block, serverSockets,
                   misread>>

BinderMain ==
    \/ AcceptConnection
    \/ \E p \in Processes : FirstMessageMissing(p)
    \/ \E s \in Servers : StartServerThread(s)
    \/ \E c \in Clients : \/ LookupFails(c) \/ TerminateServers(c)
                          \/ \E s \in Servers : LookupSucceeds(c, s) \/ LookupCrashes(c, s)

BinderThread(s) ==
    ReadIdentifier(s) \/ RegisterFirst(s) \/ ThreadCrashes(s) \/ RegisterNext(s) \/ ServerGone(s)
=============================================================================
