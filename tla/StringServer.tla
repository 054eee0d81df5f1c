---------------------------- MODULE StringServer ----------------------------
(***************************************************************************)
(* The string server of CS454/A2 (stringServer.cpp), one thread around     *)
(* select, together with its clients, and what the two promise.            *)
(***************************************************************************)
EXTENDS StringClient, FiniteSetsExt

CONSTANTS
    max_clients,    \* slots of client_socket
    None            \* an empty slot

ASSUME MaxClientsAssumption == max_clients \in Nat \ {0} /\ None \notin Clients

Slots == 1 .. max_clients

VARIABLES
    client_socket,  \* the clients in the slots
    ready           \* slots of the set of select that the loop has still to visit

serverVars == <<client_socket, ready>>
vars == <<clientVars, serverVars>>

Init ==
    /\ ClientInit
    /\ client_socket = [i \in Slots |-> None]
    /\ ready = {}

\* A read of c's socket does not block: there is a message, or c is gone.
Readable(c) == toServer[c] # << >> \/ Gone(c)
Free == {i \in Slots : client_socket[i] = None}

\* select returns; a new client gets the first free slot, or none: then its socket
\* is in no slot and stays open.  Its messages are for the next select.
Select ==
    /\ serverUp
    /\ ready = {}
    /\ LET active == {i \in Slots \ Free : Readable(client_socket[i])}
       IN  /\ backlog # << >> \/ active # {}
           /\ ready' = active
    /\ IF backlog = << >>
       THEN UNCHANGED <<backlog, client_socket>>
       ELSE /\ backlog' = Tail(backlog)
            /\ client_socket' = IF Free = {} THEN client_socket
                                ELSE [client_socket EXCEPT ![Min(Free)] = Head(backlog)]
    /\ UNCHANGED <<status, threadVars, lineVars, toServer, toClient, serverUp, killed>>

\* accept fails for a client that has gone: back to select without a look at the rest.
AcceptFails ==
    /\ serverUp
    /\ ready = {}
    /\ backlog # << >>
    /\ Gone(Head(backlog))
    /\ backlog' = Tail(backlog)
    /\ UNCHANGED <<status, threadVars, lineVars, toServer, toClient, serverUp, killed, serverVars>>

\* One pass of the loop over the slots: a line is read and answered.  To a client that
\* is gone the answer is lost, or send_all fails and handle_error ends the server.
AnswerLine ==
    /\ serverUp
    /\ ready # {}
    /\ LET i == Min(ready)
           c == client_socket[i]
       IN  /\ toServer[c] # << >>
           /\ toServer' = [toServer EXCEPT ![c] = Tail(@)]
           /\ IF Gone(c)
              THEN serverUp' \in BOOLEAN /\ UNCHANGED toClient
              ELSE /\ toClient' = [toClient EXCEPT ![c] = Append(@, Head(toServer[c]))]
                   /\ UNCHANGED serverUp
           /\ ready' = ready \ {i}
    /\ UNCHANGED <<status, threadVars, lineVars, backlog, killed, client_socket>>

\* Mutant: the slot is not freed.
CloseClientKeepsSlot ==
    /\ serverUp
    /\ ready # {}
    /\ Gone(client_socket[Min(ready)])
    /\ ready' = {}
    /\ UNCHANGED <<clientVars, client_socket>>

\* recv_msg finds the client gone, after its last line or, if the connection was reset,
\* before: the slot is freed and the other slots wait for the next select (break).
CloseClient ==
    /\ serverUp
    /\ ready # {}
    /\ LET i == Min(ready)
       IN  /\ Gone(client_socket[i])
           /\ client_socket' = [client_socket EXCEPT ![i] = None]
           /\ toServer' = [toServer EXCEPT ![client_socket[i]] = << >>]
    /\ ready' = {}
    /\ UNCHANGED <<status, threadVars, lineVars, toClient, backlog, serverUp, killed>>

ServerStep == Select \/ AcceptFails \/ AnswerLine \/ CloseClient

Next == ServerStep \/ \E c \in Clients : ClientStep(c) /\ UNCHANGED serverVars

Spec == Init /\ [][Next]_vars

\* A step of the server or of a thread of a client.  Nothing makes a client start, makes
\* its user type or end the input, or kills it.
GoesOn ==
    \/ ServerStep
    \/ \E c \in Clients :
          (MainStep(c) \/ SendingStep(c) \/ ReceivingStep(c)) /\ UNCHANGED serverVars

\* As long as some thread can go on, one of them does.
Fairness == WF_vars(GoesOn)

FairSpec == Spec /\ Fairness

-----------------------------------------------------------------------------
(* Properties. *)

\* Lines pass from the reading thread through the queue, the server and back to the
\* screen, across three threads and the slots, none lost, doubled or overtaken as
\* long as both ends run (stringClient.cpp:49-51, 69-82, 104-110, stringServer.cpp:137-153).
Pushed(c) == IF main[c] \in {"count", "push"} THEN linesRead[c] - 1 ELSE linesRead[c]
NothingLost ==
    serverUp => \A c \in Clients : Running(c) =>
        printed[c] \o toClient[c] \o toServer[c] \o msg_queue[c] = [n \in 1 .. Pushed(c) |-> n]

\* A client that returns from main has printed the answer to every line it read, although
\* main may return without joining the receiving thread (stringClient.cpp:97, 160), unless
\* an update of msg_count got lost.
AllAnswered(c) == printed[c] = [n \in 1 .. linesRead[c] |-> n]
ReturnsAnswered == \A c \in Clients : status[c] = "ok" /\ ~raced[c] => AllAnswered(c)

\* Only a client that leaves with a line unanswered can take the server with it
\* (stringServer.cpp:153): one that was killed, or whose count went wrong.
ServerOutlivesOrderlyClients ==
    ~serverUp => \E c \in Clients : Gone(c) /\ (status[c] = "killed" \/ raced[c])

\* Accepted, but in no slot.
Unserved(c) ==
    /\ Running(c)
    /\ \A k \in 1 .. Len(backlog) : backlog[k] # c
    /\ \A i \in Slots : client_socket[i] # c

\* In the end every line that a client has read is answered, while others come, leave and
\* pass their slots on, and although the slots that are still ready in a select round are
\* dropped when a client leaves (stringServer.cpp:106-142), unless there was no slot for it.
LinesAnswered ==
    <>[](\A c \in Clients : Len(printed[c]) = linesRead[c] \/ Gone(c) \/ Unserved(c))

\* After the end of its input a client returns, although its receiving thread may be
\* blocked in recv_msg for ever (stringClient.cpp:97-104, 158-163), unless an update of
\* msg_count got lost or it is not served.
ClientEnds ==
    <>[](\A c \in Clients : finished_reading[c] => raced[c] \/ Unserved(c))
=============================================================================
