---------------------------- MODULE StringClient ----------------------------
(***************************************************************************)
(* The string client of CS454/A2 (stringClient.cpp): per client process    *)
(* the main thread, which reads lines, the sending thread and the          *)
(* receiving thread, with the queue and the counter between them.          *)
(*                                                                         *)
(* Lines are numbered as they are read; the answer to a line has its       *)
(* number.  msg_count++ and msg_count-- are a load and a store each: both  *)
(* are preceded by pthread_mutex_unlock where a lock was meant, so nothing *)
(* keeps the two threads apart.                                            *)
(***************************************************************************)
EXTENDS Integers, Sequences

CONSTANTS
    Clients,    \* client processes
    NumLines,   \* bound: lines each client has to read at most
    MaxKilled   \* bound: clients killed by a signal

ASSUME NumLinesAssumption == NumLines \in [Clients -> Nat]
ASSUME MaxKilledAssumption == MaxKilled \in Nat

VARIABLES
    status,             \* "off", "running", or how the process ended
    main,               \* where the main thread is
    mainReg,            \* the count as the main thread loaded it
    receiver,           \* where the receiving thread is
    recvReg,            \* the count as the receiving thread loaded it
    sendingDone,        \* has the sending thread returned?
    linesRead,          \* lines read by getline
    finished_reading,
    msg_count,
    msg_queue,
    printed,            \* answers printed
    raced,              \* history: a store to msg_count undid another one
    toServer, toClient, \* the two directions of the connection
    backlog,            \* connections the server has not accepted
    serverUp,
    killed

threadVars == <<main, mainReg, receiver, recvReg, sendingDone>>
lineVars == <<linesRead, finished_reading, msg_count, msg_queue, printed, raced>>
netVars == <<toServer, toClient, backlog, serverUp>>
clientVars == <<status, threadVars, lineVars, netVars, killed>>

ClientInit ==
    /\ status = [c \in Clients |-> "off"]
    /\ main = [c \in Clients |-> "read"]
    /\ mainReg = [c \in Clients |-> 0]
    /\ receiver = [c \in Clients |-> "check"]
    /\ recvReg = [c \in Clients |-> 0]
    /\ sendingDone = [c \in Clients |-> FALSE]
    /\ linesRead = [c \in Clients |-> 0]
    /\ finished_reading = [c \in Clients |-> FALSE]
    /\ msg_count = [c \in Clients |-> 0]
    /\ msg_queue = [c \in Clients |-> << >>]
    /\ printed = [c \in Clients |-> << >>]
    /\ raced = [c \in Clients |-> FALSE]
    /\ toServer = [c \in Clients |-> << >>]
    /\ toClient = [c \in Clients |-> << >>]
    /\ backlog = << >>
    /\ serverUp = TRUE
    /\ killed = 0

Running(c) == status[c] = "running"
Gone(c) == status[c] \in {"ok", "error", "killed"}

\* The process ends, with return from main, with exit(1) or by a signal, and with it
\* its threads, its memory and the answers it has not received.
EndProcess(c, how) ==
    /\ status' = [status EXCEPT ![c] = how]
    /\ main' = [main EXCEPT ![c] = "read"]
    /\ mainReg' = [mainReg EXCEPT ![c] = 0]
    /\ receiver' = [receiver EXCEPT ![c] = "check"]
    /\ recvReg' = [recvReg EXCEPT ![c] = 0]
    /\ sendingDone' = [sendingDone EXCEPT ![c] = FALSE]
    /\ finished_reading' = [finished_reading EXCEPT ![c] = FALSE]
    /\ msg_count' = [msg_count EXCEPT ![c] = 0]
    /\ msg_queue' = [msg_queue EXCEPT ![c] = << >>]
    /\ toClient' = [toClient EXCEPT ![c] = << >>]
    /\ UNCHANGED <<linesRead, printed, raced, toServer, serverUp>>

\* main connects; the connection waits in the backlog until it is accepted.
Connect(c) ==
    /\ status[c] = "off"
    /\ status' = [status EXCEPT ![c] = IF serverUp THEN "running" ELSE "error"]
    /\ backlog' = IF serverUp THEN Append(backlog, c) ELSE backlog
    /\ UNCHANGED <<threadVars, lineVars, toServer, toClient, serverUp, killed>>

-----------------------------------------------------------------------------
(* The main thread: read_input_until_eof, then the end of main. *)

\* getline returns a line; msg_count is loaded to be incremented.
ReadLine(c) ==
    /\ Running(c)
    /\ main[c] = "read"
    /\ linesRead[c] < NumLines[c]
    /\ linesRead' = [linesRead EXCEPT ![c] = @ + 1]
    /\ mainReg' = [mainReg EXCEPT ![c] = msg_count[c]]
    /\ main' = [main EXCEPT ![c] = "count"]
    /\ UNCHANGED <<status, receiver, recvReg, sendingDone, finished_reading, msg_count, msg_queue,
                   printed, raced, netVars, killed>>

CountLine(c) ==
    /\ Running(c)
    /\ main[c] = "count"
    /\ msg_count' = [msg_count EXCEPT ![c] = mainReg[c] + 1]
    /\ raced' = [raced EXCEPT ![c] = @ \/ msg_count[c] # mainReg[c]]
    /\ main' = [main EXCEPT ![c] = "push"]
    /\ UNCHANGED <<status, mainReg, receiver, recvReg, sendingDone, linesRead, finished_reading,
                   msg_queue, printed, netVars, killed>>

\* Mutant: the queue takes the new line at the wrong end.
PushLineFirst(c) ==
    /\ Running(c)
    /\ main[c] = "push"
    /\ msg_queue' = [msg_queue EXCEPT ![c] = <<linesRead[c]>> \o @]
    /\ main' = [main EXCEPT ![c] = "read"]
    /\ UNCHANGED <<status, mainReg, receiver, recvReg, sendingDone, linesRead, finished_reading,
                   msg_count, printed, raced, netVars, killed>>

\* The line goes to the queue.
PushLine(c) ==
    /\ Running(c)
    /\ main[c] = "push"
    /\ msg_queue' = [msg_queue EXCEPT ![c] = Append(@, linesRead[c])]
    /\ main' = [main EXCEPT ![c] = "read"]
    /\ UNCHANGED <<status, mainReg, receiver, recvReg, sendingDone, linesRead, finished_reading,
                   msg_count, printed, raced, netVars, killed>>

EndOfInput(c) ==
    /\ Running(c)
    /\ main[c] = "read"
    /\ finished_reading' = [finished_reading EXCEPT ![c] = TRUE]
    /\ main' = [main EXCEPT ![c] = "joinSender"]
    /\ UNCHANGED <<status, mainReg, receiver, recvReg, sendingDone, linesRead, msg_count,
                   msg_queue, printed, raced, netVars, killed>>

\* Mutant: main does not join the receiving thread.
JoinSenderOnly(c) ==
    /\ Running(c)
    /\ main[c] = "joinSender"
    /\ sendingDone[c]
    /\ EndProcess(c, "ok")
    /\ UNCHANGED <<backlog, killed>>

\* After the sending thread main returns at once if the count is 0 (signal 0 of
\* pthread_kill does nothing), and otherwise joins the receiving thread.
JoinSender(c) ==
    /\ Running(c)
    /\ main[c] = "joinSender"
    /\ sendingDone[c]
    /\ IF msg_count[c] = 0
       THEN EndProcess(c, "ok")
       ELSE /\ main' = [main EXCEPT ![c] = "joinReceiver"]
            /\ UNCHANGED <<status, mainReg, receiver, recvReg, sendingDone, lineVars, toServer,
                           toClient, serverUp>>
    /\ UNCHANGED <<backlog, killed>>

JoinReceiver(c) ==
    /\ Running(c)
    /\ main[c] = "joinReceiver"
    /\ receiver[c] = "done"
    /\ EndProcess(c, "ok")
    /\ UNCHANGED <<backlog, killed>>

-----------------------------------------------------------------------------
(* The sending thread.  Only it takes from the queue, so its check for an   *)
(* empty queue and the pop after it, in two critical sections, are one step. *)

SendLine(c) ==
    /\ Running(c)
    /\ ~sendingDone[c]
    /\ msg_queue[c] # << >>
    /\ msg_queue' = [msg_queue EXCEPT ![c] = Tail(@)]
    /\ toServer' = IF serverUp THEN [toServer EXCEPT ![c] = Append(@, Head(msg_queue[c]))]
                   ELSE toServer
    /\ UNCHANGED <<status, threadVars, linesRead, finished_reading, msg_count, printed, raced,
                   toClient, backlog, serverUp, killed>>

\* send_all to a server that has ended may also fail: handle_error ends the client.
SendFails(c) ==
    /\ Running(c)
    /\ ~sendingDone[c]
    /\ msg_queue[c] # << >>
    /\ ~serverUp
    /\ EndProcess(c, "error")
    /\ UNCHANGED <<backlog, killed>>

\* Mutant: the sending thread ends with the input, whatever is in the queue.
SendingEndsEarly(c) ==
    /\ Running(c)
    /\ ~sendingDone[c]
    /\ finished_reading[c]
    /\ sendingDone' = [sendingDone EXCEPT ![c] = TRUE]
    /\ UNCHANGED <<status, main, mainReg, receiver, recvReg, lineVars, netVars, killed>>

\* All is read and sent.
SendingEnds(c) ==
    /\ Running(c)
    /\ ~sendingDone[c]
    /\ finished_reading[c]
    /\ msg_queue[c] = << >>
    /\ sendingDone' = [sendingDone EXCEPT ![c] = TRUE]
    /\ UNCHANGED <<status, main, mainReg, receiver, recvReg, lineVars, netVars, killed>>

-----------------------------------------------------------------------------
(* The receiving thread. *)

\* Goes on to recv_msg, which blocks, unless all is read and nothing is awaited.
CheckFinished(c) ==
    /\ Running(c)
    /\ receiver[c] = "check"
    /\ receiver' = [receiver EXCEPT ![c] =
                      IF finished_reading[c] /\ msg_count[c] = 0 THEN "done" ELSE "receive"]
    /\ UNCHANGED <<status, main, mainReg, recvReg, sendingDone, lineVars, netVars, killed>>

\* recv_msg returns an answer, which is printed; msg_count is loaded.
ReceiveAnswer(c) ==
    /\ Running(c)
    /\ receiver[c] = "receive"
    /\ toClient[c] # << >>
    /\ toClient' = [toClient EXCEPT ![c] = Tail(@)]
    /\ printed' = [printed EXCEPT ![c] = Append(@, Head(toClient[c]))]
    /\ recvReg' = [recvReg EXCEPT ![c] = msg_count[c]]
    /\ receiver' = [receiver EXCEPT ![c] = "count"]
    /\ UNCHANGED <<status, main, mainReg, sendingDone, linesRead, finished_reading, msg_count,
                   msg_queue, raced, toServer, backlog, serverUp, killed>>

CountAnswer(c) ==
    /\ Running(c)
    /\ receiver[c] = "count"
    /\ msg_count' = [msg_count EXCEPT ![c] = recvReg[c] - 1]
    /\ raced' = [raced EXCEPT ![c] = @ \/ msg_count[c] # recvReg[c]]
    /\ receiver' = [receiver EXCEPT ![c] = "check"]
    /\ UNCHANGED <<status, main, mainReg, recvReg, sendingDone, linesRead, finished_reading,
                   msg_queue, printed, netVars, killed>>

\* The server has ended: "Server disconnected", exit(1).  Answers under way may be lost.
ServerDisconnected(c) ==
    /\ Running(c)
    /\ receiver[c] = "receive"
    /\ ~serverUp
    /\ EndProcess(c, "error")
    /\ UNCHANGED <<backlog, killed>>

KillClient(c) ==
    /\ Running(c)
    /\ killed < MaxKilled
    /\ killed' = killed + 1
    /\ EndProcess(c, "killed")
    /\ UNCHANGED backlog

MainStep(c) == CountLine(c) \/ PushLine(c) \/ JoinSender(c) \/ JoinReceiver(c)
SendingStep(c) == SendLine(c) \/ SendFails(c) \/ SendingEnds(c)
ReceivingStep(c) ==
    CheckFinished(c) \/ ReceiveAnswer(c) \/ CountAnswer(c) \/ ServerDisconnected(c)

ClientStep(c) ==
    \/ Connect(c)
    \/ ReadLine(c)
    \/ EndOfInput(c)
    \/ MainStep(c)
    \/ SendingStep(c)
    \/ ReceivingStep(c)
    \/ KillClient(c)
=============================================================================
