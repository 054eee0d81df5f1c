----------------------------- MODULE RpcNetwork -----------------------------
(***************************************************************************)
(* The processes of the RPC system of CS454/A3 and the TCP connections     *)
(* between them, which the modules Binder, RPCServer and RPCClient share.  *)
(*                                                                         *)
(* A server has one connection to the binder for its whole life, a client  *)
(* one per call.  A connection keeps the order of the messages and loses   *)
(* none; when an end goes away the other end reads what came before and    *)
(* then a disconnection, or an error if the end had unread messages.       *)
(***************************************************************************)
EXTENDS Naturals, Sequences, FiniteSets, SequencesExt

CONSTANTS
    Servers,    \* server processes
    Clients,    \* client processes
    Functions,  \* function signatures
    Offers,     \* the functions each server registers, in order
    MaxCalls,   \* bound: how often a client calls rpcCall or rpcTerminate
    None

ASSUME OffersAssumption == Offers \in [Servers -> Seq(Functions) \ {<< >>}]
ASSUME MaxCallsAssumption == MaxCalls \in Nat
ASSUME ProcessesAssumption == Servers \intersect Clients = {}

Processes == Servers \union Clients
Terminate == "TERMINATE"
Results == {"EXECUTE_SUCCESS", "EXECUTE_FAILURE", "SERVER_FUNCTION_NOT_FOUND",
            "BINDER_FUNCTION_NOT_FOUND", "TERMINATED", "ERROR"}
ThreadStates == {"starting", "named", "waiting", "finished"}

ASSUME NoneAssumption ==
    None \notin Servers \union Clients \union Functions \union Results \union ThreadStates
ASSUME NamesAssumption == Terminate \notin Functions /\ "LOC_FAILURE" \notin Servers

VARIABLES
    queue,      \* connections the binder has not accepted yet, by process
    link,       \* a process's connection to the binder, as the binder sees it
    request,    \* what a process sent to the binder and the binder has not read
    inbox,      \* what the binder sent to a server and the server has not read
    answer,     \* what the binder sent to a client
    call,       \* a client's call at a server: "sent", then what came of it
    response    \* what the server sent to the client

netVars == <<queue, link, request, inbox, answer, call, response>>

NetInit ==
    /\ queue = << >>
    /\ link = [p \in Processes |-> None]
    /\ request = [p \in Processes |-> None]
    /\ inbox = [s \in Servers |-> << >>]
    /\ answer = [c \in Clients |-> None]
    /\ call = [c \in Clients |-> None]
    /\ response = [c \in Clients |-> None]

\* connectTo: the connection waits until the binder accepts it.
ConnectToBinder(p) ==
    /\ queue' = Append(queue, p)
    /\ link' = [link EXCEPT ![p] = "open"]

\* Process p is gone: a connection with unread messages is reset.
Disconnect(p, unread) ==
    link' = [link EXCEPT ![p] = IF @ # "open" THEN @ ELSE IF unread THEN "reset" ELSE "closed"]
=============================================================================
