----------------------------- MODULE Marshalling -----------------------------
(***************************************************************************)
(* Messages as bytes, and what becomes of arguments on their way (CS454/A3,*)
(* Message.cpp, Database.cpp, rpc.cpp, RPCServer.cpp): one server that     *)
(* registers functions and one client that calls them, one message at a    *)
(* time.  Threads and failures are those of RemoteCalls.                   *)
(*                                                                         *)
(* A buffer maps the offset of each field to its value: a string, an int   *)
(* or an element of an argument.  An argument is the sequence of its       *)
(* elements, one for a scalar.                                             *)
(***************************************************************************)
EXTENDS Signatures, FiniteSets, SequencesExt

CONSTANTS
    Signatures,     \* those of the functions registered and called
    Strlen(_),      \* of the name of a function and of the server's address
    Server,         \* serverIdentifier
    Port,
    MaxFunctions,   \* how often the server may register a function
    None

ASSUME SignaturesAssumption == Signatures \subseteq Signature
ASSUME StrlenAssumption == \A s \in Names \union {Server} : Strlen(s) \in Nat
ASSUME NoneAssumption == None \notin Int

VARIABLES
    fcnDatabase,    \* the server's functions: a key and a function for each overload
    database,       \* the binder's: a key and a location for each overload
    registered,     \* auxiliary: what the server registered; its i-th function is i
    wire,           \* the message under way, as bytes, or None
    sent,           \* auxiliary: the message it was made of
    pc,             \* who reads it, and for what
    caller,         \* the signature and the arguments of the call, or None
    before,         \* auxiliary: the caller's arguments before the call
    ran,            \* auxiliary: the function that ran, what it was given and what it left
    result          \* of the last call

vars == <<fcnDatabase, database, registered, wire, sent, pc, caller, before, ran, result>>

-----------------------------------------------------------------------------
(* Arguments. *)

\* sizeOfArg and copyVariable take a scalar for an array of one element.
Count(a) == IF ArrayLength(a) = 0 THEN 1 ELSE ArrayLength(a)

\* sizeof for ARG_CHAR, ARG_SHORT, ARG_INT, ARG_LONG, ARG_DOUBLE and ARG_FLOAT.
Width(a) == <<1, 2, 4, 8, 8, 4>>[DataType(a)]

SizeOfArg(a) == Width(a) * Count(a)

\* Memory that nobody has written.
Fresh(a) == [k \in 1 .. Count(a) |-> None]

\* Which arguments are in a message of this type.
Goes(type, a) == IF type = "EXECUTE" THEN IsInput(a) ELSE IsOutput(a)

SizeOfArgs(argTypes, type) ==
    FoldLeft(LAMBDA size, a : IF Goes(type, a) THEN size + SizeOfArg(a) ELSE size, 0, argTypes)

-----------------------------------------------------------------------------
(* Writing. *)

Field(size, value) == << [size |-> size, value |-> value] >>
StringField(s) == Field(Strlen(s) + 1, s)
IntField(n) == Field(4, n)

\* Mutant: the 0 at the end is not sent.
ArgTypesFieldsOpen(argTypes) == FlattenSeq([i \in DOMAIN argTypes |-> IntField(argTypes[i])])

\* argsTypes 1 longer than args
ArgTypesFields(argTypes) ==
    FlattenSeq([i \in DOMAIN argTypes |-> IntField(argTypes[i])]) \o IntField(0)

ArgFields(argTypes, args, type) ==
    FlattenSeq([i \in DOMAIN argTypes |->
        IF Goes(type, argTypes[i])
        THEN [k \in 1 .. Count(argTypes[i]) |->
                 [size |-> Width(argTypes[i]), value |-> args[i][k]]]
        ELSE << >>])

\* The fields behind the header, and the length that is computed beforehand.
Contents(m) ==
    CASE m.type = "REGISTER" ->
             [length |-> Strlen(m.serverIdentifier) + 1 + 4 + Strlen(m.name) + 1
                         + 4 * (Len(m.argTypes) + 1),
              fields |-> StringField(m.serverIdentifier) \o IntField(m.port)
                         \o StringField(m.name) \o ArgTypesFields(m.argTypes)]
      [] m.type = "LOC_REQUEST" ->
             [length |-> Strlen(m.name) + 1 + 4 * (Len(m.argTypes) + 1),
              fields |-> StringField(m.name) \o ArgTypesFields(m.argTypes)]
      [] m.type = "LOC_SUCCESS" ->
             [length |-> Strlen(m.serverIdentifier) + 1 + 4,
              fields |-> StringField(m.serverIdentifier) \o IntField(m.port)]
      [] m.type \in {"EXECUTE", "EXECUTE_SUCCESS"} ->
             [length |-> Strlen(m.name) + 1 + 4 * (Len(m.argTypes) + 1)
                         + SizeOfArgs(m.argTypes, m.type),
              fields |-> StringField(m.name) \o ArgTypesFields(m.argTypes)
                         \o ArgFields(m.argTypes, m.args, m.type)]
      [] OTHER -> [length |-> 4, fields |-> IntField(m.reasonCode)]

\* The bytes: where each field is, and where the last one ends.
Serialize(m) ==
    LET Write(w, f) == [data |-> [o \in DOMAIN w.data \union {w.end} |->
                                      IF o = w.end THEN f.value ELSE w.data[o]],
                        end |-> w.end + f.size]
        c == Contents(m)
        w == FoldLeft(Write, [data |-> << >>, end |-> 0], c.fields)
    IN  [type |-> m.type, length |-> c.length, data |-> w.data, end |-> w.end]

-----------------------------------------------------------------------------
(* Reading: each operator has the message so far and the index behind it.  *)

At(data, index) == IF index \in DOMAIN data THEN data[index] ELSE None

ReadServerIdentifier(data, r) ==
    [msg |-> [r.msg EXCEPT !.serverIdentifier = At(data, r.index)],
     index |-> r.index + Strlen(At(data, r.index)) + 1]
ReadPort(data, r) ==
    [msg |-> [r.msg EXCEPT !.port = At(data, r.index)], index |-> r.index + 4]
ReadReasonCode(data, r) ==
    [msg |-> [r.msg EXCEPT !.reasonCode = At(data, r.index)], index |-> r.index + 4]
ReadName(data, r) ==
    [msg |-> [r.msg EXCEPT !.name = At(data, r.index)],
     index |-> r.index + Strlen(At(data, r.index)) + 1]

\* Up to the first 0.
ReadArgTypes(data, r) ==
    LET n == CHOOSE n \in 0 .. Cardinality(DOMAIN data) :
                 /\ At(data, r.index + 4 * n) \in {0, None}
                 /\ \A i \in 0 .. n - 1 : At(data, r.index + 4 * i) \notin {0, None}
    IN  [msg |-> [r.msg EXCEPT !.argTypes = [i \in 1 .. n |-> At(data, r.index + 4 * (i - 1))]],
         index |-> r.index + 4 * (n + 1)]

\* Arguments that are in the message are copied, the others are left unwritten: the server
\* makes room for them, the client's reader does not and nobody may look at them.
ReadArgs(data, r, type) ==
    LET Read(q, a) ==
            [args |-> Append(q.args,
                 IF Goes(type, a) THEN [k \in 1 .. Count(a) |-> At(data, q.index + (k - 1) * Width(a))]
                                ELSE Fresh(a)),
             index |-> IF Goes(type, a) THEN q.index + SizeOfArg(a) ELSE q.index]
        last == FoldLeft(Read, [args |-> << >>, index |-> r.index], r.msg.argTypes)
    IN  [msg |-> [r.msg EXCEPT !.args = last.args], index |-> last.index]

EmptyMessage == [type |-> None, serverIdentifier |-> None, port |-> 0, name |-> None,
                 argTypes |-> << >>, args |-> << >>, reasonCode |-> 0]

CreateFromBytes(w) ==
    LET d == w.data
        new == [msg |-> [EmptyMessage EXCEPT !.type = w.type], index |-> 0]
    IN  CASE w.type = "REGISTER" ->
                 ReadArgTypes(d, ReadName(d, ReadPort(d, ReadServerIdentifier(d, new))))
          [] w.type = "LOC_REQUEST" -> ReadArgTypes(d, ReadName(d, new))
          [] w.type = "LOC_SUCCESS" -> ReadPort(d, ReadServerIdentifier(d, new))
          [] w.type \in {"EXECUTE", "EXECUTE_SUCCESS"} ->
                 ReadArgs(d, ReadArgTypes(d, ReadName(d, new)), w.type)
          [] OTHER -> ReadReasonCode(d, new)

-----------------------------------------------------------------------------
(* The programs. *)

BINDER_FUNCTION_NOT_FOUND == -11
FAILED == -1    \* what a skeleton may return

Init ==
    /\ fcnDatabase = {}
    /\ database = {}
    /\ registered = << >>
    /\ wire = None
    /\ sent = None
    /\ pc = "idle"
    /\ caller = None
    /\ before = << >>
    /\ ran = None
    /\ result = None

SendTo(reader, m) == wire' = Serialize(m) /\ sent' = m /\ pc' = reader

Received == CreateFromBytes(wire).msg

\* map[sig] = value keeps the key that is there, if one is.
Entries(map, sig) == {e \in map : SameKey(e.key, sig)}
Insert(map, sig, value) ==
    LET old == Entries(map, sig)
        keys == IF old = {} THEN {sig} ELSE {e.key : e \in old}
    IN  (map \ old) \union {[key |-> k, value |-> value] : k \in keys}

\* rpcRegister.
Register(sig) ==
    /\ pc = "idle"
    /\ Len(registered) < MaxFunctions
    /\ registered' = Append(registered, sig)
    /\ fcnDatabase' = Insert(fcnDatabase, sig, Len(registered) + 1)
    /\ SendTo("binder", [EmptyMessage EXCEPT
           !.type = "REGISTER", !.serverIdentifier = Server, !.port = Port,
           !.name = sig.name, !.argTypes = sig.argTypes])
    /\ UNCHANGED <<database, caller, before, ran, result>>

KeyOf(m) == [name |-> m.name, argTypes |-> m.argTypes]

\* handleServerConnection
BinderRegisters ==
    /\ pc = "binder"
    /\ Received.type = "REGISTER"
    /\ database' = Insert(database, KeyOf(Received), <<Received.serverIdentifier, Received.port>>)
    /\ SendTo("registering", [EmptyMessage EXCEPT !.type = "REGISTER_SUCCESS"])
    /\ UNCHANGED <<fcnDatabase, registered, caller, before, ran, result>>

Done(res) == pc' = "idle" /\ wire' = None /\ sent' = None /\ result' = res

RegisterReturns ==
    /\ pc = "registering"
    /\ Received.type = "REGISTER_SUCCESS"
    /\ Done(Received.reasonCode)
    /\ caller' = None
    /\ UNCHANGED <<fcnDatabase, database, registered, before, ran>>

\* rpcCall, lookupServerInfo: the caller's memory has a value for each element.
Call(sig) ==
    /\ pc = "idle"
    /\ before' = [i \in DOMAIN sig.argTypes |->
                      [k \in 1 .. Count(sig.argTypes[i]) |-> <<"caller", i, k>>]]
    /\ caller' = [sig |-> sig, args |-> before']
    /\ ran' = None
    /\ SendTo("binder", [EmptyMessage EXCEPT
           !.type = "LOC_REQUEST", !.name = sig.name, !.argTypes = sig.argTypes])
    /\ UNCHANGED <<fcnDatabase, database, registered, result>>

\* sendLookupResponse
BinderLocates ==
    /\ pc = "binder"
    /\ Received.type = "LOC_REQUEST"
    /\ LET found == Entries(database, KeyOf(Received))
       IN  \/ /\ found = {}
              /\ SendTo("locating", [EmptyMessage EXCEPT
                     !.type = "LOC_FAILURE", !.reasonCode = BINDER_FUNCTION_NOT_FOUND])
           \/ \E e \in found :
              SendTo("locating", [EmptyMessage EXCEPT
                     !.type = "LOC_SUCCESS", !.serverIdentifier = e.value[1], !.port = e.value[2]])
    /\ UNCHANGED <<fcnDatabase, database, registered, caller, before, ran, result>>

\* lookupServerInfo returns; executeOnServer connects to the server and sends.
ClientExecutes ==
    /\ pc = "locating"
    /\ Received.type = "LOC_SUCCESS"
    /\ <<Received.serverIdentifier, Received.port>> = <<Server, Port>>
    /\ SendTo("server", [EmptyMessage EXCEPT
           !.type = "EXECUTE", !.name = caller.sig.name, !.argTypes = caller.sig.argTypes,
           !.args = caller.args])
    /\ UNCHANGED <<fcnDatabase, database, registered, caller, before, ran, result>>

ClientGivesUp ==
    /\ pc = "locating"
    /\ Received.type = "LOC_FAILURE"
    /\ Done(Received.reasonCode)
    /\ UNCHANGED <<fcnDatabase, database, registered, caller, before, ran>>

\* What the function leaves in its arguments: it may write to those of output only.
Left(argTypes, args) ==
    [i \in DOMAIN argTypes |->
        IF IsOutput(argTypes[i]) THEN [k \in DOMAIN args[i] |-> <<"function", i, k>>] ELSE args[i]]

\* handleConnectionThread; a function may fail.
ServerExecutes ==
    /\ pc = "server"
    /\ LET m == Received IN \E e \in Entries(fcnDatabase, KeyOf(m)) :
           /\ ran' = [function |-> e.value, given |-> m.args, left |-> Left(m.argTypes, m.args)]
           /\ \/ SendTo("calling", [EmptyMessage EXCEPT
                      !.type = "EXECUTE_SUCCESS", !.name = m.name, !.argTypes = m.argTypes,
                      !.args = ran'.left])
              \/ SendTo("calling", [EmptyMessage EXCEPT !.type = "EXECUTE_FAILURE",
                                                        !.reasonCode = FAILED])
    /\ UNCHANGED <<fcnDatabase, database, registered, caller, before, result>>

\* Mutant: arguments of input and output are taken for input.
CopyOutputOnly(argTypes, args, respArgs) ==
    [i \in DOMAIN argTypes |->
        IF IsOutput(argTypes[i]) /\ ~IsInput(argTypes[i]) THEN respArgs[i] ELSE args[i]]

\* Copy values from response args to the locations specified by local args
CopyOutputArgs(argTypes, args, respArgs) ==
    [i \in DOMAIN argTypes |-> IF IsOutput(argTypes[i]) THEN respArgs[i] ELSE args[i]]

CallReturns ==
    /\ pc = "calling"
    /\ Received.type = "EXECUTE_SUCCESS"
    /\ caller' = [caller EXCEPT !.args = CopyOutputArgs(caller.sig.argTypes, @, Received.args)]
    /\ Done(0)
    /\ UNCHANGED <<fcnDatabase, database, registered, before, ran>>

CallFails ==
    /\ pc = "calling"
    /\ Received.type = "EXECUTE_FAILURE"
    /\ Done(Received.reasonCode)
    /\ UNCHANGED <<fcnDatabase, database, registered, caller, before, ran>>

Next ==
    \/ \E sig \in Signatures : Register(sig) \/ Call(sig)
    \/ BinderRegisters \/ RegisterReturns
    \/ BinderLocates \/ ClientExecutes \/ ClientGivesUp
    \/ ServerExecutes \/ CallReturns \/ CallFails

Spec == Init /\ [][Next]_vars

-----------------------------------------------------------------------------
(* Properties. *)

\* A message arrives as it was sent, except for arguments that do not go in its direction;
\* the length computed beforehand is that of what is written, which has no more room, and
\* of what is read: assert (index == msgLength) (Message.cpp:167-252, 365-420).
Transmitted(m) ==
    [m EXCEPT !.args = [i \in DOMAIN @ |->
        IF Goes(m.type, m.argTypes[i]) THEN @[i] ELSE Fresh(m.argTypes[i])]]
MessagesSurvive ==
    wire # None =>
        /\ wire.end = wire.length
        /\ CreateFromBytes(wire) = [msg |-> Transmitted(sent), index |-> wire.length]

\* The function that runs is the one registered last for exactly this overload, and a
\* call finds none only if there is none: the order of signatures separates the overloads
\* and nothing else (Database.cpp:35-80, RPCServer.cpp:70, 181-190).
Overload(sig) == {i \in DOMAIN registered : SameOverload(registered[i], sig)}
Returned == pc = "idle" /\ caller # None
RightOverload ==
    Returned => IF result = BINDER_FUNCTION_NOT_FOUND
                THEN Overload(caller.sig) = {}
                ELSE /\ ran.function \in Overload(caller.sig)
                     /\ \A i \in Overload(caller.sig) : i <= ran.function

\* Value-result: the function is given the caller's input arguments, the caller gets what
\* the function left in the output arguments, and a call that fails changes nothing
\* (rpc.cpp:92-131, Message.cpp:134-165, 314-362).
CallByValueResult ==
    Returned =>
        IF result # 0 THEN caller.args = before
        ELSE \A i \in DOMAIN before : LET a == caller.sig.argTypes[i] IN
                 /\ IsInput(a) => ran.given[i] = before[i]
                 /\ caller.args[i] = IF IsOutput(a) THEN ran.left[i] ELSE before[i]
=============================================================================
