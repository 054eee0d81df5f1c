------------------------------- MODULE GoBackN ------------------------------
(***************************************************************************)
(* The Go-Back-N file transfer of CS456/A2: sender.java (a sending thread, *)
(* a receiving thread and the tasks of a java.util.Timer, all on the       *)
(* monitor "shared"), receiver.java, and the UDP network emulator between  *)
(* them, which drops, delays and (when Reorder) reorders packets.          *)
(*                                                                         *)
(* A synchronized block is one action: no thread sees its middle.  A chunk *)
(* of the file is its index in dataChunks.                                 *)
(***************************************************************************)
EXTENDS SeqArith, Sequences, SequencesExt

CONSTANTS
    NumChunks,      \* dataChunks.size()
    WindowSize,     \* sender.windowSize, 10 in the program
    Reorder,        \* TRUE iff the emulator may deliver out of order
    ChannelCap,     \* packets one direction holds; what overflows is lost
    MaxFired        \* ResendTasks that may wait for the monitor at once

ASSUME SizesAssumption ==
    /\ NumChunks \in Nat \ {0}
    /\ WindowSize \in Nat \ {0}
    /\ ChannelCap \in Nat \ {0}
    /\ MaxFired \in Nat \ {0}
    /\ Reorder \in BOOLEAN

\* What the window may not exceed for the numbers to be unambiguous.
ASSUME WindowAssumption == WindowSize < SeqNumModulo

VARIABLES
    lastConfirmedChunk, \* Shared: highest position the sender holds confirmed
    lastSentChunk,      \* Shared: highest position sent at least once
    timerStarted,       \* Shared: a periodic ResendTask is scheduled
    wasSignalled,       \* Shared: condition of the sending thread's wait()
    firedResends,       \* expired ResendTasks that wait for the monitor
    sendPc,             \* SenderTask.run: "check", "waiting", "room", "done"
    recvPc,             \* ReceivingTask.run: "notify", "receive", "quit"
    expectSeqNum,       \* receiver
    total,              \* receiver: packets accepted; isFirst is total = 0
    receivedEOT,        \* receiver
    written,            \* receiver: the chunks written to the output file
    toReceiver,         \* packets in flight, forward
    toSender            \* packets in flight, backward

shared == <<lastConfirmedChunk, lastSentChunk, timerStarted, wasSignalled, firedResends>>
sender == <<shared, sendPc, recvPc>>
receiver == <<expectSeqNum, total, receivedEOT, written>>
vars == <<sender, receiver, toReceiver, toSender>>

Chunks == 0 .. NumChunks - 1

(***************************************************************************)
(* Packets.  pos is the packet's position before wrapping: for a data      *)
(* packet it stands for the payload dataChunks.get(pos); for ACKs and EOTs *)
(* it is auxiliary, and no guard reads it.                                 *)
(***************************************************************************)
Packet == [type : {"ack", "data", "eot"}, seqnum : SeqNums, pos : Nat]

DataPacket(i) == [type |-> "data", seqnum |-> SeqNum(i), pos |-> i]
EotPacket(i) == [type |-> "eot", seqnum |-> SeqNum(i), pos |-> i]
AckPacket(s, i) == [type |-> "ack", seqnum |-> SeqNum(s), pos |-> i]

\* socket.send through the emulator: packets queue behind those in flight.
Put(channel, packets) ==
    LET all == channel \o packets IN
    SubSeq(all, 1, IF Len(all) < ChannelCap THEN Len(all) ELSE ChannelCap)

\* Indices of the packets the emulator may hand over next.
Deliverable(channel) == IF Reorder THEN DOMAIN channel
                        ELSE {i \in DOMAIN channel : i = 1}

-----------------------------------------------------------------------------
(* Initial state: both programs have just started. *)

Init ==
    /\ lastConfirmedChunk = -1
    /\ lastSentChunk = -1
    /\ timerStarted = FALSE
    /\ wasSignalled = FALSE
    /\ firedResends = 0
    /\ sendPc = "check"
    /\ recvPc = "notify"
    /\ expectSeqNum = 0
    /\ total = 0
    /\ receivedEOT = FALSE
    /\ written = << >>
    /\ toReceiver = << >>
    /\ toSender = << >>

-----------------------------------------------------------------------------
(* The sending thread. *)

DataStillLeft == lastSentChunk + 1 < NumChunks

\* Mutant: the window is one too large.
IsWindowFullLate == lastSentChunk - lastConfirmedChunk > WindowSize

\* lastSentChunk - lastConfirmedChunk >= windowSize
IsWindowFull == lastSentChunk - lastConfirmedChunk >= WindowSize

\* waitForRoom finds room and returns without waiting.
FindRoom ==
    /\ sendPc = "check"
    /\ DataStillLeft
    /\ ~IsWindowFull
    /\ sendPc' = "room"
    /\ UNCHANGED <<shared, recvPc, receiver, toReceiver, toSender>>

\* waitForRoom finds the window full: waitForSignal clears the flag and waits.
WaitForSignal ==
    /\ sendPc = "check"
    /\ DataStillLeft
    /\ IsWindowFull
    /\ wasSignalled' = FALSE
    /\ sendPc' = "waiting"
    /\ UNCHANGED <<lastConfirmedChunk, lastSentChunk, timerStarted, firedResends,
                   recvPc, receiver, toReceiver, toSender>>

\* wait() returns with the flag set; the window is not looked at again.
WakeUp ==
    /\ sendPc = "waiting"
    /\ wasSignalled
    /\ wasSignalled' = FALSE
    /\ sendPc' = "room"
    /\ UNCHANGED <<lastConfirmedChunk, lastSentChunk, timerStarted, firedResends,
                   recvPc, receiver, toReceiver, toSender>>

\* Mutant: a timer that is not running is not started.
SendNextPacketUntimed ==
    /\ sendPc = "room"
    /\ lastSentChunk' = lastSentChunk + 1
    /\ toReceiver' = Put(toReceiver, <<DataPacket(lastSentChunk + 1)>>)
    /\ sendPc' = "check"
    /\ UNCHANGED <<lastConfirmedChunk, timerStarted, wasSignalled, firedResends,
                   recvPc, receiver, toSender>>

\* The second synchronized block of run: sendNextPacket, and the timer.
SendNextPacket ==
    /\ sendPc = "room"
    /\ lastSentChunk' = lastSentChunk + 1
    /\ toReceiver' = Put(toReceiver, <<DataPacket(lastSentChunk + 1)>>)
    /\ timerStarted' = TRUE
    /\ sendPc' = "check"
    /\ UNCHANGED <<lastConfirmedChunk, wasSignalled, firedResends, recvPc, receiver, toSender>>

AllSentOnce ==
    /\ sendPc = "check"
    /\ ~DataStillLeft
    /\ sendPc' = "done"
    /\ UNCHANGED <<shared, recvPc, receiver, toReceiver, toSender>>

SendingThread == FindRoom \/ WaitForSignal \/ WakeUp \/ SendNextPacket \/ AllSentOnce

-----------------------------------------------------------------------------
(* The timer.  Its thread fires first and then waits for the monitor, and  *)
(* Timer.cancel does not stop a task that has already fired.               *)

TimerExpires ==
    /\ timerStarted
    /\ firedResends < MaxFired
    /\ firedResends' = firedResends + 1
    /\ UNCHANGED <<lastConfirmedChunk, lastSentChunk, timerStarted, wasSignalled,
                   sendPc, recvPc, receiver, toReceiver, toSender>>

\* Mutant: ResendTask starts after the first unconfirmed chunk.
UnconfirmedButFirst == [k \in 1 .. (lastSentChunk - lastConfirmedChunk - 1)
                            |-> DataPacket(lastConfirmedChunk + 1 + k)]

\* The data packets ResendTask sends; position dataChunks.size() is never one.
Unconfirmed == [k \in 1 .. (lastSentChunk - lastConfirmedChunk) |-> DataPacket(lastConfirmedChunk + k)]

Resend ==
    /\ firedResends > 0
    /\ firedResends' = firedResends - 1
    /\ toReceiver' = Put(toReceiver, Unconfirmed)
    /\ UNCHANGED <<lastConfirmedChunk, lastSentChunk, timerStarted, wasSignalled,
                   sendPc, recvPc, receiver, toSender>>

-----------------------------------------------------------------------------
(* The receiving thread. *)

\* Mutant: the sending thread is signalled only when half the window is free.
NotifyIfHalfEmpty ==
    /\ recvPc = "notify"
    /\ wasSignalled' = (wasSignalled \/ 2 * (lastSentChunk - lastConfirmedChunk) < WindowSize)
    /\ recvPc' = "receive"
    /\ UNCHANGED <<lastConfirmedChunk, lastSentChunk, timerStarted, firedResends,
                   sendPc, receiver, toReceiver, toSender>>

\* notifyIfRoom, at the top of the loop.
NotifyIfRoom ==
    /\ recvPc = "notify"
    /\ wasSignalled' = (wasSignalled \/ ~IsWindowFull)
    /\ recvPc' = "receive"
    /\ UNCHANGED <<lastConfirmedChunk, lastSentChunk, timerStarted, firedResends,
                   sendPc, receiver, toReceiver, toSender>>

\* An ACK: move lastConfirmedChunk, updateTimer, sendEOT when all is confirmed.
ReceiveAck(i) ==
    LET pkt == toSender[i]
        confirmed == lastConfirmedChunk + AckDistance(pkt.seqnum, lastConfirmedChunk)
        allConfirmed == confirmed = lastSentChunk
    IN  /\ recvPc = "receive"
        /\ pkt.type # "eot"
        /\ lastConfirmedChunk' = confirmed
        /\ timerStarted' = ~allConfirmed
        /\ toReceiver' = IF allConfirmed THEN Put(toReceiver, <<EotPacket(confirmed + 1)>>)
                                         ELSE toReceiver
        /\ toSender' = RemoveAt(toSender, i)
        /\ recvPc' = "notify"
        /\ UNCHANGED <<lastSentChunk, wasSignalled, firedResends, sendPc, receiver>>

\* The ACK of an EOT: stop the timer and leave the loop.
ReceiveEotAck(i) ==
    /\ recvPc = "receive"
    /\ toSender[i].type = "eot"
    /\ timerStarted' = FALSE
    /\ toSender' = RemoveAt(toSender, i)
    /\ recvPc' = "quit"
    /\ UNCHANGED <<lastConfirmedChunk, lastSentChunk, wasSignalled, firedResends,
                   sendPc, receiver, toReceiver>>

ReceivingThread ==
    \/ NotifyIfRoom
    \/ \E i \in Deliverable(toSender) : ReceiveAck(i) \/ ReceiveEotAck(i)

-----------------------------------------------------------------------------
(* The receiver. *)

\* Mutant: data at or beyond the expected number is taken.
AcceptAhead(i) ==
    LET pkt == toReceiver[i]
        isEot == pkt.type = "eot"
    IN  /\ ~receivedEOT
        /\ pkt.seqnum >= expectSeqNum
        /\ receivedEOT' = isEot
        /\ toSender' = Put(toSender, <<IF isEot THEN EotPacket(total)
                                                ELSE AckPacket(pkt.seqnum, total)>>)
        /\ written' = IF isEot THEN written ELSE Append(written, pkt.pos)
        /\ total' = total + 1
        /\ expectSeqNum' = JavaRem(expectSeqNum + 1)
        /\ toReceiver' = RemoveAt(toReceiver, i)
        /\ UNCHANGED sender

\* The expected number: acknowledge, write the data (none for an EOT), advance.
Accept(i) ==
    LET pkt == toReceiver[i]
        isEot == pkt.type = "eot"
    IN  /\ ~receivedEOT
        /\ pkt.seqnum = expectSeqNum
        /\ receivedEOT' = isEot
        /\ toSender' = Put(toSender, <<IF isEot THEN EotPacket(total)
                                                ELSE AckPacket(pkt.seqnum, total)>>)
        /\ written' = IF isEot THEN written ELSE Append(written, pkt.pos)
        /\ total' = total + 1
        /\ expectSeqNum' = JavaRem(expectSeqNum + 1)
        /\ toReceiver' = RemoveAt(toReceiver, i)
        /\ UNCHANGED sender

\* Mutant: the number it expects is acknowledged, not the last one it has.
RejectAcksExpected(i) ==
    /\ ~receivedEOT
    /\ toReceiver[i].seqnum # expectSeqNum
    /\ toSender' = IF total = 0 THEN toSender
                   ELSE Put(toSender, <<AckPacket(expectSeqNum, total - 1)>>)
    /\ toReceiver' = RemoveAt(toReceiver, i)
    /\ UNCHANGED <<sender, receiver>>

\* Any other number: repeat the last ACK, if there was one.
Reject(i) ==
    /\ ~receivedEOT
    /\ toReceiver[i].seqnum # expectSeqNum
    /\ toSender' = IF total = 0 THEN toSender
                   ELSE Put(toSender, <<AckPacket(JavaRem(expectSeqNum - 1), total - 1)>>)
    /\ toReceiver' = RemoveAt(toReceiver, i)
    /\ UNCHANGED <<sender, receiver>>

Receiver == \E i \in Deliverable(toReceiver) : Accept(i) \/ Reject(i)

-----------------------------------------------------------------------------
(* The emulator discards a packet instead of handing it over. *)

LoseForward(i) ==
    /\ toReceiver' = RemoveAt(toReceiver, i)
    /\ UNCHANGED <<sender, receiver, toSender>>

LoseBackward(i) ==
    /\ toSender' = RemoveAt(toSender, i)
    /\ UNCHANGED <<sender, receiver, toReceiver>>

Lose == \/ \E i \in Deliverable(toReceiver) : LoseForward(i)
        \/ \E i \in Deliverable(toSender) : LoseBackward(i)

-----------------------------------------------------------------------------
Next == SendingThread \/ TimerExpires \/ Resend \/ ReceivingThread \/ Receiver \/ Lose

Spec == Init /\ [][Next]_vars

(***************************************************************************)
(* Fairness.  The threads and the timer run.  The emulator discards each   *)
(* packet independently of the others, so what is next infinitely often is *)
(* handed over infinitely often: an expected packet, an unexpected one, an *)
(* ACK that confirms more, one that does not, the ACK of an EOT.           *)
(***************************************************************************)
Fairness ==
    /\ WF_vars(SendingThread)
    /\ WF_vars(NotifyIfRoom)
    /\ WF_vars(TimerExpires)
    /\ WF_vars(Resend)
    /\ SF_vars(\E i \in Deliverable(toReceiver) : Accept(i))
    /\ SF_vars(\E i \in Deliverable(toReceiver) : Reject(i))
    /\ SF_vars(\E i \in Deliverable(toSender) :
                 ReceiveAck(i) /\ lastConfirmedChunk' # lastConfirmedChunk)
    /\ WF_vars(\E i \in Deliverable(toSender) : ReceiveAck(i) \/ ReceiveEotAck(i))

FairSpec == Spec /\ Fairness

-----------------------------------------------------------------------------
(* Properties. *)

\* Types: positions stay inside the file, channels carry packets.
TypeOK ==
    /\ lastConfirmedChunk \in Int /\ lastConfirmedChunk >= -1
    /\ lastSentChunk \in -1 .. NumChunks - 1
    /\ timerStarted \in BOOLEAN
    /\ wasSignalled \in BOOLEAN
    /\ firedResends \in 0 .. MaxFired
    /\ sendPc \in {"check", "waiting", "room", "done"}
    /\ recvPc \in {"notify", "receive", "quit"}
    /\ expectSeqNum \in 0 .. SeqNumModulo - 1
    /\ total \in Nat
    /\ receivedEOT \in BOOLEAN
    /\ written \in Seq(Nat)
    /\ toReceiver \in Seq(Packet)
    /\ toSender \in Seq(Packet)

\* The output file is a prefix of the input: no chunk is skipped, doubled or
\* taken for the one SeqNumModulo positions later (receiver.java:43).
WrittenInOrder ==
    /\ Len(written) <= NumChunks
    /\ \A k \in DOMAIN written : written[k] = k - 1

\* What the sender counts as confirmed, and will never send again, is in the
\* receiver's output (sender.java:229-234).
ConfirmedIsWritten == lastConfirmedChunk < Len(written)

\* The sending thread is never more than a window ahead, although it looks at
\* the window in one synchronized block and sends in the next, and after a
\* wait() does not look again (sender.java:63-109).
WindowRespected == lastSentChunk - lastConfirmedChunk \in 0 .. WindowSize

\* No lost wake-up: while the sending thread waits and there is room, the
\* receiving thread is about to signal it (sender.java:79-89, 195-205).
NoLostWakeUp ==
    sendPc = "waiting" /\ ~wasSignalled /\ ~IsWindowFull => recvPc = "notify"

\* As long as ACKs are awaited, unconfirmed chunks are covered by a running
\* timer, whichever of the two threads touched it last (sender.java:105, 267-277).
TimerCoversUnconfirmed ==
    recvPc # "quit" /\ lastConfirmedChunk < lastSentChunk => timerStarted

\* Why the order of the network is enough.  Forward: numbers are those of the
\* positions, nothing overtakes by a window or more, and nothing is so old that
\* its number could be taken for the expected one.
ForwardPacket(p) ==
    /\ p.type \in {"data", "eot"}
    /\ p.seqnum = p.pos % SeqNumModulo
    /\ p.pos <= (IF p.type = "data" THEN lastSentChunk ELSE lastConfirmedChunk + 1)
    /\ receivedEOT \/ total <= p.pos + WindowSize

ForwardInOrder ==
    /\ \A n \in 1 .. Len(toReceiver) : ForwardPacket(toReceiver[n])
    /\ \A m, n \in 1 .. Len(toReceiver) :
        m < n => toReceiver[m].pos < toReceiver[n].pos + WindowSize

\* Backward: ACKs carry the number of a written position (-1 for the last of a
\* round), come in ascending order and never fall behind the sender's account.
BackwardPacket(p) ==
    \/ /\ p.type = "ack"
       /\ \/ p.seqnum = p.pos % SeqNumModulo
          \/ p.seqnum = -1 /\ p.pos % SeqNumModulo = SeqNumModulo - 1
       /\ lastConfirmedChunk <= p.pos /\ p.pos < Len(written)
    \/ p.type = "eot" /\ receivedEOT

BackwardInOrder ==
    /\ \A n \in 1 .. Len(toSender) : BackwardPacket(toSender[n])
    /\ \A m, n \in 1 .. Len(toSender) :
        m < n => toSender[m].pos <= toSender[n].pos

\* The sending thread keeps the room and the chunk that it found.
RoomIsKept ==
    /\ sendPc \in {"waiting", "room"} => DataStillLeft
    /\ sendPc = "room" \/ (sendPc = "waiting" /\ wasSignalled) => ~IsWindowFull

\* The receiver's counters agree, and what it wrote was sent.
Counted ==
    /\ expectSeqNum = total % SeqNumModulo
    /\ total = Len(written) + (IF receivedEOT THEN 1 ELSE 0)
    /\ Len(written) <= lastSentChunk + 1

\* The inductive invariant of the ordered network.
OrderedInv ==
    /\ WrittenInOrder
    /\ ConfirmedIsWritten
    /\ WindowRespected
    /\ NoLostWakeUp
    /\ TimerCoversUnconfirmed
    /\ ForwardInOrder
    /\ BackwardInOrder
    /\ RoomIsKept
    /\ Counted

\* An ACK moves lastConfirmedChunk to the position it was sent for, or not at
\* all: the modular distance is never off by a wrap (sender.java:232-234).
AckMovesToItsPosition ==
    [][lastConfirmedChunk' # lastConfirmedChunk =>
        /\ lastConfirmedChunk' > lastConfirmedChunk
        /\ \E i \in DOMAIN toSender : toSender[i].pos = lastConfirmedChunk']_vars

\* The protocol implements the abstract transfer (see FileTransfer).
Transfer == INSTANCE FileTransfer
              WITH confirmed <- lastConfirmedChunk + 1, closed <- receivedEOT
ImplementsTransfer == Transfer!FairSpec

\* sender.java:91, "Sends all packets once and then EOT": the receiver accepts
\* an EOT only as the end of the whole file.
EotEndsTheFile == receivedEOT => Len(written) = NumChunks

\* The EOT, or the ACK that answers it, was lost: neither is under way any more.
EotIsGone ==
    LET Eot(p) == p.type = "eot"
    IN  /\ receivedEOT \/ (lastConfirmedChunk = NumChunks - 1 /\ SelectSeq(toReceiver, Eot) = << >>)
        /\ SelectSeq(toSender, Eot) = << >>

\* The transfer ends, whatever data and ACKs get lost, but for one packet that nobody
\* repeats: updateTimer has stopped the timer before the EOT goes out, and ResendTask does
\* not reach its EOT branch (sender.java:159-165, 269-272; Notes.txt:7 asks for it).
TransferEnds == <>(recvPc = "quit" \/ EotIsGone)
=============================================================================
