---------------------------- MODULE FileTransfer ----------------------------
(***************************************************************************)
(* What the file transfer of CS456/A2 promises, without its network: the   *)
(* output is written chunk by chunk in file order, the sender holds as     *)
(* confirmed only what is written, and until the transfer is closed it     *)
(* makes progress.  Close is not tied to the end of the file: the code may *)
(* close early (see PrematureEot in README.md).                            *)
(***************************************************************************)
EXTENDS Integers, Sequences

CONSTANT NumChunks      \* chunks of the file

VARIABLES
    written,            \* chunks in the output file
    confirmed,          \* how many chunks the sender holds confirmed
    closed              \* the receiver accepted an EOT and quit

vars == <<written, confirmed, closed>>

Init == written = << >> /\ confirmed = 0 /\ closed = FALSE

WriteNext ==
    /\ ~closed
    /\ Len(written) < NumChunks
    /\ written' = Append(written, Len(written))
    /\ UNCHANGED <<confirmed, closed>>

Confirm ==
    /\ confirmed' \in confirmed + 1 .. Len(written)
    /\ UNCHANGED <<written, closed>>

Close == ~closed /\ closed' = TRUE /\ UNCHANGED <<written, confirmed>>

Next == WriteNext \/ Confirm \/ Close

Spec == Init /\ [][Next]_vars

\* Until it is closed the transfer neither stops writing nor confirming.
FairSpec == Spec /\ WF_vars(WriteNext) /\ WF_vars(~closed /\ Confirm)
=============================================================================
