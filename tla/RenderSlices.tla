---------------------------- MODULE RenderSlices ----------------------------
(***************************************************************************)
(* How the ray tracer of CS488/A4 (handin/src/renderer.cpp) divides an     *)
(* image among threads: vertical slices, which the threads take from a     *)
(* shared atomic counter until none is left.  Painting a pixel is one      *)
(* step: no two threads are meant to paint the same one.                   *)
(***************************************************************************)
EXTENDS Integers, FiniteSets

CONSTANTS
    Threads,        \* NUM_THREADS of them
    totalSlices,    \* 8 * NUM_THREADS in the program
    width, height   \* mCamera

ASSUME ThreadsAssumption == IsFiniteSet(Threads) /\ Threads # {}
ASSUME SlicesAssumption == totalSlices \in Nat \ {0}
ASSUME SizeAssumption == width \in Nat /\ height \in Nat

VARIABLES
    currentSlice,   \* atomic: the next slice to take
    pixelCounter,   \* atomic: pixels painted, for the loading bar
    img,            \* the pixels painted
    repainted,      \* auxiliary: a pixel was painted that had been painted before
    slice, x, y,    \* locals of each thread
    pc,             \* of each thread: "take", "row", "paint", "count", "show" or "done"
    full,           \* auxiliary: the loading bar has shown 100%
    saved           \* savePng

vars == <<currentSlice, pixelCounter, img, repainted, slice, x, y, pc, full, saved>>

Pixels == (0 .. width - 1) \X (0 .. height - 1)

sliceWidth == width \div totalSlices

\* The columns of slice s: from Start(s) to just before End(s).
Start(s) == s * sliceWidth

\* The last slice also has the columns that are left over.
End(s) == Start(s) + sliceWidth + (IF s = totalSlices - 1 THEN width % totalSlices ELSE 0)

Init ==
    /\ currentSlice = 0
    /\ pixelCounter = 0
    /\ img = {}
    /\ repainted = FALSE
    /\ slice = [t \in Threads |-> 0]
    /\ x = [t \in Threads |-> 0]
    /\ y = [t \in Threads |-> 0]
    /\ pc = [t \in Threads |-> "take"]
    /\ full = FALSE
    /\ saved = FALSE

\* Mutant: currentSlice is no atomic, and an increment may be lost.
TakeSliceUnlocked(t) ==
    /\ pc[t] = "take"
    /\ slice' = [slice EXCEPT ![t] = currentSlice]
    /\ currentSlice' \in {currentSlice, currentSlice + 1}
    /\ y' = [y EXCEPT ![t] = 0]
    /\ pc' = [pc EXCEPT ![t] = IF currentSlice < totalSlices THEN "row" ELSE "done"]
    /\ UNCHANGED <<pixelCounter, img, repainted, x, full, saved>>

\* slice = currentSlice++, one atomic step; with a slice, renderSlice begins.
TakeSlice(t) ==
    /\ pc[t] = "take"
    /\ slice' = [slice EXCEPT ![t] = currentSlice]
    /\ currentSlice' = currentSlice + 1
    /\ y' = [y EXCEPT ![t] = 0]
    /\ pc' = [pc EXCEPT ![t] = IF currentSlice < totalSlices THEN "row" ELSE "done"]
    /\ UNCHANGED <<pixelCounter, img, repainted, x, full, saved>>

\* The head of the loop over rows.
NextRow(t) ==
    /\ pc[t] = "row"
    /\ x' = [x EXCEPT ![t] = Start(slice[t])]
    /\ pc' = [pc EXCEPT ![t] = IF y[t] < height THEN "paint" ELSE "take"]
    /\ UNCHANGED <<currentSlice, pixelCounter, img, repainted, slice, y, full, saved>>

\* The head of the loop over the columns of a row, and setColour.
Paint(t) ==
    /\ pc[t] = "paint"
    /\ x[t] < End(slice[t])
    /\ img' = img \union {<<x[t], y[t]>>}
    /\ repainted' = (repainted \/ <<x[t], y[t]>> \in img)
    /\ pc' = [pc EXCEPT ![t] = "count"]
    /\ UNCHANGED <<currentSlice, pixelCounter, slice, x, y, full, saved>>

EndRow(t) ==
    /\ pc[t] = "paint"
    /\ x[t] >= End(slice[t])
    /\ y' = [y EXCEPT ![t] = @ + 1]
    /\ pc' = [pc EXCEPT ![t] = "row"]
    /\ UNCHANGED <<currentSlice, pixelCounter, img, repainted, slice, x, full, saved>>

\* Mutant: pixelCounter is no atomic, and an increment may be lost.
CountUnlocked(t) ==
    /\ pc[t] = "count"
    /\ pixelCounter' \in {pixelCounter, pixelCounter + 1}
    /\ pc' = [pc EXCEPT ![t] = "show"]
    /\ UNCHANGED <<currentSlice, img, repainted, slice, x, y, full, saved>>

\* pixelCounter++
Count(t) ==
    /\ pc[t] = "count"
    /\ pixelCounter' = pixelCounter + 1
    /\ pc' = [pc EXCEPT ![t] = "show"]
    /\ UNCHANGED <<currentSlice, img, repainted, slice, x, y, full, saved>>

\* loadbar is given the value that the counter has by now.
Show(t) ==
    /\ pc[t] = "show"
    /\ full' = (full \/ pixelCounter = width * height)
    /\ x' = [x EXCEPT ![t] = @ + 1]
    /\ pc' = [pc EXCEPT ![t] = "paint"]
    /\ UNCHANGED <<currentSlice, pixelCounter, img, repainted, slice, y, saved>>

RenderSlicesThread(t) ==
    TakeSlice(t) \/ NextRow(t) \/ Paint(t) \/ EndRow(t) \/ Count(t) \/ Show(t)

\* renderImage joins the threads and saves the image.
SavePng ==
    /\ ~saved
    /\ \A t \in Threads : pc[t] = "done"
    /\ saved' = TRUE
    /\ UNCHANGED <<currentSlice, pixelCounter, img, repainted, slice, x, y, pc, full>>

Next == (\E t \in Threads : RenderSlicesThread(t)) \/ SavePng

Spec == Init /\ [][Next]_vars

\* The threads run, and so does the one that waits for them.
FairSpec == Spec /\ WF_vars(SavePng) /\ \A t \in Threads : WF_vars(RenderSlicesThread(t))

-----------------------------------------------------------------------------
(* Properties. *)

\* Types of the variables; a thread stays inside the image (renderer.cpp:70-92).
TypeOK ==
    /\ currentSlice \in Nat
    /\ pixelCounter \in Nat
    /\ img \subseteq Pixels
    /\ repainted \in BOOLEAN
    /\ slice \in [Threads -> Nat]
    /\ x \in [Threads -> 0 .. width]
    /\ y \in [Threads -> 0 .. height]
    /\ pc \in [Threads -> {"take", "row", "paint", "count", "show", "done"}]
    /\ full \in BOOLEAN
    /\ saved \in BOOLEAN

\* No pixel is painted twice, whoever takes which slice (renderer.cpp:55-77).
NothingRepainted == ~repainted

\* The image that is saved is complete, for every width, also one that the slices do not
\* divide or that is smaller than their number (renderer.cpp:44-51, 70-77).
SavedIsComplete == saved => img = Pixels

\* The loading bar has got to 100% when the image is saved, although a thread reads the
\* counter after others have incremented it (renderer.cpp:95-96).
BarIsFull == saved /\ Pixels # {} => full

\* The threads together render a picture, and finish it.
Abstract == INSTANCE Picture WITH painted <- img
ImplementsPicture == Abstract!FairSpec
=============================================================================
