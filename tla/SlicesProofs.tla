---------------------------- MODULE SlicesProofs ----------------------------
(***************************************************************************)
(* For every width and height, every number of slices and any threads: no  *)
(* pixel is painted twice, the image that is saved is complete, and the    *)
(* loading bar is full by then.                                            *)
(***************************************************************************)
EXTENDS RenderSlices, FiniteSetTheorems, TLAPS

-----------------------------------------------------------------------------
(* The slices are a partition of the columns. *)

SliceNumbers == 0 .. totalSlices - 1

In(s, c) == Start(s) <= c /\ c < End(s)

\* The width is made of the slices and the rest, and a product has the sign of its factors.
LEMMA Widths ==
    /\ totalSlices \in Nat \ {0} /\ width \in Nat /\ height \in Nat
    /\ sliceWidth \in Nat
    /\ width % totalSlices \in Nat
    /\ width = totalSlices * sliceWidth + (width % totalSlices)
BY SlicesAssumption, SizeAssumption DEF sliceWidth

LEMMA Multiples ==
    ASSUME NEW w \in Nat, NEW s \in Nat, NEW u \in Nat, s < u
    PROVE  /\ s * w \in Nat /\ u * w \in Nat
           /\ s * w + w <= u * w
<1> DEFINE d == u - s - 1
<1>1. d \in Nat
  OBVIOUS
<1>2. d * w \in Nat
  BY <1>1
<1>3. u * w = (s + 1 + d) * w
  BY <1>1
<1>4. (s + 1 + d) * w = s * w + w + d * w
  BY <1>1
<1>5. s * w \in Nat /\ u * w \in Nat
  OBVIOUS
<1> HIDE DEF d
<1> QED BY <1>2, <1>3, <1>4, <1>5

LEMMA SliceBounds ==
    ASSUME NEW s \in SliceNumbers
    PROVE  /\ Start(s) \in 0 .. width /\ End(s) \in 0 .. width
           /\ Start(s) <= End(s)
           /\ s = totalSlices - 1 => End(s) = width
<1> DEFINE w == sliceWidth
           rest == width % totalSlices
<1>1. /\ w \in Nat /\ rest \in Nat /\ totalSlices \in Nat \ {0} /\ width \in Nat
      /\ width = totalSlices * w + rest
  BY Widths
<1>2. s \in Nat /\ s < totalSlices
  BY <1>1 DEF SliceNumbers
<1>3. /\ Start(s) = s * w
      /\ End(s) = s * w + w + (IF s = totalSlices - 1 THEN rest ELSE 0)
  BY DEF Start, End
<1> HIDE DEF w, rest
<1>4. s * w \in Nat /\ totalSlices * w \in Nat /\ s * w + w <= totalSlices * w
  BY <1>1, <1>2, Multiples
<1>5. s = totalSlices - 1 => s * w + w = totalSlices * w
  BY <1>1, <1>2
<1>6. CASE s = totalSlices - 1
  BY <1>1, <1>3, <1>4, <1>5, <1>6
<1>7. CASE s # totalSlices - 1
  BY <1>1, <1>3, <1>4, <1>7
<1> QED BY <1>6, <1>7

LEMMA SlicesApart ==
    ASSUME NEW s \in SliceNumbers, NEW u \in SliceNumbers, NEW c \in Int, In(s, c), In(u, c)
    PROVE  s = u
<1>1. ASSUME NEW a \in SliceNumbers, NEW b \in SliceNumbers, a < b
      PROVE  End(a) <= Start(b)
  <2>1. sliceWidth \in Nat /\ totalSlices \in Nat
    BY Widths
  <2>2. a \in Nat /\ b \in Nat /\ a # totalSlices - 1
    BY <1>1, <2>1 DEF SliceNumbers
  <2>3. a * sliceWidth + sliceWidth <= b * sliceWidth /\ a * sliceWidth \in Nat
    BY <1>1, <2>1, <2>2, Multiples
  <2> QED BY <2>1, <2>2, <2>3 DEF Start, End
<1>2. /\ Start(s) \in Int /\ End(s) \in Int /\ Start(u) \in Int /\ End(u) \in Int
      /\ s \in Int /\ u \in Int
  BY SliceBounds, Widths DEF SliceNumbers
<1>3. ~(End(s) <= Start(u)) /\ ~(End(u) <= Start(s))
  BY <1>2 DEF In
<1>4. ~(s < u) /\ ~(u < s)
  BY <1>1, <1>3
<1> QED BY <1>2, <1>4

LEMMA SlicesCover ==
    ASSUME NEW c \in 0 .. width - 1
    PROVE  \E s \in SliceNumbers : In(s, c)
<1> DEFINE w == sliceWidth
           last == totalSlices - 1
<1>1. /\ w \in Nat /\ totalSlices \in Nat \ {0} /\ width \in Nat /\ c \in Nat /\ c < width
  BY Widths
<1>2. last \in SliceNumbers /\ End(last) = width /\ Start(last) = last * w
  <2>1. last \in SliceNumbers
    BY <1>1 DEF SliceNumbers
  <2> QED BY <2>1, SliceBounds DEF Start
<1>3. CASE last * w <= c
  BY <1>1, <1>2, <1>3 DEF In
<1>4. CASE ~(last * w <= c)
  <2>1. last \in Nat /\ last * w \in Nat
    BY <1>1
  <2>2. w # 0
    <3>1. last * 0 = 0
      BY <2>1
    <3> QED BY <1>1, <1>4, <3>1
  <2> DEFINE s == c \div w
  <2>3. s \in Int /\ c % w \in 0 .. w - 1 /\ c = s * w + (c % w)
    BY <1>1, <2>2
  <2>4. s \in Nat
    BY <1>1, <2>2
  <2> HIDE DEF s, last, w
  <2>5. s * w \in Nat /\ s * w <= c /\ c < s * w + w
    BY <1>1, <2>3, <2>4
  <2>6. s < last
    <3>1. ASSUME last < s PROVE FALSE
      <4>1. last * w + w <= s * w
        BY <1>1, <2>1, <2>4, <3>1, Multiples
      <4> QED BY <1>1, <1>4, <2>1, <2>5, <4>1
    <3>2. s # last
      BY <1>1, <1>4, <2>1, <2>5
    <3> QED BY <2>1, <2>4, <3>1, <3>2
  <2>7. s \in SliceNumbers /\ s # totalSlices - 1
    BY <1>1, <2>1, <2>4, <2>6 DEF SliceNumbers, last
  <2>8. Start(s) = s * w /\ End(s) = s * w + w
    BY <1>1, <2>5, <2>7 DEF Start, End, w
  <2> QED BY <2>5, <2>7, <2>8 DEF In
<1> QED BY <1>3, <1>4

-----------------------------------------------------------------------------
(* The invariant. *)

Working(t) == pc[t] \in {"row", "paint", "count", "show"}

\* Where a thread is, of its slice and of the counter.
Placed(t) ==
    /\ Working(t) => slice[t] \in SliceNumbers /\ slice[t] < currentSlice
    /\ pc[t] \in {"paint", "count", "show"} => y[t] < height /\ Start(slice[t]) <= x[t]
    /\ pc[t] = "paint" => x[t] <= End(slice[t])
    /\ pc[t] \in {"count", "show"} => x[t] < End(slice[t])
    /\ pc[t] = "done" => totalSlices <= currentSlice

\* No two threads work on one slice.
Separate ==
    \A t, u \in Threads : Working(t) /\ Working(u) /\ slice[t] = slice[u] => t = u

\* What a thread has painted of its slice.
Behind(t, p) ==
    \/ p[2] < y[t]
    \/ /\ p[2] = y[t]
       /\ \/ pc[t] \in {"paint", "count", "show"} /\ p[1] < x[t]
          \/ pc[t] \in {"count", "show"} /\ p[1] = x[t]

\* What is painted of a slice: all if it was taken, but what its thread has still to do.
Due(s, p) ==
    /\ s < currentSlice
    /\ \A t \in Threads : Working(t) /\ slice[t] = s => Behind(t, p)

Painted ==
    \A s \in SliceNumbers : \A p \in Pixels : In(s, p[1]) => (p \in img <=> Due(s, p))

IInv ==
    /\ TypeOK
    /\ \A t \in Threads : Placed(t)
    /\ Separate
    /\ Painted
    /\ NothingRepainted
    /\ SavedIsComplete

-----------------------------------------------------------------------------
(* Steps. *)

LEMMA Started == Init => IInv
<1> SUFFICES ASSUME Init PROVE IInv
  OBVIOUS
<1>1. TypeOK
  <2>1. 0 \in 0 .. width /\ 0 \in 0 .. height
    BY SizeAssumption
  <2> QED BY <2>1 DEF Init, TypeOK
<1>2. \A t \in Threads : ~Working(t) /\ pc[t] = "take"
  BY DEF Init, Working
<1>3. \A s \in SliceNumbers : ~(s < currentSlice)
  BY Widths DEF Init, SliceNumbers
<1>4. Painted
  BY <1>3 DEF Init, Painted, Due
<1> QED BY <1>1, <1>2, <1>4 DEF Init, IInv, Placed, Separate, NothingRepainted, SavedIsComplete

\* The facts about numbers that every step needs.
LEMMA Places ==
    ASSUME IInv, NEW t \in Threads
    PROVE  /\ currentSlice \in Nat /\ slice[t] \in Nat /\ x[t] \in Nat /\ y[t] \in Nat
           /\ x[t] <= width /\ y[t] <= height
           /\ totalSlices \in Nat /\ width \in Nat /\ height \in Nat
           /\ Placed(t)
BY Widths DEF IInv, TypeOK

LEMMA Pixel ==
    ASSUME NEW p \in Pixels
    PROVE  /\ p = <<p[1], p[2]>> /\ p[1] \in 0 .. width - 1 /\ p[2] \in 0 .. height - 1
           /\ p[1] \in Nat /\ p[2] \in Nat
<1>1. p[1] \in 0 .. width - 1 /\ p[2] \in 0 .. height - 1 /\ p = <<p[1], p[2]>>
  BY DEF Pixels
<1>2. p[1] \in Nat /\ p[2] \in Nat
  BY <1>1, Widths
<1> QED BY <1>1, <1>2

\* A thread that a step leaves alone.
Alone(u) == /\ pc'[u] = pc[u] /\ slice'[u] = slice[u]
            /\ x'[u] = x[u] /\ y'[u] = y[u]

LEMMA OneThreadSteps ==
    ASSUME IInv, NEW t \in Threads, RenderSlicesThread(t)
    PROVE  \A u \in Threads : u # t => Alone(u)
BY DEF IInv, TypeOK, RenderSlicesThread, TakeSlice, NextRow, Paint, EndRow, Count, Show, Alone

LEMMA AloneKept ==
    ASSUME NEW u \in Threads, Alone(u)
    PROVE  /\ Working(u)' <=> Working(u)
           /\ \A p : Behind(u, p)' <=> Behind(u, p)
BY DEF Alone, Working, Behind

LEMMA AloneStaysPlaced ==
    ASSUME IInv, NEW u \in Threads, Alone(u), currentSlice' \in {currentSlice, currentSlice + 1}
    PROVE  Placed(u)'
<1>1. Placed(u) /\ currentSlice \in Nat /\ slice[u] \in Nat /\ totalSlices \in Nat
  BY Places
<1>2. ASSUME Working(u) PROVE slice'[u] \in SliceNumbers /\ slice'[u] < currentSlice'
  BY <1>1, <1>2 DEF Placed, Alone
<1>3. totalSlices <= currentSlice => totalSlices <= currentSlice'
  BY <1>1
<1>4. Working(u)' <=> Working(u)
  BY AloneKept
<1> QED BY <1>1, <1>2, <1>3, <1>4 DEF Placed, Alone

\* A thread that works on the slice it had, or no longer works, disturbs nobody.
LEMMA StaySeparate ==
    ASSUME IInv, NEW t \in Threads, \A u \in Threads : u # t => Alone(u),
           Working(t)' => Working(t) /\ slice'[t] = slice[t]
    PROVE  Separate'
<1> SUFFICES ASSUME NEW u \in Threads, NEW v \in Threads,
                    Working(u)', Working(v)', slice'[u] = slice'[v]
             PROVE  u = v
  BY DEF Separate
<1>1. Working(u) /\ slice'[u] = slice[u]
  BY AloneKept DEF Alone
<1>2. Working(v) /\ slice'[v] = slice[v]
  BY AloneKept DEF Alone
<1> QED BY <1>1, <1>2 DEF IInv, Separate

\* What is due of a slice changes only with what its thread has done.
LEMMA DueKept ==
    ASSUME NEW t \in Threads, \A u \in Threads : u # t => Alone(u),
           NEW s, NEW p, s < currentSlice' <=> s < currentSlice,
           (Working(t)' /\ slice'[t] = s => Behind(t, p)')
               <=> (Working(t) /\ slice[t] = s => Behind(t, p))
    PROVE  Due(s, p)' <=> Due(s, p)
<1>1. \A u \in Threads : (Working(u)' /\ slice'[u] = s => Behind(u, p)')
                           <=> (Working(u) /\ slice[u] = s => Behind(u, p))
  BY AloneKept DEF Alone
<1> QED BY <1>1 DEF Due

LEMMA TakeSliceStep == ASSUME IInv, NEW t \in Threads, TakeSlice(t) PROVE IInv'
<1>1. \A u \in Threads : u # t => Alone(u)
  BY OneThreadSteps DEF RenderSlicesThread
<1>2. /\ currentSlice \in Nat /\ totalSlices \in Nat /\ currentSlice' = currentSlice + 1
      /\ slice'[t] = currentSlice /\ y'[t] = 0 /\ ~Working(t)
      /\ pc'[t] = IF currentSlice < totalSlices THEN "row" ELSE "done"
      /\ UNCHANGED <<img, repainted, saved>>
  BY Places DEF IInv, TypeOK, TakeSlice, Working
<1>3. TypeOK'
  BY Widths DEF IInv, TypeOK, TakeSlice
<1>4. ASSUME NEW u \in Threads PROVE Placed(u)'
  <2>1. CASE u # t
    BY <1>1, <1>2, <2>1, AloneStaysPlaced
  <2>2. CASE u = t
    BY <1>2, <2>2 DEF Placed, Working, SliceNumbers
  <2> QED BY <2>1, <2>2
<1>5. \A u \in Threads : Working(u) => slice[u] < currentSlice /\ slice[u] \in Nat
  BY Places DEF Placed
<1>6. Separate'
  <2> SUFFICES ASSUME NEW u \in Threads, NEW v \in Threads,
                      Working(u)', Working(v)', slice'[u] = slice'[v], u # v
               PROVE  FALSE
    BY DEF Separate
  <2>1. ASSUME NEW a \in Threads, a # t, Working(a)'
        PROVE  slice'[a] = slice[a] /\ Working(a) /\ slice'[a] # currentSlice
    BY <1>1, <1>2, <1>5, <2>1, AloneKept DEF Alone
  <2>2. CASE u # t /\ v # t
    BY <2>1, <2>2 DEF IInv, Separate
  <2>3. CASE u = t \/ v = t
    BY <1>2, <2>1, <2>3
  <2> QED BY <2>2, <2>3
<1>7. Painted'
  <2> SUFFICES ASSUME NEW s \in SliceNumbers, NEW p \in Pixels, In(s, p[1])
               PROVE  p \in img <=> Due(s, p)'
    BY <1>2 DEF Painted
  <2>1. p \in img <=> Due(s, p)
    BY DEF IInv, Painted
  <2>2. s \in Nat /\ s < totalSlices /\ p[2] \in Nat
    BY <1>2, Pixel DEF SliceNumbers
  <2>3. CASE s = currentSlice
    <3>1. ~Due(s, p)
      BY <1>2, <2>3 DEF Due
    <3>2. Working(t)' /\ slice'[t] = s /\ ~Behind(t, p)'
      BY <1>2, <2>2, <2>3 DEF Working, Behind
    <3>3. ~Due(s, p)'
      BY <3>2 DEF Due
    <3> QED BY <2>1, <3>1, <3>3
  <2>4. CASE s # currentSlice
    <3>1. s < currentSlice' <=> s < currentSlice
      BY <1>2, <2>2, <2>4
    <3> QED BY <1>1, <1>2, <2>1, <2>4, <3>1, DueKept
  <2> QED BY <2>3, <2>4
<1>8. NothingRepainted' /\ SavedIsComplete'
  BY <1>2 DEF IInv, NothingRepainted, SavedIsComplete
<1> QED BY <1>3, <1>4, <1>6, <1>7, <1>8 DEF IInv

\* The steps of a thread inside its slice that paint nothing.
LEMMA QuietStep ==
    ASSUME IInv, NEW t \in Threads, RenderSlicesThread(t), TypeOK', Placed(t)',
           UNCHANGED <<currentSlice, img, repainted, saved>>, slice'[t] = slice[t],
           Working(t), Working(t)' \/ pc'[t] = "take",
           \A p \in Pixels : In(slice[t], p[1]) =>
               ((Working(t)' => Behind(t, p)') <=> Behind(t, p))
    PROVE  IInv'
<1>1. \A u \in Threads : u # t => Alone(u)
  BY OneThreadSteps
<1>2. \A u \in Threads : Placed(u)'
  BY <1>1, AloneStaysPlaced
<1>3. Separate'
  BY <1>1, StaySeparate
<1>4. Painted'
  <2> SUFFICES ASSUME NEW s \in SliceNumbers, NEW p \in Pixels, In(s, p[1])
               PROVE  p \in img <=> Due(s, p)'
    BY DEF Painted
  <2>1. p \in img <=> Due(s, p)
    BY DEF IInv, Painted
  <2>2. (Working(t)' /\ slice'[t] = s => Behind(t, p)')
            <=> (Working(t) /\ slice[t] = s => Behind(t, p))
    OBVIOUS
  <2>3. Due(s, p)' <=> Due(s, p)
    BY <1>1, <2>2, DueKept
  <2> QED BY <2>1, <2>3
<1> QED BY <1>2, <1>3, <1>4 DEF IInv, NothingRepainted, SavedIsComplete

LEMMA NextRowStep == ASSUME IInv, NEW t \in Threads, NextRow(t) PROVE IInv'
<1>1. /\ pc[t] = "row" /\ Working(t) /\ slice[t] \in SliceNumbers /\ slice[t] < currentSlice
      /\ y[t] \in Nat /\ y[t] <= height /\ height \in Nat
  BY Places DEF NextRow, Placed, Working
<1>2. /\ x'[t] = Start(slice[t]) /\ y'[t] = y[t] /\ slice'[t] = slice[t]
      /\ pc'[t] = IF y[t] < height THEN "paint" ELSE "take"
      /\ UNCHANGED <<currentSlice, img, repainted, saved>>
  BY DEF IInv, TypeOK, NextRow
<1>3. Start(slice[t]) \in 0 .. width /\ Start(slice[t]) <= End(slice[t])
  BY <1>1, SliceBounds
<1>4. TypeOK'
  BY <1>3 DEF IInv, TypeOK, NextRow
<1>5. Placed(t)'
  BY <1>1, <1>2, <1>3, Widths DEF Placed, Working
<1>6. ASSUME NEW p \in Pixels, In(slice[t], p[1])
      PROVE  (Working(t)' => Behind(t, p)') <=> Behind(t, p)
  <2>1. p[1] \in Nat /\ p[2] \in Nat /\ p[2] < height
    BY Pixel, Widths
  <2>2. ~(p[1] < Start(slice[t]))
    BY <1>3, <1>6, <2>1, Widths DEF In
  <2>3. CASE y[t] < height
    BY <1>1, <1>2, <2>1, <2>2, <2>3 DEF Working, Behind
  <2>4. CASE ~(y[t] < height)
    <3>1. p[2] < y[t]
      BY <1>1, <2>1, <2>4
    <3> QED BY <1>2, <2>4, <3>1 DEF Working, Behind
  <2> QED BY <2>3, <2>4
<1>7. Working(t)' \/ pc'[t] = "take"
  BY <1>2 DEF Working
<1> QED BY <1>1, <1>2, <1>4, <1>5, <1>6, <1>7, QuietStep DEF RenderSlicesThread

LEMMA EndRowStep == ASSUME IInv, NEW t \in Threads, EndRow(t) PROVE IInv'
<1>1. /\ pc[t] = "paint" /\ Working(t) /\ slice[t] \in SliceNumbers /\ slice[t] < currentSlice
      /\ y[t] \in Nat /\ y[t] < height /\ height \in Nat /\ x[t] \in Nat
      /\ x[t] >= End(slice[t])
  BY Places DEF EndRow, Placed, Working
<1>2. /\ x'[t] = x[t] /\ y'[t] = y[t] + 1 /\ slice'[t] = slice[t] /\ pc'[t] = "row"
      /\ UNCHANGED <<currentSlice, img, repainted, saved>>
  BY DEF IInv, TypeOK, EndRow
<1>3. TypeOK'
  <2>1. y[t] + 1 \in 0 .. height
    BY <1>1
  <2> QED BY <2>1 DEF IInv, TypeOK, EndRow
<1>4. Placed(t)' /\ Working(t)'
  BY <1>1, <1>2 DEF Placed, Working
<1>5. ASSUME NEW p \in Pixels, In(slice[t], p[1])
      PROVE  (Working(t)' => Behind(t, p)') <=> Behind(t, p)
  <2>1. p[1] \in Nat /\ p[2] \in Nat
    BY Pixel
  <2>2. p[1] < x[t]
    BY <1>1, <1>5, <2>1, SliceBounds, Widths DEF In
  <2>3. Behind(t, p) <=> p[2] < y[t] \/ p[2] = y[t]
    BY <1>1, <2>2 DEF Behind
  <2>4. Behind(t, p)' <=> p[2] < y[t] + 1
    BY <1>2 DEF Behind
  <2> QED BY <1>1, <1>4, <2>1, <2>3, <2>4
<1> QED BY <1>1, <1>2, <1>3, <1>4, <1>5, QuietStep DEF RenderSlicesThread

LEMMA CountStep == ASSUME IInv, NEW t \in Threads, Count(t) PROVE IInv'
<1>1. pc[t] = "count" /\ Working(t) /\ Placed(t)
  BY Places DEF Count, Working
<1>2. /\ x'[t] = x[t] /\ y'[t] = y[t] /\ slice'[t] = slice[t] /\ pc'[t] = "show"
      /\ UNCHANGED <<currentSlice, img, repainted, saved>>
  BY DEF IInv, TypeOK, Count
<1>3. TypeOK'
  BY DEF IInv, TypeOK, Count
<1>4. Placed(t)' /\ Working(t)'
  BY <1>1, <1>2 DEF Placed, Working
<1>5. ASSUME NEW p \in Pixels PROVE Behind(t, p)' <=> Behind(t, p)
  BY <1>1, <1>2 DEF Behind
<1> QED BY <1>1, <1>2, <1>3, <1>4, <1>5, QuietStep DEF RenderSlicesThread

LEMMA ShowStep == ASSUME IInv, NEW t \in Threads, Show(t) PROVE IInv'
<1>1. /\ pc[t] = "show" /\ Working(t) /\ Placed(t) /\ slice[t] \in SliceNumbers
      /\ x[t] \in Nat /\ x[t] < End(slice[t]) /\ Start(slice[t]) <= x[t]
      /\ width \in Nat
  BY Places DEF Show, Working, Placed
<1>2. /\ x'[t] = x[t] + 1 /\ y'[t] = y[t] /\ slice'[t] = slice[t] /\ pc'[t] = "paint"
      /\ UNCHANGED <<currentSlice, img, repainted, saved>>
  BY DEF IInv, TypeOK, Show
<1>3. /\ Start(slice[t]) \in Nat /\ End(slice[t]) \in Nat /\ End(slice[t]) <= width
      /\ x[t] + 1 \in 0 .. width
  BY <1>1, SliceBounds
<1>4. TypeOK'
  BY <1>3 DEF IInv, TypeOK, Show
<1>5. Placed(t)' /\ Working(t)'
  <2>1. Start(slice[t]) <= x[t] + 1 /\ x[t] + 1 <= End(slice[t])
    BY <1>1, <1>3
  <2> QED BY <1>1, <1>2, <2>1 DEF Placed, Working
<1>6. ASSUME NEW p \in Pixels PROVE Behind(t, p)' <=> Behind(t, p)
  <2>1. p[1] \in Nat
    BY Pixel
  <2>2. p[1] < x[t] + 1 <=> p[1] < x[t] \/ p[1] = x[t]
    BY <1>1, <2>1
  <2> QED BY <1>1, <1>2, <2>2 DEF Behind
<1> QED BY <1>1, <1>2, <1>4, <1>5, <1>6, QuietStep DEF RenderSlicesThread

\* The pixel that is painted is one of its own slice only, which no other thread works on.
LEMMA PaintStep ==
    ASSUME IInv, NEW t \in Threads, Paint(t)
    PROVE  /\ IInv'
           /\ <<x[t], y[t]>> \in Pixels
           /\ <<x[t], y[t]>> \notin img
<1> DEFINE here == <<x[t], y[t]>>
<1>1. /\ pc[t] = "paint" /\ Working(t) /\ slice[t] \in SliceNumbers /\ slice[t] < currentSlice
      /\ x[t] \in Nat /\ x[t] < End(slice[t]) /\ Start(slice[t]) <= x[t]
      /\ y[t] \in Nat /\ y[t] < height /\ width \in Nat /\ height \in Nat
  BY Places DEF Paint, Working, Placed
<1>2. /\ x'[t] = x[t] /\ y'[t] = y[t] /\ slice'[t] = slice[t] /\ pc'[t] = "count"
      /\ UNCHANGED <<currentSlice, saved>>
      /\ img' = img \union {here} /\ repainted' = (repainted \/ here \in img)
  BY DEF IInv, TypeOK, Paint
<1>3. \A u \in Threads : u # t => Alone(u)
  BY OneThreadSteps DEF RenderSlicesThread
<1>4. /\ here \in Pixels /\ here[1] = x[t] /\ here[2] = y[t] /\ In(slice[t], here[1])
  <2>1. End(slice[t]) \in 0 .. width
    BY <1>1, SliceBounds
  <2>2. x[t] \in 0 .. width - 1 /\ y[t] \in 0 .. height - 1
    BY <1>1, <2>1
  <2> QED BY <1>1, <2>2 DEF Pixels, In
<1> HIDE DEF here
<1>5. ~Behind(t, here)
  BY <1>1, <1>4 DEF Behind
<1>6. here \notin img
  <2>1. here \in img <=> Due(slice[t], here)
    BY <1>1, <1>4 DEF IInv, Painted
  <2> QED BY <1>1, <1>5, <2>1 DEF Due
<1>7. TypeOK'
  BY <1>2, <1>4 DEF IInv, TypeOK, Paint
<1>8. ASSUME NEW u \in Threads PROVE Placed(u)'
  <2>1. CASE u # t
    BY <1>2, <1>3, <2>1, AloneStaysPlaced
  <2>2. CASE u = t
    BY <1>1, <1>2, <2>2 DEF Placed, Working
  <2> QED BY <2>1, <2>2
<1>9. Separate'
  BY <1>1, <1>2, <1>3, StaySeparate
<1>10. Painted'
  <2> SUFFICES ASSUME NEW s \in SliceNumbers, NEW p \in Pixels, In(s, p[1])
               PROVE  p \in img' <=> Due(s, p)'
    BY DEF Painted
  <2>1. p \in img <=> Due(s, p)
    BY DEF IInv, Painted
  <2>2. p[1] \in Nat /\ p[2] \in Nat /\ p = <<p[1], p[2]>>
    BY Pixel
  <2>3. CASE p = here
    <3>1. s = slice[t]
      BY <1>1, <1>4, <2>2, <2>3, SlicesApart
    <3>2. \A u \in Threads : Working(u)' /\ slice'[u] = s => u = t
      BY <1>1, <1>2, <1>9, <3>1 DEF Separate, Working
    <3>3. Behind(t, p)'
      BY <1>2, <1>4, <2>3 DEF Behind
    <3>4. Due(s, p)'
      BY <1>1, <1>2, <3>1, <3>2, <3>3 DEF Due
    <3> QED BY <1>2, <2>3, <3>4
  <2>4. CASE p # here
    <3>1. ~(p[1] = x[t] /\ p[2] = y[t])
      BY <2>2, <2>4 DEF here
    <3>2. Behind(t, p)' <=> Behind(t, p)
      BY <1>1, <1>2, <3>1 DEF Behind
    <3>3. Working(t)'
      BY <1>2 DEF Working
    <3>4. Due(s, p)' <=> Due(s, p)
      BY <1>1, <1>2, <1>3, <3>2, <3>3, DueKept
    <3> QED BY <1>2, <2>1, <2>4, <3>4
  <2> QED BY <2>3, <2>4
<1>11. NothingRepainted' /\ SavedIsComplete'
  <2>1. saved => here \in img
    BY <1>4 DEF IInv, SavedIsComplete
  <2> QED BY <1>2, <1>6, <2>1 DEF IInv, NothingRepainted, SavedIsComplete
<1>12. IInv'
  BY <1>7, <1>8, <1>9, <1>10, <1>11 DEF IInv
<1> QED BY <1>4, <1>6, <1>12 DEF here

LEMMA SavePngStep ==
    ASSUME IInv, SavePng
    PROVE  IInv' /\ img = Pixels
<1>1. \A t \in Threads : pc[t] = "done" /\ ~Working(t) /\ totalSlices <= currentSlice
  BY Places DEF SavePng, Working, Placed
<1>2. totalSlices <= currentSlice /\ currentSlice \in Nat /\ totalSlices \in Nat
  BY <1>1, Places, ThreadsAssumption
<1>3. ASSUME NEW p \in Pixels PROVE p \in img
  <2>1. PICK s \in SliceNumbers : In(s, p[1])
    BY Pixel, SlicesCover
  <2>2. s < currentSlice
    BY <1>2 DEF SliceNumbers
  <2>3. Due(s, p)
    BY <1>1, <2>2 DEF Due
  <2> QED BY <2>1, <2>3 DEF IInv, Painted
<1>4. img = Pixels
  BY <1>3 DEF IInv, TypeOK
<1>5. TypeOK'
  BY DEF IInv, TypeOK, SavePng
<1>6. \A t \in Threads : Alone(t)
  BY DEF SavePng, Alone
<1>7. UNCHANGED <<currentSlice, img, repainted>>
  BY DEF SavePng
<1>8. \A t \in Threads : Placed(t)'
  BY <1>6, <1>7, AloneStaysPlaced
<1>9. Separate'
  BY <1>6, AloneKept DEF IInv, Separate, Alone
<1>10. Painted'
  BY <1>6, <1>7, AloneKept DEF IInv, Painted, Due, Alone
<1>11. NothingRepainted' /\ SavedIsComplete'
  BY <1>4, <1>7 DEF IInv, NothingRepainted, SavedIsComplete
<1> QED BY <1>4, <1>5, <1>8, <1>9, <1>10, <1>11 DEF IInv

LEMMA Stepped == IInv /\ [Next]_vars => IInv'
<1> SUFFICES ASSUME IInv, [Next]_vars PROVE IInv'
  OBVIOUS
<1>1. ASSUME NEW t \in Threads, RenderSlicesThread(t) PROVE IInv'
  BY <1>1, TakeSliceStep, NextRowStep, PaintStep, EndRowStep, CountStep, ShowStep
     DEF RenderSlicesThread
<1>2. CASE SavePng
  BY <1>2, SavePngStep
<1>3. CASE UNCHANGED vars
  BY <1>3 DEF vars, IInv, TypeOK, Placed, Working, Separate, Painted, Due, Behind,
              NothingRepainted, SavedIsComplete
<1> QED BY <1>1, <1>2, <1>3 DEF Next

LEMMA IInvHolds == Spec => []IInv
BY Started, Stepped, PTL DEF Spec

-----------------------------------------------------------------------------
(* Theorems. *)

\* Every variable keeps its type: no thread leaves the image.
THEOREM TypeCorrect == Spec => []TypeOK
<1>1. IInv => TypeOK
  BY DEF IInv
<1> QED BY IInvHolds, <1>1, PTL

\* For every width and number of slices no pixel is painted twice (renderer.cpp:55-77).
THEOREM EachPixelOnce == Spec => []NothingRepainted
<1>1. IInv => NothingRepainted
  BY DEF IInv
<1> QED BY IInvHolds, <1>1, PTL

\* For every width and number of slices the image that is saved is complete
\* (renderer.cpp:44-51, 70-77).
THEOREM CompleteWhenSaved == Spec => []SavedIsComplete
<1>1. IInv => SavedIsComplete
  BY DEF IInv
<1> QED BY IInvHolds, <1>1, PTL

LEMMA StepsPaint ==
    ASSUME IInv, [Next]_vars
    PROVE  [Abstract!Next]_(Abstract!vars)
<1>1. ASSUME NEW t \in Threads, Paint(t) PROVE Abstract!Next
  <2>1. <<x[t], y[t]>> \in Pixels /\ <<x[t], y[t]>> \notin img
    BY <1>1, PaintStep
  <2>2. img' = img \union {<<x[t], y[t]>>} /\ saved' = saved
    BY <1>1 DEF Paint
  <2>3. repainted' = repainted
    BY <1>1, <2>1 DEF Paint, IInv, TypeOK
  <2>4. Abstract!Paint(<<x[t], y[t]>>)
    BY <2>1, <2>2, <2>3 DEF Abstract!Paint
  <2> QED BY <2>1, <2>4 DEF Abstract!Next
<1>2. ASSUME NEW t \in Threads,
             TakeSlice(t) \/ NextRow(t) \/ EndRow(t) \/ Count(t) \/ Show(t)
      PROVE  UNCHANGED Abstract!vars
  BY <1>2 DEF TakeSlice, NextRow, EndRow, Count, Show, Abstract!vars
<1>3. CASE SavePng
  <2>1. img = Pixels
    BY <1>3, SavePngStep
  <2> QED BY <1>3, <2>1 DEF SavePng, Abstract!Save, Abstract!Next
<1>4. CASE UNCHANGED vars
  BY <1>4 DEF vars, Abstract!vars
<1> QED BY <1>1, <1>2, <1>3, <1>4 DEF Next, RenderSlicesThread

\* For every width, height and number of slices the threads together render a picture:
\* what they do is what Picture allows (renderer.cpp:30-99).
THEOREM ThreadsRenderPicture == Spec => Abstract!Spec
<1>1. Init => Abstract!Init
  BY DEF Init, Abstract!Init
<1>2. IInv /\ [Next]_vars => [Abstract!Next]_(Abstract!vars)
  BY StepsPaint
<1> QED BY IInvHolds, <1>1, <1>2, PTL DEF Spec, Abstract!Spec

-----------------------------------------------------------------------------
(* The loading bar. *)

\* The threads that have painted a pixel and not yet counted it.
Uncounted == {t \in Threads : pc[t] = "count"}

\* The counter lags behind the image by these, and once it has its last value the bar
\* has shown it or a thread is about to.
BarInv ==
    /\ pixelCounter = Cardinality(img) - Cardinality(Uncounted)
    /\ pixelCounter = width * height /\ Pixels # {} =>
           full \/ \E t \in Threads : pc[t] = "show"
    /\ BarIsFull

LEMMA Finite ==
    /\ IsFiniteSet(Pixels) /\ Cardinality(Pixels) = width * height
    /\ IsFiniteSet(Uncounted) /\ Cardinality(Uncounted) \in Nat
    /\ IInv => IsFiniteSet(img) /\ Cardinality(img) \in Nat
<1>1. \A n \in Nat : IsFiniteSet(0 .. n - 1) /\ Cardinality(0 .. n - 1) = n
  BY FS_Interval
<1>2. IsFiniteSet(Pixels) /\ Cardinality(Pixels) = width * height
  <2> DEFINE columns == 0 .. width - 1
             rows == 0 .. height - 1
  <2>1. /\ IsFiniteSet(columns) /\ Cardinality(columns) = width
        /\ IsFiniteSet(rows) /\ Cardinality(rows) = height
    BY <1>1, SizeAssumption
  <2>2. Pixels = columns \X rows
    BY DEF Pixels
  <2> HIDE DEF columns, rows
  <2>3. /\ IsFiniteSet(columns \X rows)
        /\ Cardinality(columns \X rows) = Cardinality(columns) * Cardinality(rows)
    BY <2>1, FS_Product
  <2> QED BY <2>1, <2>2, <2>3
<1>3. IsFiniteSet(Uncounted) /\ Cardinality(Uncounted) \in Nat
  <2>1. Uncounted \in SUBSET Threads
    BY DEF Uncounted
  <2> QED BY <2>1, ThreadsAssumption, FS_Subset, FS_CardinalityType
<1>4. ASSUME IInv PROVE IsFiniteSet(img) /\ Cardinality(img) \in Nat
  <2>1. img \in SUBSET Pixels
    BY <1>4 DEF IInv, TypeOK
  <2> QED BY <1>2, <2>1, FS_Subset, FS_CardinalityType
<1> QED BY <1>2, <1>3, <1>4

LEMMA BarStarted == Init => BarInv
<1> SUFFICES ASSUME Init PROVE BarInv
  OBVIOUS
<1>1. Uncounted = {} /\ img = {} /\ pixelCounter = 0 /\ ~saved
  BY DEF Init, Uncounted
<1>2. Pixels # {} => width * height # 0
  BY Finite, FS_EmptySet
<1>3. Cardinality({}) = 0
  BY FS_EmptySet
<1> QED BY <1>1, <1>2, <1>3 DEF BarInv, BarIsFull

\* A step that neither paints nor counts nor shows.
LEMMA BarKept ==
    ASSUME BarInv, UNCHANGED <<pixelCounter, img, full, saved>>,
           \A t \in Threads : /\ pc'[t] = "count" <=> pc[t] = "count"
                              /\ pc'[t] = "show" <=> pc[t] = "show"
    PROVE  BarInv'
<1>1. Uncounted' = Uncounted
  BY DEF Uncounted
<1> QED BY <1>1 DEF BarInv, BarIsFull

LEMMA BarPaint == ASSUME IInv, BarInv, NEW t \in Threads, Paint(t) PROVE BarInv'
<1> DEFINE here == <<x[t], y[t]>>
<1>1. here \notin img /\ img' = img \union {here}
  BY PaintStep DEF Paint
<1>2. /\ pc[t] = "paint" /\ pc'[t] = "count"
      /\ \A u \in Threads : u # t => pc'[u] = pc[u]
  BY DEF Paint, IInv, TypeOK
<1>3. t \notin Uncounted /\ Uncounted' = Uncounted \union {t}
  BY <1>2 DEF Uncounted
<1> HIDE DEF here
<1>4. Cardinality(img') = Cardinality(img) + 1
  BY <1>1, Finite, FS_AddElement
<1>5. Cardinality(Uncounted') = Cardinality(Uncounted) + 1
  BY <1>3, Finite, FS_AddElement
<1>6. pixelCounter' = Cardinality(img') - Cardinality(Uncounted')
  BY <1>4, <1>5, Finite DEF Paint, BarInv
<1>7. (\E u \in Threads : pc[u] = "show") => \E u \in Threads : pc'[u] = "show"
  BY <1>2
<1> QED BY <1>6, <1>7 DEF Paint, BarInv, BarIsFull

LEMMA BarCount == ASSUME IInv, BarInv, NEW t \in Threads, Count(t) PROVE BarInv'
<1>1. /\ pc[t] = "count" /\ pc'[t] = "show"
      /\ \A u \in Threads : u # t => pc'[u] = pc[u]
  BY DEF Count, IInv, TypeOK
<1>2. t \in Uncounted /\ Uncounted' = Uncounted \ {t}
  BY <1>1 DEF Uncounted
<1>3. Cardinality(Uncounted') = Cardinality(Uncounted) - 1
  BY <1>2, Finite, FS_RemoveElement
<1>4. pixelCounter' = Cardinality(img') - Cardinality(Uncounted')
  BY <1>3, Finite DEF Count, BarInv
<1>5. pc'[t] = "show"
  BY <1>1
<1> QED BY <1>4, <1>5 DEF Count, BarInv, BarIsFull

\* Whoever shows the bar sees the value that the counter has by now.
LEMMA BarShow == ASSUME IInv, BarInv, NEW t \in Threads, Show(t) PROVE BarInv'
<1>1. /\ pc[t] = "show" /\ pc'[t] = "paint"
      /\ \A u \in Threads : u # t => pc'[u] = pc[u]
  BY DEF Show, IInv, TypeOK
<1>2. Uncounted' = Uncounted
  BY <1>1 DEF Uncounted
<1>3. pixelCounter' = width * height => full'
  BY DEF Show
<1> QED BY <1>2, <1>3 DEF Show, BarInv, BarIsFull

LEMMA BarSaved == ASSUME IInv, BarInv, SavePng PROVE BarInv'
<1>1. \A t \in Threads : pc[t] = "done"
  BY DEF SavePng
<1>2. Uncounted = {}
  BY <1>1 DEF Uncounted
<1>3. pixelCounter = width * height
  <2>1. img = Pixels
    BY SavePngStep
  <2>2. Cardinality(Uncounted) = 0
    BY <1>2, FS_EmptySet
  <2>3. pixelCounter = Cardinality(Pixels) - 0
    BY <2>1, <2>2 DEF BarInv
  <2> QED BY <2>1, <2>3, Finite
<1>4. Pixels # {} => full
  BY <1>1, <1>3 DEF BarInv
<1>5. Uncounted' = Uncounted
  BY DEF SavePng, Uncounted
<1> QED BY <1>4, <1>5 DEF SavePng, BarInv, BarIsFull

LEMMA BarStepped == IInv /\ BarInv /\ [Next]_vars => BarInv'
<1> SUFFICES ASSUME IInv, BarInv, [Next]_vars PROVE BarInv'
  OBVIOUS
<1>1. ASSUME NEW t \in Threads, TakeSlice(t) \/ NextRow(t) \/ EndRow(t) PROVE BarInv'
  <2>1. UNCHANGED <<pixelCounter, img, full, saved>>
    BY <1>1 DEF TakeSlice, NextRow, EndRow
  <2>2. /\ pc[t] \notin {"count", "show"} /\ pc'[t] \notin {"count", "show"}
        /\ \A u \in Threads : u # t => pc'[u] = pc[u]
    BY <1>1 DEF TakeSlice, NextRow, EndRow, IInv, TypeOK
  <2>3. \A u \in Threads : /\ pc'[u] = "count" <=> pc[u] = "count"
                           /\ pc'[u] = "show" <=> pc[u] = "show"
    BY <2>2
  <2> QED BY <2>1, <2>3, BarKept
<1>2. CASE SavePng
  BY <1>2, BarSaved
<1>3. CASE UNCHANGED vars
  BY <1>3, BarKept DEF vars
<1> QED BY <1>1, <1>2, <1>3, BarPaint, BarCount, BarShow DEF Next, RenderSlicesThread

\* For every width, height and number of slices the loading bar has got to 100% when the
\* image is saved (renderer.cpp:95-96).
THEOREM BarGetsFull == Spec => []BarIsFull
<1>1. BarInv => BarIsFull
  BY DEF BarInv
<1> QED BY IInvHolds, BarStarted, BarStepped, <1>1, PTL DEF Spec
=============================================================================
