------------------------ MODULE PhysicalMemoryProofs ------------------------
(***************************************************************************)
(* Proofs about PhysicalMemory, for every number of frames and word size:  *)
(* the counters are exact, and the manager implements FrameAllocator.      *)
(***************************************************************************)
EXTENDS PhysicalMemory, FiniteSetTheorems, WellFoundedInduction, TLAPS

\* A set of natural numbers that is not empty has the least element that the
\* searches of the manager return.
LEMMA LeastProperty ==
  ASSUME NEW T, T \subseteq Nat, T # {}
  PROVE  Least(T) \in T /\ \A y \in T : Least(T) <= y
<1>1. PICK x \in T : \A y \in T : ~(<<y, x>> \in OpToRel(<, Nat))
  BY NatLessThanWellFounded, WFMin, Zenon
<1>2. \A y \in T : ~(y < x)
  BY <1>1, Zenon DEF OpToRel
<1>3. \E m \in T : \A y \in T : m <= y
  BY <1>2
<1> QED
  BY <1>3, Zenon DEF Least

\* The word and the bit of a frame, as the shifts and masks compute them.
LEMMA WordAndBit ==
  ASSUME NEW f \in Nat
  PROVE  /\ f \div WordBits \in Nat
         /\ f % WordBits \in 0..(WordBits - 1)
         /\ f = (f \div WordBits) * WordBits + (f % WordBits)
BY SizesAssumption

\* The word of a managed frame is a word of the bitmap.
LEMMA WordInBitmap ==
  ASSUME NEW f \in Frames
  PROVE  f \div WordBits \in Words
BY WordAndBit, SizesAssumption DEF Frames, Words

\* The managed frames are bits of the bitmap.
LEMMA FramesAreBits == Frames \subseteq BitmapBits
<1> SUFFICES ASSUME NEW f \in Frames PROVE f \in BitmapBits
  BY Zenon
<1>1. f \in Nat
  BY SizesAssumption DEF Frames
<1> QED
  BY <1>1, WordAndBit, WordInBitmap DEF BitmapBits

\* A bit of a word is below the next word.
LEMMA WordsAreOrdered ==
  ASSUME NEW v \in Nat, NEW w \in Nat, v < w, NEW b \in 0..(WordBits - 1)
  PROVE  v * WordBits + b < w * WordBits
<1>1. (v + 1) * WordBits <= w * WordBits
  BY SizesAssumption
<1>2. (v + 1) * WordBits = v * WordBits + WordBits
  BY SizesAssumption
<1>3. v * WordBits \in Nat /\ w * WordBits \in Nat /\ (v + 1) * WordBits \in Nat
  BY SizesAssumption
<1> QED
  BY <1>1, <1>2, <1>3, SizesAssumption

\* The words of the bitmap are natural numbers.
LEMMA WordsAreNat == Words \subseteq Nat
BY SizesAssumption DEF Words

\* What the search reads in a word: a clear bit of it, at or after the start.
LEMMA FirstInWord ==
  ASSUME NEW start \in Nat, NEW w \in Nat, w >= start \div WordBits,
         masked_word(w, start) # {}
  PROVE  /\ first_in_word(w, start) \in Nat
         /\ first_in_word(w, start) \notin bitmap
         /\ first_in_word(w, start) >= start
         /\ \E b \in 0..(WordBits - 1) : first_in_word(w, start) = w * WordBits + b
         /\ \A b \in masked_word(w, start) :
              first_in_word(w, start) <= w * WordBits + b
<1>1. masked_word(w, start) \subseteq 0..(WordBits - 1)
  BY Zenon DEF masked_word
<1>2. PICK b : b = Least(masked_word(w, start))
  BY Zenon
<1>3. b \in masked_word(w, start) /\ \A c \in masked_word(w, start) : b <= c
  BY <1>1, <1>2, LeastProperty, SizesAssumption
<1>4. first_in_word(w, start) = w * WordBits + b
  BY <1>2, Zenon DEF first_in_word
<1>5. w * WordBits \in Nat
  BY SizesAssumption
<1>6. b \in 0..(WordBits - 1)
  BY <1>1, <1>3, Zenon
<1>7. w * WordBits + b >= start
  <2>1. CASE w = start \div WordBits
    BY <2>1, <1>3, <1>5, <1>6, WordAndBit, SizesAssumption DEF masked_word
  <2>2. CASE w > start \div WordBits
    <3>1. (start \div WordBits) * WordBits + (start % WordBits) < w * WordBits
      BY <2>2, WordAndBit, WordsAreOrdered, Zenon
    <3> QED
      BY <3>1, <1>5, <1>6, WordAndBit, SizesAssumption
  <2> QED
    BY <2>1, <2>2, WordAndBit
<1>8. w * WordBits + b \notin bitmap
  BY <1>3, Zenon DEF masked_word
<1>9. \A c \in masked_word(w, start) : w * WordBits + b <= w * WordBits + c
  BY <1>1, <1>3, <1>5, <1>6, SizesAssumption
<1>10. w * WordBits + b \in Nat
  BY <1>5, <1>6, SizesAssumption
<1> QED
  BY <1>4, <1>6, <1>7, <1>8, <1>9, <1>10, Zenon

\* When the search answers with a frame, that frame is free and not before
\* the start.
LEMMA FoundIsFree ==
  ASSUME NEW start \in Nat, words_with_free(start) # {}
  PROVE  /\ Least(words_with_free(start)) \in words_with_free(start)
         /\ find_first_free_frame_from(start) \in Free
         /\ find_first_free_frame_from(start) >= start
<1>1. words_with_free(start) \subseteq Nat
  BY WordsAreNat, Zenon DEF words_with_free
<1>2. PICK w : w = Least(words_with_free(start))
  BY Zenon
<1>3. w \in words_with_free(start) /\ w \in Nat
  BY <1>1, <1>2, LeastProperty, Zenon
<1>4. /\ w >= start \div WordBits
      /\ masked_word(w, start) # {}
      /\ first_in_word(w, start) < TotalFrames
  BY <1>3, Zenon DEF words_with_free
<1>5. /\ first_in_word(w, start) \in Nat
      /\ first_in_word(w, start) \notin bitmap
      /\ first_in_word(w, start) >= start
  BY <1>3, <1>4, FirstInWord, Zenon
<1>6. first_in_word(w, start) \in Free
  BY <1>4, <1>5, SizesAssumption DEF Free, Frames, get_bit
<1>7. find_first_free_frame_from(start) = first_in_word(w, start)
  BY <1>2, Zenon DEF find_first_free_frame_from
<1> QED
  BY <1>2, <1>3, <1>5, <1>6, <1>7, Zenon

\* The search finds the first free frame at or after the start, in any state.
LEMMA WordScan == WordScanFindsFirstFree
<1> SUFFICES ASSUME NEW start \in 0..TotalFrames
             PROVE  find_first_free_frame_from(start) =
                      IF {f \in Free : f >= start} = {}
                      THEN None ELSE Least({f \in Free : f >= start})
  BY Zenon DEF WordScanFindsFirstFree
<1> DEFINE after == {f \in Free : f >= start}
<1>1. start \in Nat /\ Free \subseteq Frames /\ Frames \subseteq Nat
  BY SizesAssumption DEF Free, Frames
<1>2. CASE after = {}
  <2>1. words_with_free(start) = {}
    BY <1>1, <1>2, FoundIsFree, Zenon
  <2> QED
    BY <1>2, <2>1, Zenon DEF find_first_free_frame_from
<1>3. CASE after # {}
  <2>1. PICK m : m = Least(after)
    BY Zenon
  <2>2. m \in after /\ \A y \in after : m <= y
    BY <1>1, <1>3, <2>1, LeastProperty, Zenon
  <2>3. m \in Frames /\ m \in Nat /\ m >= start /\ m < TotalFrames /\ m \notin bitmap
    BY <1>1, <2>2, SizesAssumption DEF Free, Frames, get_bit
  <2>4. PICK w, b : w = m \div WordBits /\ b = m % WordBits
    BY Zenon
  <2>5. w \in Nat /\ b \in 0..(WordBits - 1) /\ m = w * WordBits + b /\ w \in Words
    BY <2>3, <2>4, WordAndBit, WordInBitmap, Zenon
  <2>6. PICK sw, sb : sw = start \div WordBits /\ sb = start % WordBits
    BY Zenon
  <2>7. sw \in Nat /\ sb \in 0..(WordBits - 1) /\ start = sw * WordBits + sb
    BY <1>1, <2>6, WordAndBit, Zenon
  <2>8. w >= sw
    <3>1. ~(w < sw)
      <4> SUFFICES ASSUME w < sw PROVE FALSE
        BY Zenon
      <4>1. w * WordBits + b < sw * WordBits
        BY <2>5, <2>7, WordsAreOrdered, Zenon
      <4>2. sw * WordBits \in Nat
        BY <2>7, SizesAssumption
      <4> QED
        BY <4>1, <4>2, <2>3, <2>5, <2>7, <1>1, SizesAssumption
    <3> QED
      BY <3>1, <2>5, <2>7
  <2>9. w = sw => b >= sb
    <3>1. w * WordBits \in Nat
      BY <2>5, SizesAssumption
    <3> QED
      BY <3>1, <2>3, <2>5, <2>7, <1>1, SizesAssumption
  <2>10. b \in masked_word(w, start)
    BY <2>3, <2>5, <2>6, <2>9, Zenon DEF masked_word
  <2>11. /\ first_in_word(w, start) \in Nat
         /\ first_in_word(w, start) <= m
    BY <1>1, <2>5, <2>6, <2>8, <2>10, FirstInWord, Zenon
  <2>12. w \in words_with_free(start)
    BY <2>3, <2>5, <2>6, <2>8, <2>10, <2>11, SizesAssumption DEF words_with_free
  <2>13. PICK v : v = Least(words_with_free(start))
    BY Zenon
  <2>14. words_with_free(start) \subseteq Nat
    BY WordsAreNat, Zenon DEF words_with_free
  <2>15. v \in words_with_free(start) /\ v <= w /\ v \in Nat
    BY <2>12, <2>13, <2>14, LeastProperty, Zenon
  <2>16. v >= start \div WordBits /\ masked_word(v, start) # {}
    BY <2>15, Zenon DEF words_with_free
  <2>17. PICK f : f = first_in_word(v, start)
    BY Zenon
  <2>18. f \in Nat /\ \E c \in 0..(WordBits - 1) : f = v * WordBits + c
    BY <1>1, <2>15, <2>16, <2>17, FirstInWord, Zenon
  <2>19. f = find_first_free_frame_from(start)
    BY <2>12, <2>13, <2>17, Zenon DEF find_first_free_frame_from
  <2>20. m <= f
    BY <1>1, <2>2, <2>12, <2>19, FoundIsFree, Zenon
  <2>21. f <= m
    <3>1. CASE v = w
      BY <3>1, <2>11, <2>17, Zenon
    <3>2. CASE v < w
      <4>1. f < w * WordBits
        BY <3>2, <2>5, <2>15, <2>18, WordsAreOrdered, Zenon
      <4>2. w * WordBits \in Nat
        BY <2>5, SizesAssumption
      <4> QED
        BY <4>1, <4>2, <2>5, <2>18, SizesAssumption
    <3> QED
      BY <3>1, <3>2, <2>5, <2>15
  <2>22. f = m
    BY <2>3, <2>18, <2>20, <2>21
  <2> QED
    BY <1>3, <2>1, <2>19, <2>22, Zenon
<1> QED
  BY <1>2, <1>3, Zenon

\* find_first_free_frame_from is the first-free search in every reachable
\* state, for every memory size and every word size.
THEOREM WordScanCorrect == Spec => []WordScanFindsFirstFree
BY WordScan, PTL

-----------------------------------------------------------------------------
(***************************************************************************)
(* The invariant.  The counters are exact because a grant takes frames     *)
(* nobody holds, which needs that every held or reserved frame is marked,  *)
(* and because a free only counts frames that are marked, which for the    *)
(* callers' frees are frames that are held.                                *)
(***************************************************************************)
Inv == /\ TypeOK
       /\ HeldIsMarked
       /\ used_frames = Cardinality(held)
       /\ reserved_frames = Cardinality(reserved)

\* Sets of frames are finite sets of natural numbers.
LEMMA FramesFinite ==
  /\ IsFiniteSet(Frames) /\ Cardinality(Frames) = TotalFrames
  /\ Frames \subseteq Nat
  /\ \A S \in SUBSET Frames : IsFiniteSet(S) /\ Cardinality(S) \in Nat
<1>1. IsFiniteSet(Frames) /\ Cardinality(Frames) = TotalFrames
  BY FS_Interval, SizesAssumption DEF Frames
<1>2. \A S \in SUBSET Frames : IsFiniteSet(S) /\ Cardinality(S) \in Nat
  BY <1>1, FS_Subset, FS_CardinalityType, Zenon
<1> QED
  BY <1>1, <1>2, SizesAssumption DEF Frames

\* Disjoint sets of frames: the sizes of a union and of what is left.
LEMMA CountUnion ==
  ASSUME NEW S \in SUBSET Frames, NEW T \in SUBSET Frames, S \cap T = {}
  PROVE  Cardinality(S \cup T) = Cardinality(S) + Cardinality(T)
<1>1. /\ IsFiniteSet(S) /\ Cardinality(S) \in Nat
      /\ IsFiniteSet(T) /\ Cardinality(T) \in Nat
  BY FramesFinite, Zenon
<1>2. Cardinality(S \cup T) = Cardinality(S) + Cardinality(T) - Cardinality(S \cap T)
  BY <1>1, FS_Union, Zenon
<1>3. Cardinality(S \cap T) = 0
  BY FS_EmptySet, Zenon
<1> QED
  BY <1>1, <1>2, <1>3

LEMMA CountRest ==
  ASSUME NEW S \in SUBSET Frames, NEW T \in SUBSET S
  PROVE  Cardinality(S \ T) = Cardinality(S) - Cardinality(T)
<1>1. S \cap T = T
  BY Zenon
<1>2. IsFiniteSet(S)
  BY FramesFinite, Zenon
<1>3. Cardinality(S \ T) = Cardinality(S) - Cardinality(S \cap T)
  BY <1>2, FS_Difference, Zenon
<1> QED
  BY <1>1, <1>3, Zenon

\* The free frames are the managed frames whose bit is clear.
LEMMA FreeIsUnmarked == Free = Frames \ bitmap
BY SizesAssumption DEF Free, Frames, get_bit

LEMMA FreeIsUnmarkedNext == Free' = Frames \ bitmap'
BY SizesAssumption DEF Free, Frames, get_bit

\* What the invariant says of the number of frames that are free.
LEMMA InvCounts == Inv => CountersExact
<1> SUFFICES ASSUME Inv PROVE get_free_frames >= Cardinality(Free)
  BY Zenon DEF Inv, CountersExact
<1> USE DEF Inv, TypeOK, HeldIsMarked
<1>1. Free \in SUBSET Frames /\ held \in SUBSET Frames /\ reserved \in SUBSET Frames
  BY FreeIsUnmarked, Zenon
<1>2. Cardinality(held \cup reserved) = Cardinality(held) + Cardinality(reserved)
  BY <1>1, CountUnion, Zenon
<1>3. Free \cap (held \cup reserved) = {}
  BY FreeIsUnmarked, Zenon
<1>4. Cardinality(Free \cup (held \cup reserved))
        = Cardinality(Free) + Cardinality(held \cup reserved)
  BY <1>1, <1>3, CountUnion, Zenon
<1>5. Cardinality(Free \cup (held \cup reserved)) <= TotalFrames
  BY <1>1, FramesFinite, FS_Subset, Zenon
<1> QED
  BY <1>1, <1>2, <1>4, <1>5, FramesFinite, SizesAssumption DEF get_free_frames

\* The initial state: nothing is held, whatever the bitmap contains.
LEMMA InitInv == new => Inv
BY FS_EmptySet, SizesAssumption DEF new, Inv, TypeOK, HeldIsMarked, Quiet

\* Steps that change none of the ownership.
LEMMA RefuseStep ==
  ASSUME Inv, NEW op, NEW arg, Refuse(op, arg),
         pending' = pending \/ pending' = {}
  PROVE  /\ Inv'
         /\ Free' = Free /\ held' = held /\ reserved' = reserved
         /\ call' = [op |-> op, arg |-> arg, got |-> {}]
<1>1. Free' = Free
  BY FreeIsUnmarked, FreeIsUnmarkedNext, Zenon DEF Refuse
<1> QED
  BY <1>1, Zenon DEF Refuse, Inv, TypeOK, HeldIsMarked

\* A grant of frames that were free.
LEMMA GrantStep ==
  ASSUME Inv, NEW op, NEW arg, NEW S \in SUBSET Free, Grant(op, arg, S),
         max_reserved_frame' \in 0..TotalFrames,
         pending' = pending \/ pending' = S
  PROVE  /\ Inv'
         /\ Free' = Free \ S /\ held' = held \cup S /\ reserved' = reserved
         /\ call' = [op |-> op, arg |-> arg, got |-> S]
<1> USE DEF Inv, TypeOK, HeldIsMarked, Grant, set_bits
<1>1. S \subseteq Frames /\ S \cap bitmap = {}
  BY FreeIsUnmarked, Zenon
<1>2. bitmap' = bitmap \cup S
  BY <1>1, Zenon
<1>3. Free' = Free \ S
  BY <1>2, FreeIsUnmarked, FreeIsUnmarkedNext, Zenon
<1>4. held \cap S = {} /\ reserved \cap S = {}
  BY <1>1, Zenon
<1>5. used_frames' = Cardinality(held') /\ used_frames' \in Nat
  BY <1>1, <1>4, CountUnion, FramesFinite
<1>6. bitmap' \subseteq BitmapBits
  BY <1>1, <1>2, FramesAreBits, Zenon
<1>7. TypeOK'
  BY <1>1, <1>5, <1>6, Zenon
<1>8. HeldIsMarked'
  BY <1>2, <1>4, Zenon
<1> QED
  BY <1>3, <1>5, <1>7, <1>8, Zenon

\* Frames given back that the callers' frees are allowed to name.
LEMMA GiveBackStep ==
  ASSUME Inv, NEW S, GiveBack(S),
         \A f \in S : get_bit(f) => f \in held,
         \/ pending' = {}
         \/ pending' = pending /\ S \cap pending = {}
  PROVE  /\ Inv'
         /\ \E T \in SUBSET held : Free' = Free \cup T /\ held' = held \ T
         /\ reserved' = reserved /\ call' = Quiet
<1> USE DEF Inv, TypeOK, HeldIsMarked
<1>1. PICK T : T = {f \in S : get_bit(f)}
  BY Zenon
<1>2. T \subseteq held /\ T \subseteq Frames /\ T \subseteq S
  BY <1>1, Zenon
<1>3. /\ bitmap' = bitmap \ T
      /\ used_frames' = used_frames - Cardinality(T)
      /\ held' = held \ T
      /\ call' = Quiet
      /\ UNCHANGED <<reserved_frames, max_reserved_frame, reserved>>
  BY <1>1, <1>2, Zenon DEF GiveBack, clear_bits
<1>4. Free' = Free \cup T
  BY <1>2, <1>3, FreeIsUnmarked, FreeIsUnmarkedNext, Zenon
<1>5. used_frames' = Cardinality(held')
  BY <1>2, <1>3, CountRest, Zenon
<1>6. held' \in SUBSET Frames
  BY <1>3, Zenon
<1>7. used_frames' \in Nat
  BY <1>5, <1>6, FramesFinite, Zenon
<1>8. TypeOK'
  BY <1>3, <1>7, Zenon DEF Quiet
<1>9. HeldIsMarked'
  BY <1>2, <1>3, Zenon
<1> QED
  BY <1>2, <1>3, <1>4, <1>5, <1>8, <1>9, Zenon

-----------------------------------------------------------------------------
(***************************************************************************)
(* The requests: each one is answered with free frames, or refused because *)
(* no free frames satisfy it.                                              *)
(***************************************************************************)

\* The frame alloc_frame takes is free, and there is one unless none is free.
LEMMA FrameToAlloc ==
  ASSUME Inv
  PROVE  /\ frame_to_alloc = None => Free = {}
         /\ frame_to_alloc # None => frame_to_alloc \in Free
<1>1. max_reserved_frame \in Nat
  BY SizesAssumption DEF Inv, TypeOK
<1>2. Free \subseteq Nat
  BY FramesFinite, Zenon DEF Free
<1>3. PICK found : found = find_first_free_frame_from(max_reserved_frame)
  BY Zenon
<1>4. found = None \/ found \in Free
  BY <1>1, <1>3, FoundIsFree, Zenon DEF find_first_free_frame_from
<1>5. CASE found # None
  BY <1>2, <1>3, <1>4, <1>5, NoneAssumption, Zenon DEF frame_to_alloc
<1>6. CASE found = None /\ Free # {}
  BY <1>2, <1>3, <1>6, LeastProperty, NoneAssumption, Zenon DEF frame_to_alloc
<1>7. CASE found = None /\ Free = {}
  BY <1>3, <1>7, Zenon DEF frame_to_alloc
<1> QED
  BY <1>5, <1>6, <1>7, Zenon

\* The hint stays within the memory.
LEMMA HintInRange ==
  ASSUME Inv, NEW f \in 0..TotalFrames, RaiseHint(f)
  PROVE  max_reserved_frame' \in 0..TotalFrames
BY Zenon DEF Inv, TypeOK, RaiseHint

\* A request answered from Choices is a request of FrameAllocator.
LEMMA Answered ==
  ASSUME NEW op, NEW arg, NEW Choices, NEW S, S \in Choices, S \subseteq Free,
         Free' = Free \ S, held' = held \cup S, reserved' = reserved,
         call' = [op |-> op, arg |-> arg, got |-> S]
  PROVE  Allocator!Request(op, arg, Choices)
BY Zenon DEF Allocator!Request

LEMMA Refused ==
  ASSUME NEW op, NEW arg, NEW Choices, \A r \in Choices : ~(r \subseteq Free),
         Free' = Free, held' = held, reserved' = reserved,
         call' = [op |-> op, arg |-> arg, got |-> {}]
  PROVE  Allocator!Request(op, arg, Choices)
BY Zenon DEF Allocator!Request

\* alloc_frame, with what its callers do to pending.
LEMMA TakeFrameStep ==
  ASSUME Inv, TakeFrame, pending' = pending \/ pending' = call'.got
  PROVE  Inv' /\ Allocator!AllocRun(1)
<1> DEFINE Choices == {Allocator!Run(s, 1) : s \in Allocator!Frames}
<1>1. \A f \in Frames : Allocator!Run(f, 1) = {f}
  BY FramesFinite DEF Allocator!Run
<1>2. Allocator!Frames = Frames /\ Free \subseteq Frames
  BY Zenon DEF Allocator!Frames, Frames, Free
<1>3. CASE frame_to_alloc = None
  <2>1. Refuse("run", <<1>>)
    BY <1>3, Zenon DEF TakeFrame
  <2>2. call'.got = {}
    BY <2>1, Zenon DEF Refuse
  <2>3. /\ Inv'
        /\ Free' = Free /\ held' = held /\ reserved' = reserved
        /\ call' = [op |-> "run", arg |-> <<1>>, got |-> {}]
    BY <2>1, <2>2, RefuseStep, Zenon
  <2>4. \A r \in Choices : ~(r \subseteq Free)
    BY <1>1, <1>2, <1>3, FrameToAlloc
  <2>5. Allocator!Request("run", <<1>>, Choices)
    BY <2>3, <2>4, Refused, Zenon
  <2> QED
    BY <2>3, <2>5, Zenon DEF Allocator!AllocRun
<1>4. CASE frame_to_alloc # None
  <2>1. PICK f : f = frame_to_alloc
    BY Zenon
  <2>2. f \in Free /\ f \in Frames
    BY <1>2, <1>4, <2>1, FrameToAlloc, Zenon
  <2>3. Grant("run", <<1>>, {f}) /\ RaiseHint(f)
    BY <1>4, <2>1, Zenon DEF TakeFrame
  <2>4. max_reserved_frame' \in 0..TotalFrames
    <3>1. f \in 0..TotalFrames
      BY <2>2, SizesAssumption DEF Frames
    <3> QED
      BY <3>1, <2>3, HintInRange, Zenon
  <2>5. call'.got = {f}
    BY <2>3, Zenon DEF Grant
  <2>6. {f} \in SUBSET Free
    BY <2>2, Zenon
  <2>7. /\ Inv'
        /\ Free' = Free \ {f} /\ held' = held \cup {f} /\ reserved' = reserved
        /\ call' = [op |-> "run", arg |-> <<1>>, got |-> {f}]
    BY <2>3, <2>4, <2>5, <2>6, GrantStep, Zenon
  <2>8. {f} \in Choices
    BY <1>1, <1>2, <2>2, Zenon
  <2>9. Allocator!Request("run", <<1>>, Choices)
    BY <2>6, <2>7, <2>8, Answered, Zenon
  <2> QED
    BY <2>7, <2>9, Zenon DEF Allocator!AllocRun
<1> QED
  BY <1>3, <1>4, Zenon

\* A run is free when it lies in the memory and none of its bits is set.
LEMMA FreeRun ==
  ASSUME NEW s \in Nat, NEW n \in Nat
  PROVE  /\ Allocator!Run(s, n) = Run(s, n)
         /\ Run(s, n) \subseteq Free
              <=> \A f \in Run(s, n) : f < TotalFrames /\ ~get_bit(f)
         /\ n > 0 /\ Run(s, n) \subseteq Free => s + n <= TotalFrames /\ s \in Frames
         /\ s + n <= TotalFrames => \A f \in Run(s, n) : f < TotalFrames
<1>1. Run(s, n) \subseteq Nat
  BY DEF Run
<1>2. Run(s, n) \subseteq Free
        <=> \A f \in Run(s, n) : f < TotalFrames /\ ~get_bit(f)
  BY <1>1, SizesAssumption DEF Free, Frames
<1>3. ASSUME n > 0, Run(s, n) \subseteq Free
      PROVE  s + n <= TotalFrames /\ s \in Frames
  <2>1. s \in Run(s, n) /\ s + n - 1 \in Run(s, n)
    BY <1>3 DEF Run
  <2>2. s < TotalFrames /\ s + n - 1 < TotalFrames
    BY <1>2, <1>3, <2>1, Zenon
  <2> QED
    BY <2>2, SizesAssumption DEF Frames
<1>4. s + n <= TotalFrames => \A f \in Run(s, n) : f < TotalFrames
  BY SizesAssumption DEF Run
<1>5. Allocator!Run(s, n) = Run(s, n)
  BY Zenon DEF Run, Allocator!Run
<1> QED
  BY <1>2, <1>3, <1>4, <1>5, Zenon

\* alloc_frames_contiguous for two frames or more.
LEMMA TakeRunStep ==
  ASSUME Inv, NEW n \in Nat, n > 0, TakeRun(n),
         pending' = pending \/ pending' = call'.got
  PROVE  Inv' /\ Allocator!AllocRun(n)
<1> DEFINE Choices == {Allocator!Run(s, n) : s \in Allocator!Frames}
           starts == {s \in 0..(TotalFrames - n) : \A f \in Run(s, n) : ~get_bit(f)}
<1>1. Allocator!Frames = Frames
  BY Zenon DEF Allocator!Frames, Frames
<1>2. n <= TotalFrames /\ starts \subseteq Nat
  BY DEF TakeRun
<1>3. CASE starts = {}
  <2>1. Refuse("run", <<n>>)
    BY <1>3, Zenon DEF TakeRun
  <2>2. call'.got = {}
    BY <2>1, Zenon DEF Refuse
  <2>3. /\ Inv'
        /\ Free' = Free /\ held' = held /\ reserved' = reserved
        /\ call' = [op |-> "run", arg |-> <<n>>, got |-> {}]
    BY <2>1, <2>2, RefuseStep, Zenon
  <2>4. ASSUME NEW s \in Frames, Run(s, n) \subseteq Free
        PROVE  FALSE
    <3>1. s \in Nat /\ s + n <= TotalFrames
      BY <2>4, FramesFinite, FreeRun, Zenon
    <3>2. s \in 0..(TotalFrames - n)
      BY <3>1, SizesAssumption
    <3>3. \A f \in Run(s, n) : ~get_bit(f)
      BY <2>4, <3>1, FreeRun, Zenon
    <3> QED
      BY <1>3, <3>2, <3>3, Zenon
  <2>5. \A r \in Choices : ~(r \subseteq Free)
    BY <1>1, <2>4, FramesFinite, FreeRun
  <2>6. Allocator!Request("run", <<n>>, Choices)
    BY <2>3, <2>5, Refused, Zenon
  <2> QED
    BY <2>3, <2>6, Zenon DEF Allocator!AllocRun
<1>4. CASE starts # {}
  <2>1. PICK s : s = Least(starts)
    BY Zenon
  <2>2. s \in starts
    BY <1>2, <1>4, <2>1, LeastProperty, Zenon
  <2>3. s \in Nat /\ s + n <= TotalFrames
    BY <2>2, SizesAssumption
  <2>4. Run(s, n) \subseteq Free /\ s \in Frames
    BY <2>2, <2>3, FreeRun, Zenon
  <2>5. Grant("run", <<n>>, Run(s, n)) /\ RaiseHint(s + n)
    BY <1>4, <2>1, Zenon DEF TakeRun
  <2>6. max_reserved_frame' \in 0..TotalFrames
    <3>1. s + n \in 0..TotalFrames
      BY <2>3, SizesAssumption
    <3> QED
      BY <3>1, <2>5, HintInRange, Zenon
  <2>7. PICK S : S = Run(s, n)
    BY Zenon
  <2>8. S \in SUBSET Free /\ Grant("run", <<n>>, S)
    BY <2>4, <2>5, <2>7, Zenon
  <2>9. call'.got = S
    BY <2>8, Zenon DEF Grant
  <2>10. /\ Inv'
         /\ Free' = Free \ S /\ held' = held \cup S /\ reserved' = reserved
         /\ call' = [op |-> "run", arg |-> <<n>>, got |-> S]
    BY <2>6, <2>8, <2>9, GrantStep, Zenon
  <2>11. S \in Choices
    BY <1>1, <2>3, <2>4, <2>7, FreeRun, Zenon
  <2>12. Allocator!Request("run", <<n>>, Choices)
    BY <2>8, <2>10, <2>11, Answered, Zenon
  <2> QED
    BY <2>10, <2>12, Zenon DEF Allocator!AllocRun
<1> QED
  BY <1>3, <1>4, Zenon

\* alloc_frames_contiguous for any number of frames: none, one or more.
LEMMA TakeFramesStep ==
  ASSUME Inv, NEW n \in Nat, TakeFrames(n),
         pending' = pending \/ pending' = call'.got
  PROVE  Inv' /\ Allocator!AllocRun(n)
<1>1. CASE n = 0
  <2> DEFINE Choices == {Allocator!Run(s, n) : s \in Allocator!Frames}
  <2>1. Refuse("run", <<n>>)
    BY <1>1 DEF TakeFrames
  <2>2. call'.got = {}
    BY <2>1, Zenon DEF Refuse
  <2>3. /\ Inv'
        /\ Free' = Free /\ held' = held /\ reserved' = reserved
        /\ call' = [op |-> "run", arg |-> <<n>>, got |-> {}]
    BY <2>1, <2>2, RefuseStep, Zenon
  <2>4. \A s \in Allocator!Frames : Allocator!Run(s, n) = {}
    BY <1>1, SizesAssumption DEF Allocator!Frames, Allocator!Run
  <2>5. CASE Allocator!Frames = {}
    <3>1. \A r \in Choices : ~(r \subseteq Free)
      BY <2>5, Zenon
    <3> QED
      BY <2>3, <3>1, Refused, Zenon DEF Allocator!AllocRun
  <2>6. CASE Allocator!Frames # {}
    <3>1. {} \in Choices
      BY <2>4, <2>6, Zenon
    <3>2. Free' = Free \ {} /\ held' = held \cup {} /\ {} \subseteq Free
      BY <2>3, Zenon
    <3> QED
      BY <2>3, <3>1, <3>2, Answered, Zenon DEF Allocator!AllocRun
  <2> QED
    BY <2>3, <2>5, <2>6, Zenon
<1>2. CASE n = 1
  <2>1. TakeFrame
    BY <1>2 DEF TakeFrames
  <2> QED
    BY <1>2, <2>1, TakeFrameStep, Zenon
<1>3. CASE n > 1
  <2>1. TakeRun(n)
    BY <1>3 DEF TakeFrames
  <2> QED
    BY <1>3, <2>1, TakeRunStep
<1> QED
  BY <1>1, <1>2, <1>3

\* alloc_aligned.
LEMMA AlignedStep ==
  ASSUME Inv, NEW a \in Nat \ {0}, NEW n \in Nat, alloc_aligned(a, n)
  PROVE  Inv' /\ Allocator!AllocAligned(a, n)
<1> DEFINE aligned == {f \in Allocator!Frames : f % a = 0}
           Choices == {Allocator!Run(s, n) : s \in aligned}
           starts == {s \in Frames : /\ s % a = 0
                                     /\ \A f \in Run(s, n) :
                                          f < TotalFrames /\ ~get_bit(f)}
<1>1. Allocator!Frames = Frames
  BY Zenon DEF Allocator!Frames, Frames
<1>2. starts \subseteq Nat /\ pending' = pending
  BY FramesFinite, Zenon DEF alloc_aligned
<1>3. \A s \in Frames : s \in starts <=> s \in aligned /\ Run(s, n) \subseteq Free
  BY <1>1, FramesFinite, FreeRun, Zenon
<1>4. CASE starts = {}
  <2>1. Refuse("aligned", <<a, n>>)
    BY <1>4, Zenon DEF alloc_aligned
  <2>2. /\ Inv'
        /\ Free' = Free /\ held' = held /\ reserved' = reserved
        /\ call' = [op |-> "aligned", arg |-> <<a, n>>, got |-> {}]
    BY <1>2, <2>1, RefuseStep, Zenon
  <2>3. \A r \in Choices : ~(r \subseteq Free)
    BY <1>1, <1>3, <1>4, FramesFinite, FreeRun
  <2>4. Allocator!Request("aligned", <<a, n>>, Choices)
    BY <2>2, <2>3, Refused, Zenon
  <2> QED
    BY <2>2, <2>4, Zenon DEF Allocator!AllocAligned
<1>5. CASE starts # {}
  <2>1. PICK s : s = Least(starts)
    BY Zenon
  <2>2. s \in starts
    BY <1>2, <1>5, <2>1, LeastProperty, Zenon
  <2>3. PICK S : S = Run(s, n)
    BY Zenon
  <2>4. S \in SUBSET Free /\ S \in Choices
    BY <1>1, <1>3, <2>2, <2>3, FramesFinite, FreeRun, Zenon
  <2>5. Grant("aligned", <<a, n>>, S) /\ UNCHANGED max_reserved_frame
    BY <1>5, <2>1, <2>3, Zenon DEF alloc_aligned
  <2>6. max_reserved_frame' \in 0..TotalFrames
    BY <2>5, Zenon DEF Inv, TypeOK
  <2>7. /\ Inv'
        /\ Free' = Free \ S /\ held' = held \cup S /\ reserved' = reserved
        /\ call' = [op |-> "aligned", arg |-> <<a, n>>, got |-> S]
    BY <1>2, <2>4, <2>5, <2>6, GrantStep, Zenon
  <2>8. Allocator!Request("aligned", <<a, n>>, Choices)
    BY <2>4, <2>7, Answered, Zenon
  <2> QED
    BY <2>7, <2>8, Zenon DEF Allocator!AllocAligned
<1> QED
  BY <1>4, <1>5, Zenon

\* The requests for given frames.
LEMMA ClaimStep ==
  ASSUME Inv, NEW s \in Nat, NEW n \in Nat, Claim(s, n)
  PROVE  Inv' /\ Allocator!AllocExactly(s, n)
<1> DEFINE Choices == {Allocator!Run(s, n)}
<1>1. PICK S : S = Run(s, n)
  BY Zenon
<1>2. Choices = {S} /\ pending' = pending /\ S \subseteq Nat
  <2>1. Allocator!Run(s, n) = S
    BY <1>1, FreeRun, Zenon
  <2>2. S \subseteq Nat
    BY <1>1 DEF Run
  <2>3. pending' = pending
    BY Zenon DEF Claim
  <2> QED
    BY <2>1, <2>2, <2>3, Zenon
<1>3. CASE S \subseteq Free
  <2>1. ~\E f \in Run(s, n) : f >= TotalFrames \/ get_bit(f)
    BY <1>1, <1>2, <1>3, FreeRun, SizesAssumption
  <2>2. Grant("exactly", <<s, n>>, S) /\ UNCHANGED max_reserved_frame
    BY <1>1, <2>1, Zenon DEF Claim
  <2>3. max_reserved_frame' \in 0..TotalFrames
    BY <2>2, Zenon DEF Inv, TypeOK
  <2>4. /\ Inv'
        /\ Free' = Free \ S /\ held' = held \cup S /\ reserved' = reserved
        /\ call' = [op |-> "exactly", arg |-> <<s, n>>, got |-> S]
    BY <1>2, <1>3, <2>2, <2>3, GrantStep, Zenon
  <2>5. Allocator!Request("exactly", <<s, n>>, Choices)
    BY <1>2, <1>3, <2>4, Answered, Zenon
  <2> QED
    BY <2>4, <2>5, Zenon DEF Allocator!AllocExactly
<1>4. CASE ~(S \subseteq Free)
  <2>1. \E f \in Run(s, n) : f >= TotalFrames \/ get_bit(f)
    BY <1>1, <1>2, <1>4, FreeRun, SizesAssumption
  <2>2. Refuse("exactly", <<s, n>>)
    BY <2>1, Zenon DEF Claim
  <2>3. /\ Inv'
        /\ Free' = Free /\ held' = held /\ reserved' = reserved
        /\ call' = [op |-> "exactly", arg |-> <<s, n>>, got |-> {}]
    BY <1>2, <2>2, RefuseStep, Zenon
  <2>4. Allocator!Request("exactly", <<s, n>>, Choices)
    BY <1>2, <1>4, <2>3, Refused, Zenon
  <2> QED
    BY <2>3, <2>4, Zenon DEF Allocator!AllocExactly
<1> QED
  BY <1>3, <1>4, Zenon

\* alloc_dma_capable_frame, which may refuse.
LEMMA DmaStep ==
  ASSUME Inv, alloc_dma_capable_frame
  PROVE  Inv' /\ Allocator!AllocSome
<1>1. PICK f : f = frame_to_alloc
  BY Zenon
<1>2. pending' = pending
  BY Zenon DEF alloc_dma_capable_frame
<1>3. CASE f = None
  <2>1. Refuse("some", <<>>)
    BY <1>1, <1>3, Zenon DEF alloc_dma_capable_frame
  <2>2. /\ Inv'
        /\ Free' = Free /\ held' = held /\ reserved' = reserved
        /\ call' = [op |-> "some", arg |-> <<>>, got |-> {}]
    BY <1>2, <2>1, RefuseStep, Zenon
  <2> QED
    BY <2>2, Zenon DEF Allocator!AllocSome
<1>4. CASE f # None
  <2>1. f \in Free
    BY <1>1, <1>4, FrameToAlloc, Zenon
  <2>2. RaiseHint(f)
    BY <1>1, <1>4, Zenon DEF alloc_dma_capable_frame
  <2>3. f \in 0..TotalFrames
    BY <2>1, SizesAssumption DEF Free, Frames
  <2>4. max_reserved_frame' \in 0..TotalFrames
    BY <2>2, <2>3, HintInRange, Zenon
  <2>5. CASE Grant("some", <<>>, {f})
    <3>1. {f} \in SUBSET Free
      BY <2>1, Zenon
    <3>2. /\ Inv'
          /\ Free' = Free \ {f} /\ held' = held \cup {f} /\ reserved' = reserved
          /\ call' = [op |-> "some", arg |-> <<>>, got |-> {f}]
      BY <1>2, <2>4, <2>5, <3>1, GrantStep, Zenon
    <3> QED
      BY <2>1, <3>2, Zenon DEF Allocator!AllocSome
  <2>6. CASE /\ call' = [op |-> "some", arg |-> <<>>, got |-> {}]
             /\ UNCHANGED <<bitmap, used_frames, reserved_frames, held, reserved>>
    <3>1. Free' = Free
      BY <2>6, FreeIsUnmarked, FreeIsUnmarkedNext, Zenon
    <3>2. Inv'
      BY <1>2, <2>4, <2>6, Zenon DEF Inv, TypeOK, HeldIsMarked
    <3> QED
      BY <2>6, <3>1, <3>2, Zenon DEF Allocator!AllocSome
  <2> QED
    BY <1>1, <1>4, <2>5, <2>6, Zenon DEF alloc_dma_capable_frame
<1> QED
  BY <1>3, <1>4, Zenon

-----------------------------------------------------------------------------
(***************************************************************************)
(* Frees, reservations and the boot-time functions.                        *)
(***************************************************************************)

\* The abstract steps these functions take.
ReturnStep == \E S \in SUBSET Frames : \/ Allocator!Release(S)
                                       \/ Allocator!Withdraw(S)
                                       \/ Allocator!Offer(S)

LEMMA FreeStep ==
  ASSUME Inv, NEW S, GiveBack(S),
         \A f \in S : get_bit(f) => f \in held,
         \/ pending' = {}
         \/ pending' = pending /\ S \cap pending = {}
  PROVE  Inv' /\ ReturnStep
<1>1. /\ Inv'
      /\ \E T \in SUBSET held : Free' = Free \cup T /\ held' = held \ T
      /\ reserved' = reserved /\ call' = Quiet
  BY GiveBackStep, Zenon
<1>2. PICK T \in SUBSET held : Free' = Free \cup T /\ held' = held \ T
  BY <1>1, Zenon
<1>3. Allocator!Release(T)
  BY <1>1, <1>2, Zenon DEF Allocator!Release, Allocator!Quiet, Quiet
<1>4. T \in SUBSET Frames
  BY <1>2, Zenon DEF Inv, TypeOK
<1> QED
  BY <1>1, <1>3, <1>4, Zenon DEF ReturnStep

\* Frames that leave the free ones for the reserved ones.
LEMMA ReserveStep ==
  ASSUME Inv, NEW S \in SUBSET Free,
         bitmap' = bitmap \cup S, reserved' = reserved \cup S,
         reserved_frames' = reserved_frames + Cardinality(S),
         max_reserved_frame' \in 0..TotalFrames, call' = Quiet,
         UNCHANGED <<used_frames, held, pending>>
  PROVE  Inv' /\ ReturnStep
<1> USE DEF Inv, TypeOK, HeldIsMarked
<1>1. S \subseteq Frames /\ S \cap bitmap = {}
  BY FreeIsUnmarked, Zenon
<1>2. Free' = Free \ S
  BY <1>1, FreeIsUnmarked, FreeIsUnmarkedNext, Zenon
<1>3. held \cap S = {} /\ reserved \cap S = {}
  BY <1>1, Zenon
<1>4. reserved_frames' = Cardinality(reserved') /\ reserved_frames' \in Nat
  BY <1>1, <1>3, CountUnion, FramesFinite
<1>5. TypeOK'
  BY <1>1, <1>4, FramesAreBits, Zenon DEF Quiet
<1>6. HeldIsMarked'
  BY <1>3, Zenon
<1>7. Allocator!Withdraw(S)
  BY <1>2, Zenon DEF Allocator!Withdraw, Allocator!Quiet, Quiet
<1> QED
  BY <1>1, <1>4, <1>5, <1>6, <1>7, Zenon DEF ReturnStep

LEMMA ReserveFrameStep ==
  ASSUME Inv, NEW f \in Nat, reserve_frame(f)
  PROVE  Inv' /\ ReturnStep
<1>1. CASE f < TotalFrames /\ ~get_bit(f)
  <2>1. f \in Free /\ f \in Frames /\ f \in 0..TotalFrames
    BY <1>1, SizesAssumption DEF Free, Frames
  <2>2. /\ bitmap' = bitmap \cup {f}
        /\ reserved_frames' = reserved_frames + 1
        /\ reserved' = reserved \cup {f}
        /\ RaiseHint(f) /\ call' = Quiet
        /\ UNCHANGED <<used_frames, held, pending>>
    BY <1>1, <2>1, Zenon DEF reserve_frame, set_bits
  <2>3. max_reserved_frame' \in 0..TotalFrames
    BY <2>1, <2>2, HintInRange, Zenon
  <2>4. Cardinality({f}) = 1
    BY FS_Singleton, Zenon
  <2>5. {f} \in SUBSET Free
    BY <2>1, Zenon
  <2> QED
    BY <2>2, <2>3, <2>4, <2>5, ReserveStep, Zenon
<1>2. CASE ~(f < TotalFrames /\ ~get_bit(f))
  <2>1. /\ UNCHANGED <<bitmap, reserved_frames, reserved, max_reserved_frame,
                       used_frames, held, pending>>
        /\ call' = Quiet
    BY <1>2, Zenon DEF reserve_frame
  <2>2. Inv'
    BY <2>1, Zenon DEF Inv, TypeOK, HeldIsMarked, Quiet
  <2>3. Free' = Free
    BY <2>1, FreeIsUnmarked, FreeIsUnmarkedNext, Zenon
  <2>4. Allocator!Offer({})
    BY <2>1, <2>3, Zenon DEF Allocator!Offer, Allocator!Quiet, Quiet
  <2> QED
    BY <2>2, <2>4, Zenon DEF ReturnStep
<1> QED
  BY <1>1, <1>2, Zenon

\* The size of a run.
LEMMA RunSize ==
  ASSUME NEW s \in Nat, NEW n \in Nat
  PROVE  Cardinality(Run(s, n)) = n
<1>1. s \in Int /\ s + n - 1 \in Int
  OBVIOUS
<1> QED
  BY <1>1, FS_Interval DEF Run

LEMMA ReserveRegionStep ==
  ASSUME Inv, NEW s \in Nat, NEW n \in Nat, Run(s, n) \subseteq Free,
         reserve_region_for_boot(s, n)
  PROVE  Inv' /\ ReturnStep
<1>1. PICK S : S = Run(s, n)
  BY Zenon
<1>2. S \in SUBSET Free /\ S \subseteq Frames /\ Cardinality(S) = n
  BY <1>1, RunSize, Zenon DEF Free
<1>3. /\ bitmap' = bitmap \cup S
      /\ reserved_frames' = reserved_frames + Cardinality(S)
      /\ reserved' = reserved \cup S
      /\ call' = Quiet
      /\ UNCHANGED <<used_frames, max_reserved_frame, held, pending>>
  <2>1. S \cap Frames = S
    BY <1>2, Zenon
  <2> QED
    BY <1>1, <1>2, <2>1, Zenon DEF reserve_region_for_boot, set_bits
<1>4. max_reserved_frame' \in 0..TotalFrames
  BY <1>3, Zenon DEF Inv, TypeOK
<1> QED
  BY <1>2, <1>3, <1>4, ReserveStep, Zenon

LEMMA MarkStep ==
  ASSUME Inv, NEW s \in Nat, NEW n \in Nat, Run(s, n) \subseteq Free,
         mark_as_used(s, n)
  PROVE  Inv' /\ ReturnStep
<1> USE DEF Inv, TypeOK, HeldIsMarked
<1>1. PICK S : S = Run(s, n)
  BY Zenon
<1>2. S \subseteq Free /\ S \in SUBSET Frames /\ Cardinality(S) = n
  BY <1>1, RunSize, Zenon DEF Free
<1>3. /\ bitmap' = bitmap \cup S
      /\ used_frames' = used_frames + Cardinality(S)
      /\ held' = held \cup S
      /\ call' = Quiet
      /\ UNCHANGED <<reserved_frames, max_reserved_frame, reserved, pending>>
  <2>1. S \cap Frames = S
    BY <1>2, Zenon
  <2> QED
    BY <1>1, <1>2, <2>1, Zenon DEF mark_as_used, set_bits
<1>4. S \cap bitmap = {}
  BY <1>2, FreeIsUnmarked, Zenon
<1>5. Free' = Free \ S
  BY <1>3, FreeIsUnmarked, FreeIsUnmarkedNext, Zenon
<1>6. held \cap S = {} /\ reserved \cap S = {}
  BY <1>4, Zenon
<1>7. used_frames' = Cardinality(held') /\ used_frames' \in Nat
  BY <1>2, <1>3, <1>6, CountUnion, FramesFinite, SMTT(30)
<1>8. TypeOK'
  BY <1>2, <1>3, <1>7, FramesAreBits, Zenon DEF Quiet
<1>9. HeldIsMarked'
  BY <1>3, <1>6, Zenon
<1>10. Allocator!Withdraw(S)
  BY <1>2, <1>3, <1>5, Zenon DEF Allocator!Withdraw, Allocator!Quiet, Quiet
<1> QED
  BY <1>2, <1>3, <1>7, <1>8, <1>9, <1>10, Zenon DEF ReturnStep

LEMMA InitRegionStep ==
  ASSUME Inv, NEW s \in Nat, NEW n \in Nat, Unclaimed(Run(s, n)), init_region(s, n)
  PROVE  Inv' /\ ReturnStep
<1> USE DEF Inv, TypeOK, HeldIsMarked
<1>1. PICK S : S = Run(s, n)
  BY Zenon
<1>2. S \in SUBSET Frames /\ S \cap (held \cup reserved) = {}
  BY <1>1, Zenon DEF Unclaimed
<1>3. /\ bitmap' = bitmap \ S
      /\ call' = Quiet
      /\ UNCHANGED <<used_frames, reserved_frames, max_reserved_frame, held,
                     reserved, pending>>
  <2>1. S \cap Frames = S
    BY <1>2, Zenon
  <2> QED
    BY <1>1, <2>1, Zenon DEF init_region, clear_bits
<1>4. Free' = Free \cup S
  BY <1>2, <1>3, FreeIsUnmarked, FreeIsUnmarkedNext, Zenon
<1>5. TypeOK'
  BY <1>3, Zenon DEF Quiet
<1>6. HeldIsMarked'
  BY <1>2, <1>3, Zenon
<1>7. Allocator!Offer(S)
  BY <1>2, <1>3, <1>4, Zenon DEF Allocator!Offer, Allocator!Quiet, Quiet
<1> QED
  BY <1>2, <1>3, <1>5, <1>6, <1>7, Zenon DEF ReturnStep

LEMMA ResetStep ==
  ASSUME Inv, held = {}, reset_all_bits
  PROVE  Inv' /\ Allocator!Reset
<1>1. Free' = Frames
  BY FreeIsUnmarkedNext, Zenon DEF reset_all_bits
<1>2. Inv'
  BY FS_EmptySet, Zenon DEF reset_all_bits, Inv, TypeOK, HeldIsMarked, Quiet
<1> QED
  BY <1>1, <1>2, Zenon DEF reset_all_bits, Allocator!Reset, Allocator!Frames, Frames,
                    Allocator!Quiet, Quiet

-----------------------------------------------------------------------------
\* The end of alloc_and_map: its frames stay held, or all of them are freed.
LEMMA MapEndStep ==
  ASSUME Inv, NEW mapped \in BOOLEAN, alloc_and_map_end(mapped)
  PROVE  /\ Inv'
         /\ ReturnStep \/ UNCHANGED <<Free, held, reserved, call>>
         /\ held' # held => pending \subseteq Free'
<1>1. CASE mapped
  <2>1. /\ pending' = {}
        /\ UNCHANGED <<bitmap, used_frames, reserved_frames, max_reserved_frame,
                       held, reserved, call>>
    BY <1>1, Zenon DEF alloc_and_map_end
  <2>2. Inv'
    BY <2>1, Zenon DEF Inv, TypeOK, HeldIsMarked
  <2>3. Free' = Free
    BY <2>1, FreeIsUnmarked, FreeIsUnmarkedNext, Zenon
  <2> QED
    BY <2>1, <2>2, <2>3, Zenon
<1>2. CASE ~mapped
  <2>1. pending' = {} /\ GiveBack(pending)
    BY <1>2, Zenon DEF alloc_and_map_end
  <2>2. pending \subseteq held /\ pending \subseteq Frames /\ pending \subseteq bitmap
    BY Zenon DEF Inv, TypeOK, HeldIsMarked
  <2>3. Inv' /\ ReturnStep
    BY <2>1, <2>2, FreeStep, Zenon
  <2>4. {f \in pending : get_bit(f)} = pending
    <3>1. \A f \in pending : get_bit(f)
      BY <2>2, SizesAssumption DEF get_bit, Frames
    <3> QED
      BY <3>1, Zenon
  <2>5. bitmap' = bitmap \ pending
    BY <2>1, <2>2, <2>4, Zenon DEF GiveBack, clear_bits
  <2> QED
    BY <2>2, <2>3, <2>5, FreeIsUnmarkedNext, Zenon
<1> QED
  BY <1>1, <1>2, Zenon

\* Every step keeps the invariant and is a step of FrameAllocator or leaves
\* its variables alone; and a failed mapping leaks nothing.
LEMMA NextStep ==
  ASSUME Inv, Next
  PROVE  /\ Inv'
         /\ Allocator!Next \/ UNCHANGED <<Free, held, reserved, call>>
         /\ pending # {} /\ pending' = {} /\ held' # held => pending \subseteq Free'
<1> DEFINE Goal == /\ Inv'
                   /\ Allocator!Next \/ UNCHANGED <<Free, held, reserved, call>>
                   /\ pending # {} /\ pending' = {} /\ held' # held
                        => pending \subseteq Free'
<1>1. /\ Counts \subseteq Nat /\ Starts \subseteq Nat
      /\ Counts = 0..MaxCount /\ Starts = 0..TotalFrames
      /\ 1 \in Counts /\ 2 \in Counts
  BY SizesAssumption DEF Counts, Starts
<1>2. ASSUME NEW n \in Counts, Allocator!AllocRun(n) PROVE Allocator!Next
  BY <1>1, <1>2, Zenon DEF Allocator!Next
<1>3. ASSUME ReturnStep PROVE Allocator!Next
  <2>1. Allocator!Frames = Frames
    BY Zenon DEF Allocator!Frames, Frames
  <2> QED
    BY <1>3, <2>1, Zenon DEF ReturnStep, Allocator!Next
<1>4. ASSUME NEW s \in Starts, NEW n \in Counts, Claim(s, n) PROVE Goal
  <2>1. Inv' /\ Allocator!AllocExactly(s, n) /\ pending' = pending
    BY <1>1, <1>4, ClaimStep, Zenon DEF Claim
  <2>2. Allocator!Next
    BY <1>1, <2>1, Zenon DEF Allocator!Next
  <2> QED
    BY <2>1, <2>2, Zenon
<1>5. ASSUME alloc_frame PROVE Goal
  BY <1>1, <1>2, <1>5, TakeFrameStep, Zenon DEF alloc_frame
<1>6. ASSUME NEW n \in Counts, alloc_frames_contiguous(n) PROVE Goal
  BY <1>1, <1>2, <1>6, TakeFramesStep, Zenon DEF alloc_frames_contiguous
<1>7. ASSUME NEW n \in Counts, alloc_multiple_frames(n) PROVE Goal
  BY <1>1, <1>2, <1>7, TakeFrameStep, TakeFramesStep, Zenon DEF alloc_multiple_frames
<1>8. ASSUME NEW n \in Counts, n + 2 \in Counts, alloc_guarded_region(n) PROVE Goal
  BY <1>1, <1>2, <1>8, TakeFramesStep, Zenon DEF alloc_guarded_region
<1>9. ASSUME NEW n \in Counts, alloc_and_map(n) PROVE Goal
  BY <1>1, <1>2, <1>9, TakeFramesStep, Zenon DEF alloc_and_map
<1>10. ASSUME alloc_kernel_stack PROVE Goal
  BY <1>1, <1>2, <1>10, TakeFramesStep, Zenon DEF alloc_kernel_stack
<1>11. ASSUME alloc_dma_capable_frame PROVE Goal
  <2>1. Inv' /\ Allocator!AllocSome /\ pending' = pending
    BY <1>11, DmaStep, Zenon DEF alloc_dma_capable_frame
  <2> QED
    BY <2>1, Zenon DEF Allocator!Next
<1>12. ASSUME NEW a \in 1..MaxCount, NEW n \in Counts, alloc_aligned(a, n) PROVE Goal
  <2>1. a \in Nat \ {0}
    BY SizesAssumption
  <2>2. Inv' /\ Allocator!AllocAligned(a, n) /\ pending' = pending
    BY <1>1, <1>12, <2>1, AlignedStep, Zenon DEF alloc_aligned
  <2>3. Allocator!Next
    BY <1>1, <2>2, Zenon DEF Allocator!Next
  <2> QED
    BY <2>2, <2>3, Zenon
<1>13. ASSUME NEW f \in Starts, alloc_at(f) PROVE Goal
  BY <1>1, <1>4, <1>13, Zenon DEF alloc_at
<1>14. ASSUME NEW f \in Starts, alloc_specific_frame(f) PROVE Goal
  BY <1>1, <1>4, <1>14, Zenon DEF alloc_specific_frame
<1>15. ASSUME NEW f \in Starts, Freeable({f}), free_frame(f) PROVE Goal
  BY <1>3, <1>15, FreeStep, Zenon DEF Freeable, free_frame
<1>16. ASSUME NEW f \in Starts, reserve_frame(f) PROVE Goal
  BY <1>1, <1>3, <1>16, ReserveFrameStep, Zenon DEF reserve_frame
<1>17. ASSUME NEW s \in Starts, NEW n \in Counts, alloc_specific_range(s, n) PROVE Goal
  BY <1>4, <1>17, Zenon DEF alloc_specific_range
<1>18. ASSUME NEW s \in Starts, NEW n \in Counts, validate_and_alloc(s, n) PROVE Goal
  BY <1>4, <1>18, Zenon DEF validate_and_alloc
<1>19. ASSUME NEW s \in Starts, NEW n \in Counts, Freeable(Run(s, n)),
              free_frames_contiguous(s, n)
       PROVE  Goal
  BY <1>3, <1>19, FreeStep, Zenon DEF Freeable, free_frames_contiguous
<1>20. ASSUME NEW s \in Starts, NEW n \in Counts, Run(s, n) \subseteq Free,
              mark_as_used(s, n)
       PROVE  Goal
  BY <1>1, <1>3, <1>20, MarkStep, Zenon DEF mark_as_used
<1>21. ASSUME NEW s \in Starts, NEW n \in Counts, Run(s, n) \subseteq Free,
              reserve_region_for_boot(s, n)
       PROVE  Goal
  BY <1>1, <1>3, <1>21, ReserveRegionStep, Zenon DEF reserve_region_for_boot
<1>22. ASSUME NEW s \in Starts, NEW n \in Counts, Unclaimed(Run(s, n)),
              init_region(s, n)
       PROVE  Goal
  BY <1>1, <1>3, <1>22, InitRegionStep, Zenon DEF init_region
<1>23. ASSUME NEW mapped \in BOOLEAN, alloc_and_map_end(mapped) PROVE Goal
  BY <1>3, <1>23, MapEndStep, Zenon
<1>24. ASSUME held = {}, reset_all_bits PROVE Goal
  <2>1. Inv' /\ Allocator!Reset /\ pending' = pending
    BY <1>24, ResetStep, Zenon DEF reset_all_bits
  <2> QED
    BY <2>1, Zenon DEF Allocator!Next
<1> HIDE DEF Goal
<1>25. Goal
  BY <1>5, <1>6, <1>7, <1>8, <1>9, <1>10, <1>11, <1>12, <1>13, <1>14, <1>15,
     <1>16, <1>17, <1>18, <1>19, <1>20, <1>21, <1>22, <1>23, <1>24, ZenonT(60) DEF Next
<1> QED
  BY <1>25, Zenon DEF Goal

\* The invariant holds in every reachable state.
LEMMA Invariance == Spec => []Inv
<1>1. Inv /\ UNCHANGED vars => Inv'
  BY Zenon DEF Inv, TypeOK, HeldIsMarked, vars
<1>2. Inv /\ [Next]_vars => Inv'
  BY <1>1, NextStep, Zenon
<1> QED
  BY InitInv, <1>2, PTL DEF Spec

\* The state has its types; in particular no counter wraps below zero.
THEOREM TypeCorrect == Spec => []TypeOK
<1>1. Inv => TypeOK
  BY Zenon DEF Inv
<1> QED
  BY Invariance, <1>1, PTL

\* used_frames and reserved_frames count exactly the frames that callers hold
\* and that are put aside, for every size of memory.
THEOREM CountersAreExact == Spec => []CountersExact
BY Invariance, InvCounts, PTL

\* A held or reserved frame is marked in the bitmap, and never both held and
\* reserved.
THEOREM HeldFramesAreMarked == Spec => []HeldIsMarked
<1>1. Inv => HeldIsMarked
  BY Zenon DEF Inv
<1> QED
  BY Invariance, <1>1, PTL

\* A mapping that fails in alloc_and_map gives every one of its frames back.
THEOREM FailedMappingsLeakNothing == Spec => FailedMappingLeaksNothing
<1>1. Inv /\ [Next]_vars
        => [pending # {} /\ pending' = {} /\ held' # held
              => pending \subseteq Free']_vars
  BY NextStep, Zenon
<1> QED
  BY Invariance, <1>1, PTL DEF Spec, FailedMappingLeaksNothing

\* The manager implements FrameAllocator: no frame has two holders, and a
\* request is refused only when no free frames satisfy it.
THEOREM ImplementsFrameAllocator == Spec => IsFrameAllocator
<1>1. new => Allocator!Init
  <2>1. Free \subseteq Allocator!Frames
    BY Zenon DEF Free, Frames, Allocator!Frames
  <2> QED
    BY <2>1, Zenon DEF new, Allocator!Init, Allocator!Quiet, Quiet
<1>2. Inv /\ [Next]_vars => [Allocator!Next]_(Allocator!vars)
  <2>1. UNCHANGED vars => UNCHANGED <<Free, held, reserved, call>>
    BY FreeIsUnmarked, FreeIsUnmarkedNext, Zenon DEF vars
  <2> QED
    BY <2>1, NextStep, Zenon DEF Allocator!vars
<1> QED
  BY <1>1, <1>2, Invariance, PTL DEF Spec, IsFrameAllocator, Allocator!Spec

=============================================================================
