--------------------------- MODULE PhysicalMemory ---------------------------
(***************************************************************************)
(* The physical frame manager of src/memory/physical.rs: a bitmap of       *)
(* frames scanned a word at a time, two counters and a search hint.        *)
(*                                                                         *)
(* An address is its frame number.  `new' does not clear the bitmap, so    *)
(* its first contents are arbitrary; init_region makes memory available.   *)
(* held and reserved are history variables: the frames callers were given, *)
(* and the frames put aside.  pending are the frames alloc_and_map has     *)
(* taken and is now passing to its mapping callback, which may itself      *)
(* allocate and free.                                                      *)
(***************************************************************************)
EXTENDS Integers, FiniteSets

CONSTANTS
  TotalFrames,  \* total_frames
  WordBits,     \* bits of a bitmap word (64)
  LowFrames,    \* frames below 0x100000, the DMA limit (256)
  MaxCount,     \* bound: the largest number of frames a caller asks for
  None          \* Option::None

ASSUME SizesAssumption == /\ TotalFrames \in Nat
                          /\ WordBits \in Nat \ {0}
                          /\ LowFrames \in Nat
                          /\ MaxCount \in Nat \ {0, 1}
ASSUME NoneAssumption == None \notin Nat

VARIABLES
  bitmap,              \* the bits that are set
  used_frames,
  reserved_frames,
  max_reserved_frame,  \* where alloc_frame starts to search
  held, reserved, pending,
  call                 \* the last request and the frames it was granted

vars == <<bitmap, used_frames, reserved_frames, max_reserved_frame,
          held, reserved, pending, call>>

Frames == 0..(TotalFrames - 1)
Words == 0..(((TotalFrames + WordBits - 1) \div WordBits) - 1)
BitmapBits == {w * WordBits + b : w \in Words, b \in 0..(WordBits - 1)}

Run(s, n) == s..(s + n - 1)
Least(S) == CHOOSE x \in S : \A y \in S : x <= y
Quiet == [op |-> "none", arg |-> <<>>, got |-> {}]

\* A frame outside the managed memory reads as free.
get_bit(f) == f < TotalFrames /\ f \in bitmap
Free == {f \in Frames : ~get_bit(f)}

new == /\ bitmap \in SUBSET BitmapBits
       /\ used_frames = 0 /\ reserved_frames = 0 /\ max_reserved_frame = 0
       /\ held = {} /\ reserved = {} /\ pending = {}
       /\ call = Quiet

(***************************************************************************)
(* The search of a bitmap word: the bits that are clear, without those     *)
(* below the start in the first word.  The bits of the last word that are  *)
(* past the last frame are searched too and then rejected.                 *)
(***************************************************************************)
\* Faulty variant: the mask of the first word drops the start itself.
MaskOffByOne(w, start) ==
  {b \in 0..(WordBits - 1) : /\ w * WordBits + b \notin bitmap
                             /\ w = start \div WordBits => b > start % WordBits}
masked_word(w, start) ==
  {b \in 0..(WordBits - 1) : /\ w * WordBits + b \notin bitmap
                             /\ w = start \div WordBits => b >= start % WordBits}
first_in_word(w, start) == w * WordBits + Least(masked_word(w, start))
words_with_free(start) ==
  {w \in Words : /\ w >= start \div WordBits
                 /\ masked_word(w, start) # {}
                 /\ first_in_word(w, start) < TotalFrames}
find_first_free_frame_from(start) ==
  IF words_with_free(start) = {}
  THEN None
  ELSE first_in_word(Least(words_with_free(start)), start)

-----------------------------------------------------------------------------
\* set_bit for each frame of S, and what every allocation does with it.
set_bits(S) == bitmap' = bitmap \cup (S \cap Frames)
clear_bits(S) == bitmap' = bitmap \ (S \cap Frames)
RaiseHint(f) == max_reserved_frame' =
                  IF f > max_reserved_frame THEN f ELSE max_reserved_frame

Grant(op, arg, S) == /\ set_bits(S)
                     /\ used_frames' = used_frames + Cardinality(S)
                     /\ held' = held \cup S
                     /\ call' = [op |-> op, arg |-> arg, got |-> S]
                     /\ UNCHANGED <<reserved_frames, reserved>>

Refuse(op, arg) == /\ call' = [op |-> op, arg |-> arg, got |-> {}]
                   /\ UNCHANGED <<bitmap, used_frames, reserved_frames,
                                  max_reserved_frame, held, reserved>>

\* Faulty variant: without the second search from the beginning.
HintOnly == find_first_free_frame_from(max_reserved_frame)
\* The frame alloc_frame takes: from the hint on, else from the beginning.
frame_to_alloc ==
  LET found == find_first_free_frame_from(max_reserved_frame)
  IN IF found # None THEN found
     ELSE IF Free # {} THEN Least(Free) ELSE None

TakeFrame ==
  IF frame_to_alloc = None
  THEN Refuse("run", <<1>>)
  ELSE Grant("run", <<1>>, {frame_to_alloc}) /\ RaiseHint(frame_to_alloc)

\* Faulty variant: only the first frame of the run is looked at.
TakeRunFirstOnly(n) ==
  LET starts == {s \in 0..(TotalFrames - n) : ~get_bit(s)}
  IN /\ n <= TotalFrames
     /\ IF starts = {}
        THEN Refuse("run", <<n>>)
        ELSE /\ Grant("run", <<n>>, Run(Least(starts), n))
             /\ RaiseHint(Least(starts) + n)
\* total_frames - count traps when it underflows: the kernel panics, and
\* there is no next state.
TakeRun(n) ==
  LET starts == {s \in 0..(TotalFrames - n) : \A f \in Run(s, n) : ~get_bit(f)}
  IN /\ n <= TotalFrames
     /\ IF starts = {}
        THEN Refuse("run", <<n>>)
        ELSE /\ Grant("run", <<n>>, Run(Least(starts), n))
             /\ RaiseHint(Least(starts) + n)

TakeFrames(n) == \/ n = 0 /\ Refuse("run", <<n>>)
                 \/ n = 1 /\ TakeFrame
                 \/ n > 1 /\ TakeRun(n)

alloc_frame == TakeFrame /\ UNCHANGED pending
alloc_frames_contiguous(n) == TakeFrames(n) /\ UNCHANGED pending
alloc_multiple_frames(n) ==
  (IF n <= 1 THEN TakeFrame ELSE TakeFrames(n)) /\ UNCHANGED pending
alloc_kernel_stack == TakeFrames(2) /\ UNCHANGED pending
alloc_guarded_region(n) == TakeFrames(n + 2) /\ UNCHANGED pending

\* A frame above the limit is given back at once; the hint stays raised.
alloc_dma_capable_frame ==
  /\ LET f == frame_to_alloc
     IN \/ f = None /\ Refuse("some", <<>>)
        \/ f # None /\ f < LowFrames /\ Grant("some", <<>>, {f}) /\ RaiseHint(f)
        \/ /\ f # None /\ f >= LowFrames
           /\ call' = [op |-> "some", arg |-> <<>>, got |-> {}]
           /\ RaiseHint(f)
           /\ UNCHANGED <<bitmap, used_frames, reserved_frames, held, reserved>>
  /\ UNCHANGED pending

alloc_aligned(a, n) ==
  LET starts == {s \in Frames : /\ s % a = 0
                                /\ \A f \in Run(s, n) : f < TotalFrames /\ ~get_bit(f)}
  IN /\ IF starts = {}
        THEN Refuse("aligned", <<a, n>>)
        ELSE /\ Grant("aligned", <<a, n>>, Run(Least(starts), n))
             /\ UNCHANGED max_reserved_frame
     /\ UNCHANGED pending

\* The functions that take the frames the caller names, or none of them.
Claim(s, n) ==
  /\ IF \E f \in Run(s, n) : f >= TotalFrames \/ get_bit(f)
     THEN Refuse("exactly", <<s, n>>)
     ELSE Grant("exactly", <<s, n>>, Run(s, n)) /\ UNCHANGED max_reserved_frame
  /\ UNCHANGED pending
alloc_at(f) == Claim(f, 1)
alloc_specific_frame(f) == Claim(f, 1)
alloc_specific_range(s, n) == Claim(s, n)
validate_and_alloc(s, n) == Claim(s, n)

-----------------------------------------------------------------------------
\* Only a frame whose bit is set is freed and counted.
GiveBack(S) ==
  LET set == {f \in S : get_bit(f)}
  IN /\ clear_bits(set)
     /\ used_frames' = used_frames - Cardinality(set)
     /\ held' = held \ set
     /\ call' = Quiet
     /\ UNCHANGED <<reserved_frames, max_reserved_frame, reserved>>
free_frame(f) == GiveBack({f}) /\ UNCHANGED pending
free_frames_contiguous(s, n) == GiveBack(Run(s, n)) /\ UNCHANGED pending

\* alloc_and_map before and after its callback: the frames are given back
\* when the callback could not map them.
alloc_and_map(n) == /\ pending = {}
                    /\ TakeFrames(n)
                    /\ pending' = call'.got
\* Faulty variant: only the first frame is given back.
AllocAndMapLeaks(mapped) ==
  /\ pending # {}
  /\ pending' = {}
  /\ IF mapped
     THEN UNCHANGED <<bitmap, used_frames, reserved_frames, max_reserved_frame,
                      held, reserved, call>>
     ELSE GiveBack({Least(pending)})
alloc_and_map_end(mapped) ==
  /\ pending # {}
  /\ pending' = {}
  /\ IF mapped
     THEN UNCHANGED <<bitmap, used_frames, reserved_frames, max_reserved_frame,
                      held, reserved, call>>
     ELSE GiveBack(pending)

\* Faulty variant: a frame that is taken already is reserved once more.
ReserveUnchecked(f) ==
  /\ set_bits({f})
  /\ reserved_frames' = reserved_frames + 1
  /\ reserved' = reserved \cup ({f} \cap Frames)
  /\ RaiseHint(f)
  /\ call' = Quiet
  /\ UNCHANGED <<used_frames, held, pending>>
reserve_frame(f) ==
  /\ IF f < TotalFrames /\ ~get_bit(f)
     THEN /\ set_bits({f})
          /\ reserved_frames' = reserved_frames + 1
          /\ reserved' = reserved \cup {f}
          /\ RaiseHint(f)
     ELSE UNCHANGED <<bitmap, reserved_frames, reserved, max_reserved_frame>>
  /\ call' = Quiet
  /\ UNCHANGED <<used_frames, held, pending>>

\* The boot-time functions on a region of n frames.  They do not look at the
\* bits, and the counters change by the size of the region.
mark_as_used(s, n) ==
  /\ set_bits(Run(s, n))
  /\ used_frames' = used_frames + n
  /\ held' = held \cup Run(s, n)
  /\ call' = Quiet
  /\ UNCHANGED <<reserved_frames, max_reserved_frame, reserved, pending>>
reserve_region_for_boot(s, n) ==
  /\ set_bits(Run(s, n))
  /\ reserved_frames' = reserved_frames + n
  /\ reserved' = reserved \cup Run(s, n)
  /\ call' = Quiet
  /\ UNCHANGED <<used_frames, max_reserved_frame, held, pending>>
init_region(s, n) ==
  /\ clear_bits(Run(s, n))
  /\ call' = Quiet
  /\ UNCHANGED <<used_frames, reserved_frames, max_reserved_frame, held,
                 reserved, pending>>
reset_all_bits ==
  /\ bitmap' = {}
  /\ used_frames' = 0 /\ reserved_frames' = 0
  /\ held' = {} /\ reserved' = {}
  /\ call' = Quiet
  /\ UNCHANGED <<max_reserved_frame, pending>>

-----------------------------------------------------------------------------
(***************************************************************************)
(* The callers.  They free what was granted (or is free already), declare  *)
(* at boot only regions that lie in memory and are free, offer only memory *)
(* nobody has, and clear the bitmap only while nothing is held.  Nothing   *)
(* in the code enforces this.                                              *)
(***************************************************************************)
Freeable(S) == S \cap pending = {} /\ \A f \in S : get_bit(f) => f \in held
Unclaimed(S) == S \subseteq Frames /\ S \cap (held \cup reserved) = {}
Counts == 0..MaxCount
Starts == 0..TotalFrames

Next ==
  \/ alloc_frame
  \/ \E n \in Counts : \/ alloc_frames_contiguous(n)
                       \/ alloc_multiple_frames(n)
                       \/ n + 2 \in Counts /\ alloc_guarded_region(n)
                       \/ alloc_and_map(n)
  \/ alloc_kernel_stack
  \/ alloc_dma_capable_frame
  \/ \E a \in 1..MaxCount, n \in Counts : alloc_aligned(a, n)
  \/ \E f \in Starts : \/ alloc_at(f)
                       \/ alloc_specific_frame(f)
                       \/ Freeable({f}) /\ free_frame(f)
                       \/ reserve_frame(f)
  \/ \E s \in Starts, n \in Counts :
       \/ alloc_specific_range(s, n)
       \/ validate_and_alloc(s, n)
       \/ Freeable(Run(s, n)) /\ free_frames_contiguous(s, n)
       \/ Run(s, n) \subseteq Free /\ mark_as_used(s, n)
       \/ Run(s, n) \subseteq Free /\ reserve_region_for_boot(s, n)
       \/ Unclaimed(Run(s, n)) /\ init_region(s, n)
  \/ \E mapped \in BOOLEAN : alloc_and_map_end(mapped)
  \/ held = {} /\ reset_all_bits

Spec == new /\ [][Next]_vars

-----------------------------------------------------------------------------
\* What the counters say is free.
get_free_frames == TotalFrames - used_frames - reserved_frames

-----------------------------------------------------------------------------
(***************************************************************************)
(* Properties.                                                             *)
(***************************************************************************)

\* The state has its types; used_frames and reserved_frames never wrap below
\* zero, although every free subtracts one from a counter without a check.
TypeOK == /\ bitmap \subseteq BitmapBits
          /\ used_frames \in Nat /\ reserved_frames \in Nat
          /\ max_reserved_frame \in 0..TotalFrames
          /\ held \subseteq Frames /\ reserved \subseteq Frames
          /\ pending \subseteq Frames
          /\ call.got \subseteq Frames

\* The counters are what get_used_frames and get_reserved_frames report: as
\* many frames as callers hold, and as many as are put aside, after any
\* sequence of grants, refusals, double frees and failed mappings; so the
\* subtraction of get_free_frames does not underflow.
CountersExact == /\ used_frames = Cardinality(held)
                 /\ reserved_frames = Cardinality(reserved)
                 /\ get_free_frames >= Cardinality(Free)

\* A frame a caller holds is marked in the bitmap and is not reserved: no
\* search can find it again until the caller gives it back.
HeldIsMarked == /\ held \cup reserved \subseteq bitmap
                /\ held \cap reserved = {}
                /\ pending \subseteq held

\* When the mapping callback of alloc_and_map fails, every frame taken for it
\* is free again, whatever the callback itself allocated and freed meanwhile.
FailedMappingLeaksNothing ==
  [][pending # {} /\ pending' = {} /\ held' # held => pending \subseteq Free']_vars

\* The word-at-a-time search of find_first_free_frame_from, with its mask in
\* the first word and its partial last word, finds the first free frame at or
\* after the start, and none only when there is none.
WordScanFindsFirstFree ==
  \A start \in 0..TotalFrames :
    LET after == {f \in Free : f >= start}
    IN find_first_free_frame_from(start) =
         IF after = {} THEN None ELSE Least(after)

\* The manager is a frame allocator: it grants free frames only, so no frame
\* has two holders, and refuses only what no free frames satisfy, whatever
\* the search hint is.
Allocator == INSTANCE FrameAllocator WITH free <- Free
IsFrameAllocator == Allocator!Spec
=============================================================================
