--------------------------- MODULE FrameAllocator ---------------------------
(***************************************************************************)
(* What the physical memory manager promises: every frame is free, held by *)
(* a caller, reserved, or not offered for use; a request is granted with   *)
(* free frames only, and is refused only when no free frames satisfy it.   *)
(* The last request and its answer are part of the state, so that a        *)
(* refusal is a step of its own and not a stutter.                         *)
(***************************************************************************)
EXTENDS Integers, FiniteSets

CONSTANTS TotalFrames, MaxCount  \* frames; bound on the size of a request

VARIABLES
  free,      \* frames that can be granted
  held,      \* frames granted and not given back
  reserved,  \* frames withdrawn for good
  call       \* the last request and the frames it was granted

vars == <<free, held, reserved, call>>

Frames == 0..(TotalFrames - 1)
Run(s, n) == s..(s + n - 1)
Quiet == [op |-> "none", arg |-> <<>>, got |-> {}]

Init == /\ free \subseteq Frames
        /\ held = {} /\ reserved = {}
        /\ call = Quiet

\* A request that any of the sets of frames in Choices satisfies.
Request(op, arg, Choices) ==
  /\ \/ /\ call' = [op |-> op, arg |-> arg, got |-> {}]
        /\ \A r \in Choices : ~(r \subseteq free)
        /\ UNCHANGED <<free, held>>
     \/ \E r \in Choices : /\ call' = [op |-> op, arg |-> arg, got |-> r]
                           /\ r \subseteq free
                           /\ free' = free \ r
                           /\ held' = held \cup r
  /\ UNCHANGED reserved

\* Any n adjacent frames; n adjacent frames at an aligned start; these frames.
AllocRun(n) == Request("run", <<n>>, {Run(s, n) : s \in Frames})
AllocAligned(a, n) ==
  Request("aligned", <<a, n>>, {Run(s, n) : s \in {f \in Frames : f % a = 0}})
AllocExactly(s, n) == Request("exactly", <<s, n>>, {Run(s, n)})

\* A request that may be refused although a frame would satisfy it.
AllocSome ==
  /\ \/ /\ call' = [op |-> "some", arg |-> <<>>, got |-> {}]
        /\ UNCHANGED <<free, held>>
     \/ \E f \in free : /\ call' = [op |-> "some", arg |-> <<>>, got |-> {f}]
                        /\ free' = free \ {f}
                        /\ held' = held \cup {f}
  /\ UNCHANGED reserved

Release(S) == /\ call' = Quiet
              /\ S \subseteq held
              /\ free' = free \cup S
              /\ held' = held \ S
              /\ UNCHANGED reserved

Withdraw(S) == /\ call' = Quiet
               /\ S \subseteq free
               /\ free' = free \ S
               /\ \/ held' = held \cup S /\ UNCHANGED reserved
                  \/ reserved' = reserved \cup S /\ UNCHANGED held

Offer(S) == /\ call' = Quiet
            /\ S \cap (held \cup reserved) = {}
            /\ free' = free \cup S
            /\ UNCHANGED <<held, reserved>>

Reset == /\ call' = Quiet
         /\ held = {}
         /\ free' = Frames
         /\ reserved' = {}
         /\ UNCHANGED held

Next == \/ \E n \in 0..MaxCount : AllocRun(n)
        \/ \E a \in 1..MaxCount, n \in 0..MaxCount : AllocAligned(a, n)
        \/ \E s \in 0..TotalFrames, n \in 0..MaxCount : AllocExactly(s, n)
        \/ AllocSome
        \/ \E S \in SUBSET Frames : Release(S) \/ Withdraw(S) \/ Offer(S)
        \/ Reset

Spec == Init /\ [][Next]_vars
=============================================================================
