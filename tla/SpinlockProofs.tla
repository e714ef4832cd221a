---------------------------- MODULE SpinlockProofs ----------------------------
(***************************************************************************)
(* The properties of module Spinlock, for any number of tasks and locks of *)
(* any kind, any depth of nested handlers and guards, and any limit on the *)
(* attempts: interrupt-safe locks exclude interrupts, the CPU stops only   *)
(* behind a holder, and the locks implement Mutex.                         *)
(***************************************************************************)
EXTENDS Spinlock, SequenceTheorems, TLAPS

Doings ==
  {Idle}
    \cup [op : {"take"}, lock : Locks, tries : Nat,
          by : {"lock", "try_lock", "backoff", "timeout", "acquire"}]
    \cup [op : {"drop"}, lock : Locks, todo : Seq({"unlock", "sti"})]
Frame == [held : Seq(Locks), doing : Doings]

TypeOK ==
  /\ locked \in [Locks -> BOOLEAN]
  /\ cur \in Tasks
  /\ frames \in [Tasks -> Seq(Frame)]
  /\ \A t \in Tasks : frames[t] # <<>>
  /\ IF_ \in BOOLEAN /\ halted \in BOOLEAN

\* A guard is held once; one being waited for is not held by the same frame;
\* the guard being dropped is the last one until its lock is given back.
FrameOK(f) ==
  /\ \A k, m \in DOMAIN f.held : f.held[k] = f.held[m] => k = m
  /\ f.doing.op = "take" =>
       /\ f.doing.lock \notin Holds(f)
       /\ f.doing.by = "lock" => Kind[f.doing.lock] # "raw"
       /\ f.doing.by = "backoff" => Kind[f.doing.lock] = "spin"
  /\ f.doing.op = "drop" =>
       \/ /\ f.doing.todo = DropOrder(Kind[f.doing.lock])
          /\ f.held # <<>> /\ f.doing.lock = Last(f.held)
       \/ f.doing.todo = <<"sti">> /\ f.doing.lock \notin Holds(f)
FramesOK == \A t \in Tasks : \A i \in 1 .. Len(frames[t]) : FrameOK(frames[t][i])

\* No lock is held by two frames.
HeldOnce ==
  \A t, u \in Tasks : \A i \in 1 .. Len(frames[t]), j \in 1 .. Len(frames[u]) :
    \A l \in Holds(frames[t][i]) \cap Holds(frames[u][j]) : t = u /\ i = j

\* A stack of frames holds a lock if one of its frames does; the flag of a
\* lock says whether somebody has a guard of it.
HeldIn(stack, l) == \E i \in 1 .. Len(stack) : l \in Holds(stack[i])
FlagIsGuard == \A l \in Locks : locked[l] <=> \E t \in Tasks : HeldIn(frames[t], l)

\* Only the frame on the CPU waits for an interrupt-safe lock, with
\* interrupts off.
WaitsWithCli ==
  \A t \in Tasks : \A i \in 1 .. Len(frames[t]) :
    LET d == frames[t][i].doing
    IN d.op = "take" /\ Kind[d.lock] = "irq" => t = cur /\ i = Depth /\ ~ IF_

Inv ==
  /\ TypeOK /\ FramesOK /\ HeldOnce /\ FlagIsGuard /\ WaitsWithCli
  /\ IrqLockExcludesInterrupts

-----------------------------------------------------------------------------
\* Sequences of guards: what Range makes of Append and Front.
LEMMA HoldsType ==
  ASSUME NEW h \in Seq(Locks)
  PROVE  /\ Range(h) \subseteq Locks
         /\ DOMAIN h = 1 .. Len(h) /\ Len(h) \in Nat
         /\ h # <<>> => Len(h) \in 1 .. Len(h) /\ Last(h) \in Range(h)
<1>1. Len(h) \in Nat /\ DOMAIN h = 1 .. Len(h) /\ h \in [1 .. Len(h) -> Locks]
  BY LenProperties, Zenon
<1>2. h # <<>> => Len(h) \in 1 .. Len(h)
  BY <1>1, EmptySeq
<1> QED
  BY <1>1, <1>2, Zenon DEF Range, Last

LEMMA AppendGuard ==
  ASSUME NEW h \in Seq(Locks), NEW l \in Locks, l \notin Range(h),
         \A k, m \in DOMAIN h : h[k] = h[m] => k = m
  PROVE  /\ Append(h, l) \in Seq(Locks)
         /\ Range(Append(h, l)) = Range(h) \cup {l}
         /\ \A k, m \in DOMAIN Append(h, l) :
              Append(h, l)[k] = Append(h, l)[m] => k = m
<1> DEFINE a == Append(h, l)
<1>1. /\ a \in Seq(Locks) /\ Len(a) = Len(h) + 1
      /\ \A i \in 1 .. Len(h) : a[i] = h[i]
      /\ a[Len(h) + 1] = l
  BY AppendProperties
<1>2. Len(h) \in Nat /\ DOMAIN h = 1 .. Len(h) /\ DOMAIN a = 1 .. Len(h) + 1
  BY <1>1, LenProperties, Zenon
<1> HIDE DEF a
<1>3. Range(a) = Range(h) \cup {l}
  <2>1. \A i \in DOMAIN a : i \in DOMAIN h \/ i = Len(h) + 1
    BY <1>2
  <2>2. \A i \in DOMAIN h : i \in DOMAIN a /\ a[i] = h[i]
    BY <1>1, <1>2
  <2>3. Len(h) + 1 \in DOMAIN a
    BY <1>2
  <2> QED
    BY <1>1, <2>1, <2>2, <2>3, SMTT(40) DEF Range
<1>4. \A i \in 1 .. Len(h) : h[i] # l
  BY <1>2, Zenon DEF Range
<1>5. \A k, m \in DOMAIN a : a[k] = a[m] => k = m
  BY <1>1, <1>2, <1>4, SMTT(40)
<1> QED
  BY <1>1, <1>3, <1>5, Zenon DEF a

LEMMA FrontGuard ==
  ASSUME NEW h \in Seq(Locks), h # <<>>,
         \A k, m \in DOMAIN h : h[k] = h[m] => k = m
  PROVE  /\ Front(h) \in Seq(Locks)
         /\ Range(Front(h)) = Range(h) \ {Last(h)}
         /\ \A k, m \in DOMAIN Front(h) : Front(h)[k] = Front(h)[m] => k = m
<1> DEFINE n == Len(h)  f == Front(h)
<1>1. n \in Nat /\ DOMAIN h = 1 .. n /\ n > 0 /\ h \in [1 .. n -> Locks]
  BY LenProperties, EmptySeq, SMTT(40)
<1>2. /\ f \in Seq(Locks) /\ Len(f) = n - 1
      /\ \A i \in 1 .. n - 1 : f[i] = h[i]
  <2>1. \A i \in 1 .. n - 1 : h[i] \in Locks
    BY <1>1
  <2> QED
    BY <1>1, <2>1, SubSeqProperties, SMTT(40) DEF Front
<1>3. DOMAIN f = 1 .. n - 1
  BY <1>2, LenProperties, Zenon
<1> HIDE DEF f, n
<1>4. Range(f) = Range(h) \ {h[n]}
  <2>1. \A i \in DOMAIN f : i \in DOMAIN h /\ f[i] = h[i] /\ i # n
    BY <1>1, <1>2, <1>3, SMTT(40)
  <2>2. \A i \in DOMAIN h : i # n => i \in DOMAIN f
    BY <1>1, <1>3, SMTT(40)
  <2>3. n \in DOMAIN h
    BY <1>1
  <2> QED
    BY <2>1, <2>2, <2>3, SMTT(40) DEF Range
<1>5. \A k, m \in DOMAIN f : f[k] = f[m] => k = m
  BY <1>1, <1>2, <1>3, SMTT(40)
<1> QED
  BY <1>2, <1>4, <1>5, Zenon DEF f, n, Last

\* HeldBy in terms of the frames of a task.
LEMMA HeldByFrames ==
  ASSUME TypeOK, NEW t \in Tasks, NEW l
  PROVE  l \in HeldBy(t) <=> HeldIn(frames[t], l)
<1>1. DOMAIN frames[t] = 1 .. Len(frames[t])
  BY LenProperties, Zenon DEF TypeOK
<1> QED
  BY <1>1, Zenon DEF HeldBy, HeldIn

\* The frame on the CPU.
LEMMA TopIsFrame ==
  ASSUME TypeOK
  PROVE  /\ Depth \in 1 .. Depth /\ Depth \in Nat /\ Top \in Frame
         /\ Top.held \in Seq(Locks) /\ Top.doing \in Doings
<1>1. frames[cur] \in Seq(Frame) /\ frames[cur] # <<>>
  BY Zenon DEF TypeOK
<1>2. Depth \in Nat /\ Depth > 0 /\ frames[cur] \in [1 .. Depth -> Frame]
  BY <1>1, LenProperties, EmptySeq, SMTT(40) DEF Depth
<1>3. Top \in Frame
  BY <1>2 DEF Top
<1> QED
  BY <1>2, <1>3 DEF Frame

\* SetTop changes the frame on the CPU and no other.
LEMMA SetTopEffect ==
  ASSUME TypeOK, NEW h \in Seq(Locks), NEW d \in Doings, SetTop(h, d), cur' = cur
  PROVE  /\ frames' \in [Tasks -> Seq(Frame)]
         /\ \A t \in Tasks : frames'[t] # <<>> /\ Len(frames'[t]) = Len(frames[t])
         /\ Depth' = Depth /\ Top' = [held |-> h, doing |-> d]
         /\ \A t \in Tasks : \A i \in 1 .. Len(frames[t]) :
              frames'[t][i] = IF t = cur /\ i = Depth
                              THEN [held |-> h, doing |-> d] ELSE frames[t][i]
<1> DEFINE f == [held |-> h, doing |-> d]
           s == [frames[cur] EXCEPT ![Depth] = f]
<1>1. f \in Frame
  BY Zenon DEF Frame
<1>2. Depth \in 1 .. Len(frames[cur]) /\ cur \in Tasks /\ frames[cur] \in Seq(Frame)
  BY TopIsFrame, Zenon DEF Depth, TypeOK
<1> HIDE DEF f
<1>3. /\ s \in Seq(Frame) /\ Len(s) = Len(frames[cur])
      /\ \A j \in 1 .. Len(frames[cur]) : s[j] = IF j = Depth THEN f ELSE frames[cur][j]
  BY <1>1, <1>2, ExceptSeq, SMTT(40)
<1>4. frames' = [frames EXCEPT ![cur] = s]
  BY Zenon DEF SetTop, f
<1> HIDE DEF s
<1>5. frames' \in [Tasks -> Seq(Frame)] /\ frames'[cur] = s
  BY <1>2, <1>3, <1>4, Zenon DEF TypeOK
<1>6. \A t \in Tasks \ {cur} : frames'[t] = frames[t]
  BY <1>4, Zenon DEF TypeOK
<1>7. s # <<>>
  BY <1>2, <1>3, EmptySeq, SMTT(40)
<1>8. \A t \in Tasks : frames'[t] # <<>> /\ Len(frames'[t]) = Len(frames[t])
  BY <1>3, <1>5, <1>6, <1>7, ZenonT(40) DEF TypeOK
<1>9. Depth' = Depth /\ Top' = f
  BY <1>2, <1>3, <1>5, Zenon DEF Depth, Top
<1> QED
  BY <1>3, <1>5, <1>6, <1>8, <1>9, Zenon DEF f

-----------------------------------------------------------------------------
\* What a change of the frame on the CPU means for the conjuncts of Inv that
\* speak of all frames.
LEMMA SetTopKeepsFrames ==
  ASSUME Inv, NEW h \in Seq(Locks), NEW d \in Doings, SetTop(h, d), cur' = cur,
         FrameOK([held |-> h, doing |-> d]),
         d.op = "take" /\ Kind[d.lock] = "irq" => ~ IF_'
  PROVE  FramesOK' /\ WaitsWithCli'
<1> DEFINE f == [held |-> h, doing |-> d]
<1>1. /\ \A t \in Tasks : Len(frames'[t]) = Len(frames[t])
      /\ Depth' = Depth
      /\ \A t \in Tasks : \A i \in 1 .. Len(frames[t]) :
           frames'[t][i] = IF t = cur /\ i = Depth THEN f ELSE frames[t][i]
  BY SetTopEffect, Zenon DEF Inv
<1>2. f.doing = d /\ FrameOK(f)
  BY Zenon
<1> HIDE DEF f
<1>3. FramesOK'
  <2> SUFFICES ASSUME NEW t \in Tasks, NEW i \in 1 .. Len(frames'[t])
               PROVE  FrameOK(frames'[t][i])
    BY Zenon DEF FramesOK, FrameOK, Holds
  <2>1. i \in 1 .. Len(frames[t])
    BY <1>1, Zenon
  <2>2. FrameOK(frames[t][i])
    BY <2>1, Zenon DEF Inv, FramesOK
  <2> QED
    BY <1>1, <1>2, <2>1, <2>2, Zenon
<1>4. WaitsWithCli'
  <2> SUFFICES ASSUME NEW t \in Tasks, NEW i \in 1 .. Len(frames'[t]),
                      frames'[t][i].doing.op = "take",
                      Kind[frames'[t][i].doing.lock] = "irq"
               PROVE  t = cur' /\ i = Depth' /\ ~ IF_'
    BY Zenon DEF WaitsWithCli
  <2>1. i \in 1 .. Len(frames[t])
    BY <1>1, Zenon
  <2>2. CASE t = cur /\ i = Depth
    BY <1>1, <1>2, <2>1, <2>2, Zenon
  <2>3. CASE ~ (t = cur /\ i = Depth)
    <3>1. frames'[t][i] = frames[t][i]
      BY <1>1, <2>1, <2>3, Zenon
    <3> QED
      BY <2>1, <2>3, <3>1, Zenon DEF Inv, WaitsWithCli
  <2> QED
    BY <2>2, <2>3, Zenon
<1> QED
  BY <1>3, <1>4, Zenon

\* A step that changes only what the frame on the CPU is doing.
LEMMA SameGuards ==
  ASSUME Inv, NEW d \in Doings, SetTop(Top.held, d), cur' = cur, locked' = locked
  PROVE  /\ HeldOnce' /\ FlagIsGuard'
         /\ Top'.held = Top.held /\ Top'.doing = d /\ Holds(Top)' = Holds(Top)
         /\ \A t \in Tasks : \A l : HeldIn(frames'[t], l) <=> HeldIn(frames[t], l)
<1> DEFINE f == [held |-> Top.held, doing |-> d]
<1>1. TypeOK
  BY Zenon DEF Inv
<1>2. Top.held \in Seq(Locks)
  BY <1>1, TopIsFrame, Zenon
<1>3. /\ frames' \in [Tasks -> Seq(Frame)]
      /\ \A t \in Tasks : Len(frames'[t]) = Len(frames[t])
      /\ Top' = f
      /\ \A t \in Tasks : \A i \in 1 .. Len(frames[t]) :
           frames'[t][i] = IF t = cur /\ i = Depth THEN f ELSE frames[t][i]
  BY <1>1, <1>2, SetTopEffect, SMTT(40)
<1>4. f.held = Top.held /\ f.doing = d
  BY Zenon
<1> HIDE DEF f
<1>5. \A t \in Tasks : \A i \in 1 .. Len(frames[t]) :
        Holds(frames'[t][i]) = Holds(frames[t][i])
  BY <1>3, <1>4, Zenon DEF Holds, Top
<1>6. \A t \in Tasks : \A l : HeldIn(frames'[t], l) <=> HeldIn(frames[t], l)
  BY <1>3, <1>5, Zenon DEF HeldIn
<1>7. HeldOnce'
  <2> SUFFICES ASSUME NEW t \in Tasks, NEW u \in Tasks,
                      NEW i \in 1 .. Len(frames'[t]), NEW j \in 1 .. Len(frames'[u]),
                      NEW l \in Holds(frames'[t][i]) \cap Holds(frames'[u][j])
               PROVE  t = u /\ i = j
    BY Zenon DEF HeldOnce, Holds
  <2>1. i \in 1 .. Len(frames[t]) /\ j \in 1 .. Len(frames[u])
    BY <1>3, Zenon
  <2>2. l \in Holds(frames[t][i]) \cap Holds(frames[u][j])
    BY <1>5, <2>1, Zenon
  <2> QED
    BY <2>1, <2>2, ZenonT(40) DEF Inv, HeldOnce
<1>8. FlagIsGuard'
  BY <1>6, Zenon DEF Inv, FlagIsGuard
<1> QED
  BY <1>3, <1>4, <1>6, <1>7, <1>8, Zenon DEF Holds

\* TypeOK after a change of the frame on the CPU.
LEMMA SetTopType ==
  ASSUME TypeOK, NEW h \in Seq(Locks), NEW d \in Doings, SetTop(h, d), cur' = cur,
         locked' \in [Locks -> BOOLEAN], IF_' \in BOOLEAN, halted' \in BOOLEAN
  PROVE  TypeOK'
BY SetTopEffect, Zenon DEF TypeOK

\* Interrupt-safe locks keep their promise in a step that sets no interrupt
\* flag and changes no guard.
LEMMA SameGuardsExclude ==
  ASSUME Inv, locked' = locked, exposed' = exposed, Holds(Top)' = Holds(Top),
         IF_' => IF_
  PROVE  IrqLockExcludesInterrupts'
BY Zenon DEF Inv, IrqLockExcludesInterrupts

LEMMA DoingStep ==
  ASSUME Inv, NEW d \in Doings, SetTop(Top.held, d),
         UNCHANGED <<locked, cur, exposed>>,
         IF_' => IF_, IF_' \in BOOLEAN, halted' \in BOOLEAN,
         FrameOK([held |-> Top.held, doing |-> d]),
         d.op = "take" /\ Kind[d.lock] = "irq" => ~ IF_'
  PROVE  Inv'
<1>1. Top.held \in Seq(Locks) /\ TypeOK
  BY TopIsFrame, Zenon DEF Inv
<1>2. TypeOK'
  BY <1>1, SetTopType, Zenon DEF TypeOK
<1>3. FramesOK' /\ WaitsWithCli'
  BY <1>1, SetTopKeepsFrames, Zenon
<1>4. HeldOnce' /\ FlagIsGuard' /\ Holds(Top)' = Holds(Top)
  BY SameGuards, Zenon
<1>5. IrqLockExcludesInterrupts'
  BY <1>4, SameGuardsExclude, Zenon
<1> QED
  BY <1>2, <1>3, <1>4, <1>5, Zenon DEF Inv

\* What the frame on the CPU satisfies, and what it is when it waits.
LEMMA TopOK ==
  ASSUME Inv
  PROVE  FrameOK(Top)
<1>1. Depth \in 1 .. Len(frames[cur]) /\ cur \in Tasks
  BY TopIsFrame, Zenon DEF Inv, TypeOK, Depth
<1> QED
  BY <1>1, Zenon DEF Inv, FramesOK, Top

LEMMA WaitingTop ==
  ASSUME Inv, Doing("take")
  PROVE  /\ ~ halted /\ Wanted \in Locks /\ Wanted \notin Holds(Top)
         /\ Top.doing \in [op : {"take"}, lock : Locks, tries : Nat,
                           by : {"lock", "try_lock", "backoff", "timeout", "acquire"}]
         /\ Kind[Wanted] = "irq" => ~ IF_
         /\ Kind[Wanted] \in {"spin", "irq", "raw"}
<1>1. ~ halted /\ Top.doing.op = "take"
  BY Zenon DEF Doing
<1>2. Top.doing \in [op : {"take"}, lock : Locks, tries : Nat,
                     by : {"lock", "try_lock", "backoff", "timeout", "acquire"}]
  <2>1. Top.doing \in Doings
    BY TopIsFrame, Zenon DEF Inv
  <2> QED
    BY <1>1, <2>1, SMTT(40) DEF Doings, Idle
<1>3. Wanted \in Locks /\ Wanted \notin Holds(Top)
  BY <1>1, <1>2, TopOK, Zenon DEF FrameOK, Wanted
<1>4. Kind[Wanted] = "irq" => ~ IF_
  <2>1. Depth \in 1 .. Len(frames[cur]) /\ cur \in Tasks
    BY TopIsFrame, Zenon DEF Inv, TypeOK, Depth
  <2> QED
    BY <1>1, <2>1, Zenon DEF Inv, WaitsWithCli, Top, Wanted
<1> QED
  BY <1>1, <1>2, <1>3, <1>4, SpinlockAssumption, Zenon

\* A call begins.
LEMMA RequestInv ==
  ASSUME Inv, NEW l \in Locks,
         NEW m \in {"lock", "try_lock", "backoff", "timeout", "acquire"}, Request(l, m)
  PROVE  Inv'
<1> DEFINE d == [op |-> "take", lock |-> l, by |-> m, tries |-> 0]
           f == [held |-> Top.held, doing |-> d]
<1>1. d \in Doings /\ d.op = "take" /\ d.lock = l /\ d.by = m
  BY Zenon DEF Doings
<1>2. f.held = Top.held /\ f.doing = d
  BY Zenon
<1>3. SetTop(Top.held, d) /\ UNCHANGED <<locked, cur, exposed, halted>> /\ ~ halted
  BY Zenon DEF Request, Doing
<1> HIDE DEF d, f
<1>4. Holds(f) = Holds(Top) /\ l \notin Holds(Top)
  <2>1. Holds(Top) \subseteq Locks
    BY TopIsFrame, HoldsType, Zenon DEF Holds, Inv
  <2>2. \A k \in Holds(Top) : k < l
    BY Zenon DEF Request
  <2>3. \A k \in Locks : k \in Int
    BY SpinlockAssumption, ZenonT(40)
  <2> QED
    BY <1>2, <2>1, <2>2, <2>3, SMTT(40) DEF Holds
<1>5. m \in Methods(Kind[l]) /\ Kind[l] \in {"spin", "irq", "raw"}
  BY SpinlockAssumption, Zenon DEF Request
<1>6. /\ m = "lock" => Kind[l] # "raw"
      /\ m = "backoff" => Kind[l] = "spin"
  BY <1>5, Zenon DEF Methods
<1>7. FrameOK(f)
  BY <1>1, <1>2, <1>4, <1>6, TopOK, Zenon DEF FrameOK
<1>8. IF_' = (IF_ /\ Kind[l] # "irq") /\ IF_ \in BOOLEAN
  BY Zenon DEF Request, Inv, TypeOK
<1>9. halted' \in BOOLEAN
  BY <1>3, Zenon DEF Inv, TypeOK
<1> QED
  BY <1>1, <1>3, <1>7, <1>8, <1>9, DoingStep, Zenon DEF f

\* An attempt fails and is repeated: the frame goes on waiting.
LEMMA WaitOn ==
  ASSUME Inv, Doing("take"), NEW n \in Nat,
         SetTop(Top.held, [Top.doing EXCEPT !.tries = n]),
         UNCHANGED <<locked, cur, exposed>>,
         IF_' => IF_, IF_' \in BOOLEAN, halted' \in BOOLEAN
  PROVE  Inv'
<1> DEFINE d == [Top.doing EXCEPT !.tries = n]
           f == [held |-> Top.held, doing |-> d]
<1>1. /\ d \in Doings /\ d.op = Top.doing.op /\ d.lock = Wanted /\ d.by = Top.doing.by
      /\ d.op = "take"
  BY WaitingTop, Zenon DEF Doings, Wanted
<1>2. f.held = Top.held /\ f.doing = d
  BY Zenon
<1> HIDE DEF d, f
<1>3. FrameOK(f)
  BY <1>1, <1>2, TopOK, Zenon DEF FrameOK, Holds, Wanted
<1>4. Wanted \notin Holds(Top) /\ (Kind[Wanted] = "irq" => ~ IF_)
  BY WaitingTop, Zenon
<1>5. SetTop(Top.held, d)
  BY Zenon DEF d
<1> QED
  BY <1>1, <1>3, <1>4, <1>5, DoingStep, Zenon DEF f

\* A frame that has nothing to wait for.
LEMMA GiveUp ==
  ASSUME Inv, SetTop(Top.held, Idle), UNCHANGED <<locked, cur, exposed, IF_, halted>>,
         ~ halted
  PROVE  Inv'
<1> DEFINE f == [held |-> Top.held, doing |-> Idle]
<1>1. Idle \in Doings /\ Idle.op = "none"
  BY Zenon DEF Doings, Idle
<1>2. f.held = Top.held /\ f.doing = Idle
  BY Zenon
<1> HIDE DEF f
<1>3. FrameOK(f)
  BY <1>1, <1>2, TopOK, Zenon DEF FrameOK
<1> QED
  BY <1>1, <1>3, DoingStep, Zenon DEF f, Inv, TypeOK

LEMMA RetryWaits ==
  ASSUME Top.doing.tries \in Nat, NEW limit, Retry(limit)
  PROVE  \E n \in Nat : SetTop(Top.held, [Top.doing EXCEPT !.tries = n])
<1> DEFINE n == Top.doing.tries + 1
           k == IF n < limit THEN n ELSE 0
<1>1. k \in Nat
  OBVIOUS
<1>2. SetTop(Top.held, [Top.doing EXCEPT !.tries = k])
  BY Zenon DEF Retry
<1> HIDE DEF k
<1> QED
  BY <1>1, <1>2, Zenon

LEMMA LockFailsInv ==
  ASSUME Inv, LockFails
  PROVE  Inv'
<1>1. Doing("take") /\ Top.doing.by = "lock" /\ locked[Wanted]
  BY Zenon DEF LockFails, Taking
<1>2. /\ Wanted \in Locks /\ Wanted \notin Holds(Top) /\ Top.doing.tries \in Nat
      /\ Kind[Wanted] \in {"spin", "irq"} /\ Top.doing.op = "take"
  BY <1>1, WaitingTop, TopOK, Zenon DEF FrameOK, Wanted
<1>3. PICK n \in Nat : SetTop(Top.held, [Top.doing EXCEPT !.tries = n])
  BY <1>2, RetryWaits, Zenon DEF LockFails
<1>4. Kind[Wanted] = "irq" => Wanted \in exposed
  BY <1>1, <1>2, Zenon DEF Inv, IrqLockExcludesInterrupts
<1>5. /\ UNCHANGED <<locked, cur, exposed>>
      /\ IF_' => IF_
      /\ IF_' \in BOOLEAN /\ halted' \in BOOLEAN
  BY Zenon DEF LockFails, Inv, TypeOK
<1> QED
  BY <1>1, <1>2, <1>3, <1>4, <1>5, WaitOn, Zenon

LEMMA BackoffFailsInv ==
  ASSUME Inv, BackoffFails
  PROVE  Inv'
<1>1. Doing("take") /\ Top.doing.by = "backoff" /\ locked[Wanted]
  BY Zenon DEF BackoffFails, Taking
<1>2. Top.doing.tries \in Nat /\ Kind[Wanted] = "spin"
  BY <1>1, WaitingTop, TopOK, Zenon DEF FrameOK, Wanted
<1>3. PICK n \in Nat : SetTop(Top.held, [Top.doing EXCEPT !.tries = n])
  BY <1>2, RetryWaits, ZenonT(40) DEF BackoffFails
<1>4. /\ UNCHANGED <<locked, cur, exposed, IF_>>
      /\ IF_' \in BOOLEAN /\ halted' \in BOOLEAN
  BY Zenon DEF BackoffFails, Inv, TypeOK
<1> QED
  BY <1>1, <1>2, <1>3, <1>4, WaitOn, Zenon

LEMMA TryFailsInv ==
  ASSUME Inv, TryFails
  PROVE  Inv'
<1>1. Doing("take") /\ ~ halted
  BY Zenon DEF TryFails, Taking, Doing
<1>2. Top.doing.tries \in Nat
  BY <1>1, WaitingTop, Zenon
<1>3. /\ UNCHANGED <<locked, cur, IF_, halted, exposed>>
      /\ IF_' \in BOOLEAN /\ halted' \in BOOLEAN
  BY Zenon DEF TryFails, Inv, TypeOK
<1>4. CASE SetTop(Top.held, Idle)
  BY <1>1, <1>3, <1>4, GiveUp, Zenon
<1>5. CASE SetTop(Top.held, [Top.doing EXCEPT !.tries = Top.doing.tries + 1])
  <2> DEFINE n == Top.doing.tries + 1
  <2>1. n \in Nat
    BY <1>2
  <2>2. SetTop(Top.held, [Top.doing EXCEPT !.tries = n])
    BY <1>5, Zenon
  <2> HIDE DEF n
  <2> QED
    BY <1>1, <1>3, <2>1, <2>2, WaitOn, Zenon
<1> QED
  BY <1>4, <1>5, Zenon DEF TryFails

-----------------------------------------------------------------------------
\* The steps that change a guard.  Wanted is then the lock taken or given back.
LEMMA OthersKeepGuards ==
  ASSUME Inv, NEW h \in Seq(Locks), NEW d \in Doings, SetTop(h, d), cur' = cur
  PROVE  /\ Top'.held = h /\ Top'.doing = d /\ Holds(Top)' = Range(h)
         /\ \A t \in Tasks : \A i \in 1 .. Len(frames'[t]) :
              /\ i \in 1 .. Len(frames[t])
              /\ t = cur /\ i = Depth => Holds(frames'[t][i]) = Range(h)
              /\ ~ (t = cur /\ i = Depth) => Holds(frames'[t][i]) = Holds(frames[t][i])
         /\ \A t \in Tasks \ {cur} : \A l : HeldIn(frames'[t], l) <=> HeldIn(frames[t], l)
         /\ \A l : HeldIn(frames'[cur], l) <=>
              \/ l \in Range(h)
              \/ \E i \in 1 .. Len(frames[cur]) : i # Depth /\ l \in Holds(frames[cur][i])
<1> DEFINE f == [held |-> h, doing |-> d]
<1>1. TypeOK /\ cur \in Tasks /\ Depth \in 1 .. Len(frames[cur])
  BY TopIsFrame, Zenon DEF Inv, TypeOK, Depth
<1>2. /\ frames' \in [Tasks -> Seq(Frame)]
      /\ \A t \in Tasks : Len(frames'[t]) = Len(frames[t])
      /\ Top' = f
      /\ \A t \in Tasks : \A i \in 1 .. Len(frames[t]) :
           frames'[t][i] = IF t = cur /\ i = Depth THEN f ELSE frames[t][i]
  BY <1>1, SetTopEffect, Zenon
<1>3. f.held = h /\ f.doing = d
  BY Zenon
<1> HIDE DEF f
<1>4. \A t \in Tasks : \A i \in 1 .. Len(frames[t]) :
        /\ t = cur /\ i = Depth => Holds(frames'[t][i]) = Range(h)
        /\ ~ (t = cur /\ i = Depth) => Holds(frames'[t][i]) = Holds(frames[t][i])
  BY <1>2, <1>3, Zenon DEF Holds
<1>5. \A t \in Tasks \ {cur} : \A l : HeldIn(frames'[t], l) <=> HeldIn(frames[t], l)
  BY <1>2, <1>4, Zenon DEF HeldIn
<1>6. \A l : HeldIn(frames'[cur], l) <=>
        \/ l \in Range(h)
        \/ \E i \in 1 .. Len(frames[cur]) : i # Depth /\ l \in Holds(frames[cur][i])
  BY <1>1, <1>2, <1>4, Zenon DEF HeldIn
<1> QED
  BY <1>2, <1>3, <1>4, <1>5, <1>6, Zenon DEF Holds

\* compare_exchange succeeds: the lock was nobody's, and is the frame's now.
LEMMA SucceedInv ==
  ASSUME Inv, Succeed
  PROVE  /\ Inv'
         /\ Wanted \in Locks /\ \A t \in Tasks : ~ HeldIn(frames[t], Wanted)
         /\ \A t \in Tasks : \A l : HeldIn(frames'[t], l) <=>
              HeldIn(frames[t], l) \/ (t = cur /\ l = Wanted)
<1> DEFINE w == Wanted  h == Append(Top.held, w)
<1>1. /\ ~ halted /\ w \in Locks /\ w \notin Holds(Top) /\ ~ locked[w]
      /\ Kind[w] = "irq" => ~ IF_
  BY WaitingTop, Zenon DEF Succeed
<1>2. TypeOK /\ Top.held \in Seq(Locks) /\ cur \in Tasks /\ Depth \in 1 .. Len(frames[cur])
  BY TopIsFrame, Zenon DEF Inv, TypeOK, Depth
<1>3. /\ h \in Seq(Locks) /\ Range(h) = Holds(Top) \cup {w}
      /\ \A k, m \in DOMAIN h : h[k] = h[m] => k = m
  BY <1>1, <1>2, TopOK, AppendGuard, Zenon DEF FrameOK, Holds
<1>4. /\ SetTop(h, Idle) /\ locked' = [locked EXCEPT ![w] = TRUE]
      /\ UNCHANGED <<cur, IF_, halted, exposed>>
  BY Zenon DEF Succeed
<1>5. Idle \in Doings /\ Idle.op = "none"
  BY Zenon DEF Doings, Idle
<1> HIDE DEF w, h
<1>6. locked' \in [Locks -> BOOLEAN] /\ locked'[w] /\ \A l \in Locks \ {w} : locked'[l] = locked[l]
  BY <1>1, <1>2, <1>4, Zenon DEF TypeOK
<1>7. TypeOK'
  BY <1>2, <1>3, <1>4, <1>5, <1>6, SetTopType, Zenon DEF TypeOK
<1>8. FramesOK' /\ WaitsWithCli'
  <2> DEFINE f == [held |-> h, doing |-> Idle]
  <2>1. f.held = h /\ f.doing = Idle
    BY Zenon
  <2> HIDE DEF f
  <2>2. FrameOK(f)
    BY <1>3, <1>5, <2>1, Zenon DEF FrameOK
  <2> QED
    BY <1>3, <1>4, <1>5, <2>2, SetTopKeepsFrames, Zenon DEF f
<1>9. /\ Top'.held = h /\ Holds(Top)' = Range(h)
      /\ \A t \in Tasks : \A i \in 1 .. Len(frames'[t]) :
           /\ i \in 1 .. Len(frames[t])
           /\ t = cur /\ i = Depth => Holds(frames'[t][i]) = Range(h)
           /\ ~ (t = cur /\ i = Depth) => Holds(frames'[t][i]) = Holds(frames[t][i])
      /\ \A t \in Tasks \ {cur} : \A l : HeldIn(frames'[t], l) <=> HeldIn(frames[t], l)
      /\ \A l : HeldIn(frames'[cur], l) <=>
           \/ l \in Range(h)
           \/ \E i \in 1 .. Len(frames[cur]) : i # Depth /\ l \in Holds(frames[cur][i])
  BY <1>3, <1>4, <1>5, OthersKeepGuards, ZenonT(40)
<1>10. \A t \in Tasks : ~ HeldIn(frames[t], w)
  BY <1>1, Zenon DEF Inv, FlagIsGuard
<1>11. \A t \in Tasks : \A l : HeldIn(frames'[t], l) <=>
         HeldIn(frames[t], l) \/ (t = cur /\ l = w)
  <2>1. \A l : HeldIn(frames'[cur], l) <=> HeldIn(frames[cur], l) \/ l = w
    BY <1>2, <1>3, <1>9, ZenonT(40) DEF HeldIn, Top
  <2> QED
    BY <1>9, <2>1, Zenon
<1>12. HeldOnce'
  <2> SUFFICES ASSUME NEW t \in Tasks, NEW u \in Tasks,
                      NEW i \in 1 .. Len(frames'[t]), NEW j \in 1 .. Len(frames'[u]),
                      NEW l \in Holds(frames'[t][i]) \cap Holds(frames'[u][j])
               PROVE  t = u /\ i = j
    BY Zenon DEF HeldOnce, Holds
  <2>1. i \in 1 .. Len(frames[t]) /\ j \in 1 .. Len(frames[u])
    BY <1>9, Zenon
  <2>2. \A v \in Tasks : \A k \in 1 .. Len(frames[v]) : w \notin Holds(frames[v][k])
    BY <1>10, Zenon DEF HeldIn
  <2>3. ASSUME NEW v \in Tasks, NEW k \in 1 .. Len(frames'[v]), l \in Holds(frames'[v][k])
        PROVE  \/ l = w /\ v = cur /\ k = Depth
               \/ l # w /\ l \in Holds(frames[v][k])
    <3>1. k \in 1 .. Len(frames[v]) /\ w \notin Holds(frames[v][k])
      BY <1>9, <2>2, Zenon
    <3>2. CASE v = cur /\ k = Depth
      <4>1. l \in Holds(frames[v][k]) \cup {w}
        BY <1>3, <1>9, <2>3, <3>2, SMTT(40) DEF Top
      <4> QED
        BY <3>1, <3>2, <4>1, Zenon
    <3>3. CASE ~ (v = cur /\ k = Depth)
      BY <1>9, <2>3, <3>1, <3>3, Zenon
    <3> QED
      BY <3>2, <3>3, Zenon
  <2>4. CASE l = w
    BY <2>3, <2>4, Zenon
  <2>5. CASE l # w
    <3>1. l \in Holds(frames[t][i]) \cap Holds(frames[u][j])
      BY <2>3, <2>5, Zenon
    <3> QED
      BY <2>1, <3>1, ZenonT(40) DEF Inv, HeldOnce
  <2> QED
    BY <2>4, <2>5, Zenon
<1>13. FlagIsGuard'
  <2> SUFFICES ASSUME NEW l \in Locks
               PROVE  locked'[l] <=> \E t \in Tasks : HeldIn(frames'[t], l)
    BY Zenon DEF FlagIsGuard, HeldIn, Holds
  <2>1. CASE l = w
    BY <1>2, <1>6, <1>11, <2>1, Zenon
  <2>2. CASE l # w
    BY <1>6, <1>11, <2>2, Zenon DEF Inv, FlagIsGuard
  <2> QED
    BY <2>1, <2>2, Zenon
<1>14. IrqLockExcludesInterrupts'
  <2> SUFFICES ASSUME NEW l \in Locks \ exposed, Kind[l] = "irq", locked'[l]
               PROVE  l \in Holds(Top)' /\ ~ IF_'
    BY <1>4, Zenon DEF IrqLockExcludesInterrupts
  <2>1. CASE l = w
    BY <1>1, <1>3, <1>4, <1>9, <2>1, SMTT(40)
  <2>2. CASE l # w
    BY <1>3, <1>4, <1>6, <1>9, <2>2, SMTT(40) DEF Inv, IrqLockExcludesInterrupts
  <2> QED
    BY <2>1, <2>2, Zenon
<1>15. Inv'
  BY <1>7, <1>8, <1>12, <1>13, <1>14, Zenon DEF Inv
<1> QED
  BY <1>1, <1>10, <1>11, <1>15, Zenon DEF w

\* A guard begins to be dropped.
LEMMA DropInv ==
  ASSUME Inv, Drop
  PROVE  Inv'
<1> DEFINE l == Last(Top.held)
           d == [op |-> "drop", lock |-> l, todo |-> DropOrder(Kind[l])]
           f == [held |-> Top.held, doing |-> d]
<1>1. ~ halted /\ Top.held # <<>> /\ SetTop(Top.held, d)
  BY Zenon DEF Drop, Doing
<1>2. l \in Locks
  BY <1>1, TopIsFrame, HoldsType, Zenon DEF Inv
<1>3. DropOrder(Kind[l]) \in Seq({"unlock", "sti"})
  <2>1. <<"unlock", "sti">> \in Seq({"unlock", "sti"}) /\ <<"unlock">> \in Seq({"unlock", "sti"})
    OBVIOUS
  <2>2. DropOrder(Kind[l]) \in {<<"unlock", "sti">>, <<"unlock">>}
    BY ZenonT(40) DEF DropOrder
  <2> QED
    BY <2>1, <2>2, ZenonT(40)
<1>4. d \in Doings /\ d.op = "drop" /\ d.lock = l /\ d.todo = DropOrder(Kind[l])
  BY <1>2, <1>3, Zenon DEF Doings
<1>5. f.held = Top.held /\ f.doing = d
  BY Zenon
<1> HIDE DEF d, f
<1>6. FrameOK(f)
  BY <1>1, <1>4, <1>5, TopOK, Zenon DEF FrameOK
<1>7. /\ UNCHANGED <<locked, cur, IF_, halted, exposed>>
      /\ IF_' \in BOOLEAN /\ halted' \in BOOLEAN
  BY Zenon DEF Drop, Inv, TypeOK
<1> QED
  BY <1>1, <1>4, <1>6, <1>7, DoingStep, Zenon DEF f

\* The frame on the CPU while it drops a guard.
LEMMA DroppingTop ==
  ASSUME Inv, Doing("drop")
  PROVE  /\ ~ halted /\ Wanted \in Locks
         /\ Top.doing \in [op : {"drop"}, lock : Locks, todo : Seq({"unlock", "sti"})]
         /\ \/ /\ Top.doing.todo = DropOrder(Kind[Wanted])
               /\ Top.held # <<>> /\ Wanted = Last(Top.held)
            \/ Top.doing.todo = <<"sti">> /\ Wanted \notin Holds(Top)
<1>1. ~ halted /\ Top.doing.op = "drop"
  BY Zenon DEF Doing
<1>2. Top.doing \in [op : {"drop"}, lock : Locks, todo : Seq({"unlock", "sti"})]
  <2>1. Top.doing \in Doings
    BY TopIsFrame, Zenon DEF Inv
  <2> QED
    BY <1>1, <2>1, SMTT(40) DEF Doings, Idle
<1> QED
  BY <1>1, <1>2, TopOK, Zenon DEF FrameOK, Wanted

\* The lock of the last guard is given back.
LEMMA UnlockInv ==
  ASSUME Inv, Unlock
  PROVE  /\ Inv'
         /\ Wanted \in Locks /\ HeldIn(frames[cur], Wanted)
         /\ \A t \in Tasks : \A l : HeldIn(frames'[t], l) <=> HeldIn(frames[t], l) /\ l # Wanted
<1> DEFINE w == Wanted  h == Front(Top.held)  d == AfterDrop
<1>1. /\ ~ halted /\ w \in Locks /\ Top.held # <<>> /\ w = Last(Top.held)
      /\ Top.doing \in [op : {"drop"}, lock : Locks, todo : Seq({"unlock", "sti"})]
      /\ Top.doing.todo = DropOrder(Kind[w])
  <2>1. Head(<<"sti">>) # "unlock"
    BY SMTT(40)
  <2> QED
    BY <2>1, DroppingTop, Zenon DEF Unlock
<1>2. TypeOK /\ Top.held \in Seq(Locks) /\ cur \in Tasks /\ Depth \in 1 .. Len(frames[cur])
  BY TopIsFrame, Zenon DEF Inv, TypeOK, Depth
<1>3. /\ h \in Seq(Locks) /\ Range(h) = Holds(Top) \ {w}
      /\ \A k, m \in DOMAIN h : h[k] = h[m] => k = m
  BY <1>1, <1>2, TopOK, FrontGuard, Zenon DEF FrameOK, Holds
<1>4. /\ SetTop(h, d) /\ locked' = [locked EXCEPT ![w] = FALSE]
      /\ exposed' = exposed \ {w}
      /\ UNCHANGED <<cur, IF_, halted>>
  BY Zenon DEF Unlock
<1>5. /\ d \in Doings /\ d.op \in {"none", "drop"}
      /\ d.op = "drop" => d.todo = <<"sti">> /\ d.lock = w
  <2>1. CASE Kind[w] = "irq"
    <3>1. Top.doing.todo = <<"unlock", "sti">>
      BY <1>1, <2>1, Zenon DEF DropOrder
    <3>2. d = [Top.doing EXCEPT !.todo = <<"sti">>]
      BY <3>1, <1>1, SMTT(40) DEF AfterDrop
    <3>3. <<"sti">> \in Seq({"unlock", "sti"})
      OBVIOUS
    <3>4. /\ d \in [op : {"drop"}, lock : Locks, todo : Seq({"unlock", "sti"})]
          /\ d.todo = <<"sti">> /\ d.lock = w /\ d.op = "drop"
      BY <1>1, <3>2, <3>3, ZenonT(40) DEF Wanted
    <3> QED
      BY <3>4, ZenonT(40) DEF Doings
  <2>2. CASE Kind[w] # "irq"
    <3>1. Top.doing.todo = <<"unlock">>
      BY <1>1, <2>2, ZenonT(40) DEF DropOrder
    <3>2. Len(Top.doing.todo) = 1
      BY <3>1, SMTT(40)
    <3> QED
      BY <3>2, Zenon DEF AfterDrop, Doings, Idle
  <2> QED
    BY <2>1, <2>2, Zenon
<1>6. w \in Holds(Top)
  BY <1>1, <1>2, HoldsType, Zenon DEF Holds
<1> HIDE DEF w, h, d
<1>7. /\ locked' \in [Locks -> BOOLEAN] /\ ~ locked'[w]
      /\ \A l \in Locks \ {w} : locked'[l] = locked[l]
  BY <1>1, <1>2, <1>4, Zenon DEF TypeOK
<1>8. TypeOK'
  BY <1>2, <1>3, <1>4, <1>5, <1>7, SetTopType, Zenon DEF TypeOK
<1>9. FramesOK' /\ WaitsWithCli'
  <2> DEFINE f == [held |-> h, doing |-> d]
  <2>1. f.held = h /\ f.doing = d
    BY Zenon
  <2> HIDE DEF f
  <2>2. FrameOK(f)
    BY <1>3, <1>5, <2>1, Zenon DEF FrameOK, Holds
  <2> QED
    BY <1>3, <1>4, <1>5, <2>2, SetTopKeepsFrames, Zenon DEF f
<1>10. /\ Holds(Top)' = Range(h)
       /\ \A t \in Tasks : \A i \in 1 .. Len(frames'[t]) :
            /\ i \in 1 .. Len(frames[t])
            /\ t = cur /\ i = Depth => Holds(frames'[t][i]) = Range(h)
            /\ ~ (t = cur /\ i = Depth) => Holds(frames'[t][i]) = Holds(frames[t][i])
       /\ \A t \in Tasks \ {cur} : \A l : HeldIn(frames'[t], l) <=> HeldIn(frames[t], l)
       /\ \A l : HeldIn(frames'[cur], l) <=>
            \/ l \in Range(h)
            \/ \E i \in 1 .. Len(frames[cur]) : i # Depth /\ l \in Holds(frames[cur][i])
  BY <1>3, <1>4, <1>5, OthersKeepGuards, ZenonT(40)
<1>11. \A t \in Tasks : \A i \in 1 .. Len(frames[t]) :
         w \in Holds(frames[t][i]) => t = cur /\ i = Depth
  BY <1>2, <1>6, ZenonT(40) DEF Inv, HeldOnce, Top
<1>12. \A t \in Tasks : \A l : HeldIn(frames'[t], l) <=> HeldIn(frames[t], l) /\ l # w
  <2>1. \A t \in Tasks \ {cur} : ~ HeldIn(frames[t], w)
    BY <1>11, Zenon DEF HeldIn
  <2>2. \A l : HeldIn(frames'[cur], l) <=> HeldIn(frames[cur], l) /\ l # w
    <3>1. \A i \in 1 .. Len(frames[cur]) : i # Depth => w \notin Holds(frames[cur][i])
      BY <1>2, <1>11, Zenon
    <3>2. ASSUME NEW l, HeldIn(frames'[cur], l) PROVE HeldIn(frames[cur], l) /\ l # w
      <4>1. CASE l \in Range(h)
        BY <1>2, <1>3, <4>1, Zenon DEF HeldIn, Top
      <4>2. CASE \E i \in 1 .. Len(frames[cur]) : i # Depth /\ l \in Holds(frames[cur][i])
        BY <3>1, <4>2, Zenon DEF HeldIn
      <4> QED
        BY <1>10, <3>2, <4>1, <4>2, Zenon
    <3>3. ASSUME NEW l, HeldIn(frames[cur], l), l # w PROVE HeldIn(frames'[cur], l)
      <4>1. PICK i \in 1 .. Len(frames[cur]) : l \in Holds(frames[cur][i])
        BY <3>3, Zenon DEF HeldIn
      <4>2. i = Depth => l \in Range(h)
        BY <1>3, <3>3, <4>1, Zenon DEF Top
      <4> QED
        BY <1>10, <4>1, <4>2, Zenon
    <3> QED
      BY <3>2, <3>3, Zenon
  <2> QED
    BY <1>10, <2>1, <2>2, Zenon
<1>13. HeldOnce'
  <2> SUFFICES ASSUME NEW t \in Tasks, NEW u \in Tasks,
                      NEW i \in 1 .. Len(frames'[t]), NEW j \in 1 .. Len(frames'[u]),
                      NEW l \in Holds(frames'[t][i]) \cap Holds(frames'[u][j])
               PROVE  t = u /\ i = j
    BY Zenon DEF HeldOnce, Holds
  <2>1. ASSUME NEW v \in Tasks, NEW k \in 1 .. Len(frames'[v]), l \in Holds(frames'[v][k])
        PROVE  k \in 1 .. Len(frames[v]) /\ l \in Holds(frames[v][k])
    BY <1>3, <1>10, <2>1, ZenonT(40) DEF Top
  <2>2. /\ i \in 1 .. Len(frames[t]) /\ j \in 1 .. Len(frames[u])
        /\ l \in Holds(frames[t][i]) \cap Holds(frames[u][j])
    BY <2>1, Zenon
  <2> QED
    BY <2>2, ZenonT(40) DEF Inv, HeldOnce
<1>14. FlagIsGuard'
  <2> SUFFICES ASSUME NEW l \in Locks
               PROVE  locked'[l] <=> \E t \in Tasks : HeldIn(frames'[t], l)
    BY Zenon DEF FlagIsGuard, HeldIn, Holds
  <2> QED
    BY <1>7, <1>12, Zenon DEF Inv, FlagIsGuard
<1>15. IrqLockExcludesInterrupts'
  <2> SUFFICES ASSUME NEW l \in Locks \ exposed', Kind[l] = "irq", locked'[l]
               PROVE  l \in Holds(Top)' /\ ~ IF_'
    BY Zenon DEF IrqLockExcludesInterrupts
  <2>1. l # w /\ l \notin exposed /\ locked[l]
    BY <1>4, <1>7, Zenon
  <2> QED
    BY <1>3, <1>4, <1>10, <2>1, SMTT(40) DEF Inv, IrqLockExcludesInterrupts
<1>16. Inv'
  BY <1>8, <1>9, <1>13, <1>14, <1>15, Zenon DEF Inv
<1>17. HeldIn(frames[cur], w)
  BY <1>2, <1>6, Zenon DEF HeldIn, Top
<1> QED
  BY <1>1, <1>12, <1>16, <1>17, Zenon DEF w

\* Interrupts are enabled: what the task still holds is exposed.
LEMMA StiInv ==
  ASSUME Inv, Sti
  PROVE  Inv'
<1> DEFINE f == [held |-> Top.held, doing |-> Idle]
<1>1. /\ ~ halted /\ Top.doing.todo = <<"sti">> /\ Wanted \notin Holds(Top)
  <2>1. DropOrder(Kind[Wanted]) \in {<<"unlock", "sti">>, <<"unlock">>}
    BY Zenon DEF DropOrder
  <2>2. Head(DropOrder(Kind[Wanted])) # "sti"
    BY <2>1, SMTT(40)
  <2> QED
    BY <2>2, DroppingTop, Zenon DEF Sti
<1>2. AfterDrop = Idle
  BY <1>1, Zenon DEF AfterDrop
<1>3. /\ SetTop(Top.held, Idle) /\ UNCHANGED <<locked, cur, halted>> /\ IF_' = TRUE
      /\ exposed' = exposed \cup {l \in HeldBy(cur) \ {Wanted} : Kind[l] = "irq"}
  BY <1>2, Zenon DEF Sti
<1>4. Idle \in Doings /\ Idle.op = "none"
  BY Zenon DEF Doings, Idle
<1>5. TypeOK /\ Top.held \in Seq(Locks) /\ cur \in Tasks /\ Depth \in 1 .. Len(frames[cur])
  BY TopIsFrame, Zenon DEF Inv, TypeOK, Depth
<1>6. TypeOK'
  BY <1>3, <1>4, <1>5, SetTopType, Zenon DEF TypeOK
<1>7. FramesOK' /\ WaitsWithCli'
  <2>1. f.held = Top.held /\ f.doing = Idle
    BY Zenon
  <2> HIDE DEF f
  <2>2. FrameOK(f)
    BY <1>4, <2>1, TopOK, Zenon DEF FrameOK
  <2> QED
    BY <1>3, <1>4, <1>5, <2>2, SetTopKeepsFrames, Zenon DEF f
<1>8. HeldOnce' /\ FlagIsGuard'
  BY <1>3, <1>4, SameGuards, Zenon
<1>9. IrqLockExcludesInterrupts'
  <2> SUFFICES ASSUME NEW l \in Locks \ exposed', Kind[l] = "irq", locked'[l]
               PROVE  FALSE
    BY Zenon DEF IrqLockExcludesInterrupts
  <2>1. l \in Holds(Top)
    BY <1>3, Zenon DEF Inv, IrqLockExcludesInterrupts
  <2>2. l \in HeldBy(cur)
    BY <1>5, <2>1, HeldByFrames, Zenon DEF HeldIn, Top
  <2> QED
    BY <1>1, <1>3, <2>1, <2>2, Zenon
<1> QED
  BY <1>6, <1>7, <1>8, <1>9, Zenon DEF Inv

\* An interrupt puts an empty frame on top, where no interrupt-safe lock is
\* held or waited for but an exposed one.
LEMMA InterruptInv ==
  ASSUME Inv, Interrupt
  PROVE  /\ Inv'
         /\ \A t \in Tasks : \A l : HeldIn(frames'[t], l) <=> HeldIn(frames[t], l)
<1> DEFINE s == Append(frames[cur], NewFrame)
           n == Len(frames[cur])
<1>1. /\ TypeOK /\ cur \in Tasks /\ frames[cur] \in Seq(Frame) /\ n \in Nat
      /\ IF_ /\ UNCHANGED <<locked, cur, exposed>> /\ ~ IF_' /\ ~ halted'
      /\ frames' = [frames EXCEPT ![cur] = s]
  BY LenProperties, Zenon DEF Interrupt, Inv, TypeOK
<1>2. NewFrame \in Frame /\ NewFrame.held = <<>> /\ NewFrame.doing.op = "none"
  <2>1. Idle \in Doings /\ Idle.op = "none" /\ <<>> \in Seq(Locks)
    BY SMTT(40) DEF Doings, Idle
  <2> QED
    BY <2>1, Zenon DEF NewFrame, Frame
<1>3. /\ s \in Seq(Frame) /\ Len(s) = n + 1 /\ s # <<>>
      /\ \A i \in 1 .. n : s[i] = frames[cur][i]
      /\ s[n + 1] = NewFrame
  BY <1>1, <1>2, AppendProperties, SMTT(40)
<1> HIDE DEF s, n
<1>4. /\ frames' \in [Tasks -> Seq(Frame)] /\ frames'[cur] = s
      /\ \A t \in Tasks \ {cur} : frames'[t] = frames[t]
  BY <1>1, <1>3, Zenon DEF TypeOK
<1>5. TypeOK'
  BY <1>1, <1>3, <1>4, ZenonT(40) DEF TypeOK, Interrupt
<1>6. Holds(NewFrame) = {} /\ FrameOK(NewFrame)
  <2>1. DOMAIN <<>> = {}
    BY SMTT(40)
  <2> QED
    BY <1>2, <2>1, Zenon DEF Holds, Range, FrameOK
<1>7. \A t \in Tasks : \A i \in 1 .. Len(frames'[t]) :
        \/ i \in 1 .. Len(frames[t]) /\ frames'[t][i] = frames[t][i]
        \/ t = cur /\ i = n + 1 /\ frames'[t][i] = NewFrame
  BY <1>1, <1>3, <1>4, SMTT(40) DEF n
<1>8. FramesOK'
  <2> SUFFICES ASSUME NEW t \in Tasks, NEW i \in 1 .. Len(frames'[t])
               PROVE  FrameOK(frames'[t][i])
    BY ZenonT(40) DEF FramesOK, FrameOK, Holds
  <2> QED
    BY <1>6, <1>7, Zenon DEF Inv, FramesOK
<1>9. HeldOnce'
  <2> SUFFICES ASSUME NEW t \in Tasks, NEW u \in Tasks,
                      NEW i \in 1 .. Len(frames'[t]), NEW j \in 1 .. Len(frames'[u]),
                      NEW l \in Holds(frames'[t][i]) \cap Holds(frames'[u][j])
               PROVE  t = u /\ i = j
    BY Zenon DEF HeldOnce, Holds
  <2>1. /\ i \in 1 .. Len(frames[t]) /\ frames'[t][i] = frames[t][i]
        /\ j \in 1 .. Len(frames[u]) /\ frames'[u][j] = frames[u][j]
    BY <1>6, <1>7, Zenon
  <2> QED
    BY <2>1, ZenonT(40) DEF Inv, HeldOnce
<1>10. \A t \in Tasks : \A l : HeldIn(frames'[t], l) <=> HeldIn(frames[t], l)
  <2>1. ASSUME NEW t \in Tasks, NEW l, HeldIn(frames'[t], l) PROVE HeldIn(frames[t], l)
    BY <1>6, <1>7, <2>1, Zenon DEF HeldIn
  <2>2. ASSUME NEW t \in Tasks, NEW l, HeldIn(frames[t], l) PROVE HeldIn(frames'[t], l)
    <3>1. \A i \in 1 .. Len(frames[t]) : i \in 1 .. Len(frames'[t]) /\ frames'[t][i] = frames[t][i]
      BY <1>1, <1>3, <1>4, SMTT(40) DEF n
    <3> QED
      BY <2>2, <3>1, Zenon DEF HeldIn
  <2> QED
    BY <2>1, <2>2, Zenon
<1>11. FlagIsGuard'
  <2> SUFFICES ASSUME NEW l \in Locks
               PROVE  locked'[l] <=> \E t \in Tasks : HeldIn(frames'[t], l)
    BY Zenon DEF FlagIsGuard, HeldIn, Holds
  <2> QED
    BY <1>1, <1>10, Zenon DEF Inv, FlagIsGuard
<1>12. WaitsWithCli'
  <2> SUFFICES ASSUME NEW t \in Tasks, NEW i \in 1 .. Len(frames'[t]),
                      frames'[t][i].doing.op = "take",
                      Kind[frames'[t][i].doing.lock] = "irq"
               PROVE  FALSE
    BY Zenon DEF WaitsWithCli
  <2> QED
    BY <1>1, <1>2, <1>7, SMTT(40) DEF Inv, WaitsWithCli
<1>13. IrqLockExcludesInterrupts'
  BY <1>1, Zenon DEF Inv, IrqLockExcludesInterrupts
<1> QED
  BY <1>5, <1>8, <1>9, <1>10, <1>11, <1>12, <1>13, Zenon DEF Inv

\* A handler that holds nothing returns, perhaps to another task: with
\* nothing held by it, no interrupt-safe lock is locked but an exposed one.
LEMMA ReturnInv ==
  ASSUME Inv, NEW c \in Tasks, Return(c)
  PROVE  /\ Inv'
         /\ \A t \in Tasks : \A l : HeldIn(frames'[t], l) <=> HeldIn(frames[t], l)
<1> DEFINE s == Front(frames[cur])
           n == Len(frames[cur])
<1>1. /\ TypeOK /\ cur \in Tasks /\ frames[cur] \in [1 .. n -> Frame]
      /\ n \in Nat /\ n > 1 /\ UNCHANGED <<locked, halted, exposed>> /\ ~ halted
      /\ cur' = c /\ IF_' = TRUE /\ Top = frames[cur][n]
      /\ Top.held = <<>> /\ Top.doing.op = "none"
      /\ frames' = [frames EXCEPT ![cur] = s]
  BY LenProperties, Zenon DEF Return, Doing, Depth, Top, Inv, TypeOK
<1>2. /\ s \in Seq(Frame) /\ Len(s) = n - 1
      /\ \A i \in 1 .. n - 1 : s[i] = frames[cur][i]
  <2>1. \A i \in 1 .. n - 1 : frames[cur][i] \in Frame
    BY <1>1, SMTT(40)
  <2> QED
    BY <1>1, <2>1, SubSeqProperties, SMTT(40) DEF Front
<1>3. s # <<>>
  BY <1>1, <1>2, SMTT(40)
<1> HIDE DEF s, n
<1>4. /\ frames' \in [Tasks -> Seq(Frame)] /\ frames'[cur] = s
      /\ \A t \in Tasks \ {cur} : frames'[t] = frames[t]
  BY <1>1, <1>2, Zenon DEF TypeOK
<1>5. TypeOK'
  BY <1>1, <1>3, <1>4, Zenon DEF TypeOK
<1>6. Holds(Top) = {}
  <2>1. DOMAIN <<>> = {}
    BY SMTT(40)
  <2> QED
    BY <1>1, <2>1, Zenon DEF Holds, Range
<1>7. \A t \in Tasks : \A i \in 1 .. Len(frames'[t]) :
        /\ i \in 1 .. Len(frames[t]) /\ frames'[t][i] = frames[t][i]
        /\ ~ (t = cur /\ i = n)
  <2>1. ASSUME NEW i \in 1 .. Len(s)
        PROVE  i \in 1 .. n /\ s[i] = frames[cur][i] /\ i # n
    <3>1. i \in 1 .. n - 1
      BY <1>2, Zenon
    <3> QED
      BY <1>1, <1>2, <3>1, SMTT(40)
  <2> QED
    BY <1>4, <2>1, Zenon DEF n
<1>8. FramesOK'
  <2> SUFFICES ASSUME NEW t \in Tasks, NEW i \in 1 .. Len(frames'[t])
               PROVE  FrameOK(frames'[t][i])
    BY ZenonT(40) DEF FramesOK, FrameOK, Holds
  <2> QED
    BY <1>7, Zenon DEF Inv, FramesOK
<1>9. HeldOnce'
  <2> SUFFICES ASSUME NEW t \in Tasks, NEW u \in Tasks,
                      NEW i \in 1 .. Len(frames'[t]), NEW j \in 1 .. Len(frames'[u]),
                      NEW l \in Holds(frames'[t][i]) \cap Holds(frames'[u][j])
               PROVE  t = u /\ i = j
    BY ZenonT(40) DEF HeldOnce, Holds
  <2>1. /\ i \in 1 .. Len(frames[t]) /\ frames'[t][i] = frames[t][i]
        /\ j \in 1 .. Len(frames[u]) /\ frames'[u][j] = frames[u][j]
    BY <1>7, Zenon
  <2> QED
    BY <2>1, Zenon DEF Inv, HeldOnce
<1>10. \A t \in Tasks : \A l : HeldIn(frames'[t], l) <=> HeldIn(frames[t], l)
  <2>1. ASSUME NEW t \in Tasks, NEW l, HeldIn(frames'[t], l) PROVE HeldIn(frames[t], l)
    BY <1>7, <2>1, Zenon DEF HeldIn
  <2>2. ASSUME NEW t \in Tasks, NEW l, HeldIn(frames[t], l) PROVE HeldIn(frames'[t], l)
    <3>1. PICK i \in 1 .. Len(frames[t]) : l \in Holds(frames[t][i])
      BY <2>2, Zenon DEF HeldIn
    <3>2. ~ (t = cur /\ i = n)
      BY <1>1, <1>6, <3>1, Zenon
    <3>3. i \in 1 .. Len(frames'[t]) /\ frames'[t][i] = frames[t][i]
      <4>1. CASE t = cur
        <5>1. i \in 1 .. n - 1
          BY <1>1, <3>1, <3>2, <4>1, SMTT(40) DEF n
        <5> QED
          BY <1>2, <1>4, <4>1, <5>1, Zenon
      <4>2. CASE t # cur
        BY <1>4, <3>1, <4>2, Zenon
      <4> QED
        BY <4>1, <4>2, Zenon
    <3> QED
      BY <3>1, <3>3, Zenon DEF HeldIn
  <2> QED
    BY <2>1, <2>2, Zenon
<1>11. FlagIsGuard'
  <2> SUFFICES ASSUME NEW l \in Locks
               PROVE  locked'[l] <=> \E t \in Tasks : HeldIn(frames'[t], l)
    BY Zenon DEF FlagIsGuard, HeldIn, Holds
  <2> QED
    BY <1>1, <1>10, Zenon DEF Inv, FlagIsGuard
<1>12. WaitsWithCli'
  <2> SUFFICES ASSUME NEW t \in Tasks, NEW i \in 1 .. Len(frames'[t]),
                      frames'[t][i].doing.op = "take",
                      Kind[frames'[t][i].doing.lock] = "irq"
               PROVE  FALSE
    BY Zenon DEF WaitsWithCli
  <2>1. t = cur /\ i = Depth
    BY <1>7, SMTT(40) DEF Inv, WaitsWithCli
  <2> QED
    BY <1>7, <2>1, Zenon DEF Depth, n
<1>13. IrqLockExcludesInterrupts'
  BY <1>1, <1>6, Zenon DEF Inv, IrqLockExcludesInterrupts
<1> QED
  BY <1>5, <1>8, <1>9, <1>10, <1>11, <1>12, <1>13, Zenon DEF Inv

-----------------------------------------------------------------------------
LEMMA InitInv ==
  ASSUME Init
  PROVE  /\ Inv
         /\ \A t \in Tasks : \A l : ~ HeldIn(frames[t], l)
<1>1. NewFrame \in Frame /\ NewFrame.held = <<>> /\ NewFrame.doing.op = "none"
  <2>1. Idle \in Doings /\ Idle.op = "none" /\ <<>> \in Seq(Locks)
    BY SMTT(40) DEF Doings, Idle
  <2> QED
    BY <2>1, Zenon DEF NewFrame, Frame
<1>2. Holds(NewFrame) = {} /\ FrameOK(NewFrame)
  <2>1. DOMAIN <<>> = {}
    OBVIOUS
  <2> QED
    BY <1>1, <2>1, Zenon DEF Holds, Range, FrameOK
<1>3. /\ <<NewFrame>> \in Seq(Frame) /\ <<NewFrame>> # <<>> /\ Len(<<NewFrame>>) = 1
      /\ <<NewFrame>>[1] = NewFrame
  BY <1>1, SMTT(40)
<1>4. \A t \in Tasks : frames[t] = <<NewFrame>>
  BY Zenon DEF Init
<1>5. TypeOK
  BY <1>3, ZenonT(40) DEF Init, TypeOK
<1>6. \A t \in Tasks : \A i \in 1 .. Len(frames[t]) : frames[t][i] = NewFrame
  BY <1>3, <1>4, SMTT(40)
<1>7. \A t \in Tasks : \A l : ~ HeldIn(frames[t], l)
  BY <1>2, <1>6, Zenon DEF HeldIn
<1>8. FramesOK /\ HeldOnce /\ WaitsWithCli
  BY <1>1, <1>2, <1>6, Zenon DEF FramesOK, HeldOnce, WaitsWithCli
<1>9. FlagIsGuard /\ IrqLockExcludesInterrupts
  BY <1>7, Zenon DEF Init, FlagIsGuard, IrqLockExcludesInterrupts
<1> QED
  BY <1>5, <1>7, <1>8, <1>9, Zenon DEF Inv

LEMMA FramesStutter ==
  ASSUME FramesOK, frames' = frames
  PROVE  FramesOK'
<1> SUFFICES ASSUME NEW t \in Tasks, NEW i \in 1 .. Len(frames'[t])
             PROVE  FrameOK(frames'[t][i])
  BY ZenonT(40) DEF FramesOK, FrameOK, Holds
<1> QED
  BY Zenon DEF FramesOK

LEMMA StutterInv ==
  ASSUME Inv, UNCHANGED spinVars
  PROVE  Inv'
<1>1. UNCHANGED <<locked, cur, frames, IF_, halted, exposed>>
  BY Zenon DEF spinVars
<1>2. TypeOK'
  BY <1>1, ZenonT(40) DEF Inv, TypeOK
<1>3. FramesOK'
  <2>1. FramesOK /\ frames' = frames
    BY <1>1, ZenonT(40) DEF Inv
  <2> QED
    BY <2>1, FramesStutter, Zenon
<1>4. HeldOnce'
  <2>1. HeldOnce /\ frames' = frames
    BY <1>1, Zenon DEF Inv
  <2> SUFFICES ASSUME NEW t \in Tasks, NEW u \in Tasks,
                      NEW i \in 1 .. Len(frames'[t]), NEW j \in 1 .. Len(frames'[u]),
                      NEW l \in Holds(frames'[t][i]) \cap Holds(frames'[u][j])
               PROVE  t = u /\ i = j
    BY Zenon DEF HeldOnce, Holds
  <2> QED
    BY <2>1, Zenon DEF HeldOnce
<1>5. FlagIsGuard' /\ WaitsWithCli'
  BY <1>1, Zenon DEF Inv, FlagIsGuard, HeldIn, Holds, WaitsWithCli, Depth
<1>6. IrqLockExcludesInterrupts'
  BY <1>1, Zenon DEF Inv, IrqLockExcludesInterrupts, Wanted, Top,
              Depth, Holds
<1> QED
  BY <1>2, <1>3, <1>4, <1>5, <1>6, ZenonT(40) DEF Inv

LEMMA NextInv == Inv /\ [Next]_spinVars => Inv'
<1> SUFFICES ASSUME Inv, [Next]_spinVars PROVE Inv'
  BY Zenon
<1>1. CASE AcquireSpins
  BY <1>1, StutterInv, Zenon DEF AcquireSpins
<1> QED
  BY <1>1, StutterInv, RequestInv, SucceedInv, LockFailsInv, BackoffFailsInv,
     TryFailsInv, DropInv, UnlockInv, StiInv, InterruptInv, ReturnInv, ZenonT(40) DEF Next

\* While an IrqSafeSpinlock is held, its holder is on the CPU with interrupts
\* off, whatever tasks and handlers do: only a second guard of such a lock,
\* dropped inside, can break that.
THEOREM IrqLocksExclude == Spec => []IrqLockExcludesInterrupts
<1>1. Init => Inv
  BY InitInv, Zenon
<1>2. Spec => []Inv
  BY <1>1, NextInv, PTL DEF Spec
<1>3. Inv => IrqLockExcludesInterrupts
  BY Zenon DEF Inv
<1> QED
  BY <1>2, <1>3, PTL

-----------------------------------------------------------------------------
(***************************************************************************)
(* Spinlock implements Mutex: taking a lock is Acquire, giving it back is  *)
(* Release, and every other step leaves all owners alone.                  *)
(***************************************************************************)
Owners == [l \in Locks |-> Owner(l)]

\* HeldOnce makes the holder that Owner picks the only one.
OwnersOK ==
  \A l \in Locks :
    /\ \A t \in Tasks : HeldIn(frames[t], l) => Owners[l] = t
    /\ (\A t \in Tasks : ~ HeldIn(frames[t], l)) => Owners[l] = Nobody

LEMMA OwnersAreHolders == Inv => OwnersOK
<1> SUFFICES ASSUME Inv, NEW l \in Locks
             PROVE  /\ \A t \in Tasks : HeldIn(frames[t], l) => Owners[l] = t
                    /\ (\A t \in Tasks : ~ HeldIn(frames[t], l)) => Owners[l] = Nobody
  BY Zenon DEF OwnersOK
<1>1. \A t \in Tasks : l \in HeldBy(t) <=> HeldIn(frames[t], l)
  BY HeldByFrames, Zenon DEF Inv
<1>2. \A t, u \in Tasks : l \in HeldBy(t) /\ l \in HeldBy(u) => t = u
  <2> SUFFICES ASSUME NEW t \in Tasks, NEW u \in Tasks, l \in HeldBy(t), l \in HeldBy(u)
               PROVE  t = u
    BY Zenon
  <2>1. PICK i \in 1 .. Len(frames[t]) : l \in Holds(frames[t][i])
    BY <1>1, Zenon DEF HeldIn
  <2>2. PICK j \in 1 .. Len(frames[u]) : l \in Holds(frames[u][j])
    BY <1>1, Zenon DEF HeldIn
  <2> QED
    BY <2>1, <2>2, Zenon DEF Inv, HeldOnce
<1>3. Owners[l] = Owner(l)
  BY Zenon DEF Owners
<1>4. ASSUME NEW t \in Tasks, l \in HeldBy(t) PROVE Owner(l) = t
  <2>1. \E u \in Tasks : l \in HeldBy(u)
    BY <1>4, Zenon
  <2>2. Owner(l) \in Tasks /\ l \in HeldBy(Owner(l))
    BY <2>1, ZenonT(40) DEF Owner
  <2> QED
    BY <1>2, <1>4, <2>2, Zenon
<1>5. (\A t \in Tasks : l \notin HeldBy(t)) => Owner(l) = Nobody
  BY Zenon DEF Owner
<1> QED
  BY <1>1, <1>3, <1>4, <1>5, Zenon

\* Whatever else the frame on the CPU does, it keeps its guards.
LEMMA HeldIsKept ==
  ASSUME TypeOK, NEW d, SetTop(Top.held, d)
  PROVE  \A t \in Tasks : \A l : HeldIn(frames'[t], l) <=> HeldIn(frames[t], l)
<1> DEFINE f == [held |-> Top.held, doing |-> d]
           s == [frames[cur] EXCEPT ![Depth] = f]
<1>1. /\ cur \in Tasks /\ Depth \in 1 .. Len(frames[cur])
      /\ frames[cur] \in Seq(Frame \cup {f})
  BY TopIsFrame, SeqMonotonic, SMTT(40) DEF TypeOK, Depth
<1>2. f.held = Top.held /\ frames' = [frames EXCEPT ![cur] = s]
  BY Zenon DEF SetTop
<1> HIDE DEF f
<1>3. /\ Len(s) = Len(frames[cur])
      /\ \A i \in 1 .. Len(frames[cur]) : s[i] = IF i = Depth THEN f ELSE frames[cur][i]
  BY <1>1, ExceptSeq, SMTT(40)
<1> HIDE DEF s
<1>4. frames'[cur] = s /\ \A t \in Tasks \ {cur} : frames'[t] = frames[t]
  BY <1>1, <1>2, Zenon DEF TypeOK
<1>5. \A i \in 1 .. Len(frames[cur]) : Holds(s[i]) = Holds(frames[cur][i])
  BY <1>2, <1>3, Zenon DEF Holds, Top
<1> QED
  BY <1>3, <1>4, <1>5, Zenon DEF HeldIn

LEMMA GuardsChange ==
  ASSUME Inv, [Next]_spinVars
  PROVE  \/ Succeed \/ Unlock
         \/ \A t \in Tasks : \A l : HeldIn(frames'[t], l) <=> HeldIn(frames[t], l)
<1> DEFINE Kept == \A t \in Tasks : \A l : HeldIn(frames'[t], l) <=> HeldIn(frames[t], l)
<1> SUFFICES ASSUME ~ Succeed, ~ Unlock PROVE Kept
  BY Zenon
<1>1. \A d : SetTop(Top.held, d) => Kept
  BY HeldIsKept, Zenon DEF Inv
<1>2. UNCHANGED frames => Kept
  BY Zenon
<1> HIDE DEF Kept
<1>3. ASSUME NEW l \in Locks, NEW m, Request(l, m) PROVE Kept
  BY <1>1, <1>3, ZenonT(40) DEF Request
<1>4. CASE LockFails \/ BackoffFails
  <2>1. ASSUME NEW limit, Retry(limit) PROVE Kept
    <3> DEFINE n == Top.doing.tries + 1
               d == [Top.doing EXCEPT !.tries = IF n < limit THEN n ELSE 0]
    <3>1. SetTop(Top.held, d)
      BY <2>1, Zenon DEF Retry
    <3> HIDE DEF d
    <3> QED
      BY <1>1, <3>1, Zenon
  <2> QED
    BY <1>4, <2>1, Zenon DEF LockFails, BackoffFails
<1>5. CASE TryFails
  <2> DEFINE d == [Top.doing EXCEPT !.tries = @ + 1]
  <2>1. SetTop(Top.held, Idle) \/ SetTop(Top.held, d)
    BY <1>5, Zenon DEF TryFails
  <2> HIDE DEF d
  <2> QED
    BY <1>1, <2>1, Zenon
<1>6. CASE Drop \/ Sti
  <2> DEFINE l == Last(Top.held)
             d == [op |-> "drop", lock |-> l, todo |-> DropOrder(Kind[l])]
  <2>1. SetTop(Top.held, d) \/ SetTop(Top.held, AfterDrop)
    BY <1>6, Zenon DEF Drop, Sti
  <2> HIDE DEF d
  <2> QED
    BY <1>1, <2>1, Zenon
<1>7. CASE AcquireSpins \/ UNCHANGED spinVars
  BY <1>2, <1>7, Zenon DEF AcquireSpins, spinVars
<1>8. CASE Interrupt
  BY <1>8, InterruptInv, Zenon DEF Kept
<1>9. ASSUME NEW t \in Tasks, Return(t) PROVE Kept
  BY <1>9, ReturnInv, Zenon DEF Kept
<1> QED
  BY <1>3, <1>4, <1>5, <1>6, <1>7, <1>8, <1>9, ZenonT(40) DEF Next

\* The locks of spinlock.rs, under any interleaving of tasks and nested
\* handlers, implement mutual exclusion between tasks: a lock is acquired only
\* when nobody owns it, and given back by its owner.
THEOREM LocksAreMutex == Spec => IsMutex
<1>1. Init => Abstract!Init
  <2> SUFFICES ASSUME Init PROVE Abstract!Init
    BY Zenon
  <2>1. Inv /\ \A t \in Tasks : \A l : ~ HeldIn(frames[t], l)
    BY InitInv, Zenon
  <2>2. \A l \in Locks : Owners[l] = Nobody
    BY <2>1, OwnersAreHolders, Zenon DEF OwnersOK
  <2>3. Owners = [l \in Locks |-> Nobody]
    BY <2>2, Zenon DEF Owners
  <2> QED
    BY <2>3, Zenon DEF Abstract!Init, Owners
<1>2. ASSUME Inv, [Next]_spinVars, Inv', OwnersOK, OwnersOK'
      PROVE  [Abstract!Next]_Owners
  <2> USE <1>2
  <2>1. ASSUME Succeed PROVE Abstract!Acquire(Wanted, cur) /\ Wanted \in Locks /\ cur \in Tasks
    <3>1. /\ Wanted \in Locks /\ \A t \in Tasks : ~ HeldIn(frames[t], Wanted)
          /\ \A t \in Tasks : \A l : HeldIn(frames'[t], l) <=>
               HeldIn(frames[t], l) \/ (t = cur /\ l = Wanted)
      BY <2>1, SucceedInv, Zenon
    <3>2. cur \in Tasks
      BY Zenon DEF Inv, TypeOK
    <3>3. Owners[Wanted] = Nobody /\ Owners'[Wanted] = cur
      BY <3>1, <3>2, Zenon DEF OwnersOK
    <3>4. \A l \in Locks \ {Wanted} : Owners'[l] = Owners[l]
      BY <3>1, Zenon DEF OwnersOK
    <3>5. Owners' = [Owners EXCEPT ![Wanted] = cur]
      BY <3>1, <3>3, <3>4, ZenonT(40) DEF Owners
    <3> QED
      BY <3>1, <3>2, <3>3, <3>5, Zenon DEF Abstract!Acquire, Owners
  <2>2. ASSUME Unlock PROVE Abstract!Release(Wanted, cur) /\ Wanted \in Locks /\ cur \in Tasks
    <3>1. /\ Wanted \in Locks /\ HeldIn(frames[cur], Wanted)
          /\ \A t \in Tasks : \A l : HeldIn(frames'[t], l) <=> HeldIn(frames[t], l) /\ l # Wanted
      BY <2>2, UnlockInv, Zenon
    <3>2. cur \in Tasks
      BY Zenon DEF Inv, TypeOK
    <3>3. Owners[Wanted] = cur /\ Owners'[Wanted] = Nobody
      BY <3>1, <3>2, Zenon DEF OwnersOK
    <3>4. \A l \in Locks \ {Wanted} : Owners'[l] = Owners[l]
      BY <3>1, Zenon DEF OwnersOK
    <3>5. Owners' = [Owners EXCEPT ![Wanted] = Nobody]
      BY <3>1, <3>3, <3>4, ZenonT(40) DEF Owners
    <3> QED
      BY <3>1, <3>2, <3>3, <3>5, Zenon DEF Abstract!Release, Owners
  <2>3. ASSUME \A t \in Tasks : \A l : HeldIn(frames'[t], l) <=> HeldIn(frames[t], l)
        PROVE  Owners' = Owners
    <3>1. \A l \in Locks : Owners'[l] = Owners[l]
      BY <2>3, Zenon DEF OwnersOK
    <3> QED
      BY <3>1, Zenon DEF Owners
  <2> QED
    BY <2>1, <2>2, <2>3, GuardsChange, Zenon DEF Abstract!Next
<1>3. Spec => []Inv /\ [][Next]_spinVars
  <2>1. Init => Inv
    BY InitInv, Zenon
  <2> QED
    BY <2>1, NextInv, PTL DEF Spec
<1>4. []Inv => []OwnersOK
  BY OwnersAreHolders, PTL
<1>5. Spec => Init /\ [][Abstract!Next]_Owners
  BY <1>2, <1>3, <1>4, PTL DEF Spec
<1> QED
  BY <1>1, <1>5, PTL DEF IsMutex, Abstract!Spec, Owners

=============================================================================
