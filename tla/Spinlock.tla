------------------------------- MODULE Spinlock -------------------------------
(***************************************************************************)
(* The locks of sync/spinlock.rs on the one CPU the kernel runs on.        *)
(*                                                                         *)
(* A task is a stack of frames: its own, and one for each interrupt handler*)
(* that interrupted it.  Handlers nest when something enables interrupts   *)
(* inside one; dropping an IrqSafeSpinlockGuard does.  The timer interrupt *)
(* switches tasks when its handler is done.                                *)
(*                                                                         *)
(* Callers are assumed to take locks in ascending order, to drop guards in *)
(* the reverse order, and not to wait without bound for a Spinlock or a    *)
(* RawSpinlock in a handler.                                               *)
(***************************************************************************)
EXTENDS Integers, Functions, SequenceEnds

CONSTANTS
  Tasks, Nobody,
  Locks,            \* a set of integers
  Kind,             \* of each lock: "spin", "irq" or "raw"
  MAX_SPIN,         \* attempts of lock() before it halts: 64 in the code
  MaxBackoff,       \* attempts before acquire_with_backoff halts: 101
  MaxTries,         \* the timeout of wait_until_timeout
  MaxGuards,        \* guards a frame holds at once
  MaxFrames         \* depth of the stack of a task

ASSUME SpinlockAssumption ==
  /\ Locks \subseteq Int /\ Kind \in [Locks -> {"spin", "irq", "raw"}]
  /\ {MAX_SPIN, MaxBackoff, MaxTries, MaxGuards, MaxFrames} \subseteq Nat \ {0}

VARIABLES
  locked,           \* the flag of each lock
  cur,              \* the task on the CPU
  frames,           \* its stack: what each frame holds, and what it waits for
  IF_, halted,
  exposed           \* history: see Exposed below

spinVars == <<locked, cur, frames, IF_, halted, exposed>>

Idle == [op |-> "none"]
NewFrame == [held |-> <<>>, doing |-> Idle]

Depth == Len(frames[cur])
Top == frames[cur][Depth]
Holds(f) == Range(f.held)
HeldBy(t) == UNION {Holds(frames[t][i]) : i \in DOMAIN frames[t]}
SetTop(held, doing) ==
  frames' = [frames EXCEPT ![cur][Depth] = [held |-> held, doing |-> doing]]
Doing(op) == ~ halted /\ Top.doing.op = op

\* The ways to take a lock of a kind, in a task and in a handler.
Methods(kind) ==
  CASE kind = "irq" -> {"lock"}
    [] kind = "raw" -> IF Depth = 1 THEN {"acquire"} ELSE {}
    [] kind = "spin" -> IF Depth = 1 THEN {"lock", "try_lock", "backoff", "timeout"}
                                     ELSE {"try_lock", "timeout"}

-----------------------------------------------------------------------------

\* A call begins; IrqSafeSpinlock::lock disables interrupts first.
Request(l, m) ==
  /\ Doing("none") /\ Len(Top.held) < MaxGuards
  /\ \A k \in Holds(Top) : k < l
  /\ m \in Methods(Kind[l])
  /\ SetTop(Top.held, [op |-> "take", lock |-> l, by |-> m, tries |-> 0])
  /\ IF_' = (IF_ /\ Kind[l] # "irq")
  /\ UNCHANGED <<locked, cur, halted, exposed>>

Taking(m) == Doing("take") /\ Top.doing.by = m
Wanted == Top.doing.lock

\* compare_exchange finds the flag clear: a guard is returned.
Succeed ==
  /\ Doing("take") /\ ~ locked[Wanted]
  /\ locked' = [locked EXCEPT ![Wanted] = TRUE]
  /\ SetTop(Append(Top.held, Wanted), Idle)
  /\ UNCHANGED <<cur, IF_, halted, exposed>>

Retry(limit) ==
  LET n == Top.doing.tries + 1
  IN SetTop(Top.held, [Top.doing EXCEPT !.tries = IF n < limit THEN n ELSE 0])

\* Spinlock::lock: the last of MAX_SPIN attempts is followed by cli and hlt,
\* which only an interrupt that cannot be masked would end.
LockFails ==
  /\ Taking("lock") /\ locked[Wanted]
  /\ Retry(MAX_SPIN)
  /\ LET last == Top.doing.tries + 1 = MAX_SPIN
     IN IF_' = (IF_ /\ ~ last) /\ halted' = last
  /\ UNCHANGED <<locked, cur, exposed>>

\* acquire_with_backoff halts with the flag as it is.
BackoffFails ==
  /\ Taking("backoff") /\ locked[Wanted]
  /\ Retry(MaxBackoff)
  /\ halted' = (Top.doing.tries + 1 = MaxBackoff)
  /\ UNCHANGED <<locked, cur, IF_, exposed>>

\* try_lock (and try_lock_or_yield) gives up at once, wait_until_timeout
\* after MaxTries more attempts.
TryFails ==
  /\ Taking("try_lock") \/ Taking("timeout")
  /\ locked[Wanted]
  /\ IF Top.doing.by = "try_lock" \/ Top.doing.tries >= MaxTries
     THEN SetTop(Top.held, Idle)
     ELSE SetTop(Top.held, [Top.doing EXCEPT !.tries = @ + 1])
  /\ UNCHANGED <<locked, cur, IF_, halted, exposed>>

\* RawSpinlock::acquire looks at the flag until it is clear, as wait_until,
\* spin_on, exponential_backoff and acquire_with_hint do.
AcquireSpins == Taking("acquire") /\ locked[Wanted] /\ UNCHANGED spinVars

-----------------------------------------------------------------------------
\* Faulty variant: interrupts are enabled before the lock is given back.
StiThenUnlock(kind) == IF kind = "irq" THEN <<"sti", "unlock">> ELSE <<"unlock">>

\* Dropping a guard: of an IrqSafeSpinlock, the inner guard goes first.
DropOrder(kind) == IF kind = "irq" THEN <<"unlock", "sti">> ELSE <<"unlock">>

Drop ==
  /\ Doing("none") /\ Top.held # <<>>
  /\ SetTop(Top.held, [op |-> "drop", lock |-> Last(Top.held), todo |-> DropOrder(Kind[Last(Top.held)])])
  /\ UNCHANGED <<locked, cur, IF_, halted, exposed>>

AfterDrop == IF Len(Top.doing.todo) = 1 THEN Idle ELSE [Top.doing EXCEPT !.todo = Tail(@)]

\* Faulty variant: the flag of the first guard's lock is cleared.
UnlockOutermost ==
  /\ Doing("drop") /\ Head(Top.doing.todo) = "unlock"
  /\ locked' = [locked EXCEPT ![Head(Top.held)] = FALSE]
  /\ exposed' = exposed \ {Wanted}
  /\ SetTop(Front(Top.held), AfterDrop)
  /\ UNCHANGED <<cur, IF_, halted>>

Unlock ==
  /\ Doing("drop") /\ Head(Top.doing.todo) = "unlock"
  /\ locked' = [locked EXCEPT ![Wanted] = FALSE]
  /\ exposed' = exposed \ {Wanted}
  /\ SetTop(Front(Top.held), AfterDrop)
  /\ UNCHANGED <<cur, IF_, halted>>

\* The flag is set whatever it was when the guard was made.  Exposed are the
\* interrupt-safe locks still held at this point.
Sti ==
  /\ Doing("drop") /\ Head(Top.doing.todo) = "sti"
  /\ IF_' = TRUE
  /\ exposed' = exposed \cup {l \in HeldBy(cur) \ {Wanted} : Kind[l] = "irq"}
  /\ SetTop(Top.held, AfterDrop)
  /\ UNCHANGED <<locked, cur, halted>>

-----------------------------------------------------------------------------
\* External: an interrupt arrives; it also ends a hlt.
Interrupt ==
  /\ IF_ /\ Depth < MaxFrames
  /\ frames' = [frames EXCEPT ![cur] = Append(@, NewFrame)]
  /\ IF_' = FALSE /\ halted' = FALSE
  /\ UNCHANGED <<locked, cur, exposed>>

\* The handler returns, to the task it interrupted or, from the timer, to
\* another one.
Return(t) ==
  /\ Depth > 1 /\ Doing("none") /\ Top.held = <<>>
  /\ frames' = [frames EXCEPT ![cur] = Front(@)]
  /\ cur' = t /\ IF_' = TRUE
  /\ UNCHANGED <<locked, halted, exposed>>

-----------------------------------------------------------------------------
Init ==
  /\ locked = [l \in Locks |-> FALSE]
  /\ cur \in Tasks
  /\ frames = [t \in Tasks |-> <<NewFrame>>]
  /\ IF_ = TRUE /\ halted = FALSE /\ exposed = {}

Next ==
  \/ \E l \in Locks, m \in {"lock", "try_lock", "backoff", "timeout", "acquire"} : Request(l, m)
  \/ Succeed \/ LockFails \/ BackoffFails \/ TryFails \/ AcquireSpins \/ Drop \/ Unlock \/ Sti
  \/ Interrupt
  \/ \E t \in Tasks : Return(t)

Spec == Init /\ [][Next]_spinVars

-----------------------------------------------------------------------------

\* While an IrqSafeSpinlock is held no handler runs and no other task does:
\* its holder is the frame on the CPU, with interrupts off.  The one
\* exception is a holder that has dropped a second guard of such a lock in
\* the meantime, which enables interrupts for the first one too.
IrqLockExcludesInterrupts ==
  \A l \in Locks \ exposed :
    (Kind[l] = "irq" /\ locked[l]) => (l \in Holds(Top) /\ ~ IF_)

\* The locks implement mutual exclusion between tasks.
Owner(l) == IF \E t \in Tasks : l \in HeldBy(t) THEN CHOOSE t \in Tasks : l \in HeldBy(t) ELSE Nobody
Abstract == INSTANCE Mutex WITH owner <- [l \in Locks |-> Owner(l)]
IsMutex == Abstract!Spec
=============================================================================
