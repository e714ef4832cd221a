-------------------------------- MODULE Timer --------------------------------
(***************************************************************************)
(* The timer of timer.rs: the tick counter that the timer interrupt        *)
(* advances, the frequency that init() finds, and the functions that wait  *)
(* for ticks or for cycles of the processor.                               *)
(*                                                                         *)
(* One caller waits at a time; between two looks at the clock the          *)
(* interrupt ticks, cycles pass, and other code may reset the counter or   *)
(* the frequency.  Counters are W bits wide.  A second has Sec nanoseconds *)
(* and as many microseconds.                                               *)
(***************************************************************************)
EXTENDS Integers

CONSTANTS
  W, Sec,
  CalTicks,         \* the 100 ticks of calibrate_tsc
  Scale,            \* the 10 that calibrate_tsc multiplies by
  HpetFreq,         \* the frequency of the HPET, if there is one
  Kinds, Args,      \* the calls to look at
  Freqs,            \* arguments of timer_reset_frequency
  Cycles,           \* values of the cycle counter when the machine starts
  MaxTicks,         \* bound on the tick counter
  MaxResets         \* bound on the number of resets

Word == 0 .. 2^W - 1
wrap(n) == n % 2^W

ASSUME TimerAssumption ==
  /\ 2^W \in Nat \ {0} /\ Sec \in Nat \ {0} /\ MaxTicks \in Nat /\ MaxTicks * Sec < 2^W
  /\ CalTicks \in Nat /\ Scale \in Nat /\ HpetFreq \in Nat /\ Freqs \subseteq Nat
  /\ Args \subseteq Word /\ Cycles \subseteq Word

VARIABLES
  TICKS, FREQUENCY, TSC_KNOWN,
  tsc,              \* the cycle counter of the processor
  hpet,             \* what the HPET reports: "none", "no period" or "ok"
  IF_,              \* whether interrupts are on
  call,             \* the call under way, or the last one
  waited, burnt,    \* history: ticks and cycles since it began
  rate,             \* history: the frequency when it began
  steady,           \* history: no reset of counter or frequency since then
  resets            \* number of resets so far

timerVars == <<TICKS, FREQUENCY, TSC_KNOWN, tsc, hpet, IF_, call, waited, burnt, rate,
               steady, resets>>
machine == <<TICKS, tsc, hpet, IF_, waited, burnt, rate, steady, resets>>

uptime == IF FREQUENCY > 0 THEN wrap(TICKS * Sec) \div FREQUENCY ELSE 0

Start(kind, arg, pc, start, target) ==
  /\ call' = [kind |-> kind, arg |-> arg, pc |-> pc, start |-> start, target |-> target]
  /\ waited' = 0 /\ burnt' = 0 /\ rate' = FREQUENCY /\ steady' = TRUE
  /\ UNCHANGED <<TICKS, FREQUENCY, TSC_KNOWN, tsc, hpet, IF_, resets>>

Idle(kind) == call.pc = "done" /\ kind \in Kinds
Looping(kinds) == call.pc = "loop" /\ call.kind \in kinds
Finish(pc) == call' = [call EXCEPT !.pc = pc] /\ UNCHANGED <<machine, FREQUENCY, TSC_KNOWN>>

-----------------------------------------------------------------------------
\* is_hpet_capable is false for "none"; init_hpet fails without a period.
init_hpet ==
  /\ hpet = "ok"
  /\ FREQUENCY' = HpetFreq
  /\ call' = [call EXCEPT !.pc = "done"]
  /\ UNCHANGED <<machine, TSC_KNOWN>>

init_again == Idle("init") /\ Start("init", 0, "init", 0, 0)

\* init: with no HPET that works, init_pit and calibrate_tsc follow.
init ==
  /\ call.pc = "init"
  /\ \/ init_hpet
     \/ /\ hpet # "ok" /\ TSC_KNOWN
        /\ Finish("done")
     \/ /\ hpet # "ok" /\ ~ TSC_KNOWN
        /\ Start("calibrate_tsc", CalTicks, "loop", tsc, TICKS)

calibrate_tsc ==
  /\ Looping({"calibrate_tsc"}) /\ wrap(TICKS - call.target) >= CalTicks
  /\ FREQUENCY' = wrap(wrap(tsc - call.start) * Scale) /\ TSC_KNOWN' = TRUE
  /\ call' = [call EXCEPT !.pc = "done"]
  /\ UNCHANGED machine

-----------------------------------------------------------------------------
\* Waiting for the tick counter.
sleep_ticks(n) == Idle("sleep_ticks") /\ Start("sleep_ticks", n, "loop", TICKS, wrap(TICKS + n))
sleep_ns(n) == Idle("sleep_ns") /\ Start("sleep_ns", n, "loop", uptime, wrap(uptime + n))
\* sleep_until_ns is the same loop.
wait_until_ns(t) == Idle("wait_until_ns") /\ Start("wait_until_ns", t, "loop", uptime, t)
wait_for_event(n) == Idle("wait_for_event") /\ Start("wait_for_event", n, "loop", uptime, n)

\* Faulty variant: the loop ends one tick before its target.
TickLoopShort == Looping({"sleep_ticks"}) /\ TICKS + 1 >= call.target /\ Finish("done")

TickLoop == Looping({"sleep_ticks"}) /\ TICKS >= call.target /\ Finish("done")
NsLoop == Looping({"sleep_ns", "wait_until_ns"}) /\ uptime >= call.target /\ Finish("done")

\* A round in which the condition is false has no effect.
EventLoop ==
  /\ Looping({"wait_for_event"})
  /\ \/ wrap(uptime - call.start) < call.target /\ Finish("event")
     \/ wrap(uptime - call.start) >= call.target /\ Finish("timeout")

Return == call.pc \in {"event", "timeout"} /\ Finish("done")

-----------------------------------------------------------------------------
\* Waiting for the cycle counter.
busy_wait_cycles(n) == Idle("busy_wait_cycles") /\ Start("busy_wait_cycles", n, "loop", tsc, n)
delay_us(n) == Idle("delay_us") /\ Start("delay_us", n, "loop", tsc, wrap(n * FREQUENCY) \div Sec)
microsecond_delay(n) ==
  Idle("microsecond_delay") /\ Start("microsecond_delay", n, "loop", tsc, wrap(FREQUENCY * n) \div Sec)

\* Faulty variant: waits for the exact number of cycles.
CycleLoopExact ==
  /\ Looping({"busy_wait_cycles", "delay_us", "microsecond_delay", "precise_sleep_ns"})
  /\ wrap(tsc - call.start) = call.target
  /\ Finish("done")

\* Faulty variant: waits for the counter to pass an absolute value.
CycleLoopAbsolute ==
  /\ Looping({"busy_wait_cycles", "delay_us", "microsecond_delay", "precise_sleep_ns"})
  /\ tsc >= wrap(call.start + call.target)
  /\ Finish("done")

CycleLoop ==
  /\ Looping({"busy_wait_cycles", "delay_us", "microsecond_delay", "precise_sleep_ns"})
  /\ wrap(tsc - call.start) >= call.target
  /\ Finish("done")

precise_sleep_ns(n) ==
  Idle("precise_sleep_ns") /\ Start("precise_sleep_ns", n, "remaining", uptime, wrap(uptime + n))

\* The clock is read a second time for what remains.  Below one cycle per
\* nanosecond precise_sleep_ns does not wait at all.
Remaining ==
  LET perNs == FREQUENCY \div Sec
      left == wrap(call.target - uptime)
  IN /\ call.pc = "remaining"
     /\ call' = IF FREQUENCY > 0 /\ left > 0 /\ perNs > 0
                THEN [call EXCEPT !.pc = "loop", !.start = tsc, !.target = wrap(left * perNs)]
                ELSE [call EXCEPT !.pc = "done"]
     /\ UNCHANGED <<machine, FREQUENCY, TSC_KNOWN>>

-----------------------------------------------------------------------------
\* timer_interrupt_handler calls tick; who calls that is not in the source.
tick ==
  /\ IF_ /\ TICKS < MaxTicks
  /\ TICKS' = TICKS + 1 /\ waited' = waited + 1
  /\ UNCHANGED <<FREQUENCY, TSC_KNOWN, tsc, hpet, IF_, call, burnt, rate, steady, resets>>

\* The processor counts cycles; they are left out while nobody looks at them.
Cycle ==
  /\ Looping({"calibrate_tsc", "busy_wait_cycles", "delay_us", "microsecond_delay", "precise_sleep_ns"})
  /\ burnt < 2^W - 1
  /\ tsc' = wrap(tsc + 1) /\ burnt' = burnt + 1
  /\ UNCHANGED <<TICKS, FREQUENCY, TSC_KNOWN, hpet, IF_, call, waited, rate, steady, resets>>

reset_timer ==
  /\ resets < MaxResets
  /\ TICKS' = 0 /\ steady' = FALSE /\ resets' = resets + 1
  /\ UNCHANGED <<FREQUENCY, TSC_KNOWN, tsc, hpet, IF_, call, waited, burnt, rate>>

timer_reset_frequency(f) ==
  /\ resets < MaxResets
  /\ FREQUENCY' = f /\ steady' = FALSE /\ resets' = resets + 1
  /\ UNCHANGED <<TICKS, TSC_KNOWN, tsc, hpet, IF_, call, waited, burnt, rate>>

-----------------------------------------------------------------------------
Init ==
  /\ TICKS = 0 /\ FREQUENCY = 0 /\ TSC_KNOWN = FALSE
  /\ tsc \in Cycles /\ hpet \in {"none", "no period", "ok"} /\ IF_ \in BOOLEAN
  /\ call = [kind |-> "init", arg |-> 0, pc |-> "init", start |-> 0, target |-> 0]
  /\ waited = 0 /\ burnt = 0 /\ rate = 0 /\ steady = TRUE /\ resets = 0

Call(n) ==
  \/ sleep_ticks(n) \/ sleep_ns(n) \/ wait_until_ns(n) \/ wait_for_event(n)
  \/ busy_wait_cycles(n) \/ delay_us(n) \/ microsecond_delay(n) \/ precise_sleep_ns(n)

Poll == init \/ calibrate_tsc \/ TickLoop \/ NsLoop \/ EventLoop \/ Return \/ CycleLoop \/ Remaining

Next ==
  \/ init_again
  \/ \E n \in Args : Call(n)
  \/ Poll \/ tick \/ Cycle \/ reset_timer
  \/ \E f \in Freqs : timer_reset_frequency(f)

Spec == Init /\ [][Next]_timerVars

\* The caller of a delay executes its loop, and the processor counts cycles.
\* Nothing is assumed about ticks, which a delay does not need.
FairSpec == Spec /\ WF_timerVars(CycleLoop \/ Remaining) /\ WF_timerVars(Cycle)

-----------------------------------------------------------------------------

\* sleep_ticks has waited for as many ticks as asked for when it returns, even
\* if the counter is reset meanwhile; sleep_ns, and wait_for_event when it
\* reports a timeout, for as many nanoseconds less the one that rounding takes
\* away, unless the clock was reset; calibrate_tsc for its ticks.
Elapsed(n) == n = 0 \/ waited * Sec + FREQUENCY > n * FREQUENCY
NoWaitEndsEarly ==
  /\ call.pc = "done" /\ call.start + call.arg < 2^W =>
       /\ call.kind = "sleep_ticks" => waited >= call.arg
       /\ call.kind = "sleep_ns" /\ steady => Elapsed(call.arg)
       /\ call.kind = "calibrate_tsc" /\ steady => waited >= CalTicks
  /\ call.pc = "timeout" /\ steady => Elapsed(call.arg)

\* busy_wait_cycles burns the cycles asked for, wherever the cycle counter
\* stands; delay_us and microsecond_delay as many as the microseconds asked for
\* take at the frequency of that moment, less the one that rounding takes away,
\* provided that the product of the two fits its word.  (What that frequency
\* is worth is another matter: it is 0 before init and the HPET's with one.)
NoDelayEndsEarly ==
  call.pc = "done" =>
    /\ call.kind = "busy_wait_cycles" => burnt >= call.arg
    /\ call.kind \in {"delay_us", "microsecond_delay"} /\ call.arg * rate < 2^W =>
         burnt * Sec + Sec > call.arg * rate

\* A delay in cycles comes to its end although the counter passes its target
\* between two looks, whether or not interrupts are on, the timer ticks, or
\* somebody resets counter or frequency meanwhile.
DelaysEnd ==
  call.kind \in {"busy_wait_cycles", "delay_us", "microsecond_delay", "precise_sleep_ns"}
    ~> call.pc = "done"
=============================================================================
