----------------------------- MODULE Scheduler -----------------------------
(***************************************************************************)
(* The task scheduler of src/scheduler/scheduler.rs: the run queue, the    *)
(* current task, the SCHED_LOCK flag and every function that changes them. *)
(*                                                                         *)
(* One CPU executes one context at a time.  Every function is one action;  *)
(* the timer interrupt, and the wake-ups other interrupt handlers make,    *)
(* happen between two of them.  A context that is switched out stays       *)
(* inside the function that called context_switch, and what that function  *)
(* still has to do (the SCHED_LOCK = false of schedule, the iretq of the   *)
(* interrupt) is done when the context is switched in again.               *)
(*                                                                         *)
(* A PCB is identified with its id.  Its fields that no other function     *)
(* reads (exit_code, last_schedule_tick) are left out.                     *)
(***************************************************************************)
EXTENDS Integers, FiniteSets

CONSTANTS
  MAX_TASKS,    \* slots of RUNQUEUE
  MaxTaskId,    \* bound: NEXT_TASK_ID stops here
  Quanta,       \* time slices a caller may set
  Priorities,   \* priorities a caller may set (u8)
  Durations,    \* sleep durations a caller may ask for
  MaxTime,      \* bound on execution_time
  NewQuantum,   \* time_slice of a new PCB
  None          \* Option::None

ASSUME MaxTasksAssumption == MAX_TASKS \in Nat \ {0}
ASSUME MaxTaskIdAssumption == MaxTaskId \in Nat \ {0}
ASSUME FieldsAssumption == /\ Quanta \subseteq Nat
                           /\ Priorities \subseteq 0..255
                           /\ Durations \subseteq Nat
                           /\ MaxTime \in Nat
                           /\ NewQuantum \in Nat
ASSUME NoneAssumption == None \notin Nat

VARIABLES
  RUNQUEUE,      \* slot -> task id or None
  CURRENT_TASK,  \* task id or None
  TASK_COUNT,
  SCHED_LOCK,
  NEXT_TASK_ID,
  pcb,           \* task id -> the PCB fields the scheduler uses
  context,       \* task id -> where the context continues when switched in
  cpu,           \* "running", "halted" in hlt, or "panicked"
  RFLAGS_IF      \* the CPU accepts interrupts

queue == <<RUNQUEUE, TASK_COUNT, NEXT_TASK_ID>>
machine == <<context, cpu, RFLAGS_IF>>
vars == <<RUNQUEUE, CURRENT_TASK, TASK_COUNT, SCHED_LOCK, NEXT_TASK_ID,
          pcb, context, cpu, RFLAGS_IF>>

Slots == 0..(MAX_TASKS - 1)
TaskIds == 0..MaxTaskId
IdleId == 0
TaskState == {"Running", "Ready", "Blocked", "Zombie", "Sleeping", "Idle"}
Context == {"executing", "fresh", "schedule", "irq", "policy"}

Pcb == [state : TaskState, priority : 0..255, tick_count : Nat,
        time_slice : Nat, execution_time : Nat, wake_time : Nat]

NewPcb(s) == [state |-> s, priority |-> 10, tick_count |-> 0,
              time_slice |-> NewQuantum, execution_time |-> 0, wake_time |-> 0]

Queued(t) == \E i \in Slots : RUNQUEUE[i] = t
OccupiedSlots == {i \in Slots : RUNQUEUE[i] # None}
QueuedTasks == {t \in TaskIds : Queued(t)}
WithState(p, t, s) == [p EXCEPT ![t].state = s]

\* Kernel code of the current context runs; an interrupt handler may run.
ThreadRuns == cpu = "running"
InterruptRuns == RFLAGS_IF /\ cpu \in {"running", "halted"}

Init ==
  /\ RUNQUEUE = [i \in Slots |-> None]
  /\ CURRENT_TASK = None
  /\ TASK_COUNT = 0
  /\ SCHED_LOCK = FALSE
  /\ NEXT_TASK_ID = 1
  /\ pcb = [t \in TaskIds |-> NewPcb(IF t = IdleId THEN "Idle" ELSE "Ready")]
  /\ context = [t \in TaskIds |-> "fresh"]
  /\ cpu = "running"
  /\ RFLAGS_IF = FALSE

-----------------------------------------------------------------------------
(***************************************************************************)
(* schedule() and context_switch().                                        *)
(***************************************************************************)

\* Faulty variants: the scan starts at slot 0; it stops at the last slot; it
\* accepts any task that has not exited.
ScanFromZero(i) == i
ScanWithoutWrap(i) ==
  LET idx == (CURRENT_TASK % MAX_TASKS) + 1 + i
  IN IF idx < MAX_TASKS THEN idx ELSE MAX_TASKS - 1
PickableUnlessZombie(p, idx) ==
  RUNQUEUE[idx] # None /\ p[RUNQUEUE[idx]].state # "Zombie"

\* find_next_task visits every slot once, from the one after the slot that is
\* numbered like the id of the current task.
ScanSlot(i) == ((CURRENT_TASK % MAX_TASKS) + 1 + i) % MAX_TASKS

Pickable(p, idx) == RUNQUEUE[idx] # None /\ p[RUNQUEUE[idx]].state = "Ready"

find_next_task(p) ==
  LET hits == {i \in Slots : Pickable(p, ScanSlot(i))}
  IN IF hits = {} THEN -1
     ELSE ScanSlot(CHOOSE i \in hits : \A j \in hits : i <= j)

\* Leaves the current context in the state `from` and continues t.  A context
\* that was suspended in schedule ends with SCHED_LOCK = false, one suspended
\* in an interrupt also with iretq.  RFLAGS is not part of a saved context, so
\* any other context inherits the interrupt flag; how a fresh one starts is
\* not in the source, so it may also set the flag.
context_switch(t, p, lock, from) ==
  LET inherited == RFLAGS_IF /\ from # "irq"
  IN /\ pcb' = p
     /\ CURRENT_TASK' = t
     /\ context' = [context EXCEPT ![CURRENT_TASK] = from, ![t] = "executing"]
     /\ SCHED_LOCK' = (lock /\ context[t] \notin {"schedule", "irq"})
     /\ RFLAGS_IF' \in CASE context[t] = "irq"   -> {TRUE}
                         [] context[t] = "fresh" -> {TRUE, inherited}
                         [] OTHER                -> {inherited}
     /\ cpu' = "running"

\* The function returns in the context that called it.
Returns(p, lock) ==
  /\ pcb' = p
  /\ SCHED_LOCK' = lock
  /\ cpu' = "running"
  /\ UNCHANGED <<CURRENT_TASK, context, RFLAGS_IF>>

\* Faulty variant: the task that is left keeps its state.
NotDemoted(p) == p

Demoted(p) == IF p[CURRENT_TASK].state = "Running"
              THEN WithState(p, CURRENT_TASK, "Ready") ELSE p

\* unwrap() of an absent current task, after SCHED_LOCK = true.
SchedulePanics(p) ==
  /\ pcb' = p
  /\ SCHED_LOCK' = TRUE
  /\ cpu' = "panicked"
  /\ RFLAGS_IF' = FALSE
  /\ UNCHANGED <<CURRENT_TASK, context>>

\* hlt in schedule: with interrupts off, inside a handler, nothing wakes it.
ScheduleHalts(p, from) ==
  /\ pcb' = p
  /\ SCHED_LOCK' = FALSE
  /\ cpu' = "halted"
  /\ RFLAGS_IF' = (RFLAGS_IF /\ from # "irq")
  /\ UNCHANGED <<CURRENT_TASK, context>>

\* A caller that runs with the PCB table p and the lock value `lock` calls
\* schedule(), from a thread (from = "schedule") or from the timer interrupt
\* (from = "irq").
schedule(p, lock, from) ==
  \/ lock /\ Returns(p, lock)
  \/ ~lock /\ CURRENT_TASK = None /\ SchedulePanics(p)
  \/ /\ ~lock /\ CURRENT_TASK # None
     /\ LET q == Demoted(p)
            next_idx == find_next_task(q)
        IN \/ next_idx = -1 /\ ScheduleHalts(q, from)
           \/ next_idx # -1 /\ RUNQUEUE[next_idx] = CURRENT_TASK
              /\ Returns(q, FALSE)
           \/ /\ next_idx # -1 /\ RUNQUEUE[next_idx] # CURRENT_TASK
              /\ context_switch(RUNQUEUE[next_idx],
                                WithState(q, RUNQUEUE[next_idx], "Running"),
                                TRUE, from)

-----------------------------------------------------------------------------
(***************************************************************************)
(* The functions of scheduler.rs.                                          *)
(***************************************************************************)

FirstFree(i) == /\ RUNQUEUE[i] = None
                /\ \A j \in 0..(i - 1) : RUNQUEUE[j] # None

\* The slot search of add_task and create_task.  TaskCountExact makes it
\* succeed whenever the count check before it does.
Enqueue(t) ==
  \E i \in Slots : /\ FirstFree(i)
                   /\ RUNQUEUE' = [RUNQUEUE EXCEPT ![i] = t]
                   /\ TASK_COUNT' = TASK_COUNT + 1

\* A full queue drops the task silently.
add_task(t) ==
  \/ TASK_COUNT >= MAX_TASKS /\ UNCHANGED <<RUNQUEUE, TASK_COUNT>>
  \/ TASK_COUNT < MAX_TASKS /\ Enqueue(t)

\* _start: the only PCB the source hands out that is not in RUNQUEUE already is
\* the idle one, so the first task is get_idle_task().
init_scheduler ==
  /\ ThreadRuns
  /\ CURRENT_TASK = None /\ ~Queued(IdleId)
  /\ CURRENT_TASK' = IdleId
  /\ pcb' = WithState(pcb, IdleId, "Running")
  /\ context' = [context EXCEPT ![IdleId] = "executing"]
  /\ add_task(IdleId)
  /\ UNCHANGED <<SCHED_LOCK, NEXT_TASK_ID, cpu, RFLAGS_IF>>

\* _start enables interrupts once the scheduler is initialised; a task that
\* inherited a clear flag may do the same.
enable_interrupts ==
  /\ ThreadRuns
  /\ CURRENT_TASK # None /\ ~RFLAGS_IF
  /\ RFLAGS_IF' = TRUE
  /\ UNCHANGED <<queue, CURRENT_TASK, SCHED_LOCK, pcb, context, cpu>>

\* Faulty variants: the counter is not raised; the id is not used up.
CreateWithoutCount ==
  /\ ThreadRuns
  /\ TASK_COUNT < MAX_TASKS /\ NEXT_TASK_ID <= MaxTaskId
  /\ \E i \in Slots : /\ FirstFree(i)
                      /\ RUNQUEUE' = [RUNQUEUE EXCEPT ![i] = NEXT_TASK_ID]
  /\ NEXT_TASK_ID' = NEXT_TASK_ID + 1
  /\ pcb' = [pcb EXCEPT ![NEXT_TASK_ID] = NewPcb("Ready")]
  /\ context' = [context EXCEPT ![NEXT_TASK_ID] = "fresh"]
  /\ UNCHANGED <<CURRENT_TASK, TASK_COUNT, SCHED_LOCK, cpu, RFLAGS_IF>>

CreateWithSameId ==
  /\ ThreadRuns
  /\ TASK_COUNT < MAX_TASKS /\ NEXT_TASK_ID <= MaxTaskId
  /\ Enqueue(NEXT_TASK_ID)
  /\ pcb' = [pcb EXCEPT ![NEXT_TASK_ID] = NewPcb("Ready")]
  /\ context' = [context EXCEPT ![NEXT_TASK_ID] = "fresh"]
  /\ UNCHANGED <<CURRENT_TASK, NEXT_TASK_ID, SCHED_LOCK, cpu, RFLAGS_IF>>

create_task ==
  /\ ThreadRuns
  /\ TASK_COUNT < MAX_TASKS /\ NEXT_TASK_ID <= MaxTaskId
  /\ Enqueue(NEXT_TASK_ID)
  /\ NEXT_TASK_ID' = NEXT_TASK_ID + 1
  /\ pcb' = [pcb EXCEPT ![NEXT_TASK_ID] = NewPcb("Ready")]
  /\ context' = [context EXCEPT ![NEXT_TASK_ID] = "fresh"]
  /\ UNCHANGED <<CURRENT_TASK, SCHED_LOCK, cpu, RFLAGS_IF>>

\* A PCB that neither RUNQUEUE nor CURRENT_TASK refers to any more keeps no
\* state: its entries return to those of a PCB that was never created.  The
\* PCB of the idle task is a static of get_idle_task.
Forget(S) ==
  /\ pcb' = [t \in TaskIds |-> IF t \in S \ {IdleId} THEN NewPcb("Ready")
                              ELSE pcb[t]]
  /\ context' = [t \in TaskIds |-> IF t \in S \ {IdleId} THEN "fresh"
                                  ELSE context[t]]

FirstHolding(i, t) == /\ RUNQUEUE[i] = t
                      /\ \A j \in 0..(i - 1) : RUNQUEUE[j] # t

\* Faulty variant: the counter goes down even if no slot held the task.
RemoveAlwaysCounts ==
  /\ ThreadRuns
  /\ CURRENT_TASK # None
  /\ CURRENT_TASK' = None
  /\ RUNQUEUE' = [i \in Slots |-> IF FirstHolding(i, CURRENT_TASK) THEN None
                                  ELSE RUNQUEUE[i]]
  /\ TASK_COUNT' = TASK_COUNT - 1
  /\ Forget({CURRENT_TASK})
  /\ UNCHANGED <<SCHED_LOCK, NEXT_TASK_ID, cpu, RFLAGS_IF>>

\* The task that calls this keeps running, as no task.
remove_current_task ==
  /\ ThreadRuns
  /\ CURRENT_TASK # None
  /\ CURRENT_TASK' = None
  /\ \/ \E i \in Slots : /\ FirstHolding(i, CURRENT_TASK)
                         /\ RUNQUEUE' = [RUNQUEUE EXCEPT ![i] = None]
                         /\ TASK_COUNT' = TASK_COUNT - 1
     \/ ~Queued(CURRENT_TASK) /\ UNCHANGED <<RUNQUEUE, TASK_COUNT>>
  /\ Forget({CURRENT_TASK})
  /\ UNCHANGED <<SCHED_LOCK, NEXT_TASK_ID, cpu, RFLAGS_IF>>

ZombieSlots == {i \in OccupiedSlots : pcb[RUNQUEUE[i]].state = "Zombie"}

cleanup_zombie_tasks ==
  /\ ThreadRuns
  /\ ZombieSlots # {}
  /\ RUNQUEUE' = [i \in Slots |-> IF i \in ZombieSlots THEN None
                                  ELSE RUNQUEUE[i]]
  /\ TASK_COUNT' = TASK_COUNT - Cardinality(ZombieSlots)
  /\ Forget({RUNQUEUE[i] : i \in ZombieSlots} \ {CURRENT_TASK})
  /\ UNCHANGED <<CURRENT_TASK, SCHED_LOCK, NEXT_TASK_ID, cpu, RFLAGS_IF>>

reset_scheduler ==
  /\ ThreadRuns
  /\ RUNQUEUE' = [i \in Slots |-> None]
  /\ CURRENT_TASK' = None
  /\ TASK_COUNT' = 0
  /\ SCHED_LOCK' = FALSE
  /\ NEXT_TASK_ID' = 1
  /\ Forget(TaskIds)
  /\ UNCHANGED <<cpu, RFLAGS_IF>>

\* set_task_ready, set_task_blocked and mark_task_as_zombie store a state in
\* the PCB of a queued task, whatever its state was.  Interrupt handlers wake
\* tasks too, and an interrupt ends a hlt.
set_task_ready(t) ==
  /\ ThreadRuns \/ InterruptRuns
  /\ Queued(t)
  /\ pcb' = WithState(pcb, t, "Ready")
  /\ cpu' = "running"
  /\ UNCHANGED <<queue, CURRENT_TASK, SCHED_LOCK, context, RFLAGS_IF>>

set_task_blocked(t) ==
  /\ ThreadRuns
  /\ Queued(t)
  /\ pcb' = WithState(pcb, t, "Blocked")
  /\ UNCHANGED <<queue, CURRENT_TASK, SCHED_LOCK, machine>>

mark_task_as_zombie(t) ==
  /\ ThreadRuns
  /\ Queued(t)
  /\ pcb' = WithState(pcb, t, "Zombie")
  /\ UNCHANGED <<queue, CURRENT_TASK, SCHED_LOCK, machine>>

set_current_task_state(s) ==
  /\ ThreadRuns
  /\ CURRENT_TASK # None
  /\ pcb' = WithState(pcb, CURRENT_TASK, s)
  /\ UNCHANGED <<queue, CURRENT_TASK, SCHED_LOCK, machine>>

\* preempt_disable and disable_scheduler, preempt_enable and enable_scheduler:
\* a flag, not a count.
preempt_disable ==
  /\ ThreadRuns
  /\ SCHED_LOCK' = TRUE
  /\ UNCHANGED <<queue, CURRENT_TASK, pcb, machine>>

preempt_enable ==
  /\ ThreadRuns
  /\ SCHED_LOCK' = FALSE
  /\ UNCHANGED <<queue, CURRENT_TASK, pcb, machine>>

yield_cpu ==
  /\ ThreadRuns
  /\ schedule(pcb, SCHED_LOCK, "schedule")
  /\ UNCHANGED queue

force_schedule ==
  /\ ThreadRuns
  /\ schedule(pcb, FALSE, "schedule")
  /\ UNCHANGED queue

force_context_switch ==
  /\ ThreadRuns
  /\ schedule(IF CURRENT_TASK = None THEN pcb ELSE Demoted(pcb), SCHED_LOCK,
              "schedule")
  /\ UNCHANGED queue

reschedule_if_needed ==
  /\ ThreadRuns
  /\ ~SCHED_LOCK /\ CURRENT_TASK # None
  /\ pcb[CURRENT_TASK].state \notin {"Running", "Idle"}
  /\ schedule(pcb, SCHED_LOCK, "schedule")
  /\ UNCHANGED queue

\* One round of the loop of the idle task.
idle_loop ==
  /\ ThreadRuns
  /\ CURRENT_TASK = IdleId
  /\ \/ TASK_COUNT > 1 /\ schedule(pcb, SCHED_LOCK, "schedule")
     \/ /\ TASK_COUNT <= 1
        /\ cpu' = "halted"
        /\ UNCHANGED <<CURRENT_TASK, SCHED_LOCK, pcb, context, RFLAGS_IF>>
  /\ UNCHANGED queue

now == IF CURRENT_TASK = None THEN 0 ELSE pcb[CURRENT_TASK].execution_time

sleep_current_task(duration) ==
  /\ ThreadRuns
  /\ CURRENT_TASK # None
  /\ schedule([pcb EXCEPT ![CURRENT_TASK].wake_time = now + duration,
                          ![CURRENT_TASK].state = "Sleeping"],
              SCHED_LOCK, "schedule")
  /\ UNCHANGED queue

wake_up_tasks ==
  /\ ThreadRuns \/ InterruptRuns
  /\ pcb' = [t \in TaskIds |->
               IF /\ Queued(t) /\ pcb[t].state = "Sleeping"
                  /\ pcb[t].wake_time <= now
               THEN [pcb[t] EXCEPT !.state = "Ready"] ELSE pcb[t]]
  /\ cpu' = "running"
  /\ UNCHANGED <<queue, CURRENT_TASK, SCHED_LOCK, context, RFLAGS_IF>>

increment_current_task_time ==
  /\ ThreadRuns \/ InterruptRuns
  /\ CURRENT_TASK # None /\ now < MaxTime
  /\ pcb' = [pcb EXCEPT ![CURRENT_TASK].execution_time = @ + 1]
  /\ cpu' = "running"
  /\ UNCHANGED <<queue, CURRENT_TASK, SCHED_LOCK, context, RFLAGS_IF>>

SliceUsedUp(count, time_slice) == count >= time_slice

\* tick(): the timer interrupt charges the current task and calls schedule()
\* at the end of its time slice.
handle_timer_interrupt ==
  /\ InterruptRuns
  /\ \/ /\ CURRENT_TASK # None
        /\ LET count == pcb[CURRENT_TASK].tick_count + 1
               Charged(n) == [pcb EXCEPT ![CURRENT_TASK].tick_count = n]
           IN \/ /\ ~SliceUsedUp(count, pcb[CURRENT_TASK].time_slice)
                 /\ Returns(Charged(count), SCHED_LOCK)
              \/ /\ SliceUsedUp(count, pcb[CURRENT_TASK].time_slice)
                 /\ schedule(Charged(0), SCHED_LOCK, "irq")
     \/ CURRENT_TASK = None /\ schedule(pcb, SCHED_LOCK, "irq")
  /\ UNCHANGED queue

set_task_quantum(t, quantum) ==
  /\ ThreadRuns
  /\ Queued(t)
  /\ pcb' = [pcb EXCEPT ![t].time_slice = quantum]
  /\ UNCHANGED <<queue, CURRENT_TASK, SCHED_LOCK, machine>>

set_global_time_slice(time_slice) ==
  /\ ThreadRuns
  /\ pcb' = [t \in TaskIds |->
               IF Queued(t) THEN [pcb[t] EXCEPT !.time_slice = time_slice]
               ELSE pcb[t]]
  /\ UNCHANGED <<queue, CURRENT_TASK, SCHED_LOCK, machine>>

update_current_task_priority(priority) ==
  /\ ThreadRuns
  /\ CURRENT_TASK # None
  /\ pcb' = [pcb EXCEPT ![CURRENT_TASK].priority = priority]
  /\ UNCHANGED <<queue, CURRENT_TASK, SCHED_LOCK, machine>>

Priority(i) == pcb[RUNQUEUE[i]].priority

\* Faulty variant: the comparison is turned round.
LosesTo(i, j) ==
  Priority(i) > Priority(j) \/ (Priority(i) = Priority(j) /\ i <= j)

\* The Ready task with the smallest priority number, the first slot among
\* equals.  Id 0 stands for "none", and priority 255 never wins.
Eligible == {i \in OccupiedSlots : /\ pcb[RUNQUEUE[i]].state = "Ready"
                                   /\ Priority(i) < 255}
Wins(i, j) ==
  Priority(i) < Priority(j) \/ (Priority(i) = Priority(j) /\ i <= j)

get_highest_priority_ready_task ==
  IF Eligible = {} THEN 0
  ELSE RUNQUEUE[CHOOSE i \in Eligible : \A j \in Eligible : Wins(i, j)]

\* Takes no lock and leaves the state of the task it leaves as it is.
schedule_with_policy ==
  LET next_id == get_highest_priority_ready_task
  IN /\ ThreadRuns
     /\ next_id # 0
     /\ CURRENT_TASK # None /\ CURRENT_TASK # next_id
     /\ context_switch(next_id, WithState(pcb, next_id, "Running"),
                       SCHED_LOCK, "policy")
     /\ UNCHANGED queue

-----------------------------------------------------------------------------
\* Everything that goes through schedule().
RoundRobinNext ==
  \/ init_scheduler
  \/ enable_interrupts
  \/ create_task
  \/ remove_current_task
  \/ cleanup_zombie_tasks
  \/ reset_scheduler
  \/ \E t \in TaskIds : \/ set_task_ready(t)
                        \/ set_task_blocked(t)
                        \/ mark_task_as_zombie(t)
  \/ \E s \in TaskState : set_current_task_state(s)
  \/ preempt_disable
  \/ preempt_enable
  \/ yield_cpu
  \/ force_schedule
  \/ force_context_switch
  \/ reschedule_if_needed
  \/ idle_loop
  \/ \E d \in Durations : sleep_current_task(d)
  \/ wake_up_tasks
  \/ increment_current_task_time
  \/ handle_timer_interrupt
  \/ \E q \in Quanta : \/ set_global_time_slice(q)
                       \/ \E t \in TaskIds : set_task_quantum(t, q)
  \/ \E p \in Priorities : update_current_task_priority(p)

Next == RoundRobinNext \/ schedule_with_policy

RoundRobinSpec == Init /\ [][RoundRobinNext]_vars
Spec == Init /\ [][Next]_vars

\* A workload under schedule() alone: tasks are created, compute until their
\* time slice ends or yield, block, are readied and exit.
WorkloadNext ==
  \/ init_scheduler
  \/ enable_interrupts
  \/ preempt_enable
  \/ CURRENT_TASK # None /\ create_task
  \/ handle_timer_interrupt
  \/ yield_cpu
  \/ \E t \in TaskIds : \/ set_task_ready(t)
                        \/ set_task_blocked(t)
                        \/ mark_task_as_zombie(t)
  \/ cleanup_zombie_tasks

-----------------------------------------------------------------------------
(***************************************************************************)
(* Properties.                                                             *)
(***************************************************************************)

\* The state has its types; TASK_COUNT in particular never wraps below zero,
\* although every removal subtracts one from it without a check.
TypeOK ==
  /\ RUNQUEUE \in [Slots -> TaskIds \cup {None}]
  /\ CURRENT_TASK \in TaskIds \cup {None}
  /\ TASK_COUNT \in Nat
  /\ SCHED_LOCK \in BOOLEAN
  /\ NEXT_TASK_ID \in 1..(MaxTaskId + 1)
  /\ pcb \in [TaskIds -> Pcb]
  /\ context \in [TaskIds -> Context]
  /\ cpu \in {"running", "halted", "panicked"}
  /\ RFLAGS_IF \in BOOLEAN

\* No PCB is in two slots of RUNQUEUE, and every id in use, in the queue or as
\* the current task, is one create_task has already passed: an id is not given
\* out twice while somebody can still name the task.
IdsNeverCollide ==
  /\ \A i, j \in Slots : RUNQUEUE[i] # None /\ RUNQUEUE[i] = RUNQUEUE[j] => i = j
  /\ \A i \in Slots : RUNQUEUE[i] # None => RUNQUEUE[i] < NEXT_TASK_ID
  /\ CURRENT_TASK # None => CURRENT_TASK < NEXT_TASK_ID

\* TASK_COUNT is the number of occupied slots, over every creation, exit,
\* clean-up and reset, so the capacity checks of add_task and create_task fail
\* exactly when there is no free slot.
TaskCountExact == TASK_COUNT = Cardinality(OccupiedSlots)

\* As long as only schedule() switches tasks, a queued task in state Running is
\* the current one: two tasks never both believe they have the CPU.
RunningIsCurrent ==
  \A t \in QueuedTasks : pcb[t].state = "Running" => CURRENT_TASK = t

\* schedule() and idle_loop put the CPU to sleep only when no queued task but
\* the current one is Ready: the circular scan of find_next_task misses no slot,
\* and TASK_COUNT > 1 is the right question for an idle task that has its slot.
HaltOnlyWhenNothingReady ==
  cpu = "halted" /\ CURRENT_TASK \in QueuedTasks =>
    \A t \in QueuedTasks : pcb[t].state = "Ready" => t = CURRENT_TASK

\* A switch from one task to another goes to a task that was Ready: a blocked,
\* sleeping or exited task does not get the CPU before somebody readies it.
SwitchTargetWasReady ==
  [][(/\ CURRENT_TASK # None /\ CURRENT_TASK' # None
      /\ CURRENT_TASK' # CURRENT_TASK)
       => pcb[CURRENT_TASK'].state = "Ready"]_vars

\* When schedule_with_policy switches, no task that is still Ready has a
\* better (smaller) priority than the one that got the CPU.
PolicyPicksBest ==
  [][schedule_with_policy =>
       \A t \in QueuedTasks : pcb[t].state = "Ready" =>
         pcb[CURRENT_TASK'].priority <= pcb[t].priority]_vars
=============================================================================
