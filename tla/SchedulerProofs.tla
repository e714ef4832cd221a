-------------------------- MODULE SchedulerProofs --------------------------
(***************************************************************************)
(* Proofs about Scheduler, for every number of slots and of task ids.      *)
(***************************************************************************)
EXTENDS Scheduler, FiniteSetTheorems, WellFoundedInduction, TLAPS

USE MaxTasksAssumption, MaxTaskIdAssumption, FieldsAssumption, NoneAssumption

\* A nonempty set of natural numbers has a least element.
LEMMA LeastNatural ==
  ASSUME NEW T, T \subseteq Nat, T # {}
  PROVE  \E x \in T : \A y \in T : x <= y
<1>1. PICK x \in T : \A y \in T : ~(<<y, x>> \in OpToRel(<, Nat))
  BY NatLessThanWellFounded, WFMin, Zenon
<1>2. \A y \in T : ~(y < x)
  BY <1>1, Zenon DEF OpToRel
<1> QED
  BY <1>2

\* The slot that find_next_task looks at in round i is a slot.
LEMMA ScanSlotInSlots ==
  ASSUME TypeOK, CURRENT_TASK # None, NEW i \in Slots
  PROVE  ScanSlot(i) \in Slots
<1>1. CURRENT_TASK \in Nat /\ MAX_TASKS \in Nat /\ MAX_TASKS > 0 /\ i \in Nat
  BY DEF TypeOK, TaskIds, Slots
<1>2. \A a \in Nat : a % MAX_TASKS \in 0..(MAX_TASKS - 1)
  BY <1>1
<1>3. (CURRENT_TASK % MAX_TASKS) + 1 + i \in Nat
  BY <1>1, <1>2
<1> QED
  BY <1>2, <1>3, Zenon DEF ScanSlot, Slots

\* find_next_task answers -1 or a slot whose task is Ready.
LEMMA FindNextTaskAnswers ==
  ASSUME TypeOK, CURRENT_TASK # None, NEW p, find_next_task(p) # -1
  PROVE  /\ find_next_task(p) \in Slots
         /\ Pickable(p, find_next_task(p))
<1> DEFINE hits == {i \in Slots : Pickable(p, ScanSlot(i))}
<1> DEFINE first == CHOOSE i \in hits : \A j \in hits : i <= j
<1>1. hits # {} /\ find_next_task(p) = ScanSlot(first)
  BY Zenon DEF find_next_task
<1>2. first \in hits
  <2>1. hits \subseteq Nat
    BY DEF Slots
  <2>2. \E i \in hits : \A j \in hits : i <= j
    BY <1>1, <2>1, LeastNatural, Zenon
  <2> QED
    BY <2>2, Zenon
<1> QED
  BY <1>1, <1>2, ScanSlotInSlots, Zenon
-----------------------------------------------------------------------------
(***************************************************************************)
(* The invariant.  TASK_COUNT stays a natural number because it counts the *)
(* occupied slots; a removal frees exactly one of them because no task is  *)
(* in two; and create_task takes an id nobody has because every id in use  *)
(* is below NEXT_TASK_ID.                                                  *)
(***************************************************************************)
Inv == TypeOK /\ IdsNeverCollide /\ TaskCountExact

\* The current task stays, or becomes a queued one.
StaysOrQueued ==
  \/ CURRENT_TASK' = CURRENT_TASK
  \/ \E i \in Slots : RUNQUEUE[i] # None /\ CURRENT_TASK' = RUNQUEUE[i]

\* What a step leaves well typed when it does not touch the queue.
MachineOK ==
  /\ pcb' \in [TaskIds -> Pcb]
  /\ SCHED_LOCK' \in BOOLEAN
  /\ context' \in [TaskIds -> Context]
  /\ cpu' \in {"running", "halted", "panicked"}
  /\ RFLAGS_IF' \in BOOLEAN

LEMMA WithStateType ==
  ASSUME NEW p \in [TaskIds -> Pcb], NEW t \in TaskIds,
         NEW s \in TaskState
  PROVE  WithState(p, t, s) \in [TaskIds -> Pcb]
<1>1. [p[t] EXCEPT !.state = s] \in Pcb
  BY DEF Pcb
<1> QED
  BY <1>1, Zenon DEF WithState

LEMMA DemotedType ==
  ASSUME NEW p \in [TaskIds -> Pcb],
         CURRENT_TASK \in TaskIds
  PROVE  Demoted(p) \in [TaskIds -> Pcb]
BY WithStateType, Zenon DEF Demoted, TaskState

LEMMA ContextSwitchType ==
  ASSUME TypeOK, NEW i \in Slots, RUNQUEUE[i] # None,
         NEW p \in [TaskIds -> Pcb], NEW lock \in BOOLEAN,
         NEW from \in {"schedule", "irq", "policy"},
         context_switch(RUNQUEUE[i], p, lock, from)
  PROVE  StaysOrQueued /\ MachineOK
<1>1. RFLAGS_IF' \in BOOLEAN
  BY Zenon DEF context_switch, TypeOK
<1>2. context' \in [TaskIds -> Context]
  BY Zenon DEF context_switch, TypeOK, Context
<1>3. SCHED_LOCK' \in BOOLEAN
  BY Zenon DEF context_switch
<1> QED
  BY <1>1, <1>2, <1>3, Zenon DEF context_switch, MachineOK, StaysOrQueued

LEMMA ScheduleType ==
  ASSUME TypeOK, NEW p \in [TaskIds -> Pcb], NEW lock \in BOOLEAN,
         NEW from \in {"schedule", "irq"}, schedule(p, lock, from)
  PROVE  StaysOrQueued /\ MachineOK
<1>1. ASSUME NEW q \in [TaskIds -> Pcb], NEW l \in BOOLEAN, Returns(q, l)
      PROVE  StaysOrQueued /\ MachineOK
  BY <1>1, Zenon DEF Returns, StaysOrQueued, MachineOK, TypeOK
<1>2. ASSUME NEW q \in [TaskIds -> Pcb], SchedulePanics(q)
      PROVE  StaysOrQueued /\ MachineOK
  BY <1>2, Zenon DEF SchedulePanics, StaysOrQueued, MachineOK, TypeOK
<1>3. ASSUME NEW q \in [TaskIds -> Pcb], ScheduleHalts(q, from)
      PROVE  StaysOrQueued /\ MachineOK
  BY <1>3, Zenon DEF ScheduleHalts, StaysOrQueued, MachineOK, TypeOK
<1>4. CASE lock
  BY <1>1, <1>4, Zenon DEF schedule
<1>5. CASE ~lock /\ CURRENT_TASK = None
  BY <1>2, <1>5, Zenon DEF schedule
<1>6. CASE ~lock /\ CURRENT_TASK # None
  <2> DEFINE q == Demoted(p)
             idx == find_next_task(q)
  <2>1. q \in [TaskIds -> Pcb]
    BY <1>6, DemotedType, Zenon DEF TypeOK
  <2> HIDE DEF q, idx
  <2>2. CASE idx = -1
    BY <1>3, <1>6, <2>1, <2>2, Zenon DEF schedule, q, idx
  <2>3. CASE idx # -1 /\ RUNQUEUE[idx] = CURRENT_TASK
    BY <1>1, <1>6, <2>1, <2>3, Zenon DEF schedule, q, idx
  <2>4. CASE idx # -1 /\ RUNQUEUE[idx] # CURRENT_TASK
    <3>1. PICK i \in Slots : i = idx /\ RUNQUEUE[i] # None
      BY <1>6, <2>4, FindNextTaskAnswers, Zenon DEF Pickable, idx
    <3> DEFINE r == WithState(q, RUNQUEUE[i], "Running")
    <3>2. context_switch(RUNQUEUE[i], r, TRUE, from)
      BY <1>6, <2>4, <3>1, Zenon DEF schedule, q, idx
    <3>3. r \in [TaskIds -> Pcb]
      BY <2>1, <3>1, WithStateType, Zenon DEF TaskState, TypeOK
    <3>4. from \in {"schedule", "irq", "policy"} /\ TRUE \in BOOLEAN
      BY Zenon
    <3> HIDE DEF r
    <3> QED
      BY <3>1, <3>2, <3>3, <3>4, ContextSwitchType, ZenonT(40)
  <2> QED
    BY <2>2, <2>3, <2>4, Zenon
<1> QED
  BY <1>4, <1>5, <1>6, Zenon
\* A step that leaves the queue alone, and the current task or one of the
\* queued tasks current, preserves the invariant.
LEMMA QuietStep ==
  ASSUME Inv, UNCHANGED queue, StaysOrQueued, MachineOK
  PROVE  Inv'
<1>1. TypeOK'
  BY DEF Inv, TypeOK, queue, StaysOrQueued, MachineOK
<1>2. IdsNeverCollide'
  BY DEF Inv, TypeOK, IdsNeverCollide, queue, StaysOrQueued
<1>3. TaskCountExact'
  <2>1. OccupiedSlots' = OccupiedSlots
    BY Zenon DEF OccupiedSlots, queue
  <2> QED
    BY <2>1, Zenon DEF Inv, TaskCountExact, queue
<1> QED
  BY <1>1, <1>2, <1>3, Zenon DEF Inv

LEMMA OccupiedSlotsFinite == IsFiniteSet(OccupiedSlots)
<1>1. IsFiniteSet(Slots)
  BY FS_Interval DEF Slots
<1> QED
  BY <1>1, FS_Subset, Zenon DEF OccupiedSlots

\* Filling a free slot raises TASK_COUNT and the number of occupied slots.
LEMMA EnqueueCounts ==
  ASSUME Inv, NEW t \in TaskIds, Enqueue(t)
  PROVE  /\ RUNQUEUE' \in [Slots -> TaskIds \cup {None}]
         /\ TASK_COUNT' \in Nat
         /\ TaskCountExact'
         /\ \E i \in Slots : /\ RUNQUEUE[i] = None
                             /\ RUNQUEUE' = [RUNQUEUE EXCEPT ![i] = t]
<1>1. PICK i \in Slots : /\ RUNQUEUE[i] = None
                         /\ RUNQUEUE' = [RUNQUEUE EXCEPT ![i] = t]
                         /\ TASK_COUNT' = TASK_COUNT + 1
  BY Zenon DEF Enqueue, FirstFree
<1>2. t # None
  BY DEF TaskIds
<1>3. RUNQUEUE' \in [Slots -> TaskIds \cup {None}] /\ TASK_COUNT' \in Nat
  BY <1>1 DEF Inv, TypeOK
<1>4. OccupiedSlots' = OccupiedSlots \cup {i} /\ i \notin OccupiedSlots
  BY <1>1, <1>2 DEF OccupiedSlots, Inv, TypeOK
<1>5. Cardinality(OccupiedSlots') = Cardinality(OccupiedSlots) + 1
  BY <1>4, OccupiedSlotsFinite, FS_AddElement, Zenon
<1>6. TaskCountExact'
  BY <1>1, <1>5, Zenon DEF Inv, TaskCountExact
<1> QED
  BY <1>1, <1>3, <1>6, Zenon

LEMMA InitSchedulerInv ==
  ASSUME Inv, init_scheduler
  PROVE  Inv'
<1>1. IdleId \in TaskIds
  BY DEF IdleId, TaskIds
<1>2. pcb' \in [TaskIds -> Pcb] /\ context' \in [TaskIds -> Context]
  BY <1>1, WithStateType, Zenon DEF init_scheduler, Inv, TypeOK, TaskState, Context
<1>3. IdleId < NEXT_TASK_ID
  BY DEF IdleId, Inv, TypeOK
<1>4. CASE UNCHANGED <<RUNQUEUE, TASK_COUNT>>
  <2>1. OccupiedSlots' = OccupiedSlots
    BY <1>4, Zenon DEF OccupiedSlots
  <2>2. TypeOK'
    BY <1>1, <1>2, <1>4, Zenon DEF init_scheduler, Inv, TypeOK
  <2> QED
    BY <1>3, <1>4, <2>1, <2>2, Zenon
       DEF init_scheduler, Inv, IdsNeverCollide, TaskCountExact
<1>5. CASE Enqueue(IdleId)
  <2>1. PICK i \in Slots : /\ RUNQUEUE[i] = None
                           /\ RUNQUEUE' = [RUNQUEUE EXCEPT ![i] = IdleId]
    BY <1>1, <1>5, EnqueueCounts, Zenon
  <2>2. \A j \in Slots : RUNQUEUE[j] # IdleId
    BY Zenon DEF init_scheduler, Queued
  <2>3. IdsNeverCollide'
    BY <1>3, <2>1, <2>2, Zenon DEF init_scheduler, Inv, TypeOK, IdsNeverCollide
  <2>4. TypeOK'
    BY <1>1, <1>2, <1>5, EnqueueCounts, Zenon DEF init_scheduler, Inv, TypeOK
  <2> QED
    BY <1>1, <1>5, <2>3, <2>4, EnqueueCounts, Zenon DEF Inv
<1> QED
  BY <1>4, <1>5, Zenon DEF init_scheduler, add_task

LEMMA CreateTaskInv ==
  ASSUME Inv, create_task
  PROVE  Inv'
<1>1. NEXT_TASK_ID \in TaskIds /\ NEXT_TASK_ID \in Nat
  BY DEF create_task, Inv, TypeOK, TaskIds
<1>2. Enqueue(NEXT_TASK_ID)
  BY Zenon DEF create_task
<1>3. TypeOK'
  <2>1. NewPcb("Ready") \in Pcb
    BY DEF NewPcb, Pcb, TaskState
  <2> QED
    BY <1>1, <1>2, <2>1, EnqueueCounts
       DEF create_task, Inv, TypeOK, Context
<1>4. IdsNeverCollide'
  <2>1. PICK i \in Slots : /\ RUNQUEUE[i] = None
                           /\ RUNQUEUE' = [RUNQUEUE EXCEPT ![i] = NEXT_TASK_ID]
    BY <1>1, <1>2, EnqueueCounts, Zenon
  <2>2. \A j \in Slots : RUNQUEUE[j] # NEXT_TASK_ID
    BY <1>1 DEF Inv, TypeOK, IdsNeverCollide, TaskIds
  <2> QED
    BY <1>1, <2>1, <2>2 DEF create_task, Inv, TypeOK, IdsNeverCollide, TaskIds
<1> QED
  BY <1>1, <1>2, <1>3, <1>4, EnqueueCounts, Zenon DEF Inv

\* Forgetting PCBs keeps the tables well typed.
LEMMA ForgetType ==
  ASSUME TypeOK, NEW S, Forget(S)
  PROVE  pcb' \in [TaskIds -> Pcb] /\ context' \in [TaskIds -> Context]
<1>1. NewPcb("Ready") \in Pcb
  BY DEF NewPcb, Pcb, TaskState
<1> QED
  BY <1>1, Zenon DEF Forget, TypeOK, Context

LEMMA RemoveCurrentTaskInv ==
  ASSUME Inv, remove_current_task
  PROVE  Inv'
<1>1. pcb' \in [TaskIds -> Pcb] /\ context' \in [TaskIds -> Context]
  BY ForgetType, Zenon DEF remove_current_task, Inv
<1>2. ASSUME NEW i \in Slots, FirstHolding(i, CURRENT_TASK),
             RUNQUEUE' = [RUNQUEUE EXCEPT ![i] = None],
             TASK_COUNT' = TASK_COUNT - 1
      PROVE  Inv'
  <2>1. RUNQUEUE[i] # None
    BY <1>2, Zenon DEF FirstHolding, remove_current_task
  <2>2. OccupiedSlots' = OccupiedSlots \ {i} /\ i \in OccupiedSlots
    BY <1>2, <2>1, Zenon DEF OccupiedSlots, Inv, TypeOK
  <2>3. Cardinality(OccupiedSlots') = Cardinality(OccupiedSlots) - 1
    BY <2>2, OccupiedSlotsFinite, FS_RemoveElement, Zenon
  <2>4. TASK_COUNT' \in Nat
    <3>1. IsFiniteSet(OccupiedSlots')
      BY <2>2, OccupiedSlotsFinite, FS_RemoveElement, Zenon
    <3> QED
      BY <1>2, <2>3, <3>1, FS_CardinalityType, Zenon DEF Inv, TaskCountExact
  <2>5. TypeOK'
    BY <1>1, <1>2, <2>4, Zenon DEF remove_current_task, Inv, TypeOK
  <2>6. IdsNeverCollide'
    BY <1>2 DEF remove_current_task, Inv, TypeOK, IdsNeverCollide
  <2>7. TaskCountExact'
    BY <1>2, <2>3, Zenon DEF Inv, TaskCountExact
  <2> QED
    BY <2>5, <2>6, <2>7, Zenon DEF Inv
<1>3. CASE UNCHANGED <<RUNQUEUE, TASK_COUNT>>
  <2>1. OccupiedSlots' = OccupiedSlots
    BY <1>3, Zenon DEF OccupiedSlots
  <2>2. TypeOK'
    BY <1>1, <1>3, Zenon DEF remove_current_task, Inv, TypeOK
  <2> QED
    BY <1>3, <2>1, <2>2, Zenon
       DEF remove_current_task, Inv, IdsNeverCollide, TaskCountExact
<1> QED
  BY <1>2, <1>3, Zenon DEF remove_current_task

LEMMA CleanupZombieTasksInv ==
  ASSUME Inv, cleanup_zombie_tasks
  PROVE  Inv'
<1>1. pcb' \in [TaskIds -> Pcb] /\ context' \in [TaskIds -> Context]
  BY ForgetType, Zenon DEF cleanup_zombie_tasks, Inv
<1>2. ZombieSlots \subseteq OccupiedSlots
  BY Zenon DEF ZombieSlots
<1>3. OccupiedSlots' = OccupiedSlots \ ZombieSlots
  BY <1>2, Zenon DEF cleanup_zombie_tasks, OccupiedSlots, Inv, TypeOK
<1>4. /\ IsFiniteSet(OccupiedSlots')
      /\ Cardinality(OccupiedSlots')
           = Cardinality(OccupiedSlots) - Cardinality(ZombieSlots)
  <2>1. OccupiedSlots \cap ZombieSlots = ZombieSlots
    BY <1>2, Zenon
  <2> QED
    BY <1>3, <2>1, OccupiedSlotsFinite, FS_Difference, ZenonT(40)
<1>5. TaskCountExact' /\ TASK_COUNT' \in Nat
  BY <1>4, FS_CardinalityType DEF cleanup_zombie_tasks, Inv, TaskCountExact
<1>6. TypeOK'
  BY <1>1, <1>5, Zenon DEF cleanup_zombie_tasks, Inv, TypeOK
<1>7. IdsNeverCollide'
  BY Zenon DEF cleanup_zombie_tasks, Inv, TypeOK, IdsNeverCollide
<1> QED
  BY <1>5, <1>6, <1>7, Zenon DEF Inv

LEMMA ResetSchedulerInv ==
  ASSUME Inv, reset_scheduler
  PROVE  Inv'
<1>1. pcb' \in [TaskIds -> Pcb] /\ context' \in [TaskIds -> Context]
  BY ForgetType, Zenon DEF reset_scheduler, Inv
<1>2. OccupiedSlots' = {}
  BY Zenon DEF reset_scheduler, OccupiedSlots
<1>3. TaskCountExact'
  BY <1>2, FS_EmptySet, Zenon DEF reset_scheduler, TaskCountExact
<1>4. TypeOK'
  <2>1. 1 \in 1..(MaxTaskId + 1)
    OBVIOUS
  <2> QED
    BY <1>1, <2>1, Zenon DEF reset_scheduler, Inv, TypeOK
<1> QED
  BY <1>3, <1>4, Zenon DEF reset_scheduler, Inv, IdsNeverCollide

\* The functions that only store a field of a PCB, or a flag.
LEMMA StoreInv ==
  ASSUME Inv, UNCHANGED <<queue, CURRENT_TASK>>,
         pcb' \in [TaskIds -> Pcb], SCHED_LOCK' \in BOOLEAN,
         UNCHANGED context,
         cpu' \in {"running", "halted", "panicked"}, RFLAGS_IF' \in BOOLEAN
  PROVE  Inv'
BY QuietStep, Zenon DEF StaysOrQueued, MachineOK, Inv, TypeOK

LEMMA SetTaskStateInv ==
  ASSUME Inv, NEW t \in TaskIds,
         \/ set_task_ready(t)
         \/ set_task_blocked(t)
         \/ mark_task_as_zombie(t)
  PROVE  Inv'
<1>1. \A s \in TaskState : WithState(pcb, t, s) \in [TaskIds -> Pcb]
  BY WithStateType, Zenon DEF Inv, TypeOK
<1>2. {"Ready", "Blocked", "Zombie"} \subseteq TaskState
  BY Zenon DEF TaskState
<1>3. pcb' \in [TaskIds -> Pcb]
  BY <1>1, <1>2 DEF set_task_ready, set_task_blocked, mark_task_as_zombie
<1> QED
  BY <1>3, StoreInv, Zenon DEF set_task_ready, set_task_blocked, mark_task_as_zombie,
                        machine, Inv, TypeOK

LEMMA CurrentTaskStoreInv ==
  ASSUME Inv,
         \/ \E s \in TaskState : set_current_task_state(s)
         \/ increment_current_task_time
         \/ \E p \in Priorities : update_current_task_priority(p)
  PROVE  Inv'
<1>1. CURRENT_TASK \in TaskIds /\ pcb \in [TaskIds -> Pcb]
  BY Zenon DEF set_current_task_state, increment_current_task_time,
         update_current_task_priority, Inv, TypeOK
<1>2. ASSUME NEW s \in TaskState, set_current_task_state(s)
      PROVE  pcb' \in [TaskIds -> Pcb]
  BY <1>1, <1>2, WithStateType, Zenon DEF set_current_task_state
<1>3. ASSUME increment_current_task_time
      PROVE  pcb' \in [TaskIds -> Pcb]
  <2>1. [pcb[CURRENT_TASK] EXCEPT !.execution_time = @ + 1] \in Pcb
    BY <1>1 DEF Pcb
  <2> QED
    BY <1>1, <1>3, <2>1, Zenon DEF increment_current_task_time
<1>4. ASSUME NEW p \in Priorities, update_current_task_priority(p)
      PROVE  pcb' \in [TaskIds -> Pcb]
  <2>1. [pcb[CURRENT_TASK] EXCEPT !.priority = p] \in Pcb
    BY <1>1 DEF Pcb
  <2> QED
    BY <1>1, <1>4, <2>1, Zenon DEF update_current_task_priority
<1>5. pcb' \in [TaskIds -> Pcb]
  BY <1>2, <1>3, <1>4, Zenon
<1> QED
  BY <1>5, StoreInv, Zenon DEF set_current_task_state, increment_current_task_time,
                        update_current_task_priority, machine, Inv, TypeOK

LEMMA TimeStoreInv ==
  ASSUME Inv,
         \/ wake_up_tasks
         \/ \E q \in Quanta : \/ set_global_time_slice(q)
                              \/ \E t \in TaskIds : set_task_quantum(t, q)
  PROVE  Inv'
<1>1. \A t \in TaskIds : [pcb[t] EXCEPT !.state = "Ready"] \in Pcb
  BY DEF Inv, TypeOK, Pcb, TaskState
<1>2. \A t \in TaskIds, q \in Nat : [pcb[t] EXCEPT !.time_slice = q] \in Pcb
  BY SMTT(40) DEF Inv, TypeOK, Pcb
<1>3. ASSUME wake_up_tasks PROVE pcb' \in [TaskIds -> Pcb]
  BY <1>1, <1>3, Zenon DEF wake_up_tasks, Inv, TypeOK
<1>4. ASSUME NEW q \in Quanta, set_global_time_slice(q)
      PROVE  pcb' \in [TaskIds -> Pcb]
  BY <1>2, <1>4, Zenon DEF set_global_time_slice, Inv, TypeOK
<1>5. ASSUME NEW q \in Quanta, NEW t \in TaskIds, set_task_quantum(t, q)
      PROVE  pcb' \in [TaskIds -> Pcb]
  BY <1>2, <1>5, Zenon DEF set_task_quantum, Inv, TypeOK
<1>6. pcb' \in [TaskIds -> Pcb]
  BY <1>3, <1>4, <1>5, Zenon
<1> QED
  BY <1>6, StoreInv, Zenon DEF wake_up_tasks, set_global_time_slice, set_task_quantum,
                        machine, Inv, TypeOK

\* The PCB tables sleep_current_task and tick hand to schedule().
LEMMA SleepingType ==
  ASSUME TypeOK, CURRENT_TASK # None, NEW d \in Durations
  PROVE  [pcb EXCEPT ![CURRENT_TASK].wake_time = now + d,
                     ![CURRENT_TASK].state = "Sleeping"] \in [TaskIds -> Pcb]
<1>1. CURRENT_TASK \in TaskIds /\ pcb \in [TaskIds -> Pcb]
  BY Zenon DEF TypeOK
<1>2. now + d \in Nat
  BY <1>1 DEF now, Pcb
<1>3. \A r \in Pcb, w \in Nat :
        [r EXCEPT !.wake_time = w, !.state = "Sleeping"] \in Pcb
  BY ZenonT(40) DEF Pcb, TaskState
<1>4. [pcb EXCEPT ![CURRENT_TASK].wake_time = now + d,
                  ![CURRENT_TASK].state = "Sleeping"]
        = [pcb EXCEPT ![CURRENT_TASK] =
             [pcb[CURRENT_TASK] EXCEPT !.wake_time = now + d,
                                       !.state = "Sleeping"]]
  BY <1>1, Zenon DEF Pcb
<1> QED
  BY <1>1, <1>2, <1>3, <1>4, Zenon

LEMMA ChargedType ==
  ASSUME TypeOK, CURRENT_TASK # None, NEW n \in Nat
  PROVE  [pcb EXCEPT ![CURRENT_TASK].tick_count = n] \in [TaskIds -> Pcb]
<1>1. CURRENT_TASK \in TaskIds /\ pcb \in [TaskIds -> Pcb]
  BY Zenon DEF TypeOK
<1>2. [pcb[CURRENT_TASK] EXCEPT !.tick_count = n] \in Pcb
  BY <1>1 DEF Pcb
<1> QED
  BY <1>1, <1>2, Zenon

\* The functions that call schedule().
LEMMA SchedulingInv ==
  ASSUME Inv,
         \/ yield_cpu
         \/ force_schedule
         \/ force_context_switch
         \/ reschedule_if_needed
         \/ idle_loop
         \/ \E d \in Durations : sleep_current_task(d)
  PROVE  Inv'
<1> USE DEF Inv
<1>1. pcb \in [TaskIds -> Pcb] /\ SCHED_LOCK \in BOOLEAN
  BY Zenon DEF TypeOK
<1>2. ASSUME NEW p \in [TaskIds -> Pcb], NEW lock \in BOOLEAN,
             schedule(p, lock, "schedule"), UNCHANGED queue
      PROVE  Inv'
  BY <1>2, ScheduleType, QuietStep, Zenon
<1>3. CASE yield_cpu
  BY <1>1, <1>2, <1>3, Zenon DEF yield_cpu
<1>4. CASE force_schedule
  BY <1>1, <1>2, <1>4, Zenon DEF force_schedule
<1>5. CASE force_context_switch
  <2> DEFINE p == IF CURRENT_TASK = None THEN pcb ELSE Demoted(pcb)
  <2>1. p \in [TaskIds -> Pcb]
    BY <1>1, DemotedType, Zenon DEF TypeOK
  <2>2. schedule(p, SCHED_LOCK, "schedule") /\ UNCHANGED queue
    BY <1>5, Zenon DEF force_context_switch
  <2> HIDE DEF p
  <2> QED
    BY <1>1, <1>2, <2>1, <2>2
<1>6. CASE reschedule_if_needed
  BY <1>1, <1>2, <1>6, Zenon DEF reschedule_if_needed
<1>7. CASE idle_loop
  <2>1. CASE schedule(pcb, SCHED_LOCK, "schedule")
    BY <1>1, <1>2, <1>7, <2>1, Zenon DEF idle_loop
  <2>2. CASE /\ cpu' = "halted"
             /\ UNCHANGED <<CURRENT_TASK, SCHED_LOCK, pcb, context, RFLAGS_IF>>
    BY <1>7, <2>2, StoreInv, Zenon DEF idle_loop, TypeOK
  <2> QED
    BY <1>7, <2>1, <2>2, Zenon DEF idle_loop
<1>8. ASSUME NEW d \in Durations, sleep_current_task(d) PROVE Inv'
  <2> DEFINE p == [pcb EXCEPT ![CURRENT_TASK].wake_time = now + d,
                              ![CURRENT_TASK].state = "Sleeping"]
  <2>4. p \in [TaskIds -> Pcb]
    BY <1>8, SleepingType, Zenon DEF sleep_current_task
  <2>5. schedule(p, SCHED_LOCK, "schedule") /\ UNCHANGED queue
    BY <1>8, Zenon DEF sleep_current_task
  <2> HIDE DEF p
  <2> QED
    BY <1>1, <1>2, <2>4, <2>5, Zenon
<1> QED
  BY <1>3, <1>4, <1>5, <1>6, <1>7, <1>8, Zenon

LEMMA TimerInv ==
  ASSUME Inv, handle_timer_interrupt
  PROVE  Inv'
<1> USE DEF Inv
<1> DEFINE Charged(n) == [pcb EXCEPT ![CURRENT_TASK].tick_count = n]
           count == pcb[CURRENT_TASK].tick_count + 1
<1>1. pcb \in [TaskIds -> Pcb] /\ SCHED_LOCK \in BOOLEAN
  BY Zenon DEF TypeOK
<1>2. ASSUME NEW p \in [TaskIds -> Pcb], schedule(p, SCHED_LOCK, "irq")
      PROVE  Inv'
  BY <1>1, <1>2, ScheduleType, QuietStep DEF handle_timer_interrupt
<1>3. CASE CURRENT_TASK = None
  BY <1>1, <1>2, <1>3, Zenon DEF handle_timer_interrupt
<1>4. CASE CURRENT_TASK # None
  <2>1. CURRENT_TASK \in TaskIds
    BY <1>4, Zenon DEF TypeOK
  <2>2. count \in Nat
    BY <1>1, <2>1 DEF Pcb
  <2>3. \A n \in Nat : Charged(n) \in [TaskIds -> Pcb]
    BY <1>4, ChargedType, Zenon
  <2>4. CASE Returns(Charged(count), SCHED_LOCK)
    <3>1. pcb' \in [TaskIds -> Pcb]
      BY <2>2, <2>3, <2>4, Zenon DEF Returns
    <3> QED
      BY <2>4, <3>1, StoreInv, Zenon DEF Returns, handle_timer_interrupt, TypeOK
  <2>5. CASE schedule(Charged(0), SCHED_LOCK, "irq")
    <3>1. PICK p \in [TaskIds -> Pcb] : p = Charged(0)
      BY <2>3, Zenon
    <3>2. schedule(p, SCHED_LOCK, "irq")
      BY <2>5, <3>1, Zenon
    <3> QED
      BY <1>2, <3>2, Zenon
  <2> QED
    BY <1>4, <2>4, <2>5, Zenon DEF handle_timer_interrupt
<1> QED
  BY <1>3, <1>4, Zenon

\* Among the Ready tasks below priority 255 there is a best one.
LEMMA EligibleHasWinner ==
  ASSUME TypeOK, Eligible # {}
  PROVE  \E i \in Eligible : \A j \in Eligible : Wins(i, j)
<1> DEFINE values == {Priority(i) : i \in Eligible}
<1>1. \A i \in Eligible : Priority(i) \in Nat /\ i \in Nat
  <2>1. \A i \in Eligible : RUNQUEUE[i] \in TaskIds /\ i \in Slots
    BY Zenon DEF TypeOK, Eligible, OccupiedSlots
  <2>2. \A i \in Eligible : pcb[RUNQUEUE[i]] \in Pcb
    BY <2>1, Zenon DEF TypeOK
  <2>3. \A r \in Pcb : r.priority \in Nat
    BY DEF Pcb
  <2>4. \A i \in Slots : i \in Nat
    BY DEF Slots
  <2> QED
    BY <2>1, <2>2, <2>3, <2>4, Zenon DEF Priority
<1>2. PICK v \in values : \A w \in values : v <= w
  <2>1. values \subseteq Nat /\ values # {}
    BY <1>1
  <2> HIDE DEF values
  <2> QED
    BY <2>1, LeastNatural, Zenon
<1> DEFINE firsts == {i \in Eligible : Priority(i) = v}
<1>3. PICK i \in firsts : \A j \in firsts : i <= j
  <2>1. firsts \subseteq Nat /\ firsts # {}
    BY <1>1, <1>2, Zenon
  <2> HIDE DEF firsts
  <2> QED
    BY <2>1, LeastNatural, Zenon
<1>4. \A j \in Eligible : v <= Priority(j)
  BY <1>2
<1> QED
  BY <1>1, <1>3, <1>4 DEF Wins

\* schedule_with_policy switches to a task of RUNQUEUE.
LEMMA PolicyInv ==
  ASSUME Inv, schedule_with_policy
  PROVE  Inv'
<1> DEFINE next_id == get_highest_priority_ready_task
<1>1. /\ next_id # 0
      /\ context_switch(next_id, WithState(pcb, next_id, "Running"),
                        SCHED_LOCK, "policy")
      /\ UNCHANGED queue
  BY Zenon DEF schedule_with_policy
<1>2. PICK i \in Slots : RUNQUEUE[i] # None /\ next_id = RUNQUEUE[i]
  <2>1. Eligible # {} /\ \A i \in Eligible : i \in Slots /\ RUNQUEUE[i] # None
    BY <1>1, Zenon DEF get_highest_priority_ready_task, Eligible, OccupiedSlots
  <2>2. \E i \in Eligible : \A j \in Eligible : Wins(i, j)
    BY <2>1, EligibleHasWinner, Zenon DEF Inv
  <2> QED
    BY <1>1, <2>1, <2>2, ZenonT(40) DEF get_highest_priority_ready_task
<1> DEFINE p == WithState(pcb, RUNQUEUE[i], "Running")
<1>3. p \in [TaskIds -> Pcb]
  BY <1>2, WithStateType, Zenon DEF Inv, TypeOK, TaskState
<1>4. context_switch(RUNQUEUE[i], p, SCHED_LOCK, "policy")
  BY <1>1, <1>2, Zenon
<1> HIDE DEF p, next_id
<1>5. StaysOrQueued /\ MachineOK
  BY <1>2, <1>3, <1>4, ContextSwitchType DEF Inv, TypeOK
<1> QED
  BY <1>1, <1>5, QuietStep, Zenon

LEMMA InitInv == Init => Inv
<1> SUFFICES ASSUME Init PROVE Inv
  BY Zenon
<1>1. \A s \in TaskState : NewPcb(s) \in Pcb
  BY DEF NewPcb, Pcb
<1>2. TypeOK
  <2>1. pcb \in [TaskIds -> Pcb]
    BY <1>1, Zenon DEF Init, TaskState
  <2>2. 1 \in 1..(MaxTaskId + 1)
    OBVIOUS
  <2> QED
    BY <2>1, <2>2, Zenon DEF Init, TypeOK, Context
<1>3. OccupiedSlots = {}
  BY Zenon DEF Init, OccupiedSlots
<1> QED
  BY <1>2, <1>3, FS_EmptySet DEF Init, Inv, IdsNeverCollide, TaskCountExact

LEMMA NextInv == Inv /\ [Next]_vars => Inv'
<1> SUFFICES ASSUME Inv, [Next]_vars PROVE Inv'
  BY Zenon
<1>1. CASE \/ enable_interrupts
           \/ preempt_disable
           \/ preempt_enable
  BY <1>1, StoreInv, ZenonT(60)
     DEF enable_interrupts, preempt_disable, preempt_enable, machine, Inv, TypeOK
<1>2. CASE UNCHANGED vars
  BY <1>2, StoreInv, Zenon DEF vars, queue, Inv, TypeOK
<1> QED
  BY <1>1, <1>2, InitSchedulerInv, CreateTaskInv, RemoveCurrentTaskInv,
     CleanupZombieTasksInv, ResetSchedulerInv, SetTaskStateInv,
     CurrentTaskStoreInv, TimeStoreInv, SchedulingInv, TimerInv, PolicyInv, Zenon
    DEF Next, RoundRobinNext

\* Every function of scheduler.rs, in any order and with any interleaving of
\* timer interrupts, keeps the queue, the counters and the PCBs well formed,
\* whatever the number of slots and of tasks.
THEOREM TypeCorrect == Spec => []TypeOK
<1>1. Spec => []Inv
  BY InitInv, NextInv, PTL DEF Spec
<1>2. Inv => TypeOK
  BY Zenon DEF Inv
<1> QED
  BY <1>1, <1>2, PTL

\* No PCB is ever in two slots of RUNQUEUE, and create_task never hands out an
\* id that a queued task or the current one still has.
THEOREM IdsDistinct == Spec => []IdsNeverCollide
<1>1. Spec => []Inv
  BY InitInv, NextInv, PTL DEF Spec
<1>2. Inv => IdsNeverCollide
  BY Zenon DEF Inv
<1> QED
  BY <1>1, <1>2, PTL

\* TASK_COUNT, the only thing add_task, create_task and idle_loop look at to
\* know whether there is room or work, is always the number of occupied slots.
THEOREM CountIsExact == Spec => []TaskCountExact
<1>1. Spec => []Inv
  BY InitInv, NextInv, PTL DEF Spec
<1>2. Inv => TaskCountExact
  BY Zenon DEF Inv
<1> QED
  BY <1>1, <1>2, PTL

-----------------------------------------------------------------------------
(***************************************************************************)
(* Who gets the CPU.  A call of schedule() keeps the current task, or      *)
(* leaves it in a state other than Running and continues one that was      *)
(* Ready; no other task changes its state.                                 *)
(***************************************************************************)
OthersKeepState(p, S) == \A t \in TaskIds \ S : p[t].state = pcb[t].state

Stays == CURRENT_TASK' = CURRENT_TASK /\ OthersKeepState(pcb', {CURRENT_TASK})

Switches ==
  /\ CURRENT_TASK \in TaskIds /\ CURRENT_TASK' \in TaskIds
  /\ CURRENT_TASK' # CURRENT_TASK
  /\ pcb[CURRENT_TASK'].state = "Ready"
  /\ pcb'[CURRENT_TASK].state # "Running"
  /\ OthersKeepState(pcb', {CURRENT_TASK, CURRENT_TASK'})

LEMMA WithStateEffect ==
  ASSUME NEW p \in [TaskIds -> Pcb], NEW t \in TaskIds, NEW s
  PROVE  /\ WithState(p, t, s)[t].state = s
         /\ \A u \in TaskIds \ {t} : WithState(p, t, s)[u].state = p[u].state
BY DEF WithState, Pcb

LEMMA DemotedEffect ==
  ASSUME NEW p \in [TaskIds -> Pcb], CURRENT_TASK \in TaskIds
  PROVE  /\ Demoted(p)[CURRENT_TASK].state # "Running"
         /\ \A t \in TaskIds \ {CURRENT_TASK} :
              Demoted(p)[t].state = p[t].state
BY WithStateEffect DEF Demoted

LEMMA ScheduleEffect ==
  ASSUME TypeOK, NEW p \in [TaskIds -> Pcb], NEW lock \in BOOLEAN, NEW from,
         OthersKeepState(p, {CURRENT_TASK}), schedule(p, lock, from)
  PROVE  Stays \/ Switches
<1>1. CASE lock
  BY <1>1, Zenon DEF schedule, Returns, Stays, OthersKeepState
<1>2. CASE ~lock /\ CURRENT_TASK = None
  BY <1>2, Zenon DEF schedule, SchedulePanics, Stays, OthersKeepState
<1>3. CASE ~lock /\ CURRENT_TASK # None
  <2> DEFINE q == Demoted(p)
             idx == find_next_task(q)
  <2>1. CURRENT_TASK \in TaskIds
    BY <1>3, Zenon DEF TypeOK
  <2>2. q \in [TaskIds -> Pcb]
    BY <2>1, DemotedType, Zenon
  <2>3. q[CURRENT_TASK].state # "Running" /\ OthersKeepState(q, {CURRENT_TASK})
    BY <2>1, DemotedEffect, Zenon DEF OthersKeepState
  <2> HIDE DEF q, idx
  <2>4. CASE idx = -1
    BY <1>3, <2>3, <2>4, Zenon DEF schedule, ScheduleHalts, q, idx, Stays
  <2>5. CASE idx # -1 /\ RUNQUEUE[idx] = CURRENT_TASK
    BY <1>3, <2>3, <2>5, Zenon DEF schedule, Returns, q, idx, Stays
  <2>6. CASE idx # -1 /\ RUNQUEUE[idx] # CURRENT_TASK
    <3>1. PICK i \in Slots : /\ i = idx /\ RUNQUEUE[i] # None
                             /\ q[RUNQUEUE[i]].state = "Ready"
      BY <1>3, <2>6, FindNextTaskAnswers, Zenon DEF Pickable, idx
    <3>2. PICK next \in TaskIds : next = RUNQUEUE[i]
      BY <3>1, Zenon DEF TypeOK
    <3>3. next # CURRENT_TASK /\ pcb[next].state = "Ready"
      BY <2>3, <2>6, <3>1, <3>2, Zenon DEF OthersKeepState
    <3>4. pcb' = WithState(q, next, "Running") /\ CURRENT_TASK' = next
      BY <1>3, <2>6, <3>1, <3>2, Zenon DEF schedule, context_switch, q, idx
    <3>5. \A t \in TaskIds \ {next} : pcb'[t].state = q[t].state
      BY <2>2, <3>4, WithStateEffect
    <3> QED
      BY <2>1, <2>3, <3>2, <3>3, <3>4, <3>5, SMTT(40) DEF Switches, OthersKeepState
  <2> QED
    BY <2>4, <2>5, <2>6, Zenon
<1> QED
  BY <1>1, <1>2, <1>3, Zenon

\* Every function that calls schedule() hands it a PCB table in which it has
\* changed the current task at most.
LEMMA CallersEffect ==
  ASSUME Inv,
         \/ yield_cpu
         \/ force_schedule
         \/ force_context_switch
         \/ reschedule_if_needed
         \/ idle_loop
         \/ \E d \in Durations : sleep_current_task(d)
         \/ handle_timer_interrupt
  PROVE  (Stays \/ Switches) /\ UNCHANGED RUNQUEUE
<1>0. pcb \in [TaskIds -> Pcb] /\ SCHED_LOCK \in BOOLEAN /\ TypeOK
  BY Zenon DEF TypeOK, Inv
<1>1. OthersKeepState(pcb, {CURRENT_TASK})
  BY Zenon DEF OthersKeepState
<1>2. UNCHANGED RUNQUEUE
  BY Zenon DEF queue, yield_cpu, force_schedule, force_context_switch,
         reschedule_if_needed, idle_loop, sleep_current_task,
         handle_timer_interrupt
<1>3. CASE yield_cpu \/ force_schedule \/ reschedule_if_needed
  BY <1>0, <1>1, <1>2, <1>3, ScheduleEffect, ZenonT(60)
     DEF yield_cpu, force_schedule, reschedule_if_needed
<1>4. CASE force_context_switch
  <2> DEFINE p == IF CURRENT_TASK = None THEN pcb ELSE Demoted(pcb)
  <2>1. p \in [TaskIds -> Pcb] /\ OthersKeepState(p, {CURRENT_TASK})
    BY <1>0, <1>1, DemotedType, DemotedEffect, Zenon DEF TypeOK, OthersKeepState
  <2>2. schedule(p, SCHED_LOCK, "schedule")
    BY <1>4, Zenon DEF force_context_switch
  <2> HIDE DEF p
  <2> QED
    BY <1>0, <1>2, <2>1, <2>2, ScheduleEffect, Zenon
<1>5. CASE idle_loop
  <2>1. CASE schedule(pcb, SCHED_LOCK, "schedule")
    BY <1>0, <1>1, <1>2, <2>1, ScheduleEffect, Zenon
  <2>2. CASE UNCHANGED <<CURRENT_TASK, pcb>>
    BY <1>1, <1>2, <2>2, Zenon DEF Stays
  <2> QED
    BY <1>5, <2>1, <2>2, Zenon DEF idle_loop
<1>6. ASSUME NEW d \in Durations, sleep_current_task(d)
      PROVE  Stays \/ Switches
  <2> DEFINE p == [pcb EXCEPT ![CURRENT_TASK].wake_time = now + d,
                              ![CURRENT_TASK].state = "Sleeping"]
  <2>1. p \in [TaskIds -> Pcb]
    BY <1>0, <1>6, SleepingType, Zenon DEF sleep_current_task
  <2>2. OthersKeepState(p, {CURRENT_TASK})
    BY <1>0, Zenon DEF OthersKeepState
  <2>3. schedule(p, SCHED_LOCK, "schedule")
    BY <1>6, Zenon DEF sleep_current_task
  <2> HIDE DEF p
  <2> QED
    BY <1>0, <2>1, <2>2, <2>3, ScheduleEffect, Zenon
<1>7. CASE handle_timer_interrupt
  <2> DEFINE Charged(n) == [pcb EXCEPT ![CURRENT_TASK].tick_count = n]
             count == pcb[CURRENT_TASK].tick_count + 1
  <2>1. CASE CURRENT_TASK = None
    BY <1>0, <1>1, <1>2, <1>7, <2>1, ScheduleEffect, SMTT(40) DEF handle_timer_interrupt
  <2>2. CASE CURRENT_TASK # None
    <3>1. \A n \in Nat : Charged(n) \in [TaskIds -> Pcb]
      BY <1>0, <2>2, ChargedType, Zenon
    <3>2. \A n : OthersKeepState(Charged(n), {CURRENT_TASK})
      BY <1>0, Zenon DEF OthersKeepState
    <3>3. CASE Returns(Charged(count), SCHED_LOCK)
      BY <1>2, <3>2, <3>3, Zenon DEF Returns, Stays
    <3>4. CASE schedule(Charged(0), SCHED_LOCK, "irq")
      <4>1. PICK p \in [TaskIds -> Pcb] : p = Charged(0)
        BY <3>1, Zenon
      <4>2. schedule(p, SCHED_LOCK, "irq") /\ OthersKeepState(p, {CURRENT_TASK})
        BY <3>2, <3>4, <4>1, Zenon
      <4> QED
        BY <1>0, <1>2, <4>2, ScheduleEffect
    <3> QED
      BY <1>7, <2>2, <3>3, <3>4, Zenon DEF handle_timer_interrupt
  <2> QED
    BY <2>1, <2>2, Zenon
<1> QED
  BY <1>2, <1>3, <1>4, <1>5, <1>6, <1>7, Zenon

\* What a step of RoundRobinNext that does not call schedule() does to the
\* current task: it keeps it, or there is none before or after.
LEMMA OtherStepsKeepCurrent ==
  ASSUME [RoundRobinNext]_vars
  PROVE  \/ yield_cpu
         \/ force_schedule
         \/ force_context_switch
         \/ reschedule_if_needed
         \/ idle_loop
         \/ \E d \in Durations : sleep_current_task(d)
         \/ handle_timer_interrupt
         \/ CURRENT_TASK' = CURRENT_TASK
         \/ CURRENT_TASK = None
         \/ CURRENT_TASK' = None
BY Zenon DEF RoundRobinNext, vars, init_scheduler, enable_interrupts, create_task,
       remove_current_task, cleanup_zombie_tasks, reset_scheduler,
       set_task_ready, set_task_blocked, mark_task_as_zombie,
       set_current_task_state, preempt_disable, preempt_enable, wake_up_tasks,
       increment_current_task_time, set_global_time_slice, set_task_quantum,
       update_current_task_priority

\* A switch of schedule_with_policy goes to a Ready task too.
LEMMA PolicyTargetReady ==
  ASSUME Inv, schedule_with_policy
  PROVE  pcb[CURRENT_TASK'].state = "Ready"
<1>1. Eligible # {} /\ CURRENT_TASK' = get_highest_priority_ready_task
  BY Zenon DEF schedule_with_policy, context_switch, get_highest_priority_ready_task
<1>2. PICK i \in Eligible : get_highest_priority_ready_task = RUNQUEUE[i]
  BY <1>1, EligibleHasWinner, Zenon DEF get_highest_priority_ready_task, Inv
<1> QED
  BY <1>1, <1>2, Zenon DEF Eligible

\* The CPU passes from one task to another only if the other one was Ready:
\* neither schedule() nor schedule_with_policy() ever resumes a task that is
\* blocked, asleep or has exited.
THEOREM SwitchesGoToReadyTasks == Spec => SwitchTargetWasReady
<1> DEFINE Good == (/\ CURRENT_TASK # None /\ CURRENT_TASK' # None
                    /\ CURRENT_TASK' # CURRENT_TASK)
                      => pcb[CURRENT_TASK'].state = "Ready"
<1>1. Inv /\ [Next]_vars => [Good]_vars
  <2> SUFFICES ASSUME Inv, [Next]_vars PROVE Good
    BY Zenon
  <2>1. CASE schedule_with_policy
    BY <2>1, PolicyTargetReady, Zenon
  <2>2. CASE [RoundRobinNext]_vars
    BY <2>2, OtherStepsKeepCurrent, CallersEffect, Zenon DEF Stays, Switches
  <2> QED
    BY <2>1, <2>2, Zenon DEF Next
<1>2. Spec => []Inv
  BY InitInv, NextInv, PTL DEF Spec
<1> QED
  BY <1>1, <1>2, PTL DEF Spec, SwitchTargetWasReady

-----------------------------------------------------------------------------
(***************************************************************************)
(* RunningIsCurrent.  It is inductive together with Inv: a task that is    *)
(* removed leaves no second slot behind in which it would still be Running *)
(* (IdsNeverCollide), and a new task does not take the id of an old one.   *)
(***************************************************************************)
\* A step that makes no task Running but the current one, and adds no task to
\* the queue, keeps RunningIsCurrent.
LEMMA NoNewRunning ==
  ASSUME RunningIsCurrent, CURRENT_TASK' = CURRENT_TASK,
         \A t \in QueuedTasks' : t \in QueuedTasks,
         \A t \in QueuedTasks' : pcb'[t].state = "Running" =>
           pcb[t].state = "Running" \/ t = CURRENT_TASK
  PROVE  RunningIsCurrent'
BY Zenon DEF RunningIsCurrent

LEMMA SchedulingKeepsRunning ==
  ASSUME RunningIsCurrent, Stays \/ Switches, UNCHANGED RUNQUEUE
  PROVE  RunningIsCurrent'
<1>1. QueuedTasks' = QueuedTasks /\ QueuedTasks \subseteq TaskIds
  BY Zenon DEF QueuedTasks, Queued
<1>2. CASE Stays
  BY <1>1, <1>2, Zenon DEF RunningIsCurrent, Stays, OthersKeepState
<1>3. CASE Switches
  BY <1>1, <1>3, Zenon DEF RunningIsCurrent, Switches, OthersKeepState
<1> QED
  BY <1>2, <1>3, Zenon

LEMMA QueueChangesKeepRunning ==
  ASSUME Inv, RunningIsCurrent,
         \/ init_scheduler
         \/ create_task
         \/ remove_current_task
         \/ cleanup_zombie_tasks
         \/ reset_scheduler
  PROVE  RunningIsCurrent'
<1>1. /\ pcb \in [TaskIds -> Pcb]
      /\ RUNQUEUE \in [Slots -> TaskIds \cup {None}]
      /\ IdleId \in TaskIds
      /\ None \notin TaskIds
  BY DEF Inv, TypeOK, IdleId, TaskIds
<1>2. ASSUME NEW S, Forget(S)
      PROVE  \A t \in TaskIds : pcb'[t].state = "Running" =>
               pcb[t].state = "Running"
  BY <1>2, Zenon DEF Forget, NewPcb
<1>3. CASE init_scheduler
  <2>1. \A t \in QueuedTasks' : t = IdleId \/ t \in QueuedTasks
    BY <1>1, <1>3, Zenon DEF init_scheduler, add_task, Enqueue, QueuedTasks, Queued
  <2>2. \A t \in TaskIds \ {IdleId} : pcb'[t].state = pcb[t].state
    BY <1>1, <1>3, WithStateEffect DEF init_scheduler
  <2> QED
    BY <1>1, <1>3, <2>1, <2>2, Zenon
      DEF init_scheduler, RunningIsCurrent, QueuedTasks
<1>4. CASE create_task
  <2>1. NEXT_TASK_ID \in TaskIds
    BY <1>4 DEF create_task, Inv, TypeOK, TaskIds
  <2>2. \A t \in QueuedTasks' : t = NEXT_TASK_ID \/ t \in QueuedTasks
    BY <1>1, <1>4, Zenon DEF create_task, Enqueue, QueuedTasks, Queued
  <2>3. /\ pcb'[NEXT_TASK_ID].state = "Ready"
        /\ \A t \in TaskIds \ {NEXT_TASK_ID} : pcb'[t] = pcb[t]
    BY <1>1, <1>4, <2>1, Zenon DEF create_task, NewPcb
  <2>4. \A t \in QueuedTasks' : t \in TaskIds
    BY Zenon DEF QueuedTasks
  <2> QED
    BY <1>4, <2>2, <2>3, <2>4, Zenon DEF create_task, RunningIsCurrent
<1>5. CASE remove_current_task
  <2>1. \A t \in QueuedTasks' : t \in QueuedTasks /\ t # CURRENT_TASK
    <3>1. CASE UNCHANGED RUNQUEUE /\ ~Queued(CURRENT_TASK)
      BY <3>1, Zenon DEF QueuedTasks, Queued
    <3>2. ASSUME NEW i \in Slots, FirstHolding(i, CURRENT_TASK),
                 RUNQUEUE' = [RUNQUEUE EXCEPT ![i] = None]
          PROVE  \A t \in QueuedTasks' : t \in QueuedTasks /\ t # CURRENT_TASK
      <4>1. \A j \in Slots \ {i} : RUNQUEUE[j] # CURRENT_TASK
        BY <1>5, <3>2, Zenon
          DEF remove_current_task, FirstHolding, Inv, IdsNeverCollide
      <4> QED
        BY <1>1, <1>5, <3>2, <4>1, Zenon DEF remove_current_task, QueuedTasks, Queued
    <3> QED
      BY <1>5, <3>1, <3>2, Zenon DEF remove_current_task
  <2>2. \A t \in TaskIds : pcb'[t].state = "Running" => pcb[t].state = "Running"
    BY <1>2, <1>5, Zenon DEF remove_current_task
  <2>3. \A t \in QueuedTasks' : t \in TaskIds
    BY Zenon DEF QueuedTasks
  <2> QED
    BY <2>1, <2>2, <2>3, Zenon DEF RunningIsCurrent
<1>6. CASE cleanup_zombie_tasks
  <2>1. \A t \in QueuedTasks' : t \in QueuedTasks /\ t \in TaskIds
    BY <1>1, <1>6, Zenon DEF cleanup_zombie_tasks, QueuedTasks, Queued
  <2>2. \A t \in TaskIds : pcb'[t].state = "Running" => pcb[t].state = "Running"
    BY <1>2, <1>6, Zenon DEF cleanup_zombie_tasks
  <2> QED
    BY <1>6, <2>1, <2>2, NoNewRunning, Zenon DEF cleanup_zombie_tasks
<1>7. CASE reset_scheduler
  <2>1. QueuedTasks' = {}
    BY <1>1, <1>7, SMTT(40) DEF reset_scheduler, QueuedTasks, Queued
  <2> QED
    BY <2>1, Zenon DEF RunningIsCurrent
<1> QED
  BY <1>3, <1>4, <1>5, <1>6, <1>7, Zenon

LEMMA StoresKeepRunning ==
  ASSUME Inv, RunningIsCurrent,
         \/ enable_interrupts
         \/ \E t \in TaskIds : \/ set_task_ready(t)
                               \/ set_task_blocked(t)
                               \/ mark_task_as_zombie(t)
         \/ \E s \in TaskState : set_current_task_state(s)
         \/ preempt_disable
         \/ preempt_enable
         \/ wake_up_tasks
         \/ increment_current_task_time
         \/ \E q \in Quanta : \/ set_global_time_slice(q)
                              \/ \E t \in TaskIds : set_task_quantum(t, q)
         \/ \E p \in Priorities : update_current_task_priority(p)
         \/ UNCHANGED vars
  PROVE  RunningIsCurrent'
<1> DEFINE Safe == \A t \in TaskIds : pcb'[t].state = "Running" =>
                     pcb[t].state = "Running" \/ t = CURRENT_TASK
<1>1. pcb \in [TaskIds -> Pcb] /\ CURRENT_TASK \in TaskIds \cup {None}
  BY Zenon DEF Inv, TypeOK
<1>2. UNCHANGED <<RUNQUEUE, CURRENT_TASK>>
  BY Zenon DEF vars, queue, enable_interrupts, set_task_ready, set_task_blocked,
         mark_task_as_zombie, set_current_task_state, preempt_disable,
         preempt_enable, wake_up_tasks, increment_current_task_time,
         set_global_time_slice, set_task_quantum, update_current_task_priority
<1>3. ASSUME NEW t \in TaskIds,
             set_task_ready(t) \/ set_task_blocked(t) \/ mark_task_as_zombie(t)
      PROVE  Safe
  <2>1. PICK s \in {"Ready", "Blocked", "Zombie"} : pcb' = WithState(pcb, t, s)
    BY <1>3, Zenon DEF set_task_ready, set_task_blocked, mark_task_as_zombie
  <2>2. pcb'[t].state # "Running"
    BY <1>1, <2>1, WithStateEffect, SMTT(40)
  <2>3. \A u \in TaskIds \ {t} : pcb'[u].state = pcb[u].state
    BY <1>1, <2>1, WithStateEffect, SMTT(40)
  <2> QED
    BY <2>2, <2>3, Zenon
<1>4. ASSUME NEW s \in TaskState, set_current_task_state(s) PROVE Safe
  <2>1. CURRENT_TASK \in TaskIds /\ pcb' = WithState(pcb, CURRENT_TASK, s)
    BY <1>1, <1>4, Zenon DEF set_current_task_state
  <2>2. \A u \in TaskIds \ {CURRENT_TASK} : pcb'[u].state = pcb[u].state
    BY <1>1, <2>1, WithStateEffect
  <2> QED
    BY <2>2, Zenon
<1>5. ASSUME wake_up_tasks PROVE Safe
  BY <1>1, <1>5 DEF wake_up_tasks, Pcb
<1>6. ASSUME increment_current_task_time PROVE Safe
  BY <1>1, <1>6, Zenon DEF increment_current_task_time, Pcb
<1>7. ASSUME NEW q \in Quanta,
             \/ set_global_time_slice(q)
             \/ \E t \in TaskIds : set_task_quantum(t, q)
      PROVE  Safe
  BY <1>1, <1>7 DEF set_global_time_slice, set_task_quantum, Pcb
<1>8. ASSUME NEW p \in Priorities, update_current_task_priority(p) PROVE Safe
  BY <1>1, <1>8, Zenon DEF update_current_task_priority, Pcb
<1>9. ASSUME \/ enable_interrupts
             \/ preempt_disable
             \/ preempt_enable
             \/ UNCHANGED vars
      PROVE  Safe
  BY <1>9, ZenonT(60)
     DEF enable_interrupts, preempt_disable, preempt_enable, vars
<1>10. Safe
  BY <1>3, <1>4, <1>5, <1>6, <1>7, <1>8, <1>9, ZenonT(60)
<1>11. QueuedTasks' = QueuedTasks /\ QueuedTasks \subseteq TaskIds
  BY <1>2, Zenon DEF QueuedTasks, Queued
<1> QED
  BY <1>2, <1>10, <1>11, NoNewRunning, Zenon

LEMMA RoundRobinKeepsRunning ==
  Inv /\ RunningIsCurrent /\ [RoundRobinNext]_vars => RunningIsCurrent'
<1> SUFFICES ASSUME Inv, RunningIsCurrent, [RoundRobinNext]_vars
             PROVE  RunningIsCurrent'
  BY Zenon
<1>1. CASE \/ yield_cpu
           \/ force_schedule
           \/ force_context_switch
           \/ reschedule_if_needed
           \/ idle_loop
           \/ \E d \in Durations : sleep_current_task(d)
           \/ handle_timer_interrupt
  BY <1>1, CallersEffect, SchedulingKeepsRunning, Zenon
<1> QED
  BY <1>1, QueueChangesKeepRunning, StoresKeepRunning, Zenon DEF RoundRobinNext

\* As long as tasks are switched by schedule() alone (the round robin that is
\* in use by default), no two tasks are Running: the one that is, is the one
\* CURRENT_TASK names.  schedule_with_policy is left out on purpose: it leaves
\* the task it switches away from in state Running.
THEOREM OnlyCurrentRuns == RoundRobinSpec => []RunningIsCurrent
<1> DEFINE IInv == Inv /\ RunningIsCurrent
<1>1. Init => IInv
  <2>1. Init => RunningIsCurrent
    <3>1. None \notin TaskIds
      BY DEF TaskIds
    <3> QED
      BY <3>1 DEF Init, RunningIsCurrent, QueuedTasks, Queued
  <2> QED
    BY <2>1, InitInv, Zenon
<1>2. IInv /\ [RoundRobinNext]_vars => IInv'
  <2>1. [RoundRobinNext]_vars => [Next]_vars
    BY Zenon DEF Next
  <2> QED
    BY <2>1, NextInv, RoundRobinKeepsRunning, Zenon
<1>3. IInv => RunningIsCurrent
  BY Zenon
<1> QED
  BY <1>1, <1>2, <1>3, PTL DEF RoundRobinSpec

\* A switch by schedule_with_policy goes to a task whose priority no other
\* Ready task beats.
THEOREM PolicyIsPriorityOrder == Spec => PolicyPicksBest
<1> DEFINE Best == schedule_with_policy =>
                     \A t \in QueuedTasks : pcb[t].state = "Ready" =>
                       pcb[CURRENT_TASK'].priority <= pcb[t].priority
<1>1. Inv => [Best]_vars
  <2> SUFFICES ASSUME Inv, schedule_with_policy,
                      NEW t \in QueuedTasks, pcb[t].state = "Ready"
               PROVE  pcb[CURRENT_TASK'].priority <= pcb[t].priority
    BY Zenon
  <2>1. Eligible # {} /\ CURRENT_TASK' = get_highest_priority_ready_task
    BY Zenon DEF schedule_with_policy, context_switch, get_highest_priority_ready_task
  <2>2. PICK i \in Eligible : /\ get_highest_priority_ready_task = RUNQUEUE[i]
                              /\ \A j \in Eligible : Wins(i, j)
    BY <2>1, EligibleHasWinner, Zenon DEF get_highest_priority_ready_task, Inv
  <2>3. PICK k \in Slots : RUNQUEUE[k] = t
    BY Zenon DEF QueuedTasks, Queued
  <2>4. \A u \in TaskIds : pcb[u].priority \in 0..255
    <3>1. \A u \in TaskIds : pcb[u] \in Pcb
      BY Zenon DEF Inv, TypeOK
    <3> QED
      BY <3>1, Zenon DEF Pcb
  <2>5. t \in TaskIds /\ RUNQUEUE[i] \in TaskIds
    BY Zenon DEF QueuedTasks, Eligible, OccupiedSlots, Inv, TypeOK
  <2>6. CURRENT_TASK' = RUNQUEUE[i]
    BY <2>1, <2>2, Zenon
  <2>7. PICK a \in 0..255 : a = pcb[CURRENT_TASK'].priority
    BY <2>4, <2>5, <2>6, ZenonT(60)
  <2>8. PICK b \in 0..255 : b = pcb[t].priority
    BY <2>4, <2>5, ZenonT(40)
  <2>9. CASE k \in Eligible
    <3>1. Wins(i, k)
      BY <2>2, <2>9, Zenon
    <3>2. a < b \/ a = b
      BY <2>3, <2>6, <2>7, <2>8, <3>1, Zenon DEF Wins, Priority
    <3>3. a <= b
      BY <3>2
    <3> QED
      BY <2>7, <2>8, <3>3, Zenon
  <2>10. CASE k \notin Eligible
    <3>1. t # None
      BY <2>5, SMTT(40) DEF TaskIds
    <3>2. ~(b < 255)
      BY <2>3, <2>8, <2>10, <3>1, Zenon DEF Eligible, OccupiedSlots, Priority
    <3>3. a <= b
      BY <3>2
    <3> QED
      BY <2>7, <2>8, <3>3, Zenon
  <2> QED
    BY <2>9, <2>10, Zenon
<1>2. Spec => []Inv
  BY InitInv, NextInv, PTL DEF Spec
<1> QED
  BY <1>1, <1>2, PTL DEF Spec, PolicyPicksBest

-----------------------------------------------------------------------------
(***************************************************************************)
(* HaltOnlyWhenNothingReady.  The CPU halts in two places.  schedule()     *)
(* halts after a scan that found nothing, and the scan visits every slot;  *)
(* the idle loop halts while the counter, which is exact, is at most one.  *)
(* Every other step starts from a running CPU or leaves one.               *)
(***************************************************************************)
\* Every slot is looked at in some round of find_next_task: the scan starts
\* after the slot numbered like the current task and wraps round once.
LEMMA ScanVisitsEverySlot ==
  ASSUME TypeOK, CURRENT_TASK # None, NEW s \in Slots
  PROVE  \E i \in Slots : ScanSlot(i) = s
<1> DEFINE r == CURRENT_TASK % MAX_TASKS
           i == IF s > r THEN s - r - 1 ELSE s - r - 1 + MAX_TASKS
<1>1. CURRENT_TASK \in Nat /\ MAX_TASKS \in Nat /\ MAX_TASKS > 0 /\ s \in Nat
      /\ s < MAX_TASKS
  BY DEF TypeOK, TaskIds, Slots
<1>2. r \in Nat /\ r < MAX_TASKS
  BY <1>1
<1>3. s % MAX_TASKS = s /\ (s + MAX_TASKS) % MAX_TASKS = s
  BY <1>1, SMT
<1>4. ScanSlot(i) = (r + 1 + i) % MAX_TASKS
  BY Zenon DEF ScanSlot
<1> HIDE DEF r
<1>5. i \in Slots /\ (r + 1 + i = s \/ r + 1 + i = s + MAX_TASKS)
  BY <1>1, <1>2 DEF Slots
<1> HIDE DEF i
<1> QED
  BY <1>3, <1>4, <1>5, Zenon

\* -1 means that no slot holds a Ready task.
LEMMA NothingFoundNothingReady ==
  ASSUME TypeOK, CURRENT_TASK # None, NEW p, find_next_task(p) = -1,
         NEW s \in Slots
  PROVE  ~Pickable(p, s)
<1> DEFINE hits == {i \in Slots : Pickable(p, ScanSlot(i))}
           first == CHOOSE i \in hits : \A j \in hits : i <= j
<1>1. ASSUME hits # {} PROVE FALSE
  <2>1. hits \subseteq Nat
    BY DEF Slots
  <2>2. first \in hits
    BY <1>1, <2>1, LeastNatural, Zenon
  <2>3. find_next_task(p) = ScanSlot(first)
    BY <1>1, Zenon DEF find_next_task
  <2>4. ScanSlot(first) \in Slots
    BY <2>2, ScanSlotInSlots, Zenon
  <2> QED
    BY <2>3, <2>4 DEF Slots
<1>2. PICK i \in Slots : ScanSlot(i) = s
  BY ScanVisitsEverySlot, Zenon
<1> QED
  BY <1>1, <1>2, Zenon

\* A call of schedule() that ends in hlt leaves no Ready task in the queue.
LEMMA ScheduleHaltEffect ==
  ASSUME TypeOK, NEW p, NEW lock, NEW from, schedule(p, lock, from),
         UNCHANGED queue, cpu' = "halted"
  PROVE  \A t \in QueuedTasks' : pcb'[t].state # "Ready"
<1>1. /\ CURRENT_TASK # None
      /\ find_next_task(Demoted(p)) = -1
      /\ pcb' = Demoted(p)
  BY Zenon DEF schedule, Returns, SchedulePanics, ScheduleHalts, context_switch
<1>2. \A s \in Slots : ~Pickable(pcb', s)
  BY <1>1, NothingFoundNothingReady, Zenon
<1>3. RUNQUEUE' = RUNQUEUE
  BY Zenon DEF queue
<1> SUFFICES ASSUME NEW t \in QueuedTasks' PROVE pcb'[t].state # "Ready"
  BY Zenon
<1>4. PICK s \in Slots : RUNQUEUE[s] = t
  BY <1>3, Zenon DEF QueuedTasks, Queued
<1>5. t # None
  BY DEF QueuedTasks, TaskIds
<1> QED
  BY <1>2, <1>4, <1>5, Zenon DEF Pickable

\* A counter of at most one means that two queued tasks are the same.
LEMMA OneTaskQueued ==
  ASSUME Inv, TASK_COUNT <= 1, NEW t \in QueuedTasks, NEW u \in QueuedTasks
  PROVE  t = u
<1>1. PICK i \in Slots : RUNQUEUE[i] = t
  BY Zenon DEF QueuedTasks, Queued
<1>2. PICK j \in Slots : RUNQUEUE[j] = u
  BY Zenon DEF QueuedTasks, Queued
<1>3. i \in OccupiedSlots /\ j \in OccupiedSlots
  BY <1>1, <1>2 DEF OccupiedSlots, QueuedTasks, TaskIds
<1>4. ASSUME i # j PROVE FALSE
  <2>1. IsFiniteSet({i}) /\ Cardinality({i}) = 1
    BY FS_Singleton, Zenon
  <2>2. IsFiniteSet({i} \cup {j}) /\ Cardinality({i} \cup {j}) = 2
    BY <1>4, <2>1, FS_AddElement
  <2>3. Cardinality({i} \cup {j}) <= Cardinality(OccupiedSlots)
    BY <1>3, OccupiedSlotsFinite, FS_Subset, Zenon
  <2> QED
    BY <2>2, <2>3, OccupiedSlotsFinite, FS_CardinalityType DEF Inv, TaskCountExact, TypeOK
<1> QED
  BY <1>1, <1>2, <1>4, Zenon

\* A step that does not call schedule() and is not a round of the idle loop
\* never leaves the CPU halted.
LEMMA OtherStepsNeverHalt ==
  ASSUME Next
  PROVE  \/ yield_cpu
         \/ force_schedule
         \/ force_context_switch
         \/ reschedule_if_needed
         \/ idle_loop
         \/ \E d \in Durations : sleep_current_task(d)
         \/ handle_timer_interrupt
         \/ cpu' # "halted"
BY Zenon DEF Next, RoundRobinNext, machine, ThreadRuns, init_scheduler, enable_interrupts,
       create_task, remove_current_task, cleanup_zombie_tasks, reset_scheduler,
       set_task_ready, set_task_blocked, mark_task_as_zombie,
       set_current_task_state, preempt_disable, preempt_enable, wake_up_tasks,
       increment_current_task_time, set_global_time_slice, set_task_quantum,
       update_current_task_priority, schedule_with_policy, context_switch

LEMMA HaltInv ==
  Inv /\ HaltOnlyWhenNothingReady /\ [Next]_vars => HaltOnlyWhenNothingReady'
<1> SUFFICES ASSUME Inv, HaltOnlyWhenNothingReady, [Next]_vars,
                    cpu' = "halted"
             PROVE  HaltOnlyWhenNothingReady'
  BY Zenon DEF HaltOnlyWhenNothingReady
<1>0. TypeOK
  BY Zenon DEF Inv
<1>1. CASE UNCHANGED vars
  BY <1>1, Zenon DEF HaltOnlyWhenNothingReady, vars, queue, machine, QueuedTasks, Queued
<1>2. ASSUME NEW p, NEW lock, NEW from, schedule(p, lock, from),
             UNCHANGED queue
      PROVE  HaltOnlyWhenNothingReady'
  BY <1>0, <1>2, ScheduleHaltEffect, Zenon DEF HaltOnlyWhenNothingReady
<1>3. CASE \/ yield_cpu \/ force_schedule \/ force_context_switch
           \/ reschedule_if_needed
           \/ \E d \in Durations : sleep_current_task(d)
  BY <1>2, <1>3, Zenon DEF yield_cpu, force_schedule, force_context_switch,
                    reschedule_if_needed, sleep_current_task
<1>4. CASE handle_timer_interrupt
  <2>1. ASSUME NEW p, NEW lock, Returns(p, lock) PROVE FALSE
    BY <2>1, Zenon DEF Returns
  <2> QED
    BY <1>2, <1>4, <2>1, Zenon DEF handle_timer_interrupt
<1>5. CASE idle_loop
  <2>1. CASE schedule(pcb, SCHED_LOCK, "schedule")
    BY <1>2, <1>5, <2>1, Zenon DEF idle_loop
  <2>2. CASE TASK_COUNT <= 1 /\ CURRENT_TASK' = CURRENT_TASK
    <3>1. QueuedTasks' = QueuedTasks
      BY <1>5, Zenon DEF idle_loop, queue, QueuedTasks, Queued
    <3> QED
      BY <2>2, <3>1, OneTaskQueued, Zenon DEF HaltOnlyWhenNothingReady
  <2> QED
    BY <1>5, <2>1, <2>2, Zenon DEF idle_loop
<1> QED
  BY <1>1, <1>3, <1>4, <1>5, OtherStepsNeverHalt, Zenon

\* The CPU never sleeps while a task could run: in a halted state that the
\* current task is part of, every Ready task in the queue is the current one.
THEOREM HaltsOnlyWithoutWork == Spec => []HaltOnlyWhenNothingReady
<1>1. Init => HaltOnlyWhenNothingReady
  BY Zenon DEF Init, HaltOnlyWhenNothingReady
<1>2. Spec => []Inv
  BY InitInv, NextInv, PTL DEF Spec
<1> QED
  BY <1>1, <1>2, HaltInv, PTL DEF Spec
=============================================================================
