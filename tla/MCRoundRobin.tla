---------------------------- MODULE MCRoundRobin ----------------------------
(***************************************************************************)
(* The turns that tasks take under schedule(): Scheduler with a history of *)
(* who got the CPU while another task was waiting for it, for TLC.         *)
(***************************************************************************)
EXTENDS Scheduler

VARIABLE served   \* history: task -> tasks that had the CPU while it waits

Waiting(t) == Queued(t) /\ pcb[t].state = "Ready" /\ CURRENT_TASK \notin {t, None}

\* Every task is in the slot that is numbered like its id, as long as tasks
\* only fill the queue for the first time; after an exit it may not be.
SlotsFollowIds == \A i \in OccupiedSlots : RUNQUEUE[i] % MAX_TASKS = i

\* t goes on waiting, in a queue whose slots follow the ids.
KeepsWaiting(t) ==
  Waiting(t) /\ Waiting(t)' /\ SlotsFollowIds /\ SlotsFollowIds'

TurnsInit == Init /\ served = [t \in TaskIds |-> {}]

TurnsNext ==
  /\ WorkloadNext
  /\ served' = [t \in TaskIds |->
                  CASE KeepsWaiting(t) -> served[t] \cup {CURRENT_TASK'}
                    [] ~ KeepsWaiting(t) /\ Waiting(t)' -> {CURRENT_TASK'}
                    [] OTHER -> {}]

TurnsSpec == TurnsInit /\ [][TurnsNext]_<<vars, served>>

\* Round robin, which enable_round_robin says is the default: while a task
\* waits for the CPU, no other task gets it twice, whatever blocks, is readied,
\* is created or exits meanwhile.  It holds as long as slots follow ids:
\* find_next_task goes on from the slot that is numbered like the current id.
NobodyOvertakesTwice ==
  [][\A t \in TaskIds :
       KeepsWaiting(t) /\ CURRENT_TASK' # CURRENT_TASK =>
         CURRENT_TASK' \notin served[t]]_<<vars, served>>
=============================================================================
