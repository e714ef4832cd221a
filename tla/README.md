# Masika: a TLA+ verification project

Specifications of the Masika kernel (Rust and assembly, x86_64), the TLC runs
that check them on small instances, and TLAPS proofs of the safety properties for
every value of the constants. `PROJECT.json` is the
machine-readable index: components, runs, mutants, the map from definitions to
source lines, hazards and theorems.

The repository calls itself a "not working B-version" (`README.md:1`): parts do
not compile (`scheduler.rs` imports `TaskState` and uses fields `id`, `regs`,
`time_slice`, `tick_count`, `execution_time`, `wake_time` that `pcb.rs` does not
define; its last function is cut off). The specifications are translated from
what each function says; where a definition is missing, its uses decide.

## Inventory

| Part | State | Operations | Interacts with | What is hard |
|---|---|---|---|---|
| Scheduler `scheduler/scheduler.rs` | `RUNQUEUE`, `CURRENT_TASK`, `TASK_COUNT`, `SCHED_LOCK`, `NEXT_TASK_ID` | create, exit, clean up, reset; block, ready, sleep, wake; tick, yield, switch; priorities | timer interrupt, `cpu::halt`, PCBs | interrupts between any two calls; a switched-out context continues in the middle of `schedule`; slot and id drift apart; a hlt that nothing ends |
| PCB `scheduler/pcb.rs` | process fields, `PID_COUNTER` | state setters, signals | scheduler | redundant flags (`state`, `runnable`, `on_rq`, `running`) |
| Spinlocks `sync/spinlock.rs` | lock word, interrupt flag | lock, try_lock, guards, back-off, timeouts, force_unlock | interrupts | nesting, interruption of the holder |
| Physical memory `memory/physical.rs` | frame bitmap, counters | allocate, free, reserve, contiguous runs | paging, user memory | double free, underflow, counters against bits |
| Heap `memory/heap.rs` | free lists by size, counters | alloc with expansion, dealloc | all kernel code | splitting, alignment, overlap |
| Virtual memory `memory/virtual.rs` | page tables, TLB | map, unmap, fault, copy-on-write, clone | physical memory | stale TLB entries, shared frames |
| User memory calls `syscall/core.rs` | page and frame allocators, break | mmap, brk, fork, exec, read, write | physical memory | roll-back after a partial failure |
| Dispatch `syscall/dispatch.rs`, `syscall/mod.rs` | - | argument checks, copies | all calls | lengths at their limits |
| Other calls `syscall/extra.rs` | - | stubs, futex | scheduler | a lost wake-up |
| Interrupts `irq/handler.rs` | handler table, counters, masks | dispatch, EOI, register, save/restore flag | PIC, scheduler | order of EOI and handler, nesting |
| APIC `irq/apic.rs` | redirection entries, index window | setup, route, mask, configure | interrupts | two-step register access |
| IDT `arch/idt.rs` | 256 gates | `init_idt`, registration | interrupts, syscalls | order in which gates are filled |
| Kernel paging `arch/paging.rs` | page tables | map, unmap, clone | physical memory | address and flag bits overlap |
| Entry code `arch/entry.s` | stacks | entry stubs, context switch | scheduler, interrupts | what is saved and what is not |
| CPU `arch/cpu.rs` | - | instruction wrappers | everything | - |
| Timer `timer.rs` | tick counter, frequency | tick, calibrate, sleep, timeouts | interrupts | waiting with interrupts off, reset during a wait |
| Console, panic `console.rs`, `panic.rs` | console lock | print, panic | everything | the lock in interrupt and panic context |
| Boot `main.rs` | - | initialisation order | everything | what runs before interrupts are on |

The kernel runs on one CPU. Its concurrency is that of interrupts (gates of type
0x8E, so handlers start with interrupts disabled) and of task switches.

## The model of the scheduler

`Scheduler.tla` models every function of `scheduler.rs` that changes state; the
actions have the names of the functions.

* **State.** The five statics have their names. `pcb` maps a task id to the PCB
  fields the scheduler uses. `cpu` is running, halted in `hlt`, or panicked, and
  `RFLAGS_IF` is the interrupt flag. `context` says where a task continues when
  it is switched in: it has never run (`fresh`), or it was suspended inside
  `schedule` called by a thread (`schedule`) or by the timer interrupt (`irq`),
  or inside `schedule_with_policy` (`policy`); the current task is `executing`.
* **Switching.** A suspended `schedule` still has to execute
  `SCHED_LOCK = false` (line 35), and one inside an interrupt also `iretq`, which
  restores an interrupt flag that was set. `context_switch` performs these when
  the context is switched in. `context_switch` pushes no RFLAGS, so in all other
  cases the flag is inherited from the task that was left. A fresh task executes
  neither line 35 nor `iretq`; how it is entered is not in the source, so it
  inherits the flag or starts with it set (`rflags: 0x202` in `pcb.rs:193`).
* **Atomicity.** A function is one action; interrupts come between functions.
* **Callers.** One assumption on callers is made: `init_scheduler` is called when
  there is no current task, with the PCB of `get_idle_task`. That is the only PCB
  the source hands out that is not in the queue already, and `_start` calls it
  before interrupts are on. In the workloads, tasks are created by tasks and the
  idle task does not exit (`idle_loop` has the type `!`).
* **Data left out.** `exit_code` and `last_schedule_tick` are stored and read
  back, never used. A PCB no static refers to any more is reset (`Forget`): its
  remains cannot be observed. `time_slice` has no initial value in `pcb.rs`, so
  it is the constant `NewQuantum`.
* **Read-only functions** (`get_task_state`, `is_any_task_ready`, ...) have no
  action.

Specifications over the same actions:

| Specification | Next-state relation |
|---|---|
| `Spec` | every function, in any order |
| `RoundRobinSpec` | all but `schedule_with_policy` |
| `TurnsSpec` | `schedule` alone: tasks are created, tick, yield, block, are readied, exit and are cleaned up |

`MCScheduler.tla` extends `Scheduler` for TLC. `MCRoundRobin.tla` adds a history
variable, `served`: for every task that waits, the tasks that have had the CPU
meanwhile. The operators named "faulty
variant" in the modules are mutations of the definition after them; no
specification uses them. Each is the evidence that the property it is listed
with in `PROJECT.json` fails when the code is wrong in that way.

## The model of physical memory

`FrameAllocator.tla` is what a frame manager promises: frames are free, held,
reserved or not offered; a request (n adjacent frames, n aligned frames, these
frames) is granted with free frames, or refused because none satisfy it. The
last request and its answer are in the state, so that a refusal is a step.

`PhysicalMemory.tla` models `memory/physical.rs`.

* **State.** `bitmap` is the set of bits that are set, the ones of the last word
  past the last frame included; the two counters and the hint
  `max_reserved_frame` have their names. `held` and `reserved` record who has
  what; the code keeps no such record. `pending` are the frames `alloc_and_map`
  is passing to its callback: the function is two actions, because the callback
  may allocate and free. `call` is the last request and its answer.
* **Words.** `find_first_free_frame_from` is modelled word by word, with the mask
  of the first word and the bound test in the last one; `WordBits` is 64 in the
  code.
* **Start.** `new` does not clear the bitmap: its first contents are arbitrary,
  and `init_region` makes frames available.
* **Callers.** The code trusts them, and the properties are stated for callers
  that free what was granted (or is free already), pass only free regions inside
  the memory to `mark_as_used` and `reserve_region_for_boot` (which add the size
  of the region to a counter without looking at the bits), pass only frames
  nobody has to `init_region`, and call `reset_all_bits` while nothing is held.
* **Overflow.** A contiguous request larger than memory underflows
  `total_frames - count` (line 114). With overflow checks that is a panic, and
  the action has no next state. The build without them is not modelled.
* **Atomicity.** A function is one action. Nothing in the repository shares a
  manager between contexts, and no lock is used.
* **Left out.** Functions that only pass a size on (`alloc_n_frames`,
  `alloc_huge_page`, `alloc_user_page`, ...), zeroing, statistics such as
  `find_largest_free_block`, and the setters of counters and bitmap bytes, which
  nobody calls.

## The models of the other parts

Each module names the functions it translates; what it leaves out is in the notes
of `PROJECT.json` and under "Not modelled".

* **`Spinlock`** and **`Mutex`**: the locks of `sync/spinlock.rs`, tried and waited
  for in all the ways the file offers, by tasks and by the handlers that interrupt
  them. A task is a stack of frames. `Mutex` is the abstract lock they implement.
  Callers take locks in ascending order, drop guards in reverse order, and do not
  wait without bound for a plain lock in a handler.
* **`UserMemory`**: `sys_mmap`, `sys_brk` and `sys_exit` of `syscall/core.rs` over
  their two allocators, page by page, with every failure path; calls of two
  processes interleave between pages. `astray` records that the clean-up of a
  failed `brk` has released frames other than its own, `unruly` which processes have
  put their break inside a page or mapped over their heap. `LastAddr` bounds the
  addresses; heap, mapping area and fixed ranges lie below it.
* **`UserCopy`**: the address checks and copy loops of `syscall/dispatch.rs`,
  `syscall/core.rs` and `memory/virtual.rs`, byte by byte, while another thread
  of the process stores to the same memory. Addresses wrap at their width. Of
  the second pass of `copy_from_user_with_limit` the model has the addresses it
  reads, not the bytes it returns. `validate_c_string` (`core.rs:343`) is left out:
  it reads whatever pointer it is given.
* **`VirtualMemory`**: the address spaces of `memory/virtual.rs` with the hardware
  walk, the accessed bit (which the code also uses as its copy-on-write mark) and
  the TLB. The loops over pages (`MapEach`, `MapFrames`, `UnmapEach`) are
  recursive functions of the number of pages done. `MaxCalls` bounds the calls of
  the kernel; accesses and faults are not counted. `reopened` records the frames
  that `protect_memory` has made present again under a copy-on-write mark.
* **`KernelPaging`**: the tables of `arch/paging.rs` with the hardware walk. An
  entry's address and its flags from bit 4 on share bits, as in `addr()`.
* **`Irq`**: the two interrupt controllers (external), the gate that
  `install_irq_handler` makes of `arch/idt.rs` (its type decides whether a handler
  starts with interrupts off), `handle_irq` with the handlers it calls, masks,
  registration and nested saved flags. `install_irq_handler` has no caller yet;
  the model assumes that every line has a gate made by it.
* **`Apic`**: the I/O APIC operations of `irq/apic.rs`, access by access, with a handler
  that runs operations of its own between any two accesses. Inter-processor
  interrupts are left out: `LOCAL_APIC_ADDR` is the unmasked value of the base MSR
  plus 0x200 (`apic.rs:41`), so that the writes of `send_ipi` miss the command
  register.
* **`Timer`**: initialisation, calibration, and every sleep, delay and timed wait of
  `timer.rs`, while ticks, cycles and resets happen between two looks at the
  clock. Counters have a width and wrap.
* **`Console`**: the screen, cursor, serial copy, buffer and numbers of
  `console.rs`, without the lock around `print`.

## Properties and runs

Every run holds on its instance.

| Run | Instance | Checks |
|---|---|---|
| `lifecycle` | `Spec`, 2 slots, ids 0-1, slices of 1 | `TypeOK`, `IdsNeverCollide`, `TaskCountExact`, `HaltOnlyWhenNothingReady`, `SwitchTargetWasReady`, `PolicyPicksBest` |
| `steady` | `TurnsSpec`, 3 slots, ids 0-3, slices of 1 | `RunningIsCurrent`, `NobodyOvertakesTwice` |
| `locks` | 2 tasks, 4 locks of all kinds, 3 guards and 2 frames deep | `IrqLockExcludesInterrupts`, `IsMutex` |
| `frames` | 3 frames, words of 2 bits, requests up to 2 frames | `CountersExact`, `HeldIsMarked`, `WordScanFindsFirstFree`, `FailedMappingLeaksNothing`, `IsFrameAllocator` |
| `user_memory` | 2 processes, 3 frames, heaps of 2 pages, breaks inside a page and fixed mappings over the heap too, `map_user_page` may fail | `FramesHaveOneOwner`, `HeapIsMapped` |
| `user_copies` | 4-bit addresses, pointers and lengths around each limit | `OnlyProcessTouched`, `AllOrNothing`, `StringsAreWellFormed` |
| `address_spaces` | 2 spaces, 2 user pages, 10 frames, 4 calls | `PageCountCovers`, `SpacesAreIsolated`, `FaultsKeepOtherPages` |
| `page_tables` | 3 levels, 3 pages that part at the root and below, 2 frames, 5 tables | `TranslationIsAsAsked`, `CloneMapsTheSame` |
| `interrupts` | 3 lines on both controllers, a request each, 2 saved flags | `SavedFlagsNest`, `EoiEndsOwnService`, `MasksChangeOnRequest`, `RequestIsTaken` |
| `apic` | 2 entries, 11 operations, two at a time | `EntriesAsAsked` |
| `console` | 2 by 3 cells, 5 bytes, one cursor move | `ScreenShowsText`, `BufferLosesNothing`, `NumbersReadBack`, `BackspaceErases` |
| `timer` | 3-bit counters, 3 ticks, one reset | `NoWaitEndsEarly`, `NoDelayEndsEarly`, `DelaysEnd` |

What they say of the code, each under the conditions listed below:

* Scheduler: slots, ids and `TASK_COUNT` agree after any sequence of calls; a switch
  goes to a Ready task and, with priorities, to one that none beats; the CPU halts
  only when the scan had nothing to find; while a task waits for the CPU no other
  gets it twice.
* Memory: after any history the counters and the bitmap tell who has what, and the
  searches refuse only what does not fit; system calls of two processes do not give
  a frame to two pages; what `brk` granted stays mapped; copies stay in the memory
  of the process, and those that check their range beforehand do not fail in its
  middle; a frame of one address space is not reachable from another; a fault
  changes no page but the one it is about, and keeps that one when it copies it.
* Page tables: code and hardware find each page as it was asked for, and a clone
  maps the same.
* Interrupts: an EOI ends the service of its own line; with interrupts off, a mask
  register changes in the bit asked for; saved flags nest, and a request is taken.
* Locks: they exclude, interrupt-safe ones also from handlers.
* Timer: a wait does not end before its time and a delay not before its cycles, and
  delays in cycles end.
* Console: the screen and the serial line show the text, numbers read back, and a
  backspace takes back the last character.

Most of these are conditional, because the code does not keep them otherwise;
history variables or the state say when:

| Property | Holds |
|---|---|
| `RunningIsCurrent` | as long as only `schedule` switches; `schedule_with_policy` leaves the old task Running |
| `NobodyOvertakesTwice` | as long as every task is in the slot that is its id modulo `MAX_TASKS`; a task created after an exit may not be |
| `HaltOnlyWhenNothingReady` | while the current task is in the queue |
| `PolicyPicksBest` | of switches; that one is made at all is not claimed (a task of priority 255 or with id 0 is never chosen) |
| `FramesHaveOneOwner` | until the clean-up of a failed `brk` has gone `astray` |
| `HeapIsMapped` | for a process that has moved its break by whole pages and mapped nothing over its heap (not `unruly`) |
| `AllOrNothing` | for all copies that check their range; not for `copy_from_user` and `copy_to_user` called by themselves, which check its ends, and not for scans for a zero |
| `StringsAreWellFormed` | for the two functions named `copy_string_from_user`; what `copy_from_user_with_limit` returns may have a zero inside when the string changes between its passes |
| `SpacesAreIsolated` | but for frames that `protect_memory` has `reopened` |
| `FaultsKeepOtherPages` | but for the page a not-present fault is about: that one gets a zeroed frame, also after a clone, when it had contents |
| `PageCountCovers` | for spaces that are not clones |
| `TranslationIsAsAsked`, `CloneMapsTheSame` | until the hardware has used the tables; the second for tables whose first entry is present and writable |
| `MasksChangeOnRequest` | where `mask_irq` and `unmask_irq` run with interrupts off, or in a handler |
| `SavedFlagsNest` | of saves and restores; the global switch is used outside of them |
| `EntriesAsAsked` | until a handler has worked between two accesses of the task (`torn`) |
| `IrqLockExcludesInterrupts` | but for an outer lock whose holder has dropped an inner one (`exposed`) |
| `NoWaitEndsEarly` | for targets that fit their word and, but for `sleep_ticks`, without a reset of the clock meanwhile |
| `NoDelayEndsEarly` | in cycles at the frequency the code has at the time, if its product with the microseconds fits a word; that this frequency is the cycle counter's is not claimed |
| `ScreenShowsText` | from a blank screen (`Console::new` clears nothing, so this is up to whoever boots) and without cursor moves |
| `BufferLosesNothing` | while everything is written through the buffer |
| `NumbersReadBack` | of the digits; that the buffers of 20, 22 and 64 bytes hold them is not modelled |

**Bounds.** `MaxTaskId` bounds `NEXT_TASK_ID` and `MaxTime` the execution times.
`lifecycle` has every function of the scheduler, and two slots are what that
leaves room for: a full queue, a slot that is emptied and filled again, an id
that differs from its slot and a tick that ends a slice all occur. Its properties
are proved for all bounds, and so is `RunningIsCurrent`. `steady` has three slots
and four ids: the scan rotates among three tasks, wraps around, and a slot is used
again, by an id that follows it (3 in slot 0) or does not. A slice of one tick makes
every tick a switch. No symmetry is used: ids are numbers, and the scan computes
with them.

`frames` has two words, the last of them partial; requests of two frames in a
memory of three can fit at either end, or fail although two frames are free.
`MaxCount` bounds the size of a request. All properties of this run are proved for
every size, and so are the safety properties of every other run, but for
`NobodyOvertakesTwice` of `steady`; see "Proofs".

In the other runs: two processes, tasks or address spaces are the least that
interfere. Three frames are fewer than the heaps and mappings ask for, and 10
frames fewer than two address spaces with their tables can use, so calls fail half
way; `MaxCalls` lets a parent map, be cloned, and both change something
afterwards. Four locks let a guard of each kind be held below another, with a
second interrupt-safe one inside the first. Three pages of three levels share the
root, or also the second table; five tables are enough for any two of the paths. Words of 3 and 4 bits let counters and
addresses wrap within a run (`timer`, `user_copies`). The screen is the smallest
that scrolls more than once. Lines 1, 8 and 12 are one of the first controller,
the first of the second (where an off-by-one shows) and the mouse, whose handler
acknowledges twice; the last two may have registered handlers. Two operations at a
time are what an interrupt handler makes of the I/O APIC. Symmetry is used where
members of a set are only compared (tasks in `locks`, processes in `user_memory`),
never with a liveness property.

**Deadlock** is not checked where the system may stop: a panicked machine or one
halted with interrupts off (`lifecycle`, `steady`); tasks that wait for one
another's plain lock (`locks`); a loop that waits for ticks with interrupts off
(`timer`); and where a bound on calls ends the run (`apic`, `console`,
`address_spaces`) or all processes have exited (`user_memory`). Elsewhere it is.

**Fairness.** `steady` has none: `NobodyOvertakesTwice` bounds who may go before a
waiting task, and says nothing of when. That every Ready task runs at last cannot
be claimed of this code, even without exits: a fresh task does not execute the
`SCHED_LOCK = false` behind `context_switch`, nothing in the repository calls
`preempt_enable`, and so the first switch to a fresh task may be the last.

`interrupts`: a request that can be taken again and again is taken (strong fairness
of `Accept`, since masks and the flag come and go); a handler runs on to its
`iretq` and a mask that was read is written; kernel code restores the flags it
saved, down to the outermost save; and interrupts that are off globally are turned
on again. Devices need not raise anything, and no handler or mask need ever be
changed; `RequestIsTaken` therefore excepts lines that are masked, or whose cascade
is.

`timer`: the loops over the cycle counter run, and cycles pass. Ticks are not fair:
nothing in the repository calls `tick` or `timer_interrupt_handler`, and the handler
of the timer's line only acknowledges (`handler.rs:36`), so loops that wait for
ticks, `calibrate_tsc` among them, need not end and no property says they do.

**Where comments and code disagree.** Met while modelling, and seen in TLC's
counterexamples on small instances; the properties above are stated so as not to
depend on them, and no run is kept for them.

* `find_next_task` starts behind slot `id % MAX_TASKS` (`scheduler.rs:41`), but
  `create_task` fills the first free slot. After task 1 has exited, task 3 gets slot
  1 of three. From id 3 the scan starts at slot 1, that is at task 3 itself, which
  `schedule` has just made Ready; it goes on choosing itself and the Ready task 2
  waits for ever. The comment at line 471 says that round robin is in use. As long
  as ids and slots agree, `steady` shows that nobody is passed over.
* After `remove_current_task` there is no current task until the next switch, and
  no function switches without one: `tick` calls `schedule` (line 121), which
  unwraps `CURRENT_TASK` (line 17) and panics.
* When `map_user_page` fails, `sys_brk` releases the frames just below the last one
  (`core.rs:629`), which are its own only if the allocator gave adjacent ones; a
  frame of another process becomes free while mapped.
* The pages that `sys_brk` adds are counted from a break inside a page
  (`core.rs:618`), and the last addresses have none.
* `mmap` does not look at fixed mappings (`core.rs:531`); the comment at line 533
  assumes that there is no overlap.
* The loop at `idt.rs:107` replaces the gate 0x80, which two comments just above
  describe as the user-callable system call entry; `set_gate` ignores the
  privilege level it is given (`idt.rs:237`).
* `clone_address_space` leaves the pages of both spaces marked copy-on-write and not
  present (`virtual.rs:345`), and the fault on a page that is not present maps a
  zeroed frame: the contents are lost to both.
* `protect_memory` makes a page present whether or not it is marked copy-on-write
  (`virtual.rs:459`): parent and clone can then both reach its frame.
* `addr()` keeps the accessed bit (`paging.rs:77`), so a page mapped after the
  hardware has used an upper entry lands four slots away.
* `map_page` does not set the user bit in the upper levels (`paging.rs:192`), so a
  page mapped with it cannot be used by user mode.

## Proofs

Eight modules hold the proofs. Each extends the module or the two modules it is about
(`TimerApicProofs`, `IrqConsoleProofs` and `UserCopyPagingProofs` have two parts that
share nothing but the file) and states its theorems for every value of the constants
that meets the named assumptions of those modules; the assumptions are types and
sizes (positive counts, arguments within their words, `None` not a number, at least
two rows and columns on the screen, pages with the same number of levels) unless
said otherwise below. The modules with stacks and lists take `Front` and `Last` from
`SequenceEnds`, which has these two operators of `SequencesExt` and none of the
modules that one extends: what a module extends is in the context of every proof
about it.

| Module | Theorem | Statement |
|---|---|---|
| `SchedulerProofs` | `TypeCorrect` | `Spec => []TypeOK` |
| | `IdsDistinct` | `Spec => []IdsNeverCollide` |
| | `CountIsExact` | `Spec => []TaskCountExact` |
| | `HaltsOnlyWithoutWork` | `Spec => []HaltOnlyWhenNothingReady` |
| | `SwitchesGoToReadyTasks` | `Spec => SwitchTargetWasReady` |
| | `OnlyCurrentRuns` | `RoundRobinSpec => []RunningIsCurrent` |
| | `PolicyIsPriorityOrder` | `Spec => PolicyPicksBest` |
| `PhysicalMemoryProofs` | `WordScanCorrect` | `Spec => []WordScanFindsFirstFree` |
| | `TypeCorrect` | `Spec => []TypeOK` |
| | `CountersAreExact` | `Spec => []CountersExact` |
| | `HeldFramesAreMarked` | `Spec => []HeldIsMarked` |
| | `FailedMappingsLeakNothing` | `Spec => FailedMappingLeaksNothing` |
| | `ImplementsFrameAllocator` | `Spec => IsFrameAllocator` |
| `UserMemoryProofs` | `FramesAreOwned` | `Spec => []FramesHaveOneOwner` |
| | `HeapStaysMapped` | `HeapIsAligned` implies `Spec => []HeapIsMapped` |
| `UserCopyPagingProofs` | `CopiesStayInProcess` | `Spec => []OnlyProcessTouched` |
| | `CopiesAreAllOrNothing` | `Spec => []AllOrNothing` |
| | `CopiedStringsAreWellFormed` | `Spec => []StringsAreWellFormed` |
| | `PagesAreAsAsked` | `PagingSpec => []TranslationIsAsAsked` |
| | `ClonesMapTheSame` | `PagingSpec => []CloneMapsTheSame` |
| `VirtualMemoryProofs` | `SpacesStayIsolated` | `Spec => []SpacesAreIsolated` |
| | `PageCountsCover` | `Spec => []PageCountCovers` |
| | `FaultsKeepTheRest` | `Spec => FaultsKeepOtherPages` |
| `IrqConsoleProofs` | `SavesAreNested` | `Spec => []SavedFlagsNest` |
| | `EoisEndOwnService` | `Spec => EoiEndsOwnService` |
| | `MasksAreAsRequested` | `Spec => MasksChangeOnRequest` |
| | `ScreenIsRight` | `ConsoleSpec => []ScreenShowsText` |
| | `BufferKeepsAll` | `ConsoleSpec => []BufferLosesNothing` |
| | `NumbersAreRight` | `ConsoleSpec => []NumbersReadBack` |
| | `BackspaceIsRight` | `ConsoleSpec => BackspaceErases` |
| `SpinlockProofs` | `IrqLocksExclude` | `Spec => []IrqLockExcludesInterrupts` |
| | `LocksAreMutex` | `Spec => IsMutex` |
| `TimerApicProofs` | `WaitsAreLongEnough` | `Spec => []NoWaitEndsEarly` |
| | `DelaysAreLongEnough` | `Spec => []NoDelayEndsEarly` |
| | `EntriesAreAsAsked` | `ApicSpec => []EntriesAsAsked` |

All follow one pattern: an inductive invariant (`Inv`, `ApicInv`, `ConsoleInv`,
`PagingInv`) that implies the property, a lemma that it holds initially, lemmas per
action, one for a step, and a temporal step. What the invariants add to the
properties, and why:

* **Scheduler.** `Inv` joins types, distinct ids and the exact count. None is
  inductive alone: `TASK_COUNT` stays natural because it is the number of occupied
  slots; that number changes by one because an insertion fills a free slot and a
  removal empties an occupied one; and ids stay apart because all ids in use are
  below `NEXT_TASK_ID`. `QuietStep` covers the actions that leave the queue alone.
  `ScheduleEffect` describes a call of `schedule`: the current task stays, or it is
  left in a state other than Running and a Ready task becomes current.
  `OnlyCurrentRuns` is false for `Spec`, because `schedule_with_policy` leaves the
  old task Running (lines 340-342). `PolicyIsPriorityOrder` rests on
  `EligibleHasWinner`: the order has a least element, and what the sentinel 255
  excludes is never better. `HaltsOnlyWithoutWork` has two halves: `schedule` halts
  only when the scan found nothing, and the rotating scan visits every slot
  (`ScanVisitsEverySlot`); the idle loop halts when the counter is at most one, and
  then, the counter being exact, the only task is the one that halts.
* **Physical memory.** `WordScan` holds in every state: the least free frame lies in a
  word the search visits, no earlier word has a candidate, and within a word the
  least clear bit is the least frame. The invariant joins the types, `HeldIsMarked`
  and the two counter equations: a grant adds exactly the frames it took because
  free frames are held by nobody. For the refinement each kind of request has a
  lemma that what it takes is free and that a refusal means that nothing fits.
* **User memory.** `Inv` says how far each call under way has come (`Extent`) and, until
  a failed `brk` has gone astray, that frames in tables and in hands are marked and
  each in one place (`OneOwner`). `HeapStaysMapped` adds, per process, that the
  pages from the start of the heap to the break are mapped and that a `brk` under
  way has mapped a prefix of what it asked for, both for the processes that are not
  `unruly`: `brk` counts pages from a break inside a page, and a fixed mapping may be
  put over the heap and taken away again. It assumes that `heap_start` is a multiple
  of the page size (`HeapIsAligned`), as in the code.
* **User copies.** A range that was checked beforehand lies in the process with every
  byte (`RangeChecked`, from `AcceptedRange` and, for `validate_user_ptr`,
  `ValidRange`: a range that wraps has its end below its start); so the loop behind
  the check never fails. In the other loops each address is looked at before it is
  touched. `StringSoFar` says that no zero is in the buffer yet.
* **Address spaces.** `FramesTaken` says that all frames in tables and TLB are below the
  counter of frames handed out, and that a page in use has its page table. A fresh
  frame is then in no other space. The loops of `mmap`, `allocate_user_pages` and
  `munmap` are handled once: the recursive function exists (`LoopExists`) and a set
  closed under one round contains the result (`LoopStays`); `Grown` and `Shrunk` are
  the sets, with the page count in them. `FirstOfBound` (the k lowest members of a
  set are k) makes the count right when memory runs out between two tables.
* **Interrupts.** One handler runs at a time, with interrupts off and nothing saved
  below it that could turn them on (`OneHandler`), and what is in service is exactly
  its line and cascade. A mask register that was read with interrupts off is still as it
  was read (`ReadIsCurrent`).
* **Locks.** A lock's flag is set exactly when one frame of one task has its guard
  (`FlagIsGuard`, `HeldOnce`); a wait for an interrupt-safe lock is made by the frame
  on the CPU with interrupts off (`WaitsWithCli`). `LocksAreMutex` maps each step to
  one of `Mutex` by who holds the guard before and after.
* **Timer.** `TimeSince` relates the tick counter to the ticks since the call began, and
  `CyclesSince` the wrapped cycle counter to the cycles; `NsTargets` and `NsElapsed`
  carry the rounding of ticks to nanoseconds (`TicksTakeTime`). The theorems do not
  use fairness, so they hold for `FairSpec` too.
* **APIC.** `ApicInv` says of every operation under way which accesses it has made and
  what they have left behind: the register selected, the value read, which is still
  that of the entry, and the half of an entry already written (`Underway`,
  `HalfWritten`). It holds until a handler has worked within an operation (`Intact`);
  after that only the types are kept. `ChangedWord` says that each function changes
  the bits of its own field, also after the device has dropped what cannot be
  written. The selected register tells which entry is meant (`SelectedPin`), and a
  register past the last entry is none.
* **Console.** `Place`, which lays a text out by line starts, is shown to be what one
  gets by going to the next cell byte by byte (`PlaceLaid`, from `PlaceIs` for its
  recursion and `DivisionStep` for rows and columns). Places are in order, so no two
  bytes share a cell (`LaidOrder`). `ShownByte` then says that a byte keeps the
  screen right in each of the four cases: in a row, at its end, and both with
  scrolling. `DigitsReadBack` follows the digits from the front, while the code
  finds them from the back. `AfterPut` remembers that the console after a character
  is `write_byte` of the one before, and `PutThenBackspace` does the rest.
* **Kernel page tables.** `Shape`: there is an assignment of levels to the tables such
  that a present entry above the last level points to a table one level down, no two
  entries point to the same table, and tables not yet taken are empty. No single
  walk shows that, and without it a call about one page could change another.
  `Seen` ties the accessed bits of upper entries to `walked`. With them a new table
  changes no translation (`LinkedTranslate`), pages with the same last slot are the
  same (`OneSlotOnePage`), so that writing a last slot changes one translation
  (`LeafTranslate`), and a walk of the code that meets no accessed bit is that of the
  hardware (`Agreement`). `map_page` is followed level by level (`DescendAll`).
  For clones `Copied` says which entries of the new root are done and that the tables
  below them are as in the original; `CloneWalk` takes the two walks down together.

Loops, searches, walks and least elements are proved about by way of the least
counterexample (`LeastNatural`, from the well-foundedness of the naturals; as
`RangeInduction` for sets of numbers), because the induction theorems of the
library, which take a predicate as a parameter, are not usable with the provers at
hand. That a recursive function exists, and so satisfies its own equation, is proved
in the same way, for each one or from `RecursiveExists`.

Only model-checked: liveness (`RequestIsTaken`, `DelaysEnd`), since fairness and
ENABLED are outside the prover, and `NobodyOvertakesTwice`, which is about a history
that only `MCRoundRobin` has. Every other property of the runs is proved.

## Not modelled

* **The heap** (`memory/heap.rs`). When more than 32 bytes of a block are left over,
  line 66 files the rest 24 times as far away as meant (`add` counts in
  `FreeBlock`s), past the end of the block, and what follows depends on the memory
  there. Nearly every allocation splits, so a model would say something only of a
  heap whose blocks are used nearly whole. `init_heap` has no caller
  (`memory::init` calls an empty `heap::init`).
* **The lock around `print`** (`console.rs`): a library's spin mutex, held with
  interrupts on. A handler that prints over a task that is printing waits for
  ever.
* **The descriptor table as a whole**: `init_idt` fills it in a straight line, and the
  functions that replace gates have no caller.
* **Progress of spinlocks**: the waits are modelled, and that a lock is given back
  depends on what its holder does.
* **Futexes** (`syscall/extra.rs:96`): `sync::futex::wait` and `wake` are not in the
  repository, and whether `wait` looks at the value again decides everything. The
  other calls of that file return constants.
* **Interrupts inside the functions of the scheduler**, which are atomic here. The
  statics are plain variables and the repository has no caller that brackets
  `create_task` with `preempt_disable`, so an interrupt between the read and the
  write of `NEXT_TASK_ID` could give an id twice.
* **The statistics of the frame manager** (`find_largest_free_block` and the like),
  which change nothing.
* **The flag pairs, signal masks and PID counter of `pcb.rs`**: no modelled function
  reads them.
* **Contexts that share a frame manager**: nothing in the repository shares one or
  names a lock for it. Requests larger than memory panic in the model; the build
  without overflow checks is left out.
* **`fork` and `execve`**: the first calls `Process::fork`, which is not in the
  repository; the second is a placeholder that fails.
* **The boot sequence as a whole**: a straight line of calls, some of functions that
  the repository does not define (`timer::init_timer`, `main.rs:39`).
* **Instruction wrappers** of `arch/cpu.rs`, register and stack layout in
  `arch/entry.s`, the wording of messages in `console.rs` and `panic.rs`, tables of
  call numbers, single writes of constants to devices, the functions of
  `irq/handler.rs` from line 295 on that only print or return a constant, and the
  build files.

Hazards that no property covers are listed in `PROJECT.json` with the reason. The
model has these, and the source promises nothing about them: the panic of a tick
without a current task and the hlt with interrupts off (`scheduler.rs:120`,
`scheduler.rs:25`), the scheduler lock that a fresh task leaves set
(`scheduler.rs:33`), the wait for a plain lock whose holder was interrupted
(`spinlock.rs:36`), the calibration that waits for ticks with interrupts off
(`timer.rs:136`) and the string that changes between two passes (`dispatch.rs:287`).
Interrupts inside `create_task` are not modelled.
