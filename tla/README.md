# A TLA+ model of tinyOS

tinyOS is a preemptive kernel for one x86-64 processor. Everything below is
about its source under `src/kernel/src` (paths are relative to it). The project
models the parts of it whose correctness depends on the order in which threads
and interrupts run, checks them with TLC on small instances, and proves the
central safety properties with TLAPS for every instance.

## The system

| part | where | what it does |
| --- | --- | --- |
| locks | `utils/sync` | mutex and read-write lock on one counting semaphore; a lock is generic in how it waits (spin, yield, block, refuse) |
| scheduler | `kernel/threading/schedule`, `drivers/resource.rs` | the timer switches to the next Ready id of a run queue; a resource-manager thread reaps zombies and rebuilds the queue |
| contexts | `arch/x86/context`, `arch/x86/interrupt` | the stubs of the timer and of system calls, the words on a kernel stack, the switch between two of them |
| task manager | `kernel/threading/{tls,task,mod}.rs` | builders of tasks, the table of threads, the tree of groups, processes and threads, kill, cleanup |
| memory | `kernel/mem` | frame free list, mapping of regions, address spaces, heap |
| wait manager | `kernel/threading/wait`, `drivers/wait_manager.rs` | queues of waiting threads, a bounded queue of events, an observer thread that turns events into wakeups |
| files | `kernel/fd`, `kernel/fs` | file handles, pipes, VFS with a mount table, RamFS, ProcFS and device registry, paths |
| console | `drivers/keyboard`, `drivers/tty`, `kernel/devices/tty` | scancode ring, stdin cursors, keys to bytes, sinks and their driver thread |
| system calls | `kernel/abi/syscalls` | the calls of user programs on all of the above |

They interact on a few paths. The timer interrupt posts a `Timer` event and
switches; the switch needs the run-queue lock and the task table, and gives up
if it cannot have them at once. Block, wake and kill only change a task's
state; it takes effect when the switch next looks at it, and a woken task
enters the run queue only when the resource manager rebuilds it. Whoever waits
for time, a thread or a file enqueues a node with the wait manager and blocks;
events from interrupts, exits and cleanup make the observer wake it. Building a
task takes frames, a kernel-stack slot, an address space and copies of file
handles, each under its own lock, and cleanup gives them back in another order.

`PROJECT.json` lists all components, with what is not modelled and why, and the
hazards of the code, with the property that covers each.

## Modules

| module | models | run by | proofs |
| --- | --- | --- | --- |
| `RwLockSpec` | what a lock promises: readers or one writer, each step atomic | refinement in `Semaphore` | |
| `Semaphore` | `DynamicSemaphore`, the mutex and the read-write lock on it, every wait strategy | `MCSemaphore` | `SemaphoreProofs` |
| `Scheduler` | context switch, `LazyRoundRobin`, spawn, block, wake, kill, exit, the resource manager, the locks they take | `MCScheduler` | `SchedulerProofs` |
| `WaitManager` | timer and thread queues, events, observer, `waittime`, `thread_join`, `JoinHandle::wait`, `thread_cancel`, `exit` | `MCWaitManager` | `WaitManagerProofs` |
| `Context` | stubs, stacks and registers; `init_kernel_task`, `init_usr_task`, `switch_and_apply`, the return trampoline | `MCContext` | `ContextLemmas`, `ContextProofs` |
| `Memory` | frame allocator, region mappers, address spaces, as functions on a record | through `Tasks` | |
| `Tasks` | `TaskBuilder`, stacks, `TaskManager`'s tables, kill and cleanup, `mmap`, `munmap` | `MCTasks` | |
| `Files` | descriptor tables, `FileHandle`s, pipes, a RAM file with its cursors, the files of a spawned child | `MCFiles` | `FilesProofs` |
| `Paths` | paths as sequences of segments, prefixes, the text of a listing | through `Fs` | |
| `Fs` | mount table, RamFS with permissions, links and node locks, ProcFS and the device registry | `MCFs` | |
| `Console` | keyboard ring, cursors of processes, keys to bytes, sinks | `MCConsole` | `ConsoleReadProofs`, `ConsoleProofs` |

Each module states one operation of the code per action, or one action per
atomic part of it where a preemption in between can be observed; the comments
name the function. Definitions commented as *mutant* are deliberate errors, used
to see that a property notices them; no specification uses them.

**Semaphore.** `counter` is the atomic; `mode` the guard each thread holds. A
reader takes one permit, a writer all `N` (`usize::MAX` in the code; any `N` at
least as large as the number of threads behaves the same). `fetch_update` and
`fetch_add` are the points of acquisition and release.

**Scheduler.** Only `current` takes steps, and `Timer` may switch between any
two. A lock is the set of its owners. `qlock` is the `NoBlock` lock of the run
queue: meeting it taken is the panic of `NoBlock::wait`, label `"panic"`. `Grow`
says that insertions find their containers full and have to allocate. The
table's `HashMap` order is arbitrary (`Orders`). `freed` counts how often
`cleanup_thread` has freed a stack.

**WaitManager.** A thread that is Blocking or a Zombie goes on only while it is
`current`, that is until anybody else takes a step: it may be preempted right
after it blocked itself. `Program` gives each thread its calls, which name
other such threads: that somebody cancels the observer is not modelled. `guards`
are the read guards of `WAIT_MANAGER`; adding and removing a queue needs all of
them gone. The nodes of a queue are a set: the order in which a signal visits
them makes no difference, and it visits them one at a time. The condition of a
join is `W_EXIT`. `try_block` never finds the table locked for writing: whoever
locks it keeps the processor (`SwitchLocksHeldByCurrent`, proved in
`SchedulerProofs`), so the five tries of `enqueue` reduce to the first.

**Context.** Registers are a function from names to words, a kernel stack a
function from positions to words, the 512 bytes of `fxsave` one word. An
interrupt may come before any action while `rflags` allows it, so a task can be
suspended on the stack of one that it is building. `ctx` and `call` are ghosts:
what a task was suspended with, and what it made its last system call with.
The alignment of `rsp` is not modelled. The vector registers are not kept over
a system call, and a bad call number is answered in `rax` alone, as in the code.
A kernel task that is built inside a system call keeps the page table of its
spawner (`KernelTaskOnKernelTable` is the definition that names this; the
comment in the source knows of it).

**Memory and Tasks.** The memory record has the free frames, the mappings as
triples of space, page and frame, and the frames of tables; space 0 is the
kernel's. The page-table walk is the x86_64 crate's, of which the model keeps
that `map_to` may take one more frame. An action of `Tasks` is one critical
section, or the code between two blocking calls. Every allocation can fail; an
`unwrap` on a failure panics, which kills the thread with its locks held.

**Files.** A *slot* holds one `FileHandle`: an entry of a descriptor table, or a
temporary of a thread inside a call. Cloning, dropping and moving a handle are
steps of their own. The bytes of a pipe are numbered in the order of writing.

**Fs.** One step per lock section; a guard that the code keeps over several
sections is held until it is dropped there. Names and devices are small sets.

**Console.** A key is its number in the order of presses. `build` tells checked
from wrapping arithmetic (`WordSize` is the modulus). A thread may be killed
inside a read, with the guards it holds.

## Runs

| run | instance | result |
| --- | --- | --- |
| `rwlock` | 3 threads, N = 4, 2 rounds, yielding and blocking | permits conserved, exclusion, refinement of `RwLockSpec`; with the yielding lock all finish |
| `sched_safe` | manager, 2 workers, 1 spawned task; allocate, spawn, block, exit, cancel; containers full | lock and queue invariants; no freed task runs, none freed twice; a blocked task stays off the processor |
| `sched_live` | manager, 1 worker, 1 spawned task | Ready and spawned tasks run |
| `sched_grow` | manager, 2 workers that allocate and spawn | **violated**: deadlock of run-queue and heap lock |
| `wait_join` | timed join and join handle on one exiting thread, 1 event slot | timers kept, no early return, queues not removed while signalled, enqueued sleepers wake |
| `wait_sleep` | 2 sleepers, 2 event slots | **violated**: a sleeper that is in no queue |
| `tasks` | 4 threads in all, 13 frames, 4 stack slots, 2 calls | a frame has one use, a kernel stack one owner, the tree lists no unknown thread, an address space outlives its threads |
| `files` | 2 threads and a child, a pipe of one byte, a RAM file, 4 calls | handle counts exact, end of file final, bytes in order, a failed spawn holds nothing |
| `files_wake` | a pipe, a reader that waits for ever, a writer | **violated**: the reader is not woken |
| `fs` | 2 threads, 6 nodes, 3 calls, mounts, permissions and devices that change | no lost file, no circular wait but behind links, permissions at the time of use, listings complete |
| `console` | 2 threads in 1 or 2 processes, ring of 2, 3 keys, both builds | keys once and in order for a steady reader, whole keys, output in order, reads return |
| `context` | a kernel task, a process, and a kernel task or thread | registers and stacks stay a task's own through preemption, yield, system calls, building and return |

The violated properties state what a test or a comment of the code says;
`PROJECT.json` quotes it with its line under `findings`. Each counterexample
needs a preemption at one particular point or a missing call:

* `add_task`/`TaskManager::add`: the owner of the run queue (or of the table)
  allocates while a preempted task is inside the allocator.
* `enqueue`: the timer fires between the check and `try_block`, and the task is
  preempted between `try_block` and the second check.
* `read` of an empty pipe waits for a `Lock` event that no code posts.

### Bounds

`Rounds`, `Yields` (50 in the code), `MaxZombies`, `MaxEvents` (20), `MaxTime`,
`MaxTid`, `Calls`, `MaxBytes`, `MaxNode`, `MaxKeys` bound the instances. Two
rounds let a thread meet the lock in every state another may leave it in. In
`sched_live` the manager yields once per turn, which lets the worker run between
any two of its phases; more yields repeat that. Kills are issued while the
zombie list is empty, but two may be issued before either is listed, and the
scan of `cleanup()` lists them again: a list with one id twice, next to another,
is reached, and so is a freed id that is still in the list or in the run queue.
One or two event slots make the event queue overflow. At `MaxTime` the clock
stands still while ticks continue to post events; deadlines are capped with it.
In `tasks` the frames run out in the middle of every allocation, and a batch
ends in the middle of a region. A pipe of one byte and writes of two make every
write partial; a ring of two scancodes and three keys make the ring overtake a
cursor. A stack of 50 words holds the deepest nesting: a task preempted in a
handler, on top of its user context, or on the stack of the task it builds.
The properties of `wait_join`, `files`, `console`, `context`, `rwlock` and
`sched_safe` that the next section proves do not depend on the bounds.

Symmetry is used over workers (`sched_safe`) and threads (`files`, `fs`), which
no definition tells apart, and in safety runs only. Deadlock is not checked
where the bounded program ends or a known lock-up exists: `rwlock` (a lost
wakeup of `BlockingWaiter` may leave every thread asleep), `tasks`, `files`,
`files_wake` and `fs` (the calls are used up, or a panicked thread keeps a lock).

### Fairness

The timer ticks for ever and every Ready task is in the run queue again after
the manager's next turn, so threads of `Semaphore`, `Files` and `Console` get
weak fairness on their steps (in `Console` on the steps of a read). In
`Scheduler` itself only the timer is assumed to tick and a task that is given
the processor again and again to get a step done: a time slice is many
instructions. That tasks are given the processor is what `ReadyTaskRuns` shows,
on an instance in which no insertion allocates and nothing is killed;
`sched_grow` shows the lock-up that exists beyond that. `WaitManager` takes the
result as its fairness, that is, it assumes that no such lock-up occurs, that
the manager is alive, that a pass of the observer ends some time, although ticks
may arrive during it, and that a writer of `WAIT_MANAGER` that is tried again
and again meets a moment without readers. The latter is probable rather than
certain in the code.

## Proofs

All safety proofs are by an inductive invariant, for any set of threads, any
bounds and any calls; the assumptions on the constants are the named `ASSUME`s
of the modules, which the runs evaluate.

* `SemaphoreProofs`: `IInv` adds to the type which labels go with which guard
  (`LabelInv`) and that permits are conserved. Exclusion follows: two guards of
  which one is exclusive need more than `N` permits. Acquiring and releasing
  then map to steps of `RwLockSpec`, everything else to stuttering
  (`SemaphoreImplementsRwLock`).
* `SchedulerProofs`: `LockInv` ties each lock to the labels of its owner
  and says that the owner of the run queue or of the table (for writing) is
  `current`, which is kept because `context_switch_local` refuses to switch
  otherwise; so nobody finds the `NoBlock` lock taken. `LiveInv` says that the
  manager is never blocked, and that once it is cancelled it never runs again,
  so that it does not reap itself. `OwnerInv` says that what was freed has
  left the table; as the switch looks every id up there, a freed task is not
  picked. `QueueInv` has the run queue free of duplicates: a new id is in
  nobody's queue, table or snapshot. That the manager stays queued
  (`QueueWellFormed`) and that a blocked task does not run on
  (`BlockedIsOffCpu`) are stated for a living manager: `thread_cancel` takes any
  id, also the manager's, and without the manager the run queue can become
  empty, in which case `switch` leaves the processor to its caller.
* `WaitManagerProofs`: `CallInv` (a thread that is inside a call has one),
  `SignalInv` (signalling happens under the observer's guard, and removing a
  queue needs all guards gone) and `TimerInv` (from the push of its node on, a
  thread's deadline has passed or its node is queued; Blocking only after
  `try_block`). `TimerNodeKept` holds whatever else goes wrong with a wait.
  `NoEarlyReturn` needs a second invariant `WInv`: who owns a node of which
  queue and for which call (`NodeOwner`, `TimerOwner`), what a call and the rest
  of a program look like (`OpInv`, `SuffixInv`), and that whoever has been woken
  has a condition that is given (`WakeInv`). The property has one exception,
  which the code has too: a timer node left by an earlier timed call of the same
  thread may end a later wait.
* `FilesProofs`: `HandleCount` is a statement about the cardinality of the set
  of slots that hold an end, so every clone, drop and exchange is first a lemma
  about that set. Around it, `TmpInv` says what a thread's temporaries hold at
  each label, `BuildInv` that only the builder touches the table of a child
  before it is added, `UsedInv` that a pipe that nobody has made has no handle,
  `EofInv` that after the end of a pipe its count of writers stays 0: a write
  needs a handle, and a handle counts. On top of it `BytesInv` says that a pipe
  holds exactly the numbers between `got` and `sent`, which reading and writing
  keep by two lemmas about runs of consecutive numbers (`PipeKeepsOrder`).
* `ConsoleReadProofs`, `ConsoleProofs`: `ReadInv` relates the cursor of a read
  call, the guards it holds and the bytes it has stored (`Cursors`, `CallOK`,
  `GuardsAreLive`). That keys are returned whole is about the sum of their
  bytes, and is proved by induction over the loop of `read`. `SteadyInv`
  has a process that keeps up with the ring (`Alone`, `SteadyCursor`,
  `SteadyCall`), `OutInv` the queues of the sinks (`InOrder`).
* `ContextLemmas`, `ContextProofs`: `Shaped` lists, for each place in the code
  where a task can be, the words that its kernel stack holds; `Parked` and
  `Suspended` say that the saved stack pointer of whoever does not run leads to
  the registers it was left with, in the order in which they will be popped;
  the stacks that tasks are suspended on are pairwise different; the TSS names
  the current one. From this follow the two action properties `ResumedAsLeft`
  and `SysCallKeepsRegisters`, and `OnOwnStack`, `HandlerSeesCall` and
  `ReturnsToTrampoline`. `Depth >= 50` is assumed: the room the stubs need.

Two proofs need induction over data, where the library's theorems take an
operator and cannot be used: they go through the least counterexample, from
`WFMin` and `NatLessThanWellFounded`, and through a set that contains 0 and is
closed under successor.

Only model-checked: all liveness (`YieldingThreadsFinish`, `ReadyTaskRuns`,
`SpawnedTaskRuns`, `EnqueuedSleeperWakes`, `ReadsReturn`), which is out of the
prover's reach, the properties of `Fs`, whose definitions
include recursive operators, those of `Tasks`, and the type of `Files`.

## Not modelled

Descriptor tables, the APIC and boot, which run once; pixels and the rendering of
the terminal; the scancode decoder, the heap's free list, ELF parsing and the
walk through a page table, which are libraries; newtypes of addresses and
generated code. `wait_pid` and the queues of processes, the raw keyboard backend
and machine information are left out as well. Composition is by assumption: each
module takes from the others what their runs and theorems show (for example
that every thread gets steps), rather than by one joint state space.
