-------------------------------- MODULE Tasks --------------------------------
(***************************************************************************)
(* Creation and removal of tasks: the TaskBuilder (threading/task.rs), the *)
(* stacks and address spaces it takes (arch/x86/context, mem/paging, elf), *)
(* the TaskManager's three tables and its kill and cleanup paths           *)
(* (threading/tls.rs), and mmap/munmap (syscalls/funcs.rs), which share    *)
(* frames and page tables with them.                                       *)
(*                                                                         *)
(* Threads are numbered in the order of get_tid.  A TaskCore is named by   *)
(* the thread it was made for.  One group exists, as next_pgrid is never   *)
(* called.  An action is one critical section, or the code between two     *)
(* blocking calls.  Scheduling is in module Scheduler; here a Ready thread *)
(* may run at any time, and a thread that killed itself may run on until   *)
(* another thread takes the CPU (on).                                      *)
(***************************************************************************)
EXTENDS Memory

CONSTANTS
    MaxTid,   \* bound on the threads ever built
    KSlots,   \* MAX_KSTACKS
    KPages,   \* pages of a kernel stack above its guard page
    UPages,   \* pages of a user stack above its guard page
    PageLen,  \* bytes of a page, for mmap's cursor
    Lens,     \* lengths passed to mmap
    Calls     \* bound on the kill, cancel, exit, mmap and munmap calls

\* Boot leaves the chore and the drivers, of which the resource manager stands
\* for all.
Chore == 1
RM == 2
First == 3

ASSUME TasksAssumption ==
    /\ MaxTid \in Nat /\ MaxTid >= First
    /\ KSlots \in Nat /\ KSlots >= First
    /\ {KPages, UPages, PageLen} \subseteq Nat \ {0}
    /\ Lens \subseteq Nat \ {0} /\ Calls \in Nat

Tids == 1..MaxTid
Nobody == 0

VARIABLES
    mem,    \* frames and page tables
    slots,  \* KSTACKS_IN_USAGE, as the set of marked slots
    lk,     \* owners of PAGETABLE (pt), the frame allocator (fa), task tables (tb)
    thr,    \* per thread: state, core, kernel stack slot, user stack index
    core,   \* per TaskCore: pid, whether it owns a page table, cursors, state
    ids,    \* the next tid and the next pid
    procs,  \* TaskManager.processes: pid -> core
    tree,   \* TaskManager.tree: pid -> its threads and its leader
    lut,    \* TaskManager.lut, as the set of its keys
    zombies,\* TaskManager.zombies
    op,     \* per thread: the call it is in
    rm,     \* where the resource manager is in cleanup
    on,     \* the thread that killed itself and has not left the CPU
    calls   \* calls left
vars == <<mem, slots, lk, thr, core, ids, procs, tree, lut, zombies, op, rm, on, calls>>
tables == <<procs, tree, lut, zombies>>

KStack(k) == [i \in 1..KPages |-> <<"k", k, i>>]
UStack(u) == [i \in 1..UPages |-> <<"u", u, i>>]
Segment == << <<"e", 0, 1>> >>
AlignUp(a) == ((a + PageLen - 1) \div PageLen) * PageLen
\* The pages map_region and munmap visit for len bytes from addr.
Region(addr, len) ==
    [i \in 1..((AlignUp(AlignUp(addr) + len) - AlignUp(addr)) \div PageLen) |->
        <<"m", AlignUp(addr) \div PageLen + i, 0>>]

Idle == [pc |-> "idle", n |-> 0, v |-> <<>>]
NoThread == [st |-> "none", core |-> 0, slot |-> 0, u |-> 0, kdead |-> FALSE, udead |-> FALSE]
KThread(c, k) == [NoThread EXCEPT !.st = "Ready", !.core = c, !.slot = k]
NewCore(pid) == [pid |-> pid, user |-> FALSE, next |-> 0, tidx |-> 2, st |-> "Ready"]

\* After the drivers and the first startup binary have been started.  The first
\* process that a running thread spawned got next_pid() = 0, the pid of the
\* chore, and replaced its entries; First is the startup binary.
Init ==
    /\ mem = [free |-> {}, twice |-> {}, added |-> 3 * KPages + UPages + 3,
              tabs |-> {<<First, 3 * KPages + UPages + i>> : i \in {1, 2}},
              maps |-> {<<0, <<"k", k, i>>, (k - 1) * KPages + i>> : k \in 1..3, i \in 1..KPages}
                  \cup {<<First, <<"u", 1, i>>, 3 * KPages + i>> : i \in 1..UPages}
                  \cup {<<First, Segment[1], 3 * KPages + UPages + 3>>}]
    /\ slots = 1..3
    /\ lk = [pt |-> Nobody, fa |-> Nobody, tb |-> [c \in Tids |-> Nobody]]
    /\ thr = [t \in Tids |-> CASE t < First -> KThread(t, t)
                            [] t = First -> [KThread(t, t) EXCEPT !.u = 1]
                            [] t > First -> NoThread]
    /\ core = [t \in Tids |-> IF t = First THEN [NewCore(1) EXCEPT !.user = TRUE] ELSE NewCore(0)]
    /\ ids = [tid |-> 4, pid |-> 2]
    /\ procs = <<First>> @@ (0 :> RM)
    /\ tree = <<[threads |-> {First}, leader |-> First]>> @@ (0 :> [threads |-> {RM}, leader |-> RM])
    /\ lut = 1..3
    /\ zombies = <<>>
    /\ op = [t \in Tids |-> Idle]
    /\ rm = [pc |-> "scan", t |-> 0]
    /\ on = Nobody
    /\ calls = Calls

-----------------------------------------------------------------------------
State(t) == thr[t].st
Core(t) == core[thr[t].core]
IsUser(t) == Core(t).user
\* Ready threads get the CPU; the zombie that is on it keeps it until then.
Runs(c) == State(c) = "Ready" \/ (State(c) = "Zombie" /\ on = c)
At(c, l) == Runs(c) /\ op[c].pc = l
\* Every step puts its thread on the CPU; on matters for zombies only.
OnCpu(c) == on' = IF thr'[c].st = "Zombie" THEN c ELSE Nobody
Goto(c, l) == op' = [op EXCEPT ![c].pc = l]
New(c) == op[c].n
Kind(c) == op[c].v

\* An error ends the call; what the builder took so far stays taken.
BuildFails(c) ==
    /\ op' = [op EXCEPT ![c] = Idle]
    /\ thr' = [thr EXCEPT ![New(c)].st = "failed"]

\* The panic handler kills the thread and yields; nothing is unwound, so the
\* locks it holds stay held.
Panics(c) ==
    /\ thr' = [thr EXCEPT ![c].st = "Zombie", ![New(c)].st = "failed"]
    /\ op' = [op EXCEPT ![c].pc = "panicked"]
    /\ zombies' = Append(zombies, c)
    /\ lk' = [lk EXCEPT !.pt = c, !.fa = c]

-----------------------------------------------------------------------------
(* TaskBuilder *)

\* from_fn, from_bytes or from_addr: Task::new takes a tid and, while the
\* group exists, a pid; without it the process gets pid 0.  A new thread then
\* drops its core for a clone of the caller's and takes a stack index.
StartBuild(c, kind) ==
    /\ At(c, "idle") /\ State(c) = "Ready" /\ ids.tid <= MaxTid
    /\ IsUser(c) \/ (c = Chore /\ kind = "user")
    /\ LET n == ids.tid
           pid == IF DOMAIN tree # {} THEN ids.pid ELSE 0
       IN /\ ids' = [tid |-> n + 1, pid |-> ids.pid + (IF DOMAIN tree # {} THEN 1 ELSE 0)]
          /\ op' = [op EXCEPT ![c] = [pc |-> "kmark", n |-> n, v |-> kind]]
          /\ thr' = [thr EXCEPT ![n] =
                [NoThread EXCEPT !.st = "building",
                                 !.core = IF kind = "thread" THEN thr[c].core ELSE n,
                                 !.u = CASE kind = "thread" -> Core(c).tidx
                                         [] kind = "user" -> 1
                                         [] kind = "kernel" -> 0]]
          /\ core' = IF kind = "thread"
                     THEN [core EXCEPT ![thr[c].core].tidx = @ + 1]
                     ELSE [core EXCEPT ![n] = NewCore(pid)]
    /\ UNCHANGED <<mem, slots, lk, tables, rm, calls>> /\ OnCpu(c)

\* Mutant: the slot found is not marked.
MarkSlotTaken(c) ==
    /\ At(c, "kmark")
    /\ LET k == IF 1..KSlots \subseteq slots THEN 0 ELSE Min(1..KSlots \ slots) IN
       IF k = 0 THEN BuildFails(c) /\ UNCHANGED slots
       ELSE /\ slots' = slots
            /\ thr' = [thr EXCEPT ![New(c)].slot = k]
            /\ Goto(c, "kpt")
    /\ UNCHANGED <<mem, lk, core, ids, tables, rm, calls>> /\ OnCpu(c)

\* allocate_kstack marks the first free slot under KSTACKS_IN_USAGE ...
MarkSlot(c) ==
    /\ At(c, "kmark")
    /\ LET k == IF 1..KSlots \subseteq slots THEN 0 ELSE Min(1..KSlots \ slots) IN
       IF k = 0 THEN BuildFails(c) /\ UNCHANGED slots
       ELSE /\ slots' = slots \cup {k}
            /\ thr' = [thr EXCEPT ![New(c)].slot = k]
            /\ Goto(c, "kpt")
    /\ UNCHANGED <<mem, lk, core, ids, tables, rm, calls>> /\ OnCpu(c)

\* PAGETABLE.lock(), in allocate_kstack, map_heap and elf::apply.
LockPageTable(c) ==
    /\ At(c, "kpt") \/ At(c, "heappt") \/ At(c, "elfpt")
    /\ lk.pt = Nobody
    /\ lk' = [lk EXCEPT !.pt = c]
    /\ Goto(c, CASE op[c].pc = "kpt" -> "kmap"
                 [] op[c].pc = "heappt" -> "heapmap"
                 [] op[c].pc = "elfpt" -> "elfmap")
    /\ UNCHANGED <<mem, slots, thr, core, ids, tables, rm, calls>> /\ OnCpu(c)

\* ... and then maps its pages with PAGETABLE and the frame allocator locked.
\* On an error the slot stays marked.
MapKStack(c, tab) ==
    /\ At(c, "kmap") /\ lk.fa = Nobody
    /\ LET r == MapRegion(mem, 0, KStack(thr[New(c)].slot), tab) IN
       /\ mem' = r.m
       /\ IF r.ok
          THEN /\ Goto(c, CASE Kind(c) = "kernel" -> "add1"
                            [] Kind(c) = "user" -> "root"
                            [] Kind(c) = "thread" -> "ustackfa")
               /\ UNCHANGED thr
          ELSE BuildFails(c)
    /\ lk' = [lk EXCEPT !.pt = Nobody]
    /\ UNCHANGED <<slots, core, ids, tables, rm, calls>> /\ OnCpu(c)

\* create_new_pagedir: the root frame, then the kernel heap is mapped in.
CreateRoot(c) ==
    /\ At(c, "root") /\ lk.fa = Nobody
    /\ LET r == NewRoot(mem, thr[New(c)].core) IN
       /\ mem' = r.m
       /\ IF r.ok THEN Goto(c, "heappt") /\ UNCHANGED thr ELSE BuildFails(c)
    /\ UNCHANGED <<slots, lk, core, ids, tables, rm, calls>> /\ OnCpu(c)

\* map_heap unwraps: without a frame for a table it panics with both locks.
MapHeap(c, tab) ==
    /\ At(c, "heapmap") /\ lk.fa = Nobody
    /\ LET r == NewTable(mem, thr[New(c)].core, tab) IN
       /\ mem' = r.m
       /\ IF r.ok
          THEN /\ lk' = [lk EXCEPT !.pt = Nobody]
               /\ Goto(c, "ustackfa") /\ UNCHANGED <<thr, zombies>>
          ELSE Panics(c)
    /\ UNCHANGED <<slots, core, ids, procs, tree, lut, rm, calls>> /\ OnCpu(c)

\* get_frame_alloc().lock() before another lock: the stack of a user task
\* (map_region, then its table), allocate_arg_env and build (then PAGETABLE),
\* mmap and munmap (then the table).
LockFrameAlloc(c) ==
    /\ At(c, "ustackfa") \/ At(c, "argfa") \/ At(c, "buildfa") \/ At(c, "mapfa") \/ At(c, "unmapfa")
    /\ lk.fa = Nobody
    /\ lk' = [lk EXCEPT !.fa = c]
    /\ Goto(c, CASE op[c].pc = "ustackfa" -> "ustack"
                 [] op[c].pc = "argfa" -> "arg"
                 [] op[c].pc = "buildfa" -> "build"
                 [] op[c].pc = "mapfa" -> "map"
                 [] op[c].pc = "unmapfa" -> "unmap")
    /\ UNCHANGED <<mem, slots, thr, core, ids, tables, rm, calls>> /\ OnCpu(c)

\* allocate_userstack at the thread's index.  The first thread's core gets its
\* page table here, and the start of its mmap area.
MapUStack(c, tab) ==
    /\ At(c, "ustack")
    /\ LET n == New(c)
           s == thr[n].core
           r == MapRegion(mem, s, UStack(thr[n].u), tab)
       IN /\ lk.tb[s] = Nobody
          /\ mem' = r.m
          /\ IF r.ok
             THEN /\ Goto(c, IF Kind(c) = "user" THEN "elfpt" ELSE "buildfa")
                  /\ core' = [core EXCEPT ![s].user = TRUE]
                  /\ UNCHANGED thr
             ELSE BuildFails(c) /\ UNCHANGED core
    /\ lk' = [lk EXCEPT !.fa = Nobody]
    /\ UNCHANGED <<slots, ids, tables, rm, calls>> /\ OnCpu(c)

\* elf::apply maps a segment in both tables, fills it and unmaps it from
\* PAGETABLE, with interrupts disabled.
ApplyElf(c, tab) ==
    /\ At(c, "elfmap") /\ lk.fa = Nobody
    /\ LET r == MapSegment(mem, thr[New(c)].core, Segment, tab) IN
       /\ mem' = r.m
       /\ IF r.ok
          THEN /\ lk' = [lk EXCEPT !.pt = Nobody]
               /\ Goto(c, IF c = Chore THEN "buildfa" ELSE "argfa")
               /\ UNCHANGED <<thr, zombies>>
          ELSE Panics(c)
    /\ UNCHANGED <<slots, core, ids, procs, tree, lut, rm, calls>> /\ OnCpu(c)

\* allocate_arg_env and build: with PAGETABLE locked and interrupts disabled,
\* copy_ustack_mappings_into maps the process's FIRST stack in the kernel's
\* table; its unwraps panic when a page of it is gone or no frame is left.
FillStack(c, tab) ==
    /\ At(c, "arg") \/ At(c, "build")
    /\ lk.pt = Nobody
    /\ LET s == thr[New(c)].core
           r == NewTable(mem, 0, tab)
           mapped == \A i \in 1..UPages : Mapped(mem, s, UStack(1)[i])
       IN IF mapped /\ r.ok
          THEN /\ mem' = r.m
               /\ lk' = [lk EXCEPT !.fa = Nobody]
               /\ Goto(c, IF op[c].pc = "arg" THEN "buildfa" ELSE "add1")
               /\ UNCHANGED <<thr, zombies>>
          ELSE Panics(c) /\ mem' = IF mapped THEN r.m ELSE mem
    /\ UNCHANGED <<slots, core, ids, procs, tree, lut, rm, calls>> /\ OnCpu(c)

-----------------------------------------------------------------------------
(* TaskManager.add: three tables, three locks *)

\* kill_process keeps processes, tree, group and process locked for reading.
KillsProcess(c) == op[c].pc \in {"kp", "kppush"}
BuildLabels == {"kmark", "kpt", "kmap", "root", "heappt", "heapmap", "ustackfa", "ustack",
                "elfpt", "elfmap", "argfa", "arg", "buildfa", "build", "add1", "add2", "add3"}
ReadsTree == \/ \E c \in Tids : KillsProcess(c)
             \/ rm.pc = "tree"

AddProcess(c) ==
    /\ At(c, "add1")
    /\ ~\E d \in Tids : KillsProcess(d)
    /\ LET n == New(c) IN
       procs' = [p \in DOMAIN procs \cup {Core(n).pid} |->
                    IF p = Core(n).pid THEN thr[n].core ELSE procs[p]]
    /\ Goto(c, "add2")
    /\ UNCHANGED <<mem, slots, lk, thr, core, ids, tree, lut, zombies, rm, calls>> /\ OnCpu(c)

\* The entry for the pid is replaced, with the new thread as only member and
\* leader.
AddTree(c) ==
    /\ At(c, "add2")
    /\ ~ReadsTree
    /\ LET n == New(c) IN
       tree' = [p \in DOMAIN tree \cup {Core(n).pid} |->
                    IF p = Core(n).pid THEN [threads |-> {n}, leader |-> n] ELSE tree[p]]
    /\ Goto(c, "add3")
    /\ UNCHANGED <<mem, slots, lk, thr, core, ids, procs, lut, zombies, rm, calls>> /\ OnCpu(c)

\* The scheduler finds a thread through lut: only now can it run.
AddLut(c) ==
    /\ At(c, "add3")
    /\ lut' = lut \cup {New(c)}
    /\ thr' = [thr EXCEPT ![New(c)].st = "Ready"]
    /\ op' = [op EXCEPT ![c] = Idle]
    /\ UNCHANGED <<mem, slots, lk, core, ids, procs, tree, zombies, rm, calls>> /\ OnCpu(c)

-----------------------------------------------------------------------------
(* kill, thread_cancel, exit, kill_process *)

\* The zombies lock is held through the body of cleanup's loop.
ZombiesLocked == rm.pc \in {"utbl", "ufree", "kpt", "kfree", "drop"}
MayCall(c) == At(c, "idle") /\ State(c) = "Ready" /\ calls > 0

\* thread_cancel of another thread, or the end of this one, a builtin's
\* included: set_state, then update pushes the thread on the zombies.
Kill(c, v) ==
    /\ MayCall(c) /\ v \in lut
    /\ IsUser(c) \/ (c = v /\ c > RM)
    /\ thr' = [thr EXCEPT ![v].st = "Zombie"]
    /\ op' = [op EXCEPT ![c] = [pc |-> "push", n |-> v, v |-> <<>>]]
    /\ calls' = calls - 1
    /\ UNCHANGED <<mem, slots, lk, core, ids, tables, rm>> /\ OnCpu(c)

PushZombie(c) ==
    /\ At(c, "push")
    /\ ~ZombiesLocked
    /\ zombies' = Append(zombies, op[c].n)
    /\ op' = [op EXCEPT ![c] = Idle]
    /\ UNCHANGED <<mem, slots, lk, thr, core, ids, procs, tree, lut, rm, calls>> /\ OnCpu(c)

\* kill_process takes its read guards: the list it walks cannot change while
\* it holds them.
KillProcess(c, p) ==
    /\ MayCall(c) /\ IsUser(c)
    /\ p \in DOMAIN procs /\ p \in DOMAIN tree
    /\ op' = [op EXCEPT ![c] = [pc |-> "kp", n |-> p, v |-> SetToSortSeq(tree[p].threads, <)]]
    /\ calls' = calls - 1
    /\ UNCHANGED <<mem, slots, lk, thr, core, ids, tables, rm>> /\ OnCpu(c)

\* kill(id)? returns from kill_process at the first thread that is not in lut.
KillNext(c) ==
    /\ At(c, "kp") /\ op[c].v # <<>>
    /\ LET t == Head(op[c].v) IN
       IF t \in lut
       THEN thr' = [thr EXCEPT ![t].st = "Zombie"] /\ Goto(c, "kppush")
       ELSE op' = [op EXCEPT ![c] = Idle] /\ UNCHANGED thr
    /\ UNCHANGED <<mem, slots, lk, core, ids, tables, rm, calls>> /\ OnCpu(c)

KillPush(c) ==
    /\ At(c, "kppush")
    /\ ~ZombiesLocked
    /\ zombies' = Append(zombies, Head(op[c].v))
    /\ op' = [op EXCEPT ![c].pc = "kp", ![c].v = Tail(@)]
    /\ UNCHANGED <<mem, slots, lk, thr, core, ids, procs, tree, lut, rm, calls>> /\ OnCpu(c)

KillEnds(c) ==
    /\ At(c, "kp") /\ op[c].v = <<>>
    /\ core' = [core EXCEPT ![procs[op[c].n]].st = "Zombie"]
    /\ op' = [op EXCEPT ![c] = Idle]
    /\ UNCHANGED <<mem, slots, lk, thr, ids, tables, rm, calls>> /\ OnCpu(c)

-----------------------------------------------------------------------------
(* mmap and munmap *)

\* Without an address the cursor is moved past the new region first.
Mmap(c, len, file) ==
    /\ MayCall(c) /\ IsUser(c)
    /\ core' = [core EXCEPT ![thr[c].core].next = AlignUp(@) + len]
    /\ op' = [op EXCEPT ![c] = [pc |-> "mapfa", n |-> c,
                                v |-> [addr |-> Core(c).next, len |-> len, file |-> file]]]
    /\ calls' = calls - 1
    /\ UNCHANGED <<mem, slots, lk, thr, ids, tables, rm>> /\ OnCpu(c)

\* An error moves the cursor back, unless another mmap has moved it on.  Pages
\* mapped before the error stay mapped.
MapPages(c, tab) ==
    /\ At(c, "map")
    /\ LET s == thr[c].core
           a == op[c].v
           r == IF a.file THEN MapRegionInto(mem, s, Region(a.addr, 1)[1], DeviceFrame, tab)
                          ELSE MapRegion(mem, s, Region(a.addr, a.len), tab)
       IN /\ lk.tb[s] = Nobody
          /\ mem' = r.m
          /\ core' = IF ~r.ok /\ core[s].next = AlignUp(a.addr) + a.len
                     THEN [core EXCEPT ![s].next = a.addr] ELSE core
    /\ lk' = [lk EXCEPT !.fa = Nobody]
    /\ op' = [op EXCEPT ![c] = Idle]
    /\ UNCHANGED <<slots, thr, ids, tables, rm, calls>> /\ OnCpu(c)

\* munmap frees what it unmaps, a device's frame too.
Munmap(c, addr, len) ==
    /\ MayCall(c) /\ IsUser(c)
    /\ op' = [op EXCEPT ![c] = [pc |-> "unmapfa", n |-> c, v |-> Region(addr, len)]]
    /\ calls' = calls - 1
    /\ UNCHANGED <<mem, slots, lk, thr, core, ids, tables, rm>> /\ OnCpu(c)

UnmapPages(c) ==
    /\ At(c, "unmap")
    /\ lk.tb[thr[c].core] = Nobody
    /\ mem' = UnmapRegion(mem, thr[c].core, op[c].v).m
    /\ lk' = [lk EXCEPT !.fa = Nobody]
    /\ op' = [op EXCEPT ![c] = Idle]
    /\ UNCHANGED <<slots, thr, core, ids, tables, rm, calls>> /\ OnCpu(c)

-----------------------------------------------------------------------------
(* The resource manager: TaskManager.cleanup *)

RMAt(l) == State(RM) = "Ready" /\ rm.pc = l

\* Mutant: the state is not tested, and every thread is queued.
RMScanAll ==
    /\ RMAt("scan")
    /\ zombies' = zombies \o SetToSortSeq(lut, <)
    /\ rm' = [rm EXCEPT !.pc = "tree"]
    /\ UNCHANGED <<mem, slots, lk, thr, core, ids, procs, tree, lut, op, calls>> /\ OnCpu(RM)

\* The zombies in lut are queued, once more if kill queued them already.
RMScan ==
    /\ RMAt("scan")
    /\ zombies' = zombies \o SetToSortSeq({t \in lut : State(t) = "Zombie"}, <)
    /\ rm' = [rm EXCEPT !.pc = "tree"]
    /\ UNCHANGED <<mem, slots, lk, thr, core, ids, procs, tree, lut, op, calls>> /\ OnCpu(RM)

\* cleanup_tree locks the tree for reading first, then needs the write locks of
\* every process and of the group, which wait for kill_process.  Dead threads
\* leave their process; without its leader, or without threads, the process is
\* a zombie and leaves the group.
RMTree ==
    /\ RMAt("tree")
    /\ ~\E c \in Tids : KillsProcess(c)
    /\ LET Dead(p) == {t \in tree[p].threads : State(t) = "Zombie"}
           gone == {p \in DOMAIN tree : tree[p].threads = Dead(p) \/ tree[p].leader \in Dead(p)}
       IN /\ tree' = [p \in DOMAIN tree \ gone |-> [tree[p] EXCEPT !.threads = @ \ Dead(p)]]
          /\ core' = [k \in Tids |-> IF \E p \in gone : procs[p] = k
                                     THEN [core[k] EXCEPT !.st = "Zombie"] ELSE core[k]]
    /\ rm' = [rm EXCEPT !.pc = "pop"]
    /\ UNCHANGED <<mem, slots, lk, thr, ids, procs, lut, zombies, op, calls>> /\ OnCpu(RM)

\* The next queued zombie leaves lut; one queued twice is skipped.
RMPop ==
    /\ RMAt("pop")
    /\ LET z == IF zombies = <<>> THEN 0 ELSE Head(zombies) IN
       CASE z = 0 -> rm' = [rm EXCEPT !.pc = "scan"] /\ UNCHANGED <<zombies, lut>>
         [] z \notin lut /\ z # 0 -> zombies' = Tail(zombies) /\ UNCHANGED <<lut, rm>>
         [] z \in lut -> /\ zombies' = Tail(zombies)
                         /\ lut' = lut \ {z}
                         /\ rm' = [rm EXCEPT !.pc = "utbl", !.t = z]
    /\ UNCHANGED <<mem, slots, lk, thr, core, ids, procs, tree, op, calls>> /\ OnCpu(RM)

\* cleanup_thread: the table of a user thread is locked, then the frame
\* allocator, and the stack is freed ...
RMLockTable ==
    /\ RMAt("utbl")
    /\ IF thr[rm.t].u > 0 /\ ~thr[rm.t].udead
       THEN /\ lk.tb[thr[rm.t].core] = Nobody
            /\ lk' = [lk EXCEPT !.tb[thr[rm.t].core] = RM]
            /\ rm' = [rm EXCEPT !.pc = "ufree"]
       ELSE rm' = [rm EXCEPT !.pc = "kpt"] /\ UNCHANGED lk
    /\ UNCHANGED <<mem, slots, thr, core, ids, tables, op, calls>> /\ OnCpu(RM)

RMFreeUStack ==
    /\ RMAt("ufree") /\ lk.fa = Nobody
    /\ mem' = UnmapRegion(mem, thr[rm.t].core, UStack(thr[rm.t].u)).m
    /\ thr' = [thr EXCEPT ![rm.t].udead = TRUE]
    /\ lk' = [lk EXCEPT !.tb[thr[rm.t].core] = Nobody]
    /\ rm' = [rm EXCEPT !.pc = "kpt"]
    /\ UNCHANGED <<slots, core, ids, tables, op, calls>> /\ OnCpu(RM)

\* ... then its kernel stack, under PAGETABLE and the frame allocator.
RMLockPageTable ==
    /\ RMAt("kpt")
    /\ IF ~thr[rm.t].kdead
       THEN /\ lk.pt = Nobody
            /\ lk' = [lk EXCEPT !.pt = RM]
            /\ rm' = [rm EXCEPT !.pc = "kfree"]
       ELSE rm' = [rm EXCEPT !.pc = "drop"] /\ UNCHANGED lk
    /\ UNCHANGED <<mem, slots, thr, core, ids, tables, op, calls>> /\ OnCpu(RM)

RMFreeKStack ==
    /\ RMAt("kfree") /\ lk.fa = Nobody
    /\ LET r == UnmapRegion(mem, 0, KStack(thr[rm.t].slot)) IN
       /\ mem' = r.m
       /\ slots' = IF r.ok THEN slots \ {thr[rm.t].slot} ELSE slots
    /\ thr' = [thr EXCEPT ![rm.t].kdead = TRUE]
    /\ lk' = [lk EXCEPT !.pt = Nobody]
    /\ rm' = [rm EXCEPT !.pc = "drop"]
    /\ UNCHANGED <<core, ids, tables, op, calls>> /\ OnCpu(RM)

\* Who holds a Task, and who holds a TaskCore besides thread t.
TaskHeld(t) == t \in lut \/ \E p \in DOMAIN tree : t \in tree[p].threads
CoreHeld(k, t) ==
    \/ \E p \in DOMAIN procs : procs[p] = k
    \/ \E u \in Tids \ {t} : /\ thr[u].core = k
                             /\ TaskHeld(u) \/ \E c \in Tids : op[c].n = u /\ op[c].pc \in BuildLabels

\* Mutant: into_inner and try_owned are not asked.
RMDropAlways ==
    /\ RMAt("drop") /\ lk.fa = Nobody
    /\ mem' = DropSpace(mem, thr[rm.t].core)
    /\ thr' = [thr EXCEPT ![rm.t].st = "gone"]
    /\ rm' = [rm EXCEPT !.pc = "pop", !.t = 0]
    /\ UNCHANGED <<slots, lk, core, ids, tables, op, calls>> /\ OnCpu(RM)

\* cleanup_task: the last holder of the Task, then of its TaskCore, releases
\* the process's address space.
RMDrop ==
    /\ RMAt("drop")
    /\ LET k == thr[rm.t].core
           last == ~TaskHeld(rm.t) /\ ~CoreHeld(k, rm.t)
       IN /\ last /\ core[k].user => lk.fa = Nobody
          /\ mem' = IF last THEN DropSpace(mem, k) ELSE mem
    /\ thr' = [thr EXCEPT ![rm.t].st = "gone"]
    /\ rm' = [rm EXCEPT !.pc = "pop", !.t = 0]
    /\ UNCHANGED <<slots, lk, core, ids, tables, op, calls>> /\ OnCpu(RM)

-----------------------------------------------------------------------------
ThreadStep(c) ==
    \/ \E kind \in {"kernel", "user", "thread"} : StartBuild(c, kind)
    \/ MarkSlot(c) \/ LockPageTable(c) \/ CreateRoot(c) \/ LockFrameAlloc(c)
    \/ \E tab \in BOOLEAN : \/ MapKStack(c, tab) \/ MapHeap(c, tab) \/ MapUStack(c, tab)
                            \/ ApplyElf(c, tab) \/ FillStack(c, tab) \/ MapPages(c, tab)
    \/ AddProcess(c) \/ AddTree(c) \/ AddLut(c)
    \/ \E v \in Tids : Kill(c, v)
    \/ \E p \in 0..ids.pid : KillProcess(c, p)
    \/ PushZombie(c) \/ KillNext(c) \/ KillPush(c) \/ KillEnds(c)
    \/ \E len \in Lens : (\E file \in BOOLEAN : Mmap(c, len, file)) \/ Munmap(c, 0, len)
    \/ UnmapPages(c)

RMStep == \/ RMScan \/ RMTree \/ RMPop \/ RMLockTable
          \/ RMFreeUStack \/ RMLockPageTable \/ RMFreeKStack \/ RMDrop

Next == (\E c \in Tids : ThreadStep(c)) \/ RMStep

Spec == Init /\ [][Next]_vars

-----------------------------------------------------------------------------
\* Types.
TypeOK ==
    /\ mem.free \subseteq Frames \cup {DeviceFrame} /\ mem.added \in 0..NFrames
    /\ slots \subseteq 1..KSlots
    /\ lk \in [pt : {Nobody} \cup Tids, fa : {Nobody} \cup Tids, tb : [Tids -> {Nobody, RM}]]
    /\ \A t \in Tids : thr[t].st \in {"none", "building", "failed", "Ready", "Zombie", "gone"}
    /\ lut \subseteq Tids /\ zombies \in Seq(Tids)
    /\ \A p \in DOMAIN procs : procs[p] \in Tids
    /\ \A p \in DOMAIN tree : tree[p].threads \subseteq Tids /\ tree[p].leader \in Tids
    /\ on \in {Nobody} \cup Tids /\ calls \in 0..Calls

\* A frame of the allocator has at most one use: it is in the free list once,
\* or it is one table, or it backs one page of one address space.  Spawns, exits
\* and mappings that fail half way, in any order, never let the list hand out
\* a frame that is still mapped (map_region, unmap_region, free_kstack).
FrameHasOneUse ==
    LET free == mem.free \cap Frames
        pages == {x \in mem.maps : x[3] \in Frames}
    IN /\ mem.twice \cap Frames = {}
       /\ Cardinality(free \cup {x[3] : x \in pages} \cup {x[2] : x \in mem.tabs})
            = Cardinality(free) + Cardinality(pages) + Cardinality(mem.tabs)

\* The threads whose kernel stack is built and not yet given back.
HasKStack(t) == 
    (t \in lut \/ (rm.t = t /\ rm.pc \in {"utbl", "ufree", "kpt", "kfree"})) /\ ~thr[t].kdead

\* A thread that can still be scheduled, or is being reaped, has a slot of its
\* own: no other thread, failed or half built, was given it, and every page of
\* the stack is mapped (allocate_kstack, free_kstack).
KStackOwned ==
    \A t \in Tids : HasKStack(t) =>
        /\ thr[t].slot \in slots
        /\ \A i \in 1..KPages : Mapped(mem, 0, KStack(thr[t].slot)[i])
        /\ \A u \in Tids \ {t} : HasKStack(u) \/ thr[u].st = "building" => thr[u].slot # thr[t].slot

\* A thread that the process tree lists is in the table of threads, or about
\* to be, or dead: cleanup never drops a live thread that kill_process and
\* wait_pid still find.
ListedIsKnown ==
    \A p \in DOMAIN tree : \A t \in tree[p].threads :
        \/ t \in lut
        \/ State(t) \in {"Zombie", "gone"}
        \/ \E c \in Tids : op[c].n = t /\ op[c].pc = "add3"

\* "we checked that we are the last one holding a ref to this address space"
\* (cleanup_process): while a user thread may run, its tables are there.
SpaceOutlivesThreads ==
    \A t \in lut : IsUser(t) => \E x \in mem.tabs : x[1] = thr[t].core
=============================================================================
