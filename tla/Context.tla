------------------------------ MODULE Context ------------------------------
(***************************************************************************)
(* The context switch at the level of registers and kernel stacks:         *)
(* arch/x86/context/mod.rs (init_kernel_task, init_usr_task,               *)
(* switch_and_apply, return_trampoline_stub), arch/x86/interrupt/          *)
(* handlers.rs (the timer and system call stubs), the yield stub of        *)
(* kernel/abi/syscalls/utils.rs and context_switch_local of                *)
(* kernel/threading/schedule/mod.rs.                                       *)
(*                                                                         *)
(* The register file is a function from register names to words, a kernel  *)
(* stack a function from positions to words: position 1 is the word just   *)
(* below kstack_top, and a stack pointer is the stack it points into with  *)
(* the number of words pushed.  The 512 bytes of fxsave are one word.      *)
(* What a task computes is abstracted to what its registers hold           *)
(* (Contents); where it is, is its rip.  An interrupt may come before any  *)
(* action of the running code while rflags allows it, so that a task can   *)
(* be suspended on the stack of a task that it is building.                *)
(*                                                                         *)
(* ctx and call are ghosts: the registers a task was suspended with, and   *)
(* those it made its last system call with.                                *)
(***************************************************************************)
EXTENDS Integers, Sequences

CONSTANTS Tasks,     \* the tasks that can be built
          None,      \* no task: the boot thread, the kernel's page table
          Depth,     \* the words of a kernel stack (KSTACK_SIZE)
          Kinds,     \* [Tasks -> SUBSET kinds]: what each may be built as
          Args,      \* the argument lists of new tasks
          Contents   \* [Slots \X Rings -> SUBSET [Data -> word]]: register
                     \* contents the code of a task may load

Slots == Tasks \cup {None}

Rings == {"kernel", "user"}

\* The registers that code computes with, and all that a context consists of.
Data == {"rax", "rbx", "rcx", "rdx", "rsi", "rdi", "rbp", "r8", "r9", "r10",
         "r11", "r12", "r13", "r14", "r15", "xmm"}

Regs == Data \cup {"cr3", "ss", "rsp", "rflags", "cs", "rip"}

\* Words: a zero, a code address, a selector, the interrupt flag, a page
\* table, a stack pointer, an argument, a result, and pointers to the
\* TaskExitInfo, the task info and the TaskData of a task.
Zero == <<"zero">>
Code(l) == <<"code", l>>
Selector(ring) == <<"selector", ring>>
Flag(b) == <<"if", b>>
Root(t) == <<"root", t>>
Sp(s, n) == <<"sp", s, n>>
Exit(t) == <<"exit", t>>
Info(t) == <<"info", t>>
TaskData(t) == <<"data", t>>
Result(x) == <<"result", x>>
UserSp(t) == <<"usersp", t>>

Stack(p) == p[2]
Pos(p) == p[3]

VARIABLES cpu,      \* the register file
          mem,      \* the kernel stacks
          krsp,     \* TaskMetadata.krsp
          tss,      \* privilege_stack_table[0]: whose kernel stack
          current,  \* the running task
          life,     \* absent, building, ready, zombie
          info,     \* what a task was built from
          ctx,      \* ghost: the registers a suspended task was left with
          call      \* ghost: the registers at a task's last system call

vars == <<cpu, mem, krsp, tss, current, life, info, ctx, call>>

ASSUME NoneIsNoTask == None \notin Tasks
ASSUME DepthHolds == Depth \in Nat /\ Depth >= 50
ASSUME ArgsAreSix == \A a \in Args : DOMAIN a = 1 .. 6
ASSUME ContentsAreData ==
    \A s \in Slots, ring \in Rings : \A c \in Contents[s, ring] : DOMAIN c = Data

-----------------------------------------------------------------------------
(* Pushing and popping.                                                    *)

\* The words ws pushed on a stack with n words.  What lies beyond the stack
\* pointer is dead, and is kept as zero.
Push(stack, n, ws) ==
    [i \in 1 .. Depth |-> IF i <= n THEN stack[i]
                          ELSE IF i <= n + Len(ws) THEN ws[i - n] ELSE Zero]

\* What is left of a stack popped down to n words.
Cut(stack, n) == [i \in 1 .. Depth |-> IF i <= n THEN stack[i] ELSE Zero]

\* Where each register is in a sequence of registers, 0 if it is not.
Positions(order) ==
    [r \in Regs |-> IF \E i \in DOMAIN order : order[i] = r
                    THEN CHOOSE i \in DOMAIN order : order[i] = r ELSE 0]

\* The registers at the given positions popped from a stack with n words.
Popped(stack, n, pos, regs) ==
    [r \in Regs |-> IF pos[r] = 0 THEN regs[r] ELSE stack[n + 1 - pos[r]]]

\* The words of the registers in the order they are pushed.
Words(regs, order) == [i \in DOMAIN order |-> regs[order[i]]]

\* What the processor pushes on an interrupt, and the stubs after it.
FrameOrder == <<"ss", "rsp", "rflags", "cs", "rip">>

SaveOrder == <<"rax", "rbp", "rdi", "rsi", "rdx", "rcx", "rbx", "cr3",
               "r15", "r14", "r13", "r12", "r11", "r10", "r9", "r8">>

\* Mutant: rcx and rbx are popped in the order in which they were pushed.
RestoreOrderSwapped ==
    <<"r8", "r9", "r10", "r11", "r12", "r13", "r14", "r15", "cr3",
      "rcx", "rbx", "rdx", "rsi", "rdi", "rbp", "rax",
      "rip", "cs", "rflags", "rsp", "ss">>

\* The pops of switch_and_apply, and of the iretq that ends it.
RestoreOrder == <<"r8", "r9", "r10", "r11", "r12", "r13", "r14", "r15", "cr3",
                  "rbx", "rcx", "rdx", "rsi", "rdi", "rbp", "rax",
                  "rip", "cs", "rflags", "rsp", "ss">>

RestorePos == Positions(RestoreOrder)

\* A whole context: frame, registers, the fxsave area and the stack pointer
\* before it (mov r9, rsp ... push r9).
SavedLen == 23

Saved(regs, s, n) ==
    Words(regs, FrameOrder) \o Words(regs, SaveOrder) \o <<regs["xmm"], Sp(s, n + 21)>>

-----------------------------------------------------------------------------
(* What a new task is built from, and what it shall start with.            *)

Kernel(t) == info[t].kind = "kernel"

\* init_kernel_task and init_usr_task: the first six words of TaskData go to
\* the registers of the calling convention, the others are zero.
ArgRegs == <<"rdi", "rsi", "rdx", "rcx", "r8", "r9">>

ArgPos == Positions(ArgRegs)

Started(args, xmm, sp, table, ring) ==
    [r \in Regs |->
        CASE ArgPos[r] # 0 -> args[ArgPos[r]]
          [] r = "cr3" -> table
          [] r = "xmm" -> xmm
          [] r = "rsp" -> sp
          [] r = "rflags" -> Flag(TRUE)
          [] r \in {"cs", "ss"} -> Selector(ring)
          [] r = "rip" -> Code(IF ring = "user" THEN "user" ELSE "kernel")
          [] OTHER -> Zero]

\* push 0; push [rsi]; push rsi; push return_trampoline_stub.
ReturnPath(exit) == <<Zero, Code("trampoline"), exit, Code("stub")>>

\* The pushes of the frame and of the registers, the arguments read from
\* [rdx], [rdx + 8] ... [rdx + 40].
StartFrame(args, sp, table, ring) ==
    <<Selector(ring), sp, Flag(TRUE), Selector(ring),
      Code(IF ring = "user" THEN "user" ELSE "kernel"),
      Zero, Zero, args[1], args[2], args[3], args[4], Zero, table,
      Zero, Zero, Zero, Zero, Zero, Zero, args[6], args[5]>>

-----------------------------------------------------------------------------
Blank == [r \in Regs |-> Zero]

Init ==
    /\ \E c \in Contents[None, "kernel"] :
          cpu = [r \in Regs |->
                CASE r \in Data -> c[r]
                  [] r = "cr3" -> Root(None)
                  [] r = "rsp" -> Sp(None, 0)
                  [] r = "rflags" -> Flag(TRUE)
                  [] r \in {"cs", "ss"} -> Selector("kernel")
                  [] r = "rip" -> Code("kernel")]
    /\ mem = [s \in Slots |-> [i \in 1 .. Depth |-> Zero]]
    /\ krsp = [t \in Tasks |-> Sp(t, 0)]
    /\ tss = None
    /\ current = None
    /\ life = [t \in Tasks |-> "absent"]
    /\ info = [t \in Tasks |-> [kind |-> "kernel", args |-> <<>>, table |-> None]]
    /\ ctx = [t \in Tasks |-> Blank]
    /\ call = [t \in Tasks |-> Blank]

RunsAt(l) == cpu["rip"] = Code(l)

\* Kernel code that may call into the kernel's own functions: the function
\* of a kernel task (or the boot code) and the body of a system call.
InKernelCode == RunsAt("kernel") \/ RunsAt("syscall")

Set(regs, changes) ==
    [r \in Regs |-> IF r \in DOMAIN changes THEN changes[r] ELSE regs[r]]

\* What the registers may hold once code of the running task has computed.
\* Code computes before it makes a call and after one returns.
Computed(regs, ring) == {Set(regs, c) : c \in Contents[current, ring]}

-----------------------------------------------------------------------------
(* Suspending and resuming: context_switch_local, called by the timer stub *)
(* and by the yield stub with the whole context saved at rsp.              *)

Ready == {t \in Tasks : life[t] = "ready"}

\* pop r9; fxrstor [rsp]; mov rsp, r9; the pops; iretq.
Restored(stack, p) ==
    Popped(stack, Pos(stack[Pos(p)]), RestorePos, [r \in Regs |-> stack[Pos(p) - 1]])

Apply(stacks, p) ==
    LET stack == stacks[Stack(p)]
    IN  /\ cpu' = Restored(stack, p)
        /\ mem' = [stacks EXCEPT ![Stack(p)] = Cut(stack, Pos(stack[Pos(p)]) - 21)]

\* Mutant: the TSS is left as it is once it names a task.
SetTssKstackOnce(next) == tss' = IF tss = None THEN next ELSE tss

\* set_tss_kstack(kstack_top of the next task).
SetTssKstack(next) == tss' = next

\* The stub saves regs on stack s, above its n words, and calls
\* context_switch_local.  That returns to the pops of the stub when the task
\* table is locked or the scheduler has no next task; else switch_and_apply
\* resumes the next task.
ContextSwitch(regs, stack, s, n) ==
    LET stacks == [mem EXCEPT ![s] = Push(stack, n, Saved(regs, s, n))]
        rsp    == Sp(s, n + SavedLen)
        saved  == IF current = None THEN krsp ELSE [krsp EXCEPT ![current] = rsp]
    IN  /\ current = None => Ready # {}
        /\ \/ /\ krsp' \in {krsp, saved}
              /\ Apply(stacks, rsp)
              /\ UNCHANGED <<current, tss, ctx>>
           \/ \E next \in Ready :
                 /\ krsp' = saved
                 /\ current' = next
                 /\ SetTssKstack(next)
                 /\ Apply(stacks, saved[next])
                 /\ ctx' = [t \in Tasks |-> CASE t = next -> Blank
                                              [] t = current /\ t # next -> regs
                                              [] OTHER -> ctx[t]]
        /\ UNCHANGED <<life, info, call>>

\* A timer interrupt: from user mode the processor changes to the stack the
\* TSS names, from kernel mode it stays on the one it is on.  While the boot
\* code builds tasks threading is not running, and the handler just returns.
TimerInterrupt ==
    /\ cpu["rflags"] = Flag(TRUE)
    /\ current = None => RunsAt("kernel")
    /\ IF cpu["cs"] = Selector("user")
       THEN ContextSwitch(cpu, mem[tss], tss, 0)
       ELSE LET s == Stack(cpu["rsp"])
            IN  ContextSwitch(cpu, mem[s], s, Pos(cpu["rsp"]))

\* call __sys_yield(cs, ss): the return address, then a frame like that of an
\* interrupt, which resumes at the ret of the stub.
SysYield ==
    /\ InKernelCode \/ RunsAt("exited")
    /\ LET s    == Stack(cpu["rsp"])
           n    == Pos(cpu["rsp"])
           yielded == [rdi |-> Selector("kernel"), rsi |-> Selector("kernel"),
                       rax |-> Code("yielded"), rip |-> Code("yielded"), rsp |-> Sp(s, n + 1)]
       IN  \E regs \in Computed(cpu, "kernel") :
              ContextSwitch(Set(regs, yielded), Push(mem[s], n, <<cpu["rip"]>>), s, n + 1)

\* ret, with the other registers as given, to the address on top of the
\* stack; kernel code that goes on there computes.
Ret(regs) ==
    LET s == Stack(regs["rsp"])
        n == Pos(regs["rsp"])
        ret == Set(regs, [rip |-> mem[s][n], rsp |-> Sp(s, n - 1)])
    IN  /\ cpu' \in IF ret["rip"] \in {Code("kernel"), Code("syscall")}
                   THEN Computed(ret, "kernel") ELSE {ret}
        /\ mem' = [mem EXCEPT ![s] = Cut(mem[s], n - 1)]

\* _sys_yield_label.
YieldReturn ==
    /\ RunsAt("yielded")
    /\ Ret(cpu)
    /\ UNCHANGED <<krsp, tss, current, life, info, ctx, call>>

-----------------------------------------------------------------------------
(* Building a kernel task: init_kernel_task runs with interrupts enabled,  *)
(* on the stack of the new task.                                           *)

\* as_kernel, then the call: &KTaskInfo, &TaskExitInfo and &TaskData in rdi,
\* rsi and rdx; mov rax, rsp; mov rsp, [rdi + 8].
BuildKernel(t) ==
    /\ InKernelCode
    /\ life[t] = "absent" /\ "kernel" \in Kinds[t]
    /\ \E a \in Args : info' = [info EXCEPT ![t] = [kind |-> "kernel", args |-> a,
                                                   table |-> None]]
    /\ life' = [life EXCEPT ![t] = "building"]
    /\ krsp' = [krsp EXCEPT ![t] = Sp(t, 0)]
    /\ LET s == Stack(cpu["rsp"])
           n == Pos(cpu["rsp"])
       IN  /\ mem' = [mem EXCEPT ![s] = Push(mem[s], n, <<cpu["rip"]>>)]
           /\ \E regs \in Computed(cpu, "kernel") :
                 cpu' = Set(regs, [rdi |-> Info(t), rsi |-> Exit(t), rdx |-> TaskData(t),
                                   rax |-> Sp(s, n + 1), rsp |-> Sp(t, 0),
                                   rip |-> Code("init_words")])
    /\ UNCHANGED <<tss, current, ctx, call>>

\* The path a returning task takes; mov r8, rsp; the frame and the registers;
\* mov r9, rsp; fxsave; push r9.  The page table is the one in use, not the
\* one KTaskInfo holds.
InitWords ==
    /\ RunsAt("init_words")
    /\ LET s  == Stack(cpu["rsp"])
           n  == Pos(cpu["rsp"])
           r8 == Sp(s, n + 4)
           r9 == Sp(s, n + 25)
           ws == ReturnPath(cpu["rsi"])
                   \o StartFrame(info[cpu["rdx"][2]].args, r8, cpu["cr3"], "kernel")
                   \o <<cpu["xmm"], r9>>
       IN  /\ mem' = [mem EXCEPT ![s] = Push(mem[s], n, ws)]
           /\ cpu' = Set(cpu, [r8 |-> r8, r9 |-> r9, rsi |-> cpu["cr3"],
                               rsp |-> Sp(s, n + 27), rip |-> Code("init_done")])
    /\ UNCHANGED <<krsp, tss, current, life, info, ctx, call>>

\* Back on the builder's stack with the new stack pointer in rax; ret; then
\* set_krsp, ensure_ready and add_built_task.
InitDone ==
    /\ RunsAt("init_done")
    /\ LET s == Stack(cpu["rsp"])
       IN  /\ Ret(Set(cpu, [rax |-> cpu["rsp"], rsi |-> cpu["rsp"], rsp |-> cpu["rax"]]))
           /\ krsp' = [krsp EXCEPT ![s] = cpu["rsp"]]
           /\ life' = [life EXCEPT ![s] = "ready"]
           /\ ctx' = [ctx EXCEPT ![s] = Started(info[s].args, cpu["xmm"], Sp(s, 4),
                                                cpu["cr3"], "kernel")]
    /\ UNCHANGED <<tss, current, info, call>>

-----------------------------------------------------------------------------
(* Building a user task: as_usr (a process with a page table of its own)   *)
(* or like_existing_usr (a thread of the running process), then build(),   *)
(* which runs init_usr_task with interrupts disabled and the kernel's page *)
(* table loaded, and goes back to the table of the running task.           *)

BuildUser(t, kind) ==
    /\ InKernelCode
    /\ life[t] = "absent" /\ kind \in Kinds[t]
    /\ kind = "thread" => current # None /\ ~Kernel(current)
    /\ \E a \in Args :
          LET table == IF kind = "thread" THEN info[current].table ELSE t
          IN  /\ info' = [info EXCEPT ![t] = [kind |-> kind, args |-> a, table |-> table]]
              /\ mem' = [mem EXCEPT ![t] =
                            Push(mem[t], 0, ReturnPath(Exit(t))
                                   \o StartFrame(a, UserSp(t), Root(table), "user")
                                   \o <<cpu["xmm"], Sp(t, 25)>>)]
              /\ ctx' = [ctx EXCEPT ![t] = Started(a, cpu["xmm"], UserSp(t), Root(table),
                                                   "user")]
    /\ krsp' = [krsp EXCEPT ![t] = Sp(t, 27)]
    /\ life' = [life EXCEPT ![t] = "ready"]
    /\ LET active == IF current # None /\ ~Kernel(current) THEN info[current].table ELSE None
       IN  cpu' \in Computed(Set(cpu, [cr3 |-> Root(active), rflags |-> Flag(TRUE)]), "kernel")
    /\ UNCHANGED <<tss, current, call>>

-----------------------------------------------------------------------------
(* System calls.                                                           *)

\* Mutant: r9 and r10 are pushed the other way round.
SysPushOrderSwapped ==
    <<"rbp", "r11", "rcx", "rbx", "r8", "r10", "r9", "rdx", "rsi", "rdi", "rax">>

\* Mutant: r9 and r10 are popped the other way round.
SysPopOrderSwapped ==
    <<"rax", "rdi", "rsi", "rdx", "r9", "r10", "r8", "rbx", "rcx", "r11", "rbp">>

\* The pushes and the pops of syscall_stub, the fields of SysCallCtx, and
\* the registers that __syscall_handler preserves by its calling convention.
SysPushOrder == <<"rbp", "r11", "rcx", "rbx", "r8", "r9", "r10", "rdx", "rsi", "rdi", "rax">>

SysPopOrder == <<"rax", "rdi", "rsi", "rdx", "r10", "r9", "r8", "rbx", "rcx", "r11", "rbp">>

SysPopPos == Positions(SysPopOrder \o <<"rip", "cs", "rflags", "rsp", "ss">>)

SysCallCtx == <<"rax", "rdi", "rsi", "rdx", "r10", "r9", "r8", "rbx", "rcx", "r11", "rbp">>

CalleeSaved == <<"r12", "r13", "r14", "r15">>

CalleePos == Positions(<<"r15", "r14", "r13", "r12">>)

\* int 0x80 in user mode: the frame on the stack the TSS names; sti; the
\* pushes of the stub; the call of the handler and what that pushes.
SysCall ==
    /\ RunsAt("user")
    /\ \E regs \in Computed(cpu, "user") :
          LET ws == Words(regs, FrameOrder) \o Words(regs, SysPushOrder)
                      \o <<Code("syscall_exit")>> \o Words(regs, CalleeSaved)
          IN  /\ mem' = [mem EXCEPT ![tss] = Push(mem[tss], 0, ws)]
              /\ cpu' \in Computed(Set(regs, [rsp |-> Sp(tss, 21), rflags |-> Flag(TRUE),
                                              cs |-> Selector("kernel"),
                                              ss |-> Selector("kernel"),
                                              rip |-> Code("syscall")]), "kernel")
              /\ call' = [call EXCEPT ![current] = regs]
    /\ UNCHANGED <<krsp, tss, current, life, info, ctx>>

\* Where a field of the SysCallCtx at p lies: the struct grows towards the
\* top of the stack.
FieldPos == Positions(SysCallCtx)

Field(p, r) == Pos(p) + 1 - FieldPos[r]

\* syscall_handler: a bad number is answered in rax, an error in rdx, a
\* result in both.  Then the handler returns to the stub.
Answer(ctxp, stack, res) ==
    CASE res = "bad" -> [stack EXCEPT ![Field(ctxp, "rax")] = Result("BadRqstD")]
      [] res = "err" -> [stack EXCEPT ![Field(ctxp, "rdx")] = Result("Err")]
      [] res = "ok"  -> [stack EXCEPT ![Field(ctxp, "rax")] = Result("Value"),
                                      ![Field(ctxp, "rdx")] = Result("NoErr")]

SysReturn ==
    /\ RunsAt("syscall")
    /\ LET s == Stack(cpu["rsp"])
           n == Pos(cpu["rsp"])
           regs == Popped(mem[s], n, CalleePos, cpu)
       IN  /\ \E res \in {"bad", "err", "ok"} :
                 mem' = [mem EXCEPT ![s] = Cut(Answer(Sp(s, 16), mem[s], res), n - 5)]
           /\ cpu' = Set(regs, [rip |-> mem[s][n - 4], rsp |-> Sp(s, n - 5)])
    /\ UNCHANGED <<krsp, tss, current, life, info, ctx, call>>

\* The pops of syscall_stub; iretq.
SysExit ==
    /\ RunsAt("syscall_exit")
    /\ LET s == Stack(cpu["rsp"])
           n == Pos(cpu["rsp"])
       IN  /\ cpu' = Popped(mem[s], n, SysPopPos, cpu)
           /\ mem' = [mem EXCEPT ![s] = Cut(mem[s], n - 16)]
    /\ call' = [call EXCEPT ![current] = Blank]
    /\ UNCHANGED <<krsp, tss, current, life, info, ctx>>

-----------------------------------------------------------------------------
(* The end of a task.                                                      *)

\* The function of a kernel task returns.
KernelReturn ==
    /\ RunsAt("kernel") /\ current # None
    /\ \E regs \in Computed(cpu, "kernel") : Ret(regs)
    /\ UNCHANGED <<krsp, tss, current, life, info, ctx, call>>

\* Mutant: pop rdi; mov rsi, rax; ret.
TrampolineStubSwapped ==
    /\ RunsAt("stub")
    /\ LET s == Stack(cpu["rsp"])
           n == Pos(cpu["rsp"])
       IN  Ret(Set(cpu, [rdi |-> mem[s][n], rsi |-> cpu["rax"], rsp |-> Sp(s, n - 1)]))
    /\ UNCHANGED <<krsp, tss, current, life, info, ctx, call>>

\* return_trampoline_stub: pop rsi; mov rdi, rax; ret.
TrampolineStub ==
    /\ RunsAt("stub")
    /\ LET s == Stack(cpu["rsp"])
           n == Pos(cpu["rsp"])
       IN  Ret(Set(cpu, [rsi |-> mem[s][n], rdi |-> cpu["rax"], rsp |-> Sp(s, n - 1)]))
    /\ UNCHANGED <<krsp, tss, current, life, info, ctx, call>>

\* kernel_return_trampoline's callback, or the exit system calls: the task is
\* killed and yields for good.
ExitTask ==
    /\ RunsAt("trampoline") \/ RunsAt("syscall")
    /\ life' = [life EXCEPT ![current] = "zombie"]
    /\ cpu' = Set(cpu, [rip |-> Code("exited")])
    /\ UNCHANGED <<mem, krsp, tss, current, info, ctx, call>>

-----------------------------------------------------------------------------
Next ==
    \/ TimerInterrupt \/ SysYield \/ YieldReturn
    \/ \E t \in Tasks : BuildKernel(t)
    \/ InitWords \/ InitDone
    \/ \E t \in Tasks, kind \in {"process", "thread"} : BuildUser(t, kind)
    \/ SysCall \/ SysReturn \/ SysExit
    \/ KernelReturn \/ TrampolineStub \/ ExitTask

Spec == Init /\ [][Next]_vars

-----------------------------------------------------------------------------
(* Properties.                                                             *)

\* A task that goes on after an interrupt or a yield, at once or after any
\* other tasks have run, does so with every register as it was left: the ones
\* switch_and_apply pops are the ones the stub of whoever suspended it pushed,
\* and a new task starts with its arguments, entry, stack and page table.
ResumedAsLeft ==
    [][/\ current' # current => cpu' = ctx[current']
       /\ TimerInterrupt /\ current' = current => cpu' = cpu]_vars

\* While a task runs in user mode, or its system call is served, the stack
\* the TSS names is its own, and in kernel mode the stack pointer is on its
\* own stack or on that of a task it is building.
OnOwnStack ==
    current # None =>
        /\ tss = current
        /\ cpu["cs"] = Selector("kernel") =>
              \/ Stack(cpu["rsp"]) = current
              \/ /\ Stack(cpu["rsp"]) \in Tasks
                 /\ life[Stack(cpu["rsp"])] = "building"

\* The handler of a system call reads, through the SysCallCtx it is given,
\* the registers the caller made the call with.
HandlerSeesCall ==
    RunsAt("syscall") =>
        \A i \in DOMAIN SysCallCtx :
            mem[current][Field(Sp(current, 16), SysCallCtx[i])] = call[current][SysCallCtx[i]]

\* A system call gives back every register but rax, rdx and the vector state
\* as the caller had it, however often the call was preempted: also those the
\* stub does not push.
SysCallKeepsRegisters ==
    [][(RunsAt("syscall_exit") /\ cpu'["cs"] = Selector("user") /\ current' = current)
           => \A r \in Regs \ {"rax", "rdx", "xmm"} : cpu'[r] = call[current][r]]_vars

\* Whatever is popped into rip is the address of code, and a kernel task
\* whose function returns comes to kernel_return_trampoline with its own
\* TaskExitInfo as the second argument and its result as the first.
ReturnsToTrampoline ==
    /\ cpu["rip"][1] = "code"
    /\ RunsAt("stub") => Kernel(current)
    /\ RunsAt("trampoline") => cpu["rsi"] = Exit(current) /\ cpu["rdi"] = cpu["rax"]

\* A kernel task runs on the page table of the kernel, the one its KTaskInfo
\* holds.
KernelTaskOnKernelTable ==
    (RunsAt("kernel") /\ current # None) => cpu["cr3"] = Root(None)

=============================================================================
