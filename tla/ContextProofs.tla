--------------------------- MODULE ContextProofs ---------------------------
(***************************************************************************)
(* Proofs about Context, for any number of tasks and any register          *)
(* contents: a task goes on with the registers it was left with, on its    *)
(* own stack; the handler of a system call sees the registers of the call, *)
(* and the caller gets back all but its results; a kernel task that        *)
(* returns comes to kernel_return_trampoline.                              *)
(***************************************************************************)
EXTENDS ContextLemmas

\* Steps are proved by SMT unless they name another prover.
USE SMTT(30)

-----------------------------------------------------------------------------
(* The actions, one by one.                                                *)

\* In kernel mode, a user task's page table is its own.
OnTable(x, r, I) ==
    /\ r["cs"] = Selector("kernel")
    /\ (x \in Tasks /\ I[x].kind # "kernel") => r["cr3"] = Root(I[x].table)

\* Where a task is says what its stack holds.
LEMMA ByLabel ==
    ASSUME NEW x, NEW r, NEW M, NEW I, NEW C, NEW L, Shaped(x, r, M, I, C, L),
           NEW l, r["rip"] = Code(l)
    PROVE  /\ l = "user" => User(x, r, I[x])
           /\ l # "user" => OnTable(x, r, I)
           /\ l \in Labels => \E n \in 0 .. 21 : Resting(x, l, n, M[x], r, I[x], C[x], L[x])
           /\ l = "yielded" => Yields(x, r, M, I, C, L)
           /\ l = "syscall_exit" => Answers(x, r, M, I, C)
           /\ l = "stub" => Returns(x, r, M, I)
           /\ l = "trampoline" => Ends(x, r)
           /\ l \in {"init_words", "init_done"} => Builds(x, r, M, I, C, L)
<1> USE DEF Labels
<1>1. CASE User(x, r, I[x])
  <2>1. l = "user"
    BY <1>1, WordFacts, Zenon DEF User
  <2> QED BY <1>1, <2>1, Zenon
<1>2. CASE ~User(x, r, I[x])
  <2>0. OnTable(x, r, I) /\ InKernel(x, r, M, I, C, L)
    BY <1>2, Zenon DEF Shaped, OnTable
  <2>1. CASE Rests(x, r, M, I, C, L)
    <3>1. PICK k \in Labels, n \in 0 .. 21 : Resting(x, k, n, M[x], r, I[x], C[x], L[x])
      BY <2>1, Zenon DEF Rests
    <3>2. k = l
      BY <3>1, WordFacts, Zenon DEF Resting
    <3> QED BY <2>0, <3>1, <3>2, Zenon
  <2>2. CASE Yields(x, r, M, I, C, L)
    <3>1. l = "yielded"
      BY <2>2, WordFacts, Zenon DEF Yields
    <3> QED BY <2>0, <2>2, <3>1, Zenon
  <2>3. CASE Answers(x, r, M, I, C)
    <3>1. l = "syscall_exit"
      BY <2>3, WordFacts, Zenon DEF Answers
    <3> QED BY <2>0, <2>3, <3>1, Zenon
  <2>4. CASE Returns(x, r, M, I)
    <3>1. l = "stub"
      BY <2>4, WordFacts, Zenon DEF Returns
    <3> QED BY <2>0, <2>4, <3>1, Zenon
  <2>5. CASE Ends(x, r)
    <3>1. l = "trampoline"
      BY <2>5, WordFacts, Zenon DEF Ends
    <3> QED BY <2>0, <2>5, <3>1, Zenon
  <2>6. CASE Builds(x, r, M, I, C, L)
    <3>1. PICK u \in Tasks : AtBuild(u, r, M[u], I[u], L[u])
      BY <2>6, Zenon DEF Builds
    <3>2. l \in {"init_words", "init_done"}
      BY <3>1, WordFacts, Zenon DEF AtBuild
    <3> QED BY <2>0, <2>6, <3>2, Zenon
  <2> QED BY <2>0, <2>1, <2>2, <2>3, <2>4, <2>5, <2>6, Zenon DEF InKernel
<1> QED BY <1>1, <1>2, Zenon

\* What the invariant says of the running task.
LEMMA InvFacts ==
    ASSUME Inv
    PROVE  /\ IsMem(mem) /\ current \in Slots /\ Shaped(current, cpu, mem, info, call, life)
           /\ DOMAIN krsp = Tasks /\ DOMAIN life = Tasks /\ DOMAIN info = Tasks
           /\ DOMAIN ctx = Tasks /\ DOMAIN call = Tasks /\ IsRegs(cpu) /\ tss = current
           /\ current \in Tasks => life[current] \in {"ready", "zombie"}
  BY Zenon DEF Inv, InvOf, Shaped

\* A step of the running task that leaves the other tasks and its own stack's
\* place as they are.
LEMMA OwnStep ==
    ASSUME Inv, NEW r, NEW M, NEW C, NEW stk, DOMAIN stk = 1 .. Depth,
           Replaces(M, mem, current, stk), Home(current, cpu) = current,
           DOMAIN C = Tasks, \A t \in Tasks \ {current} : C[t] = call[t],
           NEW L, DOMAIN L = Tasks, \A t \in Tasks \ {current} : L[t] = life[t],
           current \in Tasks => L[current] \in {"ready", "zombie"},
           Home(current, r) = current, Shaped(current, r, M, info, C, L)
    PROVE  InvOf(r, M, krsp, current, L, info, ctx, C)
<1>1. Local(cpu, mem, krsp, current, life, info, ctx, call, r, M, krsp, L, ctx, C)
  BY InvFacts, Zenon DEF Local, Replaces
<1> QED BY <1>1, LocalStep DEF Inv

\* Only init_kernel_task runs on the stack of another task.
LEMMA HomeOther ==
    ASSUME NEW x, NEW r, NEW l, r["rip"] = Code(l), l \notin {"init_words", "init_done"}
    PROVE  Home(x, r) = x
  BY WordFacts, Zenon DEF Home

\* The ret of the yield stub keeps the invariant: the task goes on where it
\* called.
LEMMA YieldReturnStep ==
    ASSUME Inv, YieldReturn
    PROVE  InvOf(cpu', mem', krsp', current', life', info', ctx', call') /\ tss' = current'
<1>1. cpu["rip"] = Code("yielded") /\ Ret(cpu)
  BY Zenon DEF YieldReturn, RunsAt
<1>2. /\ krsp' = krsp /\ tss' = tss /\ current' = current /\ life' = life /\ info' = info
      /\ ctx' = ctx /\ call' = call
  BY Zenon DEF YieldReturn
<1>3. Yields(current, cpu, mem, info, call, life) /\ OnTable(current, cpu, info)
  BY <1>1, InvFacts, ByLabel
<1>4. PICK l \in Labels, n \in 0 .. 21 :
         Called(current, cpu["rsp"], l, n, mem[current], info[current], call[current],
                life[current])
  BY <1>3, Zenon DEF Yields
<1> DEFINE stk == Cut(mem[current], n)
<1>5. /\ cpu["rsp"] = Sp(current, n + 1) /\ mem[current][n + 1] = Code(l)
      /\ Ground(current, l, n, mem[current], info[current], call[current], life[current])
      /\ n \in Nat /\ n <= Depth
  BY <1>4, DepthHolds DEF Called
<1>6. /\ Returned(cpu, cpu', current, n, Code(l))
      /\ mem' = [mem EXCEPT ![current] = stk]
  BY <1>1, <1>5, InvFacts, RetFacts
<1>7. DOMAIN stk = 1 .. Depth /\ \A j \in 1 .. n : stk[j] = mem[current][j]
  BY <1>5, CutFacts, Zenon
<1> HIDE DEF stk
<1>a. Replaces(mem', mem, current, stk)
  BY <1>6, <1>7, InvFacts, StackFacts, Zenon
<1>8. mem'[current] = stk
  BY <1>a, Zenon DEF Replaces
<1>9. Ground(current, l, n, stk, info[current], call[current], life[current])
  BY <1>5, <1>7, GroundFrame, Zenon
<1>10. Resting(current, l, n, mem'[current], cpu', info[current], call[current], life[current])
  BY <1>6, <1>8, <1>9, Zenon DEF Resting, Returned
<1>11. Shaped(current, cpu', mem', info, call, life)
  BY <1>3, <1>6, <1>10, Zenon DEF Shaped, InKernel, Rests, OnTable, Returned
<1>12. Home(current, cpu) = current /\ Home(current, cpu') = current
  BY <1>1, <1>6, HomeOther DEF Returned, Labels
<1>13. InvOf(cpu', mem', krsp, current, life, info, ctx, call)
  BY <1>7, <1>a, <1>11, <1>12, InvFacts, OwnStep, Zenon
<1> QED BY <1>2, <1>13, InvFacts, Zenon

\* The return of a kernel task's function keeps the invariant: it comes to
\* return_trampoline_stub.
LEMMA KernelReturnStep ==
    ASSUME Inv, KernelReturn
    PROVE  InvOf(cpu', mem', krsp', current', life', info', ctx', call') /\ tss' = current'
<1>1. cpu["rip"] = Code("kernel") /\ current # None
  BY Zenon DEF KernelReturn, RunsAt
<1>2. /\ krsp' = krsp /\ tss' = tss /\ current' = current /\ life' = life /\ info' = info
      /\ ctx' = ctx /\ call' = call
  BY Zenon DEF KernelReturn
<1>3. PICK regs \in Computed(cpu, "kernel") : Ret(regs)
  BY Zenon DEF KernelReturn
<1>4. IsRegs(regs) /\ \A x \in Regs \ Data : regs[x] = cpu[x]
  BY InvFacts, ComputedFacts, Zenon DEF Rings
<1>5. OnTable(current, cpu, info)
  BY <1>1, InvFacts, ByLabel
<1>6. PICK n \in 0 .. 21 : Resting(current, "kernel", n, mem[current], cpu, info[current],
                                  call[current], life[current])
  BY <1>1, InvFacts, ByLabel, Zenon DEF Labels
<1>7. /\ current \in Tasks /\ info[current].kind = "kernel" /\ n = 4
      /\ AtReturn(mem[current], current) /\ cpu["rsp"] = Sp(current, 4)
  BY <1>1, <1>6, Zenon DEF Resting, Ground
<1> DEFINE stk == Cut(mem[current], 3)
<1>8. regs["rsp"] = Sp(current, 4) /\ mem[current][4] = Code("stub") /\ 4 = 3 + 1
  BY <1>4, <1>7, Registers DEF AtReturn
<1>9. /\ Returned(regs, cpu', current, 3, Code("stub"))
      /\ mem' = [mem EXCEPT ![current] = stk]
  BY <1>3, <1>8, InvFacts, RetFacts
<1>10. DOMAIN stk = 1 .. Depth /\ stk[2] = Code("trampoline") /\ stk[3] = Exit(current)
  BY <1>7, DepthHolds, CutFacts DEF AtReturn
<1> HIDE DEF stk
<1>a. Replaces(mem', mem, current, stk)
  BY <1>9, <1>10, InvFacts, StackFacts, Zenon
<1>11. mem'[current] = stk
  BY <1>a, Zenon DEF Replaces
<1>12. Returns(current, cpu', mem', info) /\ IsRegs(cpu')
  BY <1>7, <1>9, <1>10, <1>11, Zenon DEF Returns, Returned
<1>13. cpu'["cs"] = Selector("kernel")
  BY <1>4, <1>5, <1>9, Registers, Zenon DEF Returned, OnTable
<1>14. Shaped(current, cpu', mem', info, call, life)
  BY <1>7, <1>12, <1>13, Zenon DEF Shaped, InKernel
<1>15. Home(current, cpu) = current /\ Home(current, cpu') = current
  BY <1>1, <1>9, HomeOther DEF Returned
<1>16. InvOf(cpu', mem', krsp, current, life, info, ctx, call)
  BY <1>10, <1>a, <1>14, <1>15, InvFacts, OwnStep, Zenon
<1> QED BY <1>2, <1>16, InvFacts, Zenon

\* return_trampoline_stub keeps the invariant: it comes to
\* kernel_return_trampoline with the task's TaskExitInfo and the result.
LEMMA TrampolineStubStep ==
    ASSUME Inv, TrampolineStub
    PROVE  InvOf(cpu', mem', krsp', current', life', info', ctx', call') /\ tss' = current'
<1> DEFINE regs == Set(cpu, [rsi |-> mem[current][3], rdi |-> cpu["rax"],
                             rsp |-> Sp(current, 2)])
           stk == Cut(mem[current], 1)
<1>1. cpu["rip"] = Code("stub")
  BY Zenon DEF TrampolineStub, RunsAt
<1>2. /\ krsp' = krsp /\ tss' = tss /\ current' = current /\ life' = life /\ info' = info
      /\ ctx' = ctx /\ call' = call
  BY Zenon DEF TrampolineStub
<1>3. Returns(current, cpu, mem, info) /\ OnTable(current, cpu, info)
  BY <1>1, InvFacts, ByLabel
<1>4. /\ cpu["rsp"] = Sp(current, 3) /\ current \in Tasks /\ info[current].kind = "kernel"
      /\ mem[current][2] = Code("trampoline") /\ mem[current][3] = Exit(current)
  BY <1>3, Zenon DEF Returns
<1>5. Ret(regs)
  <2>1. Stack(cpu["rsp"]) = current /\ Pos(cpu["rsp"]) = 3 /\ 3 - 1 = 2
    BY <1>4, WordFacts
  <2>2. Pos(cpu["rsp"]) - 1 = 2
    BY <2>1, Zenon
  <2> QED BY <2>1, <2>2, Zenon DEF TrampolineStub
<1>6. /\ regs["rsp"] = Sp(current, 2) /\ regs["rsi"] = Exit(current)
      /\ regs["rdi"] = cpu["rax"] /\ regs["rax"] = cpu["rax"] /\ regs["cs"] = cpu["cs"]
  BY <1>4, Registers, Zenon DEF Set
<1> HIDE DEF regs
<1>7. /\ Returned(regs, cpu', current, 1, Code("trampoline"))
      /\ mem' = [mem EXCEPT ![current] = stk]
  BY <1>4, <1>5, <1>6, InvFacts, RetFacts
<1>8. DOMAIN stk = 1 .. Depth
  BY DepthHolds, CutFacts
<1> HIDE DEF stk
<1>a. Replaces(mem', mem, current, stk)
  BY <1>7, <1>8, InvFacts, StackFacts, Zenon
<1>9. \A x \in Data : cpu'[x] = regs[x]
  BY <1>7, WordFacts, Zenon DEF Returned
<1>10. Ends(current, cpu') /\ IsRegs(cpu') /\ cpu'["cs"] = Selector("kernel")
  BY <1>3, <1>4, <1>6, <1>7, <1>9, Registers, Zenon DEF Ends, Returned, OnTable
<1>11. Shaped(current, cpu', mem', info, call, life)
  BY <1>4, <1>10, Zenon DEF Shaped, InKernel
<1>12. Home(current, cpu) = current /\ Home(current, cpu') = current
  BY <1>1, <1>7, HomeOther DEF Returned
<1>13. InvOf(cpu', mem', krsp, current, life, info, ctx, call)
  BY <1>8, <1>a, <1>11, <1>12, InvFacts, OwnStep, Zenon
<1> QED BY <1>2, <1>13, InvFacts, Zenon

\* The end of a task keeps the invariant.
LEMMA ExitTaskStep ==
    ASSUME Inv, ExitTask
    PROVE  InvOf(cpu', mem', krsp', current', life', info', ctx', call') /\ tss' = current'
<1>1. /\ mem' = mem /\ krsp' = krsp /\ tss' = tss /\ current' = current /\ info' = info
      /\ ctx' = ctx /\ call' = call
      /\ life' = [life EXCEPT ![current] = "zombie"]
      /\ cpu' = Set(cpu, [rip |-> Code("exited")])
  BY Zenon DEF ExitTask
<1>2. PICK n \in {1, 21} : current \in Tasks /\ cpu["rsp"] = Sp(current, n)
  <2>1. CASE cpu["rip"] = Code("trampoline")
    <3>1. Ends(current, cpu)
      BY <2>1, InvFacts, ByLabel, Zenon
    <3> QED BY <3>1, Zenon DEF Ends
  <2>2. CASE cpu["rip"] = Code("syscall")
    <3>1. PICK m \in 0 .. 21 : Resting(current, "syscall", m, mem[current], cpu, info[current],
                                      call[current], life[current])
      BY <2>2, InvFacts, ByLabel, Zenon DEF Labels
    <3> QED BY <3>1, Zenon DEF Resting, Ground, User
  <2> QED BY <2>1, <2>2, Zenon DEF ExitTask, RunsAt
<1>3. OnTable(current, cpu, info) /\ Home(current, cpu) = current
  <2>1. CASE cpu["rip"] = Code("trampoline")
    BY <2>1, InvFacts, ByLabel, HomeOther
  <2>2. CASE cpu["rip"] = Code("syscall")
    BY <2>2, InvFacts, ByLabel, HomeOther
  <2> QED BY <2>1, <2>2, Zenon DEF ExitTask, RunsAt
<1>4. /\ IsRegs(cpu') /\ cpu'["rip"] = Code("exited") /\ cpu'["rsp"] = Sp(current, n)
      /\ cpu'["cs"] = cpu["cs"] /\ cpu'["cr3"] = cpu["cr3"]
  BY <1>1, <1>2, Registers, Zenon DEF Set, IsRegs
<1>5. /\ DOMAIN life' = Tasks /\ life'[current] = "zombie"
      /\ \A t \in Tasks \ {current} : life'[t] = life[t]
  BY <1>1, <1>2, InvFacts, Zenon
<1>6. n \in 0 .. 21 /\ "exited" \in Labels
  BY DEF Labels
<1>7. Resting(current, "exited", n, mem[current], cpu', info[current], call[current],
              life'[current])
  BY <1>2, <1>4, <1>5, Zenon DEF Resting, Ground
<1>8. Shaped(current, cpu', mem, info, call, life')
  BY <1>3, <1>4, <1>6, <1>7, Zenon DEF Shaped, InKernel, Rests, OnTable
<1>9. Home(current, cpu') = current
  BY <1>4, HomeOther
<1>10. Replaces(mem, mem, current, mem[current]) /\ DOMAIN mem[current] = 1 .. Depth
  BY InvFacts, Zenon DEF IsMem, Replaces
<1>11. InvOf(cpu', mem, krsp, current, life', info, ctx, call)
  BY <1>3, <1>5, <1>8, <1>9, <1>10, InvFacts, OwnStep, Zenon
<1> QED BY <1>1, <1>11, InvFacts, Zenon

\* A system call keeps the invariant: the TSS leads to the caller's own stack.
LEMMA SysCallStep ==
    ASSUME Inv, SysCall
    PROVE  InvOf(cpu', mem', krsp', current', life', info', ctx', call') /\ tss' = current'
<1>1. cpu["rip"] = Code("user") /\ tss = current
  BY InvFacts, Zenon DEF SysCall, RunsAt
<1>2. /\ krsp' = krsp /\ tss' = tss /\ current' = current /\ life' = life /\ info' = info
      /\ ctx' = ctx
  BY Zenon DEF SysCall
<1>3. User(current, cpu, info[current])
  BY <1>1, InvFacts, ByLabel, Zenon
<1>4. PICK regs \in Computed(cpu, "user") :
         /\ mem' = [mem EXCEPT ![current] = CallStack(mem[current], regs)]
         /\ cpu' \in Computed(Set(regs, [rsp |-> Sp(current, 21), rflags |-> Flag(TRUE),
                                         cs |-> Selector("kernel"), ss |-> Selector("kernel"),
                                         rip |-> Code("syscall")]), "kernel")
         /\ call' = [call EXCEPT ![current] = regs]
  BY <1>1, Zenon DEF SysCall, CallStack
<1> DEFINE stk == CallStack(mem[current], regs)
           entry == Set(regs, [rsp |-> Sp(current, 21), rflags |-> Flag(TRUE),
                               cs |-> Selector("kernel"), ss |-> Selector("kernel"),
                               rip |-> Code("syscall")])
<1>5. IsRegs(regs) /\ \A x \in Regs \ Data : regs[x] = cpu[x]
  BY InvFacts, ComputedFacts, Zenon DEF Rings
<1>6. User(current, regs, info[current])
  BY <1>3, <1>5, Registers, Zenon DEF User
<1>7. DOMAIN stk = 1 .. Depth /\ AtCall(stk, regs)
  BY CallWords, Zenon
<1>8. /\ entry["rsp"] = Sp(current, 21) /\ entry["cs"] = Selector("kernel")
      /\ entry["rip"] = Code("syscall") /\ entry["cr3"] = regs["cr3"]
  BY Registers, Zenon DEF Set
<1>9. cpu' \in Computed(entry, "kernel") /\ mem' = [mem EXCEPT ![current] = stk]
  BY <1>4, Zenon
<1> HIDE DEF stk, entry
<1>10. /\ IsRegs(cpu') /\ cpu'["rsp"] = Sp(current, 21) /\ cpu'["cs"] = Selector("kernel")
       /\ cpu'["rip"] = Code("syscall") /\ cpu'["cr3"] = regs["cr3"]
  <2>1. IsRegs(cpu') /\ \A x \in Regs \ Data : cpu'[x] = entry[x]
    BY <1>9, InvFacts, ComputedFacts, Zenon DEF Rings
  <2> QED BY <1>8, <2>1, Registers, Zenon
<1>11. Replaces(mem', mem, current, stk)
  BY <1>7, <1>9, InvFacts, StackFacts, Zenon
<1>12. mem'[current] = stk
  BY <1>11, Zenon DEF Replaces
<1>13. /\ current \in Tasks /\ DOMAIN call' = Tasks /\ call'[current] = regs
       /\ \A t \in Tasks \ {current} : call'[t] = call[t]
  BY <1>3, <1>4, InvFacts, Zenon DEF User
<1>14. Resting(current, "syscall", 21, mem'[current], cpu', info[current], call'[current],
               life[current])
  BY <1>6, <1>7, <1>10, <1>12, <1>13, Zenon DEF Resting, Ground
<1>15. cpu'["cr3"] = Root(info[current].table)
  BY <1>6, <1>10, Zenon DEF User
<1>16. Shaped(current, cpu', mem', info, call', life)
  <2>1. 21 \in 0 .. 21 /\ "syscall" \in Labels
    BY DEF Labels
  <2>2. Rests(current, cpu', mem', info, call', life)
    BY <1>14, <2>1, Zenon DEF Rests
  <2> QED BY <1>10, <1>15, <2>2, Zenon DEF Shaped, InKernel
<1>17. Home(current, cpu) = current /\ Home(current, cpu') = current
  BY <1>1, <1>10, HomeOther
<1>18. InvOf(cpu', mem', krsp, current, life, info, ctx, call')
  BY <1>7, <1>11, <1>13, <1>16, <1>17, InvFacts, OwnStep, Zenon
<1> QED BY <1>2, <1>18, InvFacts, Zenon

\* The return of the handler keeps the invariant.
LEMMA SysReturnStep ==
    ASSUME Inv, SysReturn
    PROVE  InvOf(cpu', mem', krsp', current', life', info', ctx', call') /\ tss' = current'
<1>1. cpu["rip"] = Code("syscall")
  BY Zenon DEF SysReturn, RunsAt
<1>2. /\ krsp' = krsp /\ tss' = tss /\ current' = current /\ life' = life /\ info' = info
      /\ ctx' = ctx /\ call' = call
  BY Zenon DEF SysReturn
<1>3. PICK n \in 0 .. 21 : Resting(current, "syscall", n, mem[current], cpu, info[current],
                                  call[current], life[current])
  BY <1>1, InvFacts, ByLabel, Zenon DEF Labels
<1>4. /\ n = 21 /\ cpu["rsp"] = Sp(current, 21) /\ User(current, call[current], info[current])
      /\ AtCall(mem[current], call[current])
  BY <1>3, Zenon DEF Resting, Ground
<1>5. OnTable(current, cpu, info)
  BY <1>1, InvFacts, ByLabel
<1> DEFINE c == call[current]
           m == mem[current]
           regs == Popped(m, 21, CalleePos, cpu)
<1>6. /\ \E res \in {"bad", "err", "ok"} :
            mem' = [mem EXCEPT ![current] = Cut(Answer(Sp(current, 16), m, res), 16)]
      /\ cpu' = Set(regs, [rip |-> m[17], rsp |-> Sp(current, 16)])
  <2>1. Stack(cpu["rsp"]) = current /\ Pos(cpu["rsp"]) = 21
    BY <1>4, WordFacts
  <2>2. Pos(cpu["rsp"]) - 5 = 16 /\ Pos(cpu["rsp"]) - 4 = 17
    BY <2>1
  <2> QED BY <2>1, <2>2, Zenon DEF SysReturn
<1>7. PICK res \in {"bad", "err", "ok"} :
         mem' = [mem EXCEPT ![current] = Cut(Answer(Sp(current, 16), m, res), 16)]
  BY <1>6, Zenon
<1> DEFINE stk == Cut(Answer(Sp(current, 16), m, res), 16)
<1>8. DOMAIN m = 1 .. Depth
  BY InvFacts, Zenon DEF IsMem
<1>9. DOMAIN stk = 1 .. Depth /\ AtAnswer(stk, c)
  BY <1>4, <1>8, AnswerFacts, Zenon
<1>10. /\ \A i \in 1 .. 4 : regs[CalleeSaved[i]] = c[CalleeSaved[i]]
       /\ regs["cs"] = cpu["cs"] /\ regs["cr3"] = cpu["cr3"]
  BY <1>4, CalleeFacts
<1>11. m[17] = Code("syscall_exit")
  BY <1>4, Zenon DEF AtCall
<1>12. mem' = [mem EXCEPT ![current] = stk]
  BY <1>7, Zenon
<1> HIDE DEF regs, stk, c, m
<1>13. /\ IsRegs(cpu') /\ cpu'["rip"] = Code("syscall_exit") /\ cpu'["rsp"] = Sp(current, 16)
       /\ cpu'["cs"] = cpu["cs"] /\ cpu'["cr3"] = cpu["cr3"]
       /\ \A i \in 1 .. 4 : cpu'[CalleeSaved[i]] = c[CalleeSaved[i]]
  <2>1. \A i \in 1 .. 4 : CalleeSaved[i] \in Regs /\ CalleeSaved[i] \notin {"rip", "rsp"}
    BY DEF CalleeSaved, Regs, Data
  <2> QED BY <1>6, <1>10, <1>11, <2>1, Registers, Zenon DEF Set, IsRegs
<1>14. Replaces(mem', mem, current, stk)
  BY <1>9, <1>12, InvFacts, StackFacts, Zenon
<1>15. mem'[current] = stk
  BY <1>14, Zenon DEF Replaces
<1>16. Answers(current, cpu', mem', info, call)
  BY <1>4, <1>9, <1>13, <1>15, Zenon DEF Answers, c
<1>17. Shaped(current, cpu', mem', info, call, life)
  BY <1>5, <1>13, <1>16, Zenon DEF Shaped, InKernel, OnTable
<1>18. Home(current, cpu) = current /\ Home(current, cpu') = current
  BY <1>1, <1>13, HomeOther
<1>19. InvOf(cpu', mem', krsp, current, life, info, ctx, call)
  BY <1>9, <1>14, <1>17, <1>18, InvFacts, OwnStep, Zenon
<1> QED BY <1>2, <1>19, InvFacts, Zenon

\* The end of syscall_stub keeps the invariant, and the caller has back every
\* register but rax, rdx and the vector state.
LEMMA SysExitStep ==
    ASSUME Inv, SysExit
    PROVE  /\ InvOf(cpu', mem', krsp', current', life', info', ctx', call') /\ tss' = current'
           /\ \A x \in Regs \ {"rax", "rdx", "xmm"} : cpu'[x] = call[current][x]
<1>1. cpu["rip"] = Code("syscall_exit")
  BY Zenon DEF SysExit, RunsAt
<1>2. /\ krsp' = krsp /\ tss' = tss /\ current' = current /\ life' = life /\ info' = info
      /\ ctx' = ctx /\ call' = [call EXCEPT ![current] = Blank]
  BY Zenon DEF SysExit
<1>3. Answers(current, cpu, mem, info, call) /\ OnTable(current, cpu, info)
  BY <1>1, InvFacts, ByLabel
<1> DEFINE c == call[current]
           stk == Cut(mem[current], 0)
<1>4. /\ cpu["rsp"] = Sp(current, 16) /\ User(current, c, info[current])
      /\ AtAnswer(mem[current], c)
      /\ \A i \in 1 .. 4 : cpu[CalleeSaved[i]] = c[CalleeSaved[i]]
  BY <1>3, Zenon DEF Answers
<1>5. cpu["cr3"] = c["cr3"] /\ current \in Tasks
  BY <1>3, <1>4, Zenon DEF OnTable, User
<1>6. cpu' = Popped(mem[current], 16, SysPopPos, cpu) /\ mem' = [mem EXCEPT ![current] = stk]
  <2>1. Stack(cpu["rsp"]) = current /\ Pos(cpu["rsp"]) = 16
    BY <1>4, WordFacts
  <2>2. Pos(cpu["rsp"]) - 16 = 0
    BY <2>1
  <2> QED BY <2>1, <2>2, Zenon DEF SysExit
<1> HIDE DEF c
<1>7. IsRegs(cpu') /\ \A x \in Regs \ {"rax", "rdx", "xmm"} : cpu'[x] = c[x]
  <2>1. /\ cpu' = [x \in Regs |-> cpu'[x]]
        /\ \A x \in Regs \ {"rax", "rdx", "xmm"} : cpu'[x] = c[x]
    BY <1>4, <1>5, <1>6, ExitFacts
  <2> QED BY <2>1, Zenon DEF IsRegs
<1>8. User(current, cpu', info[current])
  BY <1>4, <1>7, Registers, Zenon DEF User
<1>9. Shaped(current, cpu', mem', info, call', life)
  BY <1>7, <1>8, Zenon DEF Shaped
<1>10. DOMAIN stk = 1 .. Depth
  BY DepthHolds, CutFacts
<1> HIDE DEF stk
<1>11. Replaces(mem', mem, current, stk)
  BY <1>6, <1>10, InvFacts, StackFacts, Zenon
<1>12. DOMAIN call' = Tasks /\ \A t \in Tasks \ {current} : call'[t] = call[t]
  BY <1>2, InvFacts, Zenon
<1>13. Home(current, cpu) = current /\ Home(current, cpu') = current
  BY <1>1, <1>8, HomeOther DEF User
<1>14. InvOf(cpu', mem', krsp, current, life, info, ctx, call')
  BY <1>9, <1>10, <1>11, <1>12, <1>13, InvFacts, OwnStep, Zenon
<1> QED BY <1>2, <1>7, <1>14, InvFacts, Zenon DEF c

\* A timer interrupt keeps the invariant, wherever it comes: the task goes on
\* as it was, or another one as it was left.
LEMMA TimerStep ==
    ASSUME Inv, TimerInterrupt
    PROVE  /\ InvOf(cpu', mem', krsp', current', life', info', ctx', call') /\ tss' = current'
           /\ current' = current => cpu' = cpu
           /\ current' # current => cpu' = ctx[current']
<1> DEFINE h == Home(current, cpu)
<1>1. h \in Slots /\ DOMAIN mem[h] = 1 .. Depth
  BY InvFacts, HomeIs, Zenon DEF IsMem, Slots
<1>2. Shaped(current, cpu, [mem EXCEPT ![h] = mem[h]], info, call, life)
  <2> DEFINE M == [mem EXCEPT ![h] = mem[h]]
  <2>1. Replaces(M, mem, h, mem[h])
    BY <1>1, InvFacts, StackFacts, Zenon
  <2> HIDE DEF M
  <2>2. M[current] = mem[current] /\ M[h] = mem[h]
    BY <1>1, <2>1, InvFacts, Zenon DEF Replaces
  <2>3. Same(current, cpu, mem, info, call, life, M, info, call, life)
    BY <2>2, Zenon DEF Same
  <2> QED BY <2>3, InvFacts, ShapedFrame DEF M
<1>3. PICK n \in 0 .. 27 : /\ ContextSwitch(cpu, mem[h], h, n)
                           /\ cpu["cs"] # Selector("user") => cpu["rsp"] = Sp(h, n)
  <2>1. CASE cpu["cs"] = Selector("user")
    <3>1. h = current /\ tss = current
      BY <2>1, InvFacts, HomeIs, Zenon
    <3>2. ContextSwitch(cpu, mem[tss], tss, 0)
      BY <2>1, Zenon DEF TimerInterrupt
    <3> QED BY <2>1, <3>1, <3>2
  <2>2. CASE cpu["cs"] # Selector("user")
    <3>1. PICK n \in 0 .. 27 : cpu["rsp"] = Sp(h, n)
      BY <2>2, InvFacts, HomeIs
    <3>2. Stack(cpu["rsp"]) = h /\ Pos(cpu["rsp"]) = n
      BY <3>1, WordFacts, Zenon
    <3>3. ContextSwitch(cpu, mem[Stack(cpu["rsp"])], Stack(cpu["rsp"]), Pos(cpu["rsp"]))
      BY <2>2, Zenon DEF TimerInterrupt
    <3> QED BY <3>1, <3>2, <3>3, Zenon
  <2> QED BY <2>1, <2>2, Zenon
<1> HIDE DEF h
<1>4. h = Home(current, cpu)
  BY Zenon DEF h
<1> QED BY <1>1, <1>2, <1>3, <1>4, InvFacts, SwitchStep, Zenon

\* A call: the return address w lies on top of the n words there were.
Calls(stk2, stk, n, w) ==
    /\ DOMAIN stk2 = 1 .. Depth /\ stk2[n + 1] = w
    /\ \A j \in 1 .. n : stk2[j] = stk[j]

\* What a call instruction pushes.
LEMMA PushOne ==
    ASSUME NEW stk, NEW n \in 0 .. 21, NEW w
    PROVE  Calls(Push(stk, n, <<w>>), stk, n, w)
  BY DepthHolds DEF Push, Calls

\* sys_yield keeps the invariant: another task goes on as it was left.
LEMMA YieldStep ==
    ASSUME Inv, SysYield
    PROVE  /\ InvOf(cpu', mem', krsp', current', life', info', ctx', call') /\ tss' = current'
           /\ current' # current => cpu' = ctx[current']
<1>1. PICK l \in Labels : cpu["rip"] = Code(l)
  BY Zenon DEF SysYield, InKernelCode, RunsAt, Labels
<1>2. PICK n \in 0 .. 21 : Resting(current, l, n, mem[current], cpu, info[current],
                                  call[current], life[current])
  BY <1>1, InvFacts, ByLabel, Zenon
<1>3. OnTable(current, cpu, info)
  BY <1>1, InvFacts, ByLabel, Zenon DEF Labels
<1>4. /\ cpu["rsp"] = Sp(current, n)
      /\ Ground(current, l, n, mem[current], info[current], call[current], life[current])
  BY <1>2, Zenon DEF Resting
<1> DEFINE stk == Push(mem[current], n, <<cpu["rip"]>>)
           M == [mem EXCEPT ![current] = stk]
           Yielded(regs) == Set(regs, [rdi |-> Selector("kernel"), rsi |-> Selector("kernel"),
                                       rax |-> Code("yielded"), rip |-> Code("yielded"),
                                       rsp |-> Sp(current, n + 1)])
<1>5. PICK regs \in Computed(cpu, "kernel") :
         ContextSwitch(Yielded(regs), stk, current, n + 1)
  <2>1. Stack(cpu["rsp"]) = current /\ Pos(cpu["rsp"]) = n
    BY <1>4, WordFacts, Zenon
  <2> QED BY <2>1, Zenon DEF SysYield
<1> DEFINE q == Yielded(regs)
<1>6. IsRegs(regs) /\ \A x \in Regs \ Data : regs[x] = cpu[x]
  BY InvFacts, ComputedFacts, Zenon DEF Rings
<1>7. /\ IsRegs(q) /\ q["rip"] = Code("yielded") /\ q["rsp"] = Sp(current, n + 1)
      /\ q["cs"] = regs["cs"] /\ q["cr3"] = regs["cr3"]
  BY Registers, Zenon DEF Set, IsRegs
<1>c. Calls(stk, mem[current], n, cpu["rip"])
  BY PushOne, Zenon
<1>9. ContextSwitch(q, stk, current, n + 1)
  BY <1>5, Zenon
<1> HIDE DEF stk, q
<1>8. DOMAIN stk = 1 .. Depth /\ stk[n + 1] = Code(l)
      /\ \A j \in 1 .. n : stk[j] = mem[current][j]
  BY <1>1, <1>c, Zenon DEF Calls
<1>10. Replaces(M, mem, current, stk)
  BY <1>8, InvFacts, StackFacts, Zenon
<1>11. M[current] = stk
  BY <1>10, Zenon DEF Replaces
<1> HIDE DEF M
<1>12. Ground(current, l, n, stk, info[current], call[current], life[current])
  <2>1. n \in Nat
    OBVIOUS
  <2> QED BY <1>4, <1>8, <2>1, GroundFrame, Zenon
<1>13. Called(current, q["rsp"], l, n, M[current], info[current], call[current], life[current])
  BY <1>7, <1>8, <1>11, <1>12, Zenon DEF Called
<1>14. Yields(current, q, M, info, call, life)
  BY <1>7, <1>13, Zenon DEF Yields
<1>15. Shaped(current, q, M, info, call, life)
  BY <1>3, <1>6, <1>7, <1>14, Registers, Zenon DEF Shaped, InKernel, OnTable
<1>16. Home(current, q) = current /\ Home(current, cpu) = current
  BY <1>1, <1>7, HomeOther DEF Labels
<1>17. n + 1 \in 0 .. 27
  OBVIOUS
<1>18. Shaped(current, q, [mem EXCEPT ![current] = stk], info, call, life)
  BY <1>15, Zenon DEF M
<1> QED BY <1>7, <1>8, <1>9, <1>16, <1>17, <1>18, SwitchStep, Zenon

\* A step of the running task that builds u, and leaves the other tasks as
\* they are.
Spawns(r, M, K, cur, L, I, X, C, r2, M2, K2, L2, I2, X2, u) ==
    /\ u \in Tasks /\ u # cur /\ L[u] # "ready"
    /\ \A t \in Waiting(cur, L) : Home(t, X[t]) # u
    /\ IsMem(M2) /\ DOMAIN K2 = Tasks /\ DOMAIN L2 = Tasks
    /\ DOMAIN I2 = Tasks /\ DOMAIN X2 = Tasks
    /\ \A t \in Tasks \ {u} :
          K2[t] = K[t] /\ L2[t] = L[t] /\ I2[t] = I[t] /\ X2[t] = X[t]
    /\ \A s \in Slots \ {u, cur} : M2[s] = M[s]
    /\ Shaped(cur, r2, M2, I2, C, L2)
    /\ \/ L2[u] = "building" /\ Home(cur, r2) = u
       \/ /\ L2[u] = "ready" /\ Home(cur, r2) = cur
          /\ Parked(u, M2, K2, L2, I2, X2, C) /\ Home(u, X2[u]) = u

\* Building a task keeps the invariant.
LEMMA SpawnStep ==
    ASSUME NEW r, NEW M, NEW K, NEW cur, NEW L, NEW I, NEW X, NEW C,
           NEW r2, NEW M2, NEW K2, NEW L2, NEW I2, NEW X2, NEW u,
           InvOf(r, M, K, cur, L, I, X, C),
           Spawns(r, M, K, cur, L, I, X, C, r2, M2, K2, L2, I2, X2, u)
    PROVE  InvOf(r2, M2, K2, cur, L2, I2, X2, C)
<1>1. ASSUME NEW t \in Waiting(cur, L2), t # u
      PROVE  /\ t \in Waiting(cur, L) /\ X2[t] = X[t] /\ Home(t, X[t]) # u
             /\ Home(t, X[t]) # Home(cur, r2) /\ Parked(t, M2, K2, L2, I2, X2, C)
  <2> DEFINE h == Home(t, X[t])
  <2>1. t \in Tasks \ {u} /\ L2[t] = L[t] /\ t # cur /\ t \in Waiting(cur, L)
    BY <1>1, Zenon DEF Waiting, Spawns
  <2>2. h \in Tasks /\ h # cur /\ h # u /\ Parked(t, M, K, L, I, X, C)
    BY <2>1, WaitingFacts DEF Spawns
  <2>3. /\ M2[t] = M[t] /\ M2[h] = M[h] /\ K2[t] = K[t] /\ X2[t] = X[t] /\ I2[t] = I[t]
        /\ I2[h] = I[h] /\ L2[h] = L[h]
    BY <2>1, <2>2, Zenon DEF Spawns, Slots
  <2>4. Parked(t, M2, K2, L2, I2, X2, C)
    <3>1. Unmoved(t, Home(t, X[t]), M, K, L, I, X, C, M2, K2, L2, I2, X2, C)
      BY <2>1, <2>3, Zenon DEF Unmoved
    <3> QED BY <2>2, <3>1, ParkedFrame, Zenon
  <2>5. Home(cur, r2) \in {cur, u}
    BY Zenon DEF Spawns
  <2> QED BY <2>1, <2>2, <2>3, <2>4, <2>5, Zenon
<1>2. ASSUME u \in Waiting(cur, L2)
      PROVE  /\ Parked(u, M2, K2, L2, I2, X2, C) /\ Home(u, X2[u]) = u
             /\ Home(cur, r2) # u
  <2>1. L2[u] = "ready"
    BY <1>2, Zenon DEF Waiting
  <2> QED BY <2>1, Zenon DEF Spawns
<1>3. \A t \in Waiting(cur, L2) :
         Parked(t, M2, K2, L2, I2, X2, C) /\ Home(t, X2[t]) # Home(cur, r2)
  BY <1>1, <1>2, Zenon
<1>4. \A t, v \in Waiting(cur, L2) : Home(t, X2[t]) = Home(v, X2[v]) => t = v
  <2>1. \A t, v \in Waiting(cur, L) : Home(t, X[t]) = Home(v, X[v]) => t = v
    BY Zenon DEF InvOf
  <2> QED BY <1>1, <1>2, <2>1, Zenon
<1>5. cur \in Tasks => L2[cur] \in {"ready", "zombie"}
  BY Zenon DEF Spawns, InvOf
<1> QED BY <1>3, <1>4, <1>5, Zenon DEF InvOf, Spawns

\* The pushes of init_kernel_task keep the invariant, on the stack of the new
\* task.
LEMMA InitWordsStep ==
    ASSUME Inv, InitWords
    PROVE  InvOf(cpu', mem', krsp', current', life', info', ctx', call') /\ tss' = current'
<1>1. cpu["rip"] = Code("init_words")
  BY Zenon DEF InitWords, RunsAt
<1>2. /\ krsp' = krsp /\ tss' = tss /\ current' = current /\ life' = life /\ info' = info
      /\ ctx' = ctx /\ call' = call
  BY Zenon DEF InitWords
<1>3. OnTable(current, cpu, info) /\ Builds(current, cpu, mem, info, call, life)
  BY <1>1, InvFacts, ByLabel
<1>4. PICK l \in {"kernel", "syscall"}, n \in 0 .. 21, u \in Tasks :
        /\ current # u
        /\ Called(current, cpu["rax"], l, n, mem[current], info[current], call[current],
                  life[current])
        /\ AtBuild(u, cpu, mem[u], info[u], life[u])
  BY <1>3, Zenon DEF Builds
<1>5. /\ cpu["rsp"] = Sp(u, 0) /\ cpu["rsi"] = Exit(u) /\ cpu["rdx"] = TaskData(u)
      /\ life[u] = "building" /\ info[u].kind = "kernel"
  BY <1>1, <1>4, WordFacts, Zenon DEF AtBuild
<1> DEFINE stk == NewStack(mem[u], u, info[u].args, cpu["xmm"], Sp(u, 4), cpu["cr3"], "kernel")
<1>6. /\ mem' = [mem EXCEPT ![u] = stk]
      /\ cpu' = Set(cpu, [r8 |-> Sp(u, 4), r9 |-> Sp(u, 25), rsi |-> cpu["cr3"],
                          rsp |-> Sp(u, 27), rip |-> Code("init_done")])
  <2>1. Stack(cpu["rsp"]) = u /\ Pos(cpu["rsp"]) = 0 /\ cpu["rdx"][2] = u
    BY <1>5, WordFacts DEF TaskData
  <2>2. Pos(cpu["rsp"]) + 4 = 4 /\ Pos(cpu["rsp"]) + 25 = 25 /\ Pos(cpu["rsp"]) + 27 = 27
    BY <2>1
  <2> QED BY <1>5, <2>1, <2>2, Zenon DEF InitWords, NewStack
<1>7. Built(stk, u, info[u].args, cpu["cr3"], cpu["xmm"]) /\ DOMAIN stk = 1 .. Depth
  BY BuiltWords, Zenon DEF Built
<1> HIDE DEF stk
<1>8. /\ IsRegs(cpu') /\ cpu'["rsp"] = Sp(u, 27) /\ cpu'["rip"] = Code("init_done")
      /\ cpu'["rax"] = cpu["rax"] /\ cpu'["cr3"] = cpu["cr3"] /\ cpu'["xmm"] = cpu["xmm"]
      /\ cpu'["cs"] = cpu["cs"]
  BY <1>6, Registers, Zenon DEF Set, IsRegs
<1>9. u \in Slots /\ Home(current, cpu) = u /\ Home(current, cpu') = u
  BY <1>1, <1>5, <1>8, WordFacts DEF Home, Slots
<1>10. Replaces(mem', mem, u, stk)
  BY <1>6, <1>7, <1>9, InvFacts, StackFacts, Zenon
<1>11. mem'[u] = stk /\ mem'[current] = mem[current]
  BY <1>4, <1>10, InvFacts, Zenon DEF Replaces
<1>12. AtBuild(u, cpu', mem'[u], info[u], life[u])
  BY <1>5, <1>7, <1>8, <1>11, Zenon DEF AtBuild
<1>13. Builds(current, cpu', mem', info, call, life)
  <2>1. Called(current, cpu'["rax"], l, n, mem'[current], info[current], call[current],
               life[current])
    BY <1>4, <1>8, <1>11, Zenon
  <2> QED BY <1>4, <1>12, <2>1, Zenon DEF Builds
<1>14. Shaped(current, cpu', mem', info, call, life)
  BY <1>3, <1>8, <1>13, Zenon DEF Shaped, InKernel, OnTable
<1>15. Local(cpu, mem, krsp, current, life, info, ctx, call, cpu', mem', krsp, life, ctx, call)
  BY <1>9, <1>10, <1>14, InvFacts, Zenon DEF Local, Replaces
<1>16. InvOf(cpu', mem', krsp, current, life, info, ctx, call)
  BY <1>15, LocalStep DEF Inv
<1> QED BY <1>2, <1>16, InvFacts, Zenon

\* Nobody is on the stack of a task that does not exist yet.
LEMMA NotHome ==
    ASSUME Inv, NEW u \in Tasks, life[u] = "absent"
    PROVE  u # current /\ \A t \in Waiting(current, life) : Home(t, ctx[t]) # u
<1>1. u # current
  BY InvFacts, Zenon
<1>2. ASSUME NEW t \in Waiting(current, life) PROVE Home(t, ctx[t]) # u
  BY WaitingFacts DEF Inv
<1> QED BY <1>1, <1>2, Zenon

\* The end of init_kernel_task keeps the invariant: the builder is back on its
\* own stack, and the new task can be chosen.
LEMMA InitDoneStep ==
    ASSUME Inv, InitDone
    PROVE  InvOf(cpu', mem', krsp', current', life', info', ctx', call') /\ tss' = current'
<1>1. cpu["rip"] = Code("init_done")
  BY Zenon DEF InitDone, RunsAt
<1>2. /\ tss' = tss /\ current' = current /\ info' = info /\ call' = call
  BY Zenon DEF InitDone
<1>3. OnTable(current, cpu, info) /\ Builds(current, cpu, mem, info, call, life)
  BY <1>1, InvFacts, ByLabel
<1>4. PICK l \in {"kernel", "syscall"}, n \in 0 .. 21, u \in Tasks :
        /\ current # u
        /\ Called(current, cpu["rax"], l, n, mem[current], info[current], call[current],
                  life[current])
        /\ AtBuild(u, cpu, mem[u], info[u], life[u])
  BY <1>3 DEF Builds
<1>5. /\ cpu["rsp"] = Sp(u, 27) /\ life[u] = "building" /\ info[u].kind = "kernel"
      /\ Built(mem[u], u, info[u].args, cpu["cr3"], cpu["xmm"])
  BY <1>1, <1>4, WordFacts, Zenon DEF AtBuild
<1>6. /\ cpu["rax"] = Sp(current, n + 1) /\ mem[current][n + 1] = Code(l)
      /\ Ground(current, l, n, mem[current], info[current], call[current], life[current])
      /\ n \in Nat /\ n <= Depth
  BY <1>4, DepthHolds DEF Called
<1> DEFINE q == Set(cpu, [rax |-> cpu["rsp"], rsi |-> cpu["rsp"], rsp |-> cpu["rax"]])
           stk == Cut(mem[current], n)
           new == Started(info[u].args, cpu["xmm"], Sp(u, 4), cpu["cr3"], "kernel")
<1>7. /\ Ret(q)
      /\ krsp' = [krsp EXCEPT ![u] = Sp(u, 27)]
      /\ life' = [life EXCEPT ![u] = "ready"]
      /\ ctx' = [ctx EXCEPT ![u] = new]
  <2>1. Stack(cpu["rsp"]) = u
    BY <1>5, WordFacts, Zenon
  <2> QED BY <1>5, <2>1, Zenon DEF InitDone
<1>8. q["rsp"] = Sp(current, n + 1) /\ q["cs"] = cpu["cs"] /\ q["cr3"] = cpu["cr3"]
  BY <1>6, Registers, Zenon DEF Set
<1> HIDE DEF q
<1>9. Returned(q, cpu', current, n, Code(l)) /\ mem' = [mem EXCEPT ![current] = stk]
  BY <1>6, <1>7, <1>8, InvFacts, RetFacts
<1>10. DOMAIN stk = 1 .. Depth /\ \A j \in 1 .. n : stk[j] = mem[current][j]
  BY <1>6, CutFacts, Zenon
<1>11. Begins(new, info[u].args, cpu["xmm"], Sp(u, 4), cpu["cr3"], "kernel")
  BY StartedIs, Zenon
<1>12. Holds(mem[u], 4, Saved(new, u, 4)) /\ AtReturn(mem[u], u)
  BY <1>5, Zenon DEF Built
<1> HIDE DEF stk, new
<1>13. Replaces(mem', mem, current, stk)
  BY <1>9, <1>10, InvFacts, StackFacts, Zenon
<1>14. mem'[current] = stk /\ mem'[u] = mem[u] /\ IsMem(mem')
       /\ \A s \in Slots \ {current} : mem'[s] = mem[s]
  BY <1>4, <1>13, Zenon DEF Replaces, Slots
<1>15. /\ DOMAIN krsp' = Tasks /\ DOMAIN life' = Tasks /\ DOMAIN ctx' = Tasks
       /\ krsp'[u] = Sp(u, 27) /\ life'[u] = "ready" /\ ctx'[u] = new
       /\ \A t \in Tasks \ {u} : krsp'[t] = krsp[t] /\ life'[t] = life[t] /\ ctx'[t] = ctx[t]
  BY <1>7, InvFacts, Zenon
<1>16. life'[current] = life[current]
  <2>1. CASE current \in Tasks
    BY <1>4, <1>15, <2>1, Zenon
  <2>2. CASE current \notin Tasks
    BY <1>7, <2>2, InvFacts
  <2> QED BY <2>1, <2>2, Zenon
<1>17. Shaped(current, cpu', mem', info, call, life')
  <2>1. Ground(current, l, n, stk, info[current], call[current], life[current])
    BY <1>6, <1>10, GroundFrame, Zenon
  <2>2. Resting(current, l, n, mem'[current], cpu', info[current], call[current],
                life'[current])
    BY <1>9, <1>14, <1>16, <2>1, Zenon DEF Resting, Returned
  <2>3. Rests(current, cpu', mem', info, call, life')
    BY <2>2, Zenon DEF Rests, Labels
  <2> QED BY <1>3, <1>8, <1>9, <2>3, Zenon DEF Shaped, InKernel, OnTable, Returned
<1>18. Home(current, cpu') = current
  BY <1>9, HomeOther, Zenon DEF Returned
<1>19. /\ IsRegs(new) /\ new["rip"] = Code("kernel") /\ new["rsp"] = Sp(u, 4)
       /\ new["cs"] = Selector("kernel")
  BY <1>11, Zenon DEF Begins
<1>20. Home(u, new) = u
  BY <1>19, HomeOther
<1>21. Parked(u, mem', krsp', life', info, ctx', call)
  <2>1. Suspended(u, new, Sp(u, 27), mem')
    <3>1. 27 = 4 + SavedLen /\ 4 \in 0 .. 27
      BY DEF SavedLen
    <3> QED BY <1>12, <1>14, <1>19, <3>1, Zenon DEF Suspended
  <2>2. Resting(u, "kernel", 4, mem'[u], new, info[u], call[u], life'[u])
    BY <1>5, <1>12, <1>14, <1>19, ZenonT(40) DEF Resting, Ground
  <2>3. Rests(u, new, mem', info, call, life')
    BY <2>2 DEF Rests, Labels
  <2>4. Shaped(u, new, mem', info, call, life')
    BY <1>5, <1>19, <2>3, Zenon DEF Shaped, InKernel
  <2> QED BY <1>15, <1>20, <2>1, <2>4, Zenon DEF Parked
<1>22. \A t \in Waiting(current, life) : Home(t, ctx[t]) # u
  <2>1. Home(current, cpu) = u
    BY <1>1, <1>5, WordFacts, Zenon DEF Home
  <2> QED BY <2>1, Zenon DEF Inv, InvOf
<1>23. Spawns(cpu, mem, krsp, current, life, info, ctx, call,
              cpu', mem', krsp', life', info, ctx', u)
  BY <1>4, <1>5, <1>14, <1>15, <1>17, <1>18, <1>20, <1>21, <1>22, InvFacts, ZenonT(40) DEF Spawns
<1>24. InvOf(cpu', mem', krsp', current, life', info, ctx', call)
  BY <1>23, SpawnStep, Zenon DEF Inv
<1> QED BY <1>2, <1>24, InvFacts, Zenon

\* The call of init_kernel_task keeps the invariant: the builder is on the
\* stack of the new task, and its own leads back.
LEMMA BuildKernelStep ==
    ASSUME Inv, NEW u \in Tasks, BuildKernel(u)
    PROVE  InvOf(cpu', mem', krsp', current', life', info', ctx', call') /\ tss' = current'
<1>1. PICK l \in {"kernel", "syscall"} : cpu["rip"] = Code(l)
  BY Zenon DEF BuildKernel, InKernelCode, RunsAt
<1>2. PICK n \in 0 .. 21 : Resting(current, l, n, mem[current], cpu, info[current],
                                  call[current], life[current])
  BY <1>1, InvFacts, ByLabel, Zenon DEF Labels
<1>3. OnTable(current, cpu, info)
  BY <1>1, InvFacts, ByLabel, Zenon
<1>4. /\ cpu["rsp"] = Sp(current, n) /\ n \in Nat
      /\ Ground(current, l, n, mem[current], info[current], call[current], life[current])
  BY <1>2 DEF Resting
<1> DEFINE stk == Push(mem[current], n, <<cpu["rip"]>>)
           Entry(regs) == Set(regs, [rdi |-> Info(u), rsi |-> Exit(u), rdx |-> TaskData(u),
                                     rax |-> Sp(current, n + 1), rsp |-> Sp(u, 0),
                                     rip |-> Code("init_words")])
<1>5. PICK regs \in Computed(cpu, "kernel") :
         cpu' = Entry(regs) /\ mem' = [mem EXCEPT ![current] = stk]
  <2>1. Stack(cpu["rsp"]) = current /\ Pos(cpu["rsp"]) = n
    BY <1>4, WordFacts, Zenon
  <2> QED BY <2>1, Zenon DEF BuildKernel
<1>6. PICK a \in Args : info' = [info EXCEPT ![u] = [kind |-> "kernel", args |-> a,
                                                     table |-> None]]
  BY Zenon DEF BuildKernel
<1>7. /\ life[u] = "absent" /\ life' = [life EXCEPT ![u] = "building"]
      /\ krsp' = [krsp EXCEPT ![u] = Sp(u, 0)]
      /\ tss' = tss /\ current' = current /\ ctx' = ctx /\ call' = call
  BY Zenon DEF BuildKernel
<1>8. u # current /\ \A t \in Waiting(current, life) : Home(t, ctx[t]) # u
  BY <1>7, NotHome, Zenon
<1>9. /\ DOMAIN krsp' = Tasks /\ DOMAIN life' = Tasks /\ DOMAIN info' = Tasks
      /\ life'[u] = "building" /\ info'[u].kind = "kernel"
      /\ \A t \in Tasks \ {u} : krsp'[t] = krsp[t] /\ life'[t] = life[t] /\ info'[t] = info[t]
  BY <1>6, <1>7, InvFacts, Zenon
<1>10. life'[current] = life[current] /\ info'[current] = info[current]
  <2>1. CASE current \in Tasks
    BY <1>8, <1>9, <2>1, Zenon
  <2>2. CASE current \notin Tasks
    BY <1>6, <1>7, <2>2, InvFacts
  <2> QED BY <2>1, <2>2, Zenon
<1>11. IsRegs(regs) /\ \A x \in Regs \ Data : regs[x] = cpu[x]
  BY InvFacts, ComputedFacts, Zenon DEF Rings
<1>12. /\ IsRegs(cpu') /\ cpu'["rip"] = Code("init_words") /\ cpu'["rsp"] = Sp(u, 0)
       /\ cpu'["rsi"] = Exit(u) /\ cpu'["rdx"] = TaskData(u) /\ cpu'["rax"] = Sp(current, n + 1)
       /\ cpu'["cs"] = regs["cs"] /\ cpu'["cr3"] = regs["cr3"]
  BY <1>5, Registers, Zenon DEF Set, IsRegs
<1>c. Calls(stk, mem[current], n, cpu["rip"])
  BY PushOne, Zenon
<1>14. mem' = [mem EXCEPT ![current] = stk]
  BY <1>5, Zenon
<1> HIDE DEF stk
<1>13. /\ DOMAIN stk = 1 .. Depth /\ stk[n + 1] = Code(l)
       /\ \A j \in 1 .. n : stk[j] = mem[current][j]
  BY <1>1, <1>c, Zenon DEF Calls
<1>15. Replaces(mem', mem, current, stk)
  BY <1>13, <1>14, InvFacts, StackFacts, Zenon
<1>16. IsMem(mem') /\ mem'[current] = stk /\ \A s \in Slots \ {current} : mem'[s] = mem[s]
  BY <1>15, Zenon DEF Replaces
<1>17. Ground(current, l, n, stk, info[current], call[current], life[current])
  BY <1>4, <1>13, GroundFrame, Zenon
<1>18. Called(current, cpu'["rax"], l, n, mem'[current], info'[current], call[current],
              life'[current])
  BY <1>10, <1>12, <1>13, <1>16, <1>17, Zenon DEF Called
<1>19. AtBuild(u, cpu', mem'[u], info'[u], life'[u])
  BY <1>9, <1>12, Zenon DEF AtBuild
<1>20. Builds(current, cpu', mem', info', call, life')
  BY <1>8, <1>18, <1>19, Zenon DEF Builds
<1>21. Shaped(current, cpu', mem', info', call, life')
  BY <1>3, <1>10, <1>11, <1>12, <1>20, Registers, Zenon DEF Shaped, InKernel, OnTable
<1>22. Home(current, cpu') = u
  BY <1>12, WordFacts, ZenonT(40) DEF Home
<1>23. Spawns(cpu, mem, krsp, current, life, info, ctx, call,
              cpu', mem', krsp', life', info', ctx, u)
  BY <1>7, <1>8, <1>9, <1>16, <1>21, <1>22, InvFacts, Zenon DEF Spawns
<1>24. InvOf(cpu', mem', krsp', current, life', info', ctx, call)
  BY <1>23, SpawnStep, Zenon DEF Inv
<1> QED BY <1>7, <1>24, InvFacts, Zenon

\* Building a user task keeps the invariant.
LEMMA BuildUserStep ==
    ASSUME Inv, NEW u \in Tasks, NEW kind \in {"process", "thread"}, BuildUser(u, kind)
    PROVE  InvOf(cpu', mem', krsp', current', life', info', ctx', call') /\ tss' = current'
<1>1. PICK l \in {"kernel", "syscall"} : cpu["rip"] = Code(l)
  BY Zenon DEF BuildUser, InKernelCode, RunsAt
<1>2. PICK n \in 0 .. 21 : Resting(current, l, n, mem[current], cpu, info[current],
                                  call[current], life[current])
  BY <1>1, InvFacts, ByLabel, Zenon DEF Labels
<1>3. /\ life[u] = "absent" /\ life' = [life EXCEPT ![u] = "ready"]
      /\ krsp' = [krsp EXCEPT ![u] = Sp(u, 27)]
      /\ tss' = tss /\ current' = current /\ call' = call
  BY Zenon DEF BuildUser
<1>4. u # current /\ \A t \in Waiting(current, life) : Home(t, ctx[t]) # u
  BY <1>3, NotHome, Zenon
<1> DEFINE table == IF kind = "thread" THEN info[current].table ELSE u
           xmm == cpu["xmm"]
<1>5. PICK a \in Args :
         /\ info' = [info EXCEPT ![u] = [kind |-> kind, args |-> a, table |-> table]]
         /\ mem' = [mem EXCEPT ![u] =
                       NewStack(mem[u], u, a, xmm, UserSp(u), Root(table), "user")]
         /\ ctx' = [ctx EXCEPT ![u] = Started(a, xmm, UserSp(u), Root(table), "user")]
  BY Zenon DEF BuildUser, NewStack
<1> DEFINE stk == NewStack(mem[u], u, a, xmm, UserSp(u), Root(table), "user")
           new == Started(a, xmm, UserSp(u), Root(table), "user")
           active == IF current # None /\ ~Kernel(current) THEN info[current].table ELSE None
           q == Set(cpu, [cr3 |-> Root(active), rflags |-> Flag(TRUE)])
<1>6. cpu' \in Computed(q, "kernel")
  BY Zenon DEF BuildUser
<1>7. /\ q["rip"] = cpu["rip"] /\ q["rsp"] = cpu["rsp"] /\ q["cs"] = cpu["cs"]
      /\ q["cr3"] = Root(active)
  BY Registers, Zenon DEF Set
<1>8. DOMAIN stk = 1 .. Depth /\ Holds(stk, 4, Saved(new, u, 4))
  BY BuiltWords, Zenon
<1>9. Begins(new, a, xmm, UserSp(u), Root(table), "user")
  BY StartedIs, Zenon
<1>10. (current \in Tasks /\ info[current].kind # "kernel") => active = info[current].table
  BY NoneIsNoTask, Zenon DEF Kernel
<1> HIDE DEF table, xmm, stk, new, active, q
<1>11. /\ IsRegs(cpu') /\ cpu'["rip"] = cpu["rip"] /\ cpu'["rsp"] = cpu["rsp"]
       /\ cpu'["cs"] = cpu["cs"] /\ cpu'["cr3"] = Root(active)
  <2>1. IsRegs(cpu') /\ \A x \in Regs \ Data : cpu'[x] = q[x]
    BY <1>6, InvFacts, ComputedFacts, Zenon DEF Rings
  <2> QED BY <1>7, <2>1, Registers, Zenon
<1>12. Replaces(mem', mem, u, stk)
  <2>1. u \in Slots /\ mem' = [mem EXCEPT ![u] = stk]
    BY <1>5, Zenon DEF stk, Slots
  <2> QED BY <1>8, <2>1, InvFacts, StackFacts, Zenon
<1>13. /\ IsMem(mem') /\ mem'[u] = stk /\ mem'[current] = mem[current]
       /\ \A s \in Slots \ {u} : mem'[s] = mem[s]
  BY <1>4, <1>12, InvFacts, Zenon DEF Replaces
<1>14. /\ DOMAIN krsp' = Tasks /\ DOMAIN life' = Tasks /\ DOMAIN info' = Tasks
       /\ DOMAIN ctx' = Tasks
       /\ krsp'[u] = Sp(u, 27) /\ life'[u] = "ready" /\ ctx'[u] = new
       /\ info'[u].kind # "kernel" /\ info'[u].table = table
       /\ \A t \in Tasks \ {u} : /\ krsp'[t] = krsp[t] /\ life'[t] = life[t]
                                 /\ info'[t] = info[t] /\ ctx'[t] = ctx[t]
  BY <1>3, <1>5, InvFacts, Zenon DEF new
<1>15. life'[current] = life[current] /\ info'[current] = info[current]
  <2>1. CASE current \in Tasks
    BY <1>4, <1>14, <2>1, Zenon
  <2>2. CASE current \notin Tasks
    BY <1>3, <1>5, <2>2, InvFacts
  <2> QED BY <2>1, <2>2, Zenon
<1>16. Shaped(current, cpu', mem', info', call, life')
  <2>1. Resting(current, l, n, mem'[current], cpu', info'[current], call[current],
                life'[current])
    BY <1>2, <1>11, <1>13, <1>15, Zenon DEF Resting
  <2>2. Rests(current, cpu', mem', info', call, life')
    BY <2>1, Zenon DEF Rests, Labels
  <2>3. cpu["cs"] = Selector("kernel")
    BY <1>1, InvFacts, ByLabel, Zenon DEF OnTable
  <2>4. (current \in Tasks /\ info'[current].kind # "kernel")
           => cpu'["cr3"] = Root(info'[current].table)
    BY <1>10, <1>11, <1>15, Zenon
  <2> QED BY <1>11, <2>2, <2>3, <2>4, Zenon DEF Shaped, InKernel
<1>17. Home(current, cpu') = current
  BY <1>1, <1>11, HomeOther, Zenon
<1>18. /\ IsRegs(new) /\ new["rip"] = Code("user") /\ new["rsp"] = UserSp(u)
       /\ new["cs"] = Selector("user") /\ new["cr3"] = Root(table)
  BY <1>9, Zenon DEF Begins
<1>19. Home(u, new) = u
  BY <1>18, HomeOther
<1>20. Parked(u, mem', krsp', life', info', ctx', call)
  <2>1. Suspended(u, new, Sp(u, 27), mem')
    <3>1. 27 = 4 + SavedLen /\ 4 \in 0 .. 27
      BY DEF SavedLen
    <3> QED BY <1>8, <1>13, <1>18, <3>1, Zenon DEF Suspended
  <2>2. Shaped(u, new, mem', info', call, life')
    BY <1>14, <1>18, Zenon DEF Shaped, User
  <2> QED BY <1>14, <1>19, <2>1, <2>2, Zenon DEF Parked
<1>21. Spawns(cpu, mem, krsp, current, life, info, ctx, call,
              cpu', mem', krsp', life', info', ctx', u)
  BY <1>3, <1>4, <1>13, <1>14, <1>16, <1>17, <1>19, <1>20, Zenon DEF Spawns
<1>22. InvOf(cpu', mem', krsp', current, life', info', ctx', call)
  BY <1>21, SpawnStep, Zenon DEF Inv
<1> QED BY <1>3, <1>22, InvFacts, Zenon

-----------------------------------------------------------------------------
(* The theorems.                                                           *)

\* The boot code starts with the invariant.
LEMMA InitInv == Init => Inv
<1> SUFFICES ASSUME Init PROVE Inv
  BY Zenon
<1>1. IsMem(mem) /\ current = None /\ tss = current
  BY Zenon DEF Init, IsMem
<1>2. /\ DOMAIN krsp = Tasks /\ DOMAIN life = Tasks /\ DOMAIN info = Tasks
      /\ DOMAIN ctx = Tasks /\ DOMAIN call = Tasks
  BY Zenon DEF Init
<1>3. \A t \in Tasks : life[t] = "absent"
  BY Zenon DEF Init
<1>4. /\ IsRegs(cpu) /\ cpu["rip"] = Code("kernel") /\ cpu["rsp"] = Sp(None, 0)
      /\ cpu["cs"] = Selector("kernel")
  <2> DEFINE f(c, r) ==
                CASE r \in Data -> c[r]
                  [] r = "cr3" -> Root(None)
                  [] r = "rsp" -> Sp(None, 0)
                  [] r = "rflags" -> Flag(TRUE)
                  [] r \in {"cs", "ss"} -> Selector("kernel")
                  [] r = "rip" -> Code("kernel")
  <2>1. PICK c : cpu = [r \in Regs |-> f(c, r)]
    BY Zenon DEF Init
  <2>2. \A r \in {"rip", "rsp", "cs"} : r \in Regs /\ r \notin Data
    BY Zenon DEF Regs, Data
  <2>3. IsRegs(cpu)
    <3> HIDE DEF f
    <3> QED BY <2>1, Zenon DEF IsRegs
  <2>4. cpu["rip"] = Code("kernel")
    BY <2>1, <2>2, Zenon
  <2>5. cpu["rsp"] = Sp(None, 0)
    BY <2>1, <2>2, Zenon
  <2>6. cpu["cs"] = Selector("kernel")
    BY <2>1, <2>2, Zenon
  <2> QED BY <2>3, <2>4, <2>5, <2>6, Zenon
<1>5. Resting(None, "kernel", 0, mem[None], cpu, info[None], call[None], life[None])
  BY <1>4, Zenon DEF Resting, Ground
<1>6. Rests(None, cpu, mem, info, call, life)
  BY <1>5 DEF Rests, Labels
<1>7. Shaped(None, cpu, mem, info, call, life)
  BY <1>4, <1>6, NoneIsNoTask, Zenon DEF Shaped, InKernel
<1>8. Waiting(current, life) = {}
  BY <1>3, Zenon DEF Waiting
<1> QED BY <1>1, <1>2, <1>7, <1>8, NoneIsNoTask, Zenon DEF Inv, InvOf, Slots

\* Every step keeps the invariant.
LEMMA NextInv == Inv /\ [Next]_vars => Inv'
<1> SUFFICES ASSUME Inv, [Next]_vars PROVE Inv'
  BY Zenon
<1> SUFFICES InvOf(cpu', mem', krsp', current', life', info', ctx', call') /\ tss' = current'
  BY Zenon DEF Inv
<1>1. CASE TimerInterrupt
  BY <1>1, TimerStep, Zenon
<1>2. CASE SysYield
  BY <1>2, YieldStep, Zenon
<1>3. CASE YieldReturn
  BY <1>3, YieldReturnStep, Zenon
<1>4. ASSUME NEW t \in Tasks, BuildKernel(t)
      PROVE  InvOf(cpu', mem', krsp', current', life', info', ctx', call') /\ tss' = current'
  BY <1>4, BuildKernelStep, Zenon
<1>5. CASE InitWords
  BY <1>5, InitWordsStep
<1>6. CASE InitDone
  BY <1>6, InitDoneStep
<1>7. ASSUME NEW t \in Tasks, NEW kind \in {"process", "thread"}, BuildUser(t, kind)
      PROVE  InvOf(cpu', mem', krsp', current', life', info', ctx', call') /\ tss' = current'
  BY <1>7, BuildUserStep, Zenon
<1>8. CASE SysCall
  BY <1>8, SysCallStep
<1>9. CASE SysReturn
  BY <1>9, SysReturnStep
<1>10. CASE SysExit
  BY <1>10, SysExitStep, Zenon
<1>11. CASE KernelReturn
  BY <1>11, KernelReturnStep
<1>12. CASE TrampolineStub
  BY <1>12, TrampolineStubStep
<1>13. CASE ExitTask
  BY <1>13, ExitTaskStep
<1>14. CASE UNCHANGED vars
  BY <1>14, Zenon DEF vars, Inv
<1> QED BY <1>1, <1>2, <1>3, <1>4, <1>5, <1>6, <1>7, <1>8, <1>9, <1>10, <1>11, <1>12, <1>13,
           <1>14, ZenonT(40) DEF Next

\* In every reachable state the running task can go on, every other ready task
\* can be resumed from its krsp with the registers it was left with, and no two
\* of them share a stack: for any number of tasks, any arguments, any register
\* contents, and interrupts before every step.
THEOREM StacksAreKept == Spec => []Inv
<1> QED BY InitInv, NextInv, PTL DEF Spec

\* The steps of Next other than the two that switch to another task.
Stays ==
    \/ YieldReturn \/ (\E t \in Tasks : BuildKernel(t)) \/ InitWords \/ InitDone
    \/ (\E t \in Tasks, kind \in {"process", "thread"} : BuildUser(t, kind))
    \/ SysCall \/ SysReturn \/ SysExit \/ KernelReturn \/ TrampolineStub \/ ExitTask
    \/ UNCHANGED vars

\* None of them changes the running task.
LEMMA StaysCurrent == Stays => current' = current
  BY Zenon DEF Stays, YieldReturn, BuildKernel, InitWords, InitDone, BuildUser, SysCall,
         SysReturn, SysExit, KernelReturn, TrampolineStub, ExitTask, vars

\* context_switch_local: a task goes on with every register as it was left
\* when it was interrupted or yielded, and a new one with its arguments.
THEOREM TasksResumeAsLeft == Spec => ResumedAsLeft
<1>1. Inv /\ [Next]_vars =>
        [/\ current' # current => cpu' = ctx[current']
         /\ TimerInterrupt /\ current' = current => cpu' = cpu]_vars
  <2> SUFFICES ASSUME Inv, [Next]_vars
               PROVE  /\ current' # current => cpu' = ctx[current']
                      /\ TimerInterrupt /\ current' = current => cpu' = cpu
    BY Zenon
  <2>1. TimerInterrupt /\ current' = current => cpu' = cpu
    BY TimerStep, Zenon
  <2>2. CASE TimerInterrupt
    BY <2>1, <2>2, TimerStep, Zenon
  <2>3. CASE SysYield
    BY <2>1, <2>3, YieldStep, Zenon
  <2>4. CASE ~TimerInterrupt /\ ~SysYield
    <3>1. Stays
      BY <2>4, Zenon DEF Next, Stays
    <3> QED BY <2>1, <3>1, StaysCurrent, Zenon
  <2> QED BY <2>2, <2>3, <2>4, Zenon
<1> QED BY <1>1, StacksAreKept, PTL DEF Spec, ResumedAsLeft

\* set_tss_kstack and the stack of the running code: the TSS names the running
\* task's stack, and code in kernel mode is on it or on one being built.
THEOREM TasksStayOnTheirStacks == Spec => []OnOwnStack
<1>1. Inv => OnOwnStack
  <2> SUFFICES ASSUME Inv PROVE OnOwnStack
    BY Zenon
  <2>1. cpu["cs"] = Selector("kernel") =>
           \E n \in 0 .. 27 : cpu["rsp"] = Sp(Home(current, cpu), n)
    BY InvFacts, HomeIs, WordFacts, ZenonT(40)
  <2>2. cpu["cs"] = Selector("kernel") => Stack(cpu["rsp"]) = Home(current, cpu)
    BY <2>1, WordFacts, Zenon
  <2>3. \/ Home(current, cpu) = current
        \/ Home(current, cpu) \in Tasks /\ life[Home(current, cpu)] = "building"
    BY InvFacts, HomeIs
  <2> QED BY <2>2, <2>3, InvFacts, Zenon DEF OnOwnStack
<1> QED BY <1>1, StacksAreKept, PTL

\* syscall_stub and SysCallCtx: the handler reads the registers of the call,
\* however often it was preempted since.
THEOREM HandlersSeeTheCall == Spec => []HandlerSeesCall
<1>1. Inv => HandlerSeesCall
  <2> SUFFICES ASSUME Inv, RunsAt("syscall"), NEW i \in DOMAIN SysCallCtx
               PROVE  mem[current][Field(Sp(current, 16), SysCallCtx[i])]
                         = call[current][SysCallCtx[i]]
    BY Zenon DEF HandlerSeesCall
  <2>1. i \in 1 .. 11
    BY DEF SysCallCtx
  <2>2. PICK n \in 0 .. 21 : Resting(current, "syscall", n, mem[current], cpu,
                                    info[current], call[current], life[current])
    BY InvFacts, ByLabel, Zenon DEF RunsAt, Labels
  <2>3. AtCall(mem[current], call[current])
    BY <2>2, Zenon DEF Resting, Ground
  <2>4. Field(Sp(current, 16), SysCallCtx[i]) = 5 + (12 - i)
    BY <2>1, FieldFacts, WordFacts DEF Field
  <2>5. 12 - i \in 1 .. 11
    BY <2>1
  <2>6. mem[current][5 + (12 - i)] = call[current][SysPushOrder[12 - i]]
    BY <2>3, <2>5, Zenon DEF AtCall
  <2>7. SysPushOrder[12 - i] = SysCallCtx[i]
    BY <2>1 DEF SysPushOrder, SysCallCtx
  <2> QED BY <2>4, <2>6, <2>7, Zenon
<1> QED BY <1>1, StacksAreKept, PTL

\* syscall_stub and __syscall_handler: a call gives back every register but
\* rax, rdx and the vector state.
THEOREM CallsKeepRegisters == Spec => SysCallKeepsRegisters
<1>1. Inv /\ [Next]_vars =>
        [(RunsAt("syscall_exit") /\ cpu'["cs"] = Selector("user") /\ current' = current)
           => \A r \in Regs \ {"rax", "rdx", "xmm"} : cpu'[r] = call[current][r]]_vars
  <2> SUFFICES ASSUME Inv, [Next]_vars, RunsAt("syscall_exit"),
                      cpu'["cs"] = Selector("user"), current' = current
               PROVE  \A r \in Regs \ {"rax", "rdx", "xmm"} : cpu'[r] = call[current][r]
    BY Zenon
  <2>1. cpu["cs"] = Selector("kernel")
    <3>1. cpu["rip"] = Code("syscall_exit")
      BY Zenon DEF RunsAt
    <3>2. OnTable(current, cpu, info)
      BY <3>1, InvFacts, ByLabel
    <3> QED BY <3>2, Zenon DEF OnTable
  <2>2. cpu' # cpu
    BY <2>1, WordFacts, Zenon
  <2>3. ~TimerInterrupt /\ ~UNCHANGED vars
    BY <2>2, TimerStep, Zenon DEF vars
  <2>4. \A l : RunsAt(l) => l = "syscall_exit"
    BY WordFacts, Zenon DEF RunsAt
  <2>5. ~SysYield /\ ~YieldReturn /\ ~InitWords /\ ~InitDone /\ ~SysCall /\ ~SysReturn
    BY <2>4, Zenon DEF SysYield, YieldReturn, InitWords, InitDone, SysCall, SysReturn,
                       InKernelCode
  <2>6. ~KernelReturn /\ ~TrampolineStub /\ ~ExitTask
    BY <2>4, Zenon DEF KernelReturn, TrampolineStub, ExitTask
  <2>7. /\ \A t \in Tasks : ~BuildKernel(t)
        /\ \A t \in Tasks, kind \in {"process", "thread"} : ~BuildUser(t, kind)
    BY <2>4, Zenon DEF BuildKernel, BuildUser, InKernelCode
  <2>8. SysExit
    BY <2>3, <2>5, <2>6, <2>7, ZenonT(40) DEF Next
  <2> QED BY <2>8, SysExitStep, Zenon
<1> QED BY <1>1, StacksAreKept, PTL DEF Spec, SysCallKeepsRegisters

\* return_trampoline_stub: a kernel task that returns comes to
\* kernel_return_trampoline with its own TaskExitInfo and its result.
THEOREM KernelTasksReturn == Spec => []ReturnsToTrampoline
<1>1. Inv => ReturnsToTrampoline
  <2> SUFFICES ASSUME Inv PROVE ReturnsToTrampoline
    OBVIOUS
  <2>1. \E l : cpu["rip"] = Code(l)
    BY InvFacts, Zenon DEF Shaped, User, InKernel, Rests, Resting, Yields, Answers, Returns, Ends,
                    Builds, AtBuild
  <2>2. cpu["rip"][1] = "code"
    BY <2>1, WordFacts, Zenon
  <2>3. RunsAt("stub") => Kernel(current)
    BY InvFacts, ByLabel, ZenonT(40) DEF RunsAt, Returns, Kernel
  <2>4. RunsAt("trampoline") => cpu["rsi"] = Exit(current) /\ cpu["rdi"] = cpu["rax"]
    BY InvFacts, ByLabel, Zenon DEF RunsAt, Ends
  <2> QED BY <2>2, <2>3, <2>4, Zenon DEF ReturnsToTrampoline
<1> QED BY <1>1, StacksAreKept, PTL

=============================================================================
