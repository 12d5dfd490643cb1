--------------------------- MODULE ContextLemmas ---------------------------
(***************************************************************************)
(* What the proofs about Context rest on: the facts about the pushes and   *)
(* pops of the assembly, and the inductive invariant.                      *)
(*                                                                         *)
(* The invariant (InvOf) gives for each place in the code where a task can *)
(* be what its kernel stack holds there (Shaped), says that a suspended    *)
(* task's krsp leads to the registers it was left with (Parked), and that  *)
(* no two tasks are on the same stack.                                     *)
(***************************************************************************)
EXTENDS Context, TLAPS

\* Steps are proved by SMT unless they name another prover.
USE SMTT(30)

-----------------------------------------------------------------------------
(* Saving and restoring: switch_and_apply against the pushes of the stubs. *)

\* The words ws lie on the stack stk above its first n words.
Holds(stk, n, ws) == \A i \in 1 .. Len(ws) : stk[n + i] = ws[i]

\* A whole register file.
IsRegs(r) == r = [x \in Regs |-> r[x]]

\* Positions finds a register at the one place at which it is popped: the
\* operator that the pops of switch_and_apply and of syscall_stub are read by.
LEMMA PositionOf ==
    ASSUME NEW order, NEW i \in DOMAIN order, order[i] \in Regs,
           \A j \in DOMAIN order : order[j] = order[i] => j = i
    PROVE  Positions(order)[order[i]] = i
  BY Zenon DEF Positions

\* A register that is not popped has position 0, and keeps its content.
LEMMA NoPosition ==
    ASSUME NEW order, NEW r \in Regs, \A i \in DOMAIN order : order[i] # r
    PROVE  Positions(order)[r] = 0
  BY Zenon DEF Positions

\* w is a followed by b.
Joins(w, S, a, b) ==
    /\ w \in Seq(S)
    /\ Len(w) = Len(a) + Len(b)
    /\ \A i \in 1 .. Len(a) : w[i] = a[i]
    /\ \A i \in 1 .. Len(b) : w[Len(a) + i] = b[i]

\* The words of two pushes lie one after the other.
LEMMA Concat ==
    ASSUME NEW S, NEW a \in Seq(S), NEW b \in Seq(S)
    PROVE  Joins(a \o b, S, a, b)
  BY DEF Joins

\* The pops of switch_and_apply and the iretq after them take each register
\* but the vector state once.
LEMMA Restores ==
    /\ DOMAIN RestoreOrder = 1 .. 21
    /\ \A i \in 1 .. 21 : RestoreOrder[i] \in Regs /\ RestoreOrder[i] # "xmm"
    /\ \A i \in 1 .. 21 : RestorePos[RestoreOrder[i]] = i
    /\ RestorePos["xmm"] = 0
    /\ \A r \in Regs \ {"xmm"} : \E i \in 1 .. 21 : RestoreOrder[i] = r
<1>1. DOMAIN RestoreOrder = 1 .. 21
  BY DEF RestoreOrder
<1>2. \A i \in 1 .. 21 : RestoreOrder[i] \in Regs /\ RestoreOrder[i] # "xmm"
  BY DEF RestoreOrder, Regs, Data
<1>3. \A i, j \in 1 .. 21 : RestoreOrder[i] = RestoreOrder[j] => i = j
  BY DEF RestoreOrder
<1>4. \A r \in Regs \ {"xmm"} : \E i \in 1 .. 21 : RestoreOrder[i] = r
  BY DEF RestoreOrder, Regs, Data
<1>5. \A i \in 1 .. 21 : RestorePos[RestoreOrder[i]] = i
  BY <1>1, <1>2, <1>3, PositionOf DEF RestorePos
<1>6. "xmm" \in Regs
  BY Zenon DEF Regs, Data
<1>7. RestorePos["xmm"] = 0
  BY <1>1, <1>2, <1>6, NoPosition, Zenon DEF RestorePos
<1> QED BY <1>1, <1>2, <1>4, <1>5, <1>7, Zenon

\* The stub of whoever suspends a task saves 23 words: read downwards they
\* are the registers in the order of the pops of switch_and_apply, above them
\* lies the fxsave area, and on top the stack pointer that it starts with.
LEMMA SavedAt ==
    ASSUME NEW regs, NEW s, NEW n
    PROVE  /\ Len(Saved(regs, s, n)) = 23
           /\ \A k \in 1 .. 21 : Saved(regs, s, n)[22 - k] = regs[RestoreOrder[k]]
           /\ Saved(regs, s, n)[22] = regs["xmm"]
           /\ Saved(regs, s, n)[23] = Sp(s, n + 21)
<1> DEFINE S == {regs[r] : r \in Regs} \cup {Sp(s, n + 21)}
           A == Words(regs, FrameOrder)
           B == Words(regs, SaveOrder)
           Q == <<regs["xmm"], Sp(s, n + 21)>>
<1>1. A \in Seq(S) /\ Len(A) = 5
  BY DEF Words, FrameOrder, Regs
<1>2. B \in Seq(S) /\ Len(B) = 16
  BY DEF Words, SaveOrder, Regs, Data
<1>3. Q \in Seq(S) /\ Len(Q) = 2 /\ Q[1] = regs["xmm"] /\ Q[2] = Sp(s, n + 21)
  BY DEF Regs, Data
<1>4. \A k \in 1 .. 5 : A[6 - k] = regs[RestoreOrder[16 + k]]
  BY DEF Words, FrameOrder, RestoreOrder
<1>5. \A k \in 1 .. 16 : B[17 - k] = regs[RestoreOrder[k]]
  BY DEF Words, SaveOrder, RestoreOrder
<1> DEFINE AB == A \o B
           W == AB \o Q
<1>6. Saved(regs, s, n) = W
  BY Zenon DEF Saved
<1> HIDE DEF A, B, Q, S
<1>a. Joins(AB, S, A, B)
  BY <1>1, <1>2, Concat, Zenon
<1> HIDE DEF AB
<1>7. /\ AB \in Seq(S)
      /\ Len(AB) = 21
      /\ \A i \in 1 .. 5 : AB[i] = A[i]
      /\ \A i \in 1 .. 16 : AB[5 + i] = B[i]
  BY <1>1, <1>2, <1>a DEF Joins
<1>b. Joins(W, S, AB, Q)
  BY <1>3, <1>7, Concat, Zenon
<1> HIDE DEF W
<1>8. /\ Len(W) = 23
      /\ \A i \in 1 .. 21 : W[i] = AB[i]
      /\ \A i \in 1 .. 2 : W[21 + i] = Q[i]
  BY <1>3, <1>7, <1>b DEF Joins
<1>9. ASSUME NEW k \in 1 .. 21 PROVE W[22 - k] = regs[RestoreOrder[k]]
  <2>0. W[22 - k] = AB[22 - k]
    BY <1>8
  <2>1. CASE k <= 16
    <3>1. 17 - k \in 1 .. 16 /\ k \in 1 .. 16 /\ 22 - k = 5 + (17 - k)
      BY <2>1
    <3>2. AB[5 + (17 - k)] = B[17 - k]
      BY <3>1, <1>7, Zenon
    <3>3. B[17 - k] = regs[RestoreOrder[k]]
      BY <3>1, <1>5, Zenon
    <3> QED BY <3>1, <3>2, <3>3, <2>0, Zenon
  <2>2. CASE k > 16
    <3>1. 22 - k \in 1 .. 5 /\ 22 - k = 6 - (k - 16) /\ k - 16 \in 1 .. 5 /\ 16 + (k - 16) = k
      BY <2>2
    <3>2. AB[22 - k] = A[22 - k]
      BY <3>1, <1>7, Zenon
    <3>3. A[6 - (k - 16)] = regs[RestoreOrder[16 + (k - 16)]]
      BY <3>1, <1>4, Zenon
    <3> QED BY <3>1, <3>2, <3>3, <2>0, Zenon
  <2> QED BY <2>1, <2>2
<1>10. W[22] = regs["xmm"] /\ W[23] = Sp(s, n + 21) /\ Len(W) = 23
  <2>1. 22 = 21 + 1 /\ 23 = 21 + 2 /\ 1 \in 1 .. 2 /\ 2 \in 1 .. 2
    OBVIOUS
  <2> QED BY <1>3, <1>8, <2>1
<1> QED BY <1>6, <1>9, <1>10, Zenon

\* A context has the length by which the stack pointer is moved.
LEMMA SavedLength == \A regs, s, n : Len(Saved(regs, s, n)) = SavedLen
  BY SavedAt DEF SavedLen

\* switch_and_apply, given p, leaves regs in the registers and n words on the stack.
Resumes(stk, p, regs, n) ==
    Restored(stk, p) = regs /\ Pos(stk[Pos(p)]) - 21 = n

\* The main fact on the assembly: switch_and_apply, given the stack pointer
\* that a stub left, gives back the registers that stub saved, all of them, and
\* leaves the stack with the words that were below.
LEMMA RestoreSaved ==
    ASSUME NEW regs, IsRegs(regs), NEW stk, NEW s, NEW n \in Nat,
           Holds(stk, n, Saved(regs, s, n))
    PROVE  Resumes(stk, Sp(s, n + SavedLen), regs, n)
<1>1. \A i \in 1 .. 23 : stk[n + i] = Saved(regs, s, n)[i]
  <2>1. Len(Saved(regs, s, n)) = 23
    BY SavedAt
  <2> QED BY <2>1, Zenon DEF Holds
<1>2. stk[n + 23] = Sp(s, n + 21) /\ stk[n + 22] = regs["xmm"]
  BY <1>1, SavedAt
<1>3. Pos(Sp(s, n + SavedLen)) = n + 23 /\ Pos(Sp(s, n + 21)) = n + 21
  BY Zenon DEF Pos, Sp, SavedLen
<1>4. \A k \in 1 .. 21 : stk[n + (22 - k)] = regs[RestoreOrder[k]]
  BY <1>1, SavedAt
<1>5. Restored(stk, Sp(s, n + SavedLen))
        = [r \in Regs |-> IF RestorePos[r] = 0 THEN stk[n + 22]
                          ELSE stk[n + 21 + 1 - RestorePos[r]]]
  BY <1>2, <1>3 DEF Restored, Popped
<1>6. ASSUME NEW r \in Regs
      PROVE  (IF RestorePos[r] = 0 THEN stk[n + 22] ELSE stk[n + 21 + 1 - RestorePos[r]]) = regs[r]
  <2>1. CASE r = "xmm"
    BY <2>1, <1>2, Restores, Zenon
  <2>2. CASE r # "xmm"
    <3>1. PICK k \in 1 .. 21 : RestoreOrder[k] = r
      BY <2>2, Restores, Zenon
    <3>2. RestorePos[r] = k /\ n + 21 + 1 - k = n + (22 - k)
      BY <3>1, Restores
    <3> QED BY <3>1, <3>2, <1>4
  <2> QED BY <2>1, <2>2, Zenon
<1> QED BY <1>2, <1>3, <1>5, <1>6 DEF IsRegs, Resumes

-----------------------------------------------------------------------------
(* Where a task can be, and what its stack then holds.                     *)

\* The addresses a stack may be called from.
Labels == {"kernel", "syscall", "exited"}

\* The words at the bottom of a kernel task's stack: the way back from its
\* function.
AtReturn(stk, x) ==
    /\ stk[1] = Zero /\ stk[2] = Code("trampoline")
    /\ stk[3] = Exit(x) /\ stk[4] = Code("stub")

\* The frame that an interrupt in a user task left at the bottom of its stack.
Frame(stk, c) == \A i \in 1 .. 5 : stk[i] = c[FrameOrder[i]]

\* The stack while the body of a system call runs that was made with the
\* registers c.
AtCall(stk, c) ==
    /\ Frame(stk, c)
    /\ \A i \in 1 .. 11 : stk[5 + i] = c[SysPushOrder[i]]
    /\ stk[17] = Code("syscall_exit")
    /\ \A i \in 1 .. 4 : stk[17 + i] = c[CalleeSaved[i]]

\* The stack once the handler has written its answer and returned to the
\* stub: rdx and rax, the pushes 8 and 11, are no longer those of the call.
AtAnswer(stk, c) ==
    /\ Frame(stk, c)
    /\ \A i \in 1 .. 11 : i \notin {8, 11} => stk[5 + i] = c[SysPushOrder[i]]

\* Task x, built from i, runs in user mode with the registers r.
User(x, r, i) ==
    /\ x \in Tasks /\ i.kind # "kernel"
    /\ r["rip"] = Code("user") /\ r["cs"] = Selector("user")
    /\ r["rsp"] = UserSp(x) /\ r["cr3"] = Root(i.table)

\* What lies on the first n words of a stack whose code at label l may be
\* interrupted or call: nothing for the boot thread, the way back for a kernel
\* task, the call for a system call, anything for a task that is dead.
Ground(x, l, n, stk, i, c, f) ==
    \/ l = "kernel" /\ x = None /\ n = 0
    \/ l = "kernel" /\ x \in Tasks /\ i.kind = "kernel" /\ n = 4 /\ AtReturn(stk, x)
    \/ l = "syscall" /\ n = 21 /\ User(x, c, i) /\ AtCall(stk, c)
    \/ l = "exited" /\ x \in Tasks /\ f = "zombie" /\ n \in {1, 21}

\* Code at label l that has made no call.
Resting(x, l, n, stk, r, i, c, f) ==
    /\ r["rip"] = Code(l) /\ r["rsp"] = Sp(x, n)
    /\ Ground(x, l, n, stk, i, c, f)

\* Code at label l that has called a stub, and is to be returned to from p.
Called(x, p, l, n, stk, i, c, f) ==
    /\ p = Sp(x, n + 1) /\ stk[n + 1] = Code(l)
    /\ Ground(x, l, n, stk, i, c, f)

\* The stack of a kernel task once init_kernel_task has written it.
Built(stk, u, a, table, xmm) ==
    /\ AtReturn(stk, u)
    /\ Holds(stk, 4, Saved(Started(a, xmm, Sp(u, 4), table, "kernel"), u, 4))

\* init_kernel_task runs on the stack of u, before or after the pushes.
AtBuild(u, r, stk, i, f) ==
    /\ u \in Tasks /\ f = "building" /\ i.kind = "kernel"
    /\ \/ /\ r["rip"] = Code("init_words") /\ r["rsp"] = Sp(u, 0)
          /\ r["rsi"] = Exit(u) /\ r["rdx"] = TaskData(u)
       \/ /\ r["rip"] = Code("init_done") /\ r["rsp"] = Sp(u, 27)
          /\ Built(stk, u, i.args, r["cr3"], r["xmm"])

\* The places at which a task can be in kernel mode, with what its stack and
\* its registers must then hold: kernel code,
Rests(x, r, M, I, C, L) ==
    \E l \in Labels, n \in 0 .. 21 : Resting(x, l, n, M[x], r, I[x], C[x], L[x])

\* the ret of the yield stub,
Yields(x, r, M, I, C, L) ==
    /\ r["rip"] = Code("yielded")
    /\ \E l \in Labels, n \in 0 .. 21 :
          Called(x, r["rsp"], l, n, M[x], I[x], C[x], L[x])

\* the pops of syscall_stub,
Answers(x, r, M, I, C) ==
    /\ r["rip"] = Code("syscall_exit") /\ r["rsp"] = Sp(x, 16)
    /\ User(x, C[x], I[x]) /\ AtAnswer(M[x], C[x])
    /\ \A i \in 1 .. 4 : r[CalleeSaved[i]] = C[x][CalleeSaved[i]]

\* return_trampoline_stub,
Returns(x, r, M, I) ==
    /\ r["rip"] = Code("stub") /\ r["rsp"] = Sp(x, 3)
    /\ x \in Tasks /\ I[x].kind = "kernel"
    /\ M[x][2] = Code("trampoline") /\ M[x][3] = Exit(x)

\* kernel_return_trampoline,
Ends(x, r) ==
    /\ r["rip"] = Code("trampoline") /\ r["rsp"] = Sp(x, 1)
    /\ x \in Tasks /\ r["rsi"] = Exit(x) /\ r["rdi"] = r["rax"]

\* and init_kernel_task, with the builder's own stack pointer in rax.
Builds(x, r, M, I, C, L) ==
    \E l \in {"kernel", "syscall"}, n \in 0 .. 21, u \in Tasks :
        /\ x # u /\ Called(x, r["rax"], l, n, M[x], I[x], C[x], L[x])
        /\ AtBuild(u, r, M[u], I[u], L[u])

\* One of them.
InKernel(x, r, M, I, C, L) ==
    \/ Rests(x, r, M, I, C, L) \/ Yields(x, r, M, I, C, L)
    \/ Answers(x, r, M, I, C) \/ Returns(x, r, M, I) \/ Ends(x, r)
    \/ Builds(x, r, M, I, C, L)

\* Task x can go on from the registers r: it is in user mode, or in the kernel
\* with its own page table.  The arguments are the variables of the model, so
\* that the states before and after a step can both be spoken of.
Shaped(x, r, M, I, C, L) ==
    /\ IsRegs(r)
    /\ \/ User(x, r, I[x])
       \/ /\ r["cs"] = Selector("kernel")
          /\ (x \in Tasks /\ I[x].kind # "kernel") => r["cr3"] = Root(I[x].table)
          /\ InKernel(x, r, M, I, C, L)

\* The stack that the code of x is on.
Home(x, r) == IF r["rip"] \in {Code("init_words"), Code("init_done")}
              THEN Stack(r["rsp"]) ELSE x

\* Words with different contents are different, and a stack pointer is the
\* stack and the position it is made from.
LEMMA WordFacts ==
    /\ \A a, b : Code(a) = Code(b) => a = b
    /\ \A s, n : Stack(Sp(s, n)) = s /\ Pos(Sp(s, n)) = n
    /\ Selector("kernel") # Selector("user")
    /\ \A a : Code(a)[1] = "code"
  BY Zenon DEF Code, Stack, Sp, Pos, Selector

\* What holds of a task's first n words holds while they stay as they are.
LEMMA GroundFrame ==
    ASSUME NEW x, NEW l, NEW n \in Nat, NEW stk, NEW i, NEW c, NEW f, NEW stk2,
           Ground(x, l, n, stk, i, c, f),
           \A j \in 1 .. n : stk2[j] = stk[j]
    PROVE  Ground(x, l, n, stk2, i, c, f)
<1>1. CASE l = "kernel" /\ x = None /\ n = 0
  BY <1>1, Zenon DEF Ground
<1>2. CASE l = "kernel" /\ x \in Tasks /\ i.kind = "kernel" /\ n = 4 /\ AtReturn(stk, x)
  BY <1>2 DEF Ground, AtReturn
<1>3. CASE l = "syscall" /\ n = 21 /\ User(x, c, i) /\ AtCall(stk, c)
  <2>1. AtCall(stk2, c)
    BY <1>3 DEF AtCall, Frame
  <2> QED BY <1>3, <2>1, Zenon DEF Ground
<1>4. CASE l = "exited" /\ x \in Tasks /\ f = "zombie" /\ n \in {1, 21}
  BY <1>4, Zenon DEF Ground
<1> QED BY <1>1, <1>2, <1>3, <1>4, Zenon DEF Ground

\* The same for a call that is to be returned from.
LEMMA CalledFrame ==
    ASSUME NEW x, NEW p, NEW l, NEW n \in Nat, NEW stk, NEW i, NEW c, NEW f, NEW stk2,
           Called(x, p, l, n, stk, i, c, f),
           \A j \in 1 .. n + 1 : stk2[j] = stk[j]
    PROVE  Called(x, p, l, n, stk2, i, c, f)
<1>1. Ground(x, l, n, stk2, i, c, f)
  BY GroundFrame DEF Called
<1> QED BY <1>1 DEF Called

\* The same for the stack of a task that is being built.
LEMMA BuiltFrame ==
    ASSUME NEW stk, NEW u, NEW a, NEW table, NEW xmm, NEW stk2, Built(stk, u, a, table, xmm),
           \A j \in 1 .. 27 : stk2[j] = stk[j]
    PROVE  Built(stk2, u, a, table, xmm)
<1> DEFINE ws == Saved(Started(a, xmm, Sp(u, 4), table, "kernel"), u, 4)
<1>1. Len(ws) = 23
  BY SavedAt
<1>2. Holds(stk, 4, ws)
  BY Zenon DEF Built
<1> HIDE DEF ws
<1>3. Holds(stk2, 4, ws)
  BY <1>1, <1>2 DEF Holds
<1>4. AtReturn(stk2, u)
  BY DEF Built, AtReturn
<1> QED BY <1>3, <1>4, Zenon DEF Built, ws

\* All that the state of x rests on is as it was.
Same(x, r, M, I, C, L, M2, I2, C2, L2) ==
    LET h == Home(x, r)
    IN  /\ I2[x] = I[x] /\ C2[x] = C[x] /\ L2[x] = L[x]
        /\ I2[h] = I[h] /\ L2[h] = L[h]
        /\ h # x => \A j \in 1 .. 27 : M2[x][j] = M[x][j]
        /\ r["cs"] # Selector("user") =>
               \A j \in 1 .. Pos(r["rsp"]) : M2[h][j] = M[h][j]

\* A task can go on as long as the words below its stack pointer, and what it
\* was built from, stay as they are: what others do elsewhere is harmless.
LEMMA ShapedFrame ==
    ASSUME NEW x, NEW r, NEW M, NEW I, NEW C, NEW L, NEW M2, NEW I2, NEW C2, NEW L2,
           Shaped(x, r, M, I, C, L), Same(x, r, M, I, C, L, M2, I2, C2, L2)
    PROVE  Shaped(x, r, M2, I2, C2, L2)
<1> DEFINE h == Home(x, r)
<1>0. /\ I2[x] = I[x] /\ C2[x] = C[x] /\ L2[x] = L[x] /\ I2[h] = I[h] /\ L2[h] = L[h]
      /\ h # x => \A j \in 1 .. 27 : M2[x][j] = M[x][j]
      /\ r["cs"] # Selector("user") =>
               \A j \in 1 .. Pos(r["rsp"]) : M2[h][j] = M[h][j]
  BY Zenon DEF Same
<1> USE <1>0
<1>1. CASE User(x, r, I[x])
  BY <1>1, Zenon DEF Shaped
<1>2. CASE ~User(x, r, I[x])
  <2>0. r["cs"] = Selector("kernel") /\ InKernel(x, r, M, I, C, L)
    BY <1>2, Zenon DEF Shaped
  <2> SUFFICES InKernel(x, r, M2, I2, C2, L2)
    BY <1>2, <2>0, Zenon DEF Shaped
  <2>1. \A j \in 1 .. Pos(r["rsp"]) : M2[h][j] = M[h][j]
    BY <2>0, WordFacts, Zenon
  <2>2. CASE Rests(x, r, M, I, C, L)
    <3>1. PICK l \in Labels, n \in 0 .. 21 : Resting(x, l, n, M[x], r, I[x], C[x], L[x])
      BY <2>2, Zenon DEF Rests
    <3>2. h = x /\ Pos(r["rsp"]) = n
      BY <3>1, WordFacts DEF Resting, Home, Labels
    <3>3. Ground(x, l, n, M2[x], I[x], C[x], L[x])
      BY <2>1, <3>1, <3>2, GroundFrame DEF Resting
    <3>4. Resting(x, l, n, M2[x], r, I2[x], C2[x], L2[x])
      BY <3>1, <3>3, Zenon DEF Resting
    <3> QED BY <3>4, Zenon DEF Rests, InKernel
  <2>3. CASE Yields(x, r, M, I, C, L)
    <3>1. PICK l \in Labels, n \in 0 .. 21 :
                Called(x, r["rsp"], l, n, M[x], I[x], C[x], L[x])
      BY <2>3, Zenon DEF Yields
    <3>2. h = x /\ Pos(r["rsp"]) = n + 1
      BY <2>3, <3>1, WordFacts DEF Called, Home, Yields
    <3>3. Called(x, r["rsp"], l, n, M2[x], I2[x], C2[x], L2[x])
      BY <2>1, <3>1, <3>2, CalledFrame
    <3> QED BY <2>3, <3>3, Zenon DEF Yields, InKernel
  <2>4. CASE Answers(x, r, M, I, C)
    <3>1. h = x /\ Pos(r["rsp"]) = 16
      BY <2>4, WordFacts DEF Home, Answers
    <3>2. AtAnswer(M2[x], C2[x])
      BY <2>1, <2>4, <3>1 DEF Answers, AtAnswer, Frame
    <3> QED BY <2>4, <3>2 DEF Answers, InKernel
  <2>5. CASE Returns(x, r, M, I)
    <3>1. h = x /\ Pos(r["rsp"]) = 3
      BY <2>5, WordFacts DEF Home, Returns
    <3>2. M2[x][2] = M[x][2] /\ M2[x][3] = M[x][3]
      BY <2>1, <3>1
    <3> QED BY <2>5, <3>2, Zenon DEF Returns, InKernel
  <2>6. CASE Ends(x, r)
    BY <2>6, Zenon DEF InKernel
  <2>7. CASE Builds(x, r, M, I, C, L)
    <3>1. PICK l \in {"kernel", "syscall"}, n \in 0 .. 21, u \in Tasks :
                /\ x # u /\ Called(x, r["rax"], l, n, M[x], I[x], C[x], L[x])
                /\ AtBuild(u, r, M[u], I[u], L[u])
      BY <2>7, ZenonT(40) DEF Builds
    <3>2. h = u
      BY <3>1, WordFacts DEF Home, AtBuild
    <3>3. \A j \in 1 .. n + 1 : M2[x][j] = M[x][j]
      BY <3>1, <3>2
    <3>4. Called(x, r["rax"], l, n, M2[x], I2[x], C2[x], L2[x])
      BY <3>1, <3>3, CalledFrame
    <3>5. AtBuild(u, r, M2[u], I2[u], L2[u])
      <4>1. CASE r["rip"] = Code("init_words")
        <5>1. r["rip"] # Code("init_done")
          BY <4>1 DEF Code
        <5> QED BY <3>1, <3>2, <4>1, <5>1, Zenon DEF AtBuild
      <4>2. CASE r["rip"] = Code("init_done")
        <5>1. r["rip"] # Code("init_words")
          BY <4>2 DEF Code
        <5>2. r["rsp"] = Sp(u, 27) /\ Built(M[u], u, I[u].args, r["cr3"], r["xmm"])
          BY <3>1, <5>1, Zenon DEF AtBuild
        <5>3. \A j \in 1 .. 27 : M2[u][j] = M[u][j]
          BY <2>1, <3>2, <5>2, WordFacts
        <5>4. Built(M2[u], u, I[u].args, r["cr3"], r["xmm"])
          BY <5>2, <5>3, BuiltFrame, Zenon
        <5> QED BY <3>1, <3>2, <4>2, <5>2, <5>4, Zenon DEF AtBuild
      <4> QED BY <3>1, <4>1, <4>2, Zenon DEF AtBuild
    <3> QED BY <3>1, <3>4, <3>5, Zenon DEF Builds, InKernel
  <2> QED BY <2>0, <2>2, <2>3, <2>4, <2>5, <2>6, <2>7, Zenon DEF InKernel
<1> QED BY <1>1, <1>2, Zenon

-----------------------------------------------------------------------------
(* The inductive invariant, and the steps that keep it.                    *)

\* The registers r are saved on the stack h, and p is the stack pointer with
\* which switch_and_apply finds them.
Suspended(h, r, p, M) ==
    \E n \in 0 .. 27 :
        /\ p = Sp(h, n + SavedLen) /\ Holds(M[h], n, Saved(r, h, n))
        /\ r["cs"] # Selector("user") => r["rsp"] = Sp(h, n)

\* Every task, and the boot thread, has a stack.
IsMem(M) == DOMAIN M = Slots /\ \A s \in Slots : DOMAIN M[s] = 1 .. Depth

\* Task t can be resumed: krsp leads to the registers it was left with, and it
\* can go on from those.
Parked(t, M, K, L, I, X, C) ==
    Shaped(t, X[t], M, I, C, L) /\ Suspended(Home(t, X[t]), X[t], K[t], M)

\* The tasks that the scheduler may choose.
Waiting(cur, L) == {t \in Tasks : L[t] = "ready"} \ {cur}

\* The inductive invariant.  The running task can go on from the registers,
\* every other ready task can be resumed, and no two of them are on the same
\* stack: neither the tasks that wait, nor one of them and the running one.
\* The last part is what makes the first two inductive, for a task may be
\* suspended on the stack of a task that it is building.
InvOf(r, M, K, cur, L, I, X, C) ==
    /\ IsMem(M)
    /\ DOMAIN K = Tasks /\ DOMAIN L = Tasks /\ DOMAIN I = Tasks
    /\ DOMAIN X = Tasks /\ DOMAIN C = Tasks
    /\ cur \in Slots
    /\ cur \in Tasks => L[cur] \in {"ready", "zombie"}
    /\ Shaped(cur, r, M, I, C, L)
    /\ \A t \in Waiting(cur, L) :
          Parked(t, M, K, L, I, X, C) /\ Home(t, X[t]) # Home(cur, r)
    /\ \A t, v \in Waiting(cur, L) : Home(t, X[t]) = Home(v, X[v]) => t = v

\* A push writes above the stack pointer, and keeps what is below.
LEMMA PushFacts ==
    ASSUME NEW stk, NEW n \in Nat, NEW ws, Len(ws) \in Nat, n + Len(ws) <= Depth
    PROVE  /\ DOMAIN Push(stk, n, ws) = 1 .. Depth
           /\ Holds(Push(stk, n, ws), n, ws)
           /\ \A j \in 1 .. n : Push(stk, n, ws)[j] = stk[j]
  BY DepthHolds DEF Push, Holds

\* A pop keeps what is left.
LEMMA CutFacts ==
    ASSUME NEW stk, NEW n \in Nat, n <= Depth
    PROVE  /\ DOMAIN Cut(stk, n) = 1 .. Depth
           /\ \A j \in 1 .. n : Cut(stk, n)[j] = stk[j]
  BY DepthHolds DEF Cut

\* A task is on its own stack, or on that of a task that is being built and
\* so cannot be chosen; only in user mode is the stack pointer not on it.
LEMMA HomeIs ==
    ASSUME NEW x, NEW r, NEW M, NEW I, NEW C, NEW L, Shaped(x, r, M, I, C, L)
    PROVE  /\ \/ Home(x, r) = x
              \/ Home(x, r) # x /\ Home(x, r) \in Tasks /\ L[Home(x, r)] = "building"
           /\ r["cs"] # Selector("user") => \E n \in 0 .. 27 : r["rsp"] = Sp(Home(x, r), n)
           /\ r["cs"] = Selector("user") => x \in Tasks /\ User(x, r, I[x]) /\ Home(x, r) = x
<1>1. CASE User(x, r, I[x])
  BY <1>1, WordFacts, Zenon DEF User, Home
<1>2. CASE ~User(x, r, I[x])
  <2>0. r["cs"] = Selector("kernel") /\ InKernel(x, r, M, I, C, L)
    BY <1>2, Zenon DEF Shaped
  <2> SUFFICES \/ Home(x, r) = x /\ \E n \in 0 .. 27 : r["rsp"] = Sp(x, n)
               \/ /\ Home(x, r) # x /\ Home(x, r) \in Tasks /\ L[Home(x, r)] = "building"
                  /\ \E n \in 0 .. 27 : r["rsp"] = Sp(Home(x, r), n)
    BY <2>0, WordFacts, Zenon
  <2>2. CASE Rests(x, r, M, I, C, L)
    <3>1. PICK l \in Labels, n \in 0 .. 21 : Resting(x, l, n, M[x], r, I[x], C[x], L[x])
      BY <2>2, Zenon DEF Rests
    <3> QED BY <3>1, WordFacts DEF Resting, Home, Labels
  <2>3. CASE Yields(x, r, M, I, C, L)
    <3>1. PICK l \in Labels, n \in 0 .. 21 :
                Called(x, r["rsp"], l, n, M[x], I[x], C[x], L[x])
      BY <2>3, Zenon DEF Yields
    <3>2. n + 1 \in 0 .. 27
      OBVIOUS
    <3> QED BY <2>3, <3>1, <3>2, WordFacts, Zenon DEF Called, Home, Yields
  <2>4. CASE Answers(x, r, M, I, C)
    BY <2>4, WordFacts DEF Home, Answers
  <2>5. CASE Returns(x, r, M, I)
    BY <2>5, WordFacts DEF Home, Returns
  <2>6. CASE Ends(x, r)
    BY <2>6, WordFacts DEF Home, Ends
  <2>7. CASE Builds(x, r, M, I, C, L)
    <3>1. PICK u \in Tasks : x # u /\ AtBuild(u, r, M[u], I[u], L[u])
      BY <2>7, Zenon DEF Builds
    <3> QED BY <3>1, WordFacts DEF Home, AtBuild
  <2> QED BY <2>0, <2>2, <2>3, <2>4, <2>5, <2>6, <2>7, Zenon DEF InKernel
<1> QED BY <1>1, <1>2, Zenon

\* What a step leaves alone of task t, which waits on the stack of h.
Unmoved(t, h, M, K, L, I, X, C, M2, K2, L2, I2, X2, C2) ==
    /\ X2[t] = X[t] /\ K2[t] = K[t]
    /\ M2[t] = M[t] /\ I2[t] = I[t] /\ C2[t] = C[t] /\ L2[t] = L[t]
    /\ M2[h] = M[h] /\ I2[h] = I[h] /\ L2[h] = L[h]

\* A task can be resumed as long as its stack and its metadata stay as they
\* are.
LEMMA ParkedFrame ==
    ASSUME NEW t, NEW M, NEW K, NEW L, NEW I, NEW X, NEW C,
           NEW M2, NEW K2, NEW L2, NEW I2, NEW X2, NEW C2,
           Parked(t, M, K, L, I, X, C),
           Unmoved(t, Home(t, X[t]), M, K, L, I, X, C, M2, K2, L2, I2, X2, C2)
    PROVE  Parked(t, M2, K2, L2, I2, X2, C2)
<1> DEFINE h == Home(t, X[t])
<1>0. /\ X2[t] = X[t] /\ K2[t] = K[t] /\ M2[h] = M[h]
      /\ Same(t, X[t], M, I, C, L, M2, I2, C2, L2)
  BY Zenon DEF Unmoved, Same
<1>1. Shaped(t, X[t], M2, I2, C2, L2)
  <2>1. Shaped(t, X[t], M, I, C, L)
    BY Zenon DEF Parked
  <2> QED BY <1>0, <2>1, ShapedFrame, Zenon
<1>2. Suspended(h, X[t], K[t], M2)
  BY <1>0, Zenon DEF Parked, Suspended
<1> QED BY <1>0, <1>1, <1>2, Zenon DEF Parked

\* A step of the running task on the stack it is on.
Local(r, M, K, cur, L, I, X, C, r2, M2, K2, L2, X2, C2) ==
    /\ IsMem(M2) /\ DOMAIN K2 = Tasks /\ DOMAIN L2 = Tasks
    /\ DOMAIN X2 = Tasks /\ DOMAIN C2 = Tasks
    /\ \A s \in Slots \ {Home(cur, r)} : M2[s] = M[s]
    /\ \A t \in Tasks \ {cur} :
          K2[t] = K[t] /\ L2[t] = L[t] /\ X2[t] = X[t] /\ C2[t] = C[t]
    /\ cur \in Tasks => L2[cur] \in {"ready", "zombie"}
    /\ Home(cur, r2) = Home(cur, r)
    /\ Shaped(cur, r2, M2, I, C2, L2)

\* A task that waits is not on the stack that the running code is on, nor on
\* that of a task which waits itself, unless it is its own.
LEMMA WaitingFacts ==
    ASSUME NEW r, NEW M, NEW K, NEW cur, NEW L, NEW I, NEW X, NEW C,
           InvOf(r, M, K, cur, L, I, X, C), NEW t \in Waiting(cur, L)
    PROVE  /\ t \in Tasks /\ t # cur /\ L[t] = "ready" /\ t # Home(cur, r)
           /\ Parked(t, M, K, L, I, X, C) /\ Home(t, X[t]) # Home(cur, r)
           /\ Home(t, X[t]) \in Tasks /\ Home(t, X[t]) # cur
           /\ L[Home(t, X[t])] \in {"ready", "building"}
           /\ Home(t, X[t]) # t => L[Home(t, X[t])] = "building"
<1>1. /\ Parked(t, M, K, L, I, X, C) /\ Home(t, X[t]) # Home(cur, r)
      /\ Shaped(cur, r, M, I, C, L) /\ Shaped(t, X[t], M, I, C, L)
  BY Zenon DEF InvOf, Parked
<1>2. t \in Tasks /\ t # cur /\ L[t] = "ready"
  BY Zenon DEF Waiting
<1>3. cur \in Tasks => L[cur] \in {"ready", "zombie"}
  BY Zenon DEF InvOf
<1>4. Home(cur, r) = cur \/ L[Home(cur, r)] = "building"
  BY <1>1, HomeIs
<1>5. \/ Home(t, X[t]) = t
      \/ Home(t, X[t]) # t /\ Home(t, X[t]) \in Tasks /\ L[Home(t, X[t])] = "building"
  BY <1>1, HomeIs
<1> QED BY <1>1, <1>2, <1>3, <1>4, <1>5

\* A step of the running task on the stack it is on keeps the invariant.
LEMMA LocalStep ==
    ASSUME NEW r, NEW M, NEW K, NEW cur, NEW L, NEW I, NEW X, NEW C,
           NEW r2, NEW M2, NEW K2, NEW L2, NEW X2, NEW C2,
           InvOf(r, M, K, cur, L, I, X, C),
           Local(r, M, K, cur, L, I, X, C, r2, M2, K2, L2, X2, C2)
    PROVE  InvOf(r2, M2, K2, cur, L2, I, X2, C2)
<1>1. Waiting(cur, L2) = Waiting(cur, L)
  BY Zenon DEF Local, Waiting
<1>2. ASSUME NEW t \in Waiting(cur, L2)
      PROVE  /\ Parked(t, M2, K2, L2, I, X2, C2)
             /\ Home(t, X2[t]) # Home(cur, r2) /\ X2[t] = X[t]
  <2> DEFINE h == Home(t, X[t])
  <2>1. /\ t \in Tasks /\ t # cur /\ t # Home(cur, r) /\ h # Home(cur, r)
        /\ h \in Tasks /\ h # cur /\ Parked(t, M, K, L, I, X, C)
    BY <1>1, <1>2, WaitingFacts
  <2>2. /\ M2[t] = M[t] /\ M2[h] = M[h] /\ K2[t] = K[t] /\ X2[t] = X[t] /\ C2[t] = C[t]
        /\ L2[t] = L[t] /\ L2[h] = L[h]
    BY <2>1, Zenon DEF Local, Slots
  <2>3. Parked(t, M2, K2, L2, I, X2, C2)
    <3>1. Unmoved(t, Home(t, X[t]), M, K, L, I, X, C, M2, K2, L2, I, X2, C2)
      BY <2>2, Zenon DEF Unmoved
    <3> QED BY <2>1, <3>1, ParkedFrame, ZenonT(40)
  <2> QED BY <2>1, <2>2, <2>3, Zenon DEF Local
<1>3. \A t, v \in Waiting(cur, L2) : Home(t, X2[t]) = Home(v, X2[v]) => t = v
  BY <1>1, <1>2, Zenon DEF InvOf
<1> QED BY <1>2, <1>3, Zenon DEF InvOf, Local

\* The invariant of the model: and the TSS names the running task.
Inv == InvOf(cpu, mem, krsp, current, life, info, ctx, call) /\ tss = current

\* M2 is M but for the stack of s.
Replaces(M2, M, s, stk) ==
    /\ IsMem(M2) /\ M2[s] = stk
    /\ \A v \in Slots \ {s} : M2[v] = M[v]

\* Writing one stack leaves the others.
LEMMA StackFacts ==
    ASSUME NEW M, NEW M2, NEW s \in Slots, NEW stk, IsMem(M), DOMAIN stk = 1 .. Depth,
           M2 = [M EXCEPT ![s] = stk]
    PROVE  Replaces(M2, M, s, stk)
  BY Zenon DEF IsMem, Replaces

\* What a switch from the stack of cur to next leaves alone of task t.
Aside(t, next, r, M, K, cur, X, M2, K2, X2) ==
    /\ X2[t] = X[t] /\ K2[t] = K[t]
    /\ \A v \in Slots \ {Home(cur, r), Home(next, X[next])} : M2[v] = M[v]

\* A task that waits on is not touched by a switch to next.
LEMMA WaitsOn ==
    ASSUME NEW r, NEW M, NEW K, NEW cur, NEW L, NEW I, NEW X, NEW C,
           InvOf(r, M, K, cur, L, I, X, C),
           NEW next \in Waiting(cur, L), NEW t \in Waiting(cur, L), t # next,
           NEW M2, NEW K2, NEW X2, Aside(t, next, r, M, K, cur, X, M2, K2, X2)
    PROVE  /\ Home(t, X[t]) # Home(next, X[next]) /\ Home(t, X[t]) # Home(cur, r)
           /\ Parked(t, M2, K2, L, I, X2, C)
<1> DEFINE h == Home(t, X[t])
<1>1. /\ t # Home(cur, r) /\ h # Home(cur, r) /\ t \in Tasks /\ h \in Tasks
      /\ L[t] = "ready" /\ Parked(t, M, K, L, I, X, C)
  BY WaitingFacts DEF Waiting
<1>2. h # Home(next, X[next])
  BY Zenon DEF InvOf
<1>3. t # Home(next, X[next])
  BY <1>1, WaitingFacts
<1>4. Unmoved(t, h, M, K, L, I, X, C, M2, K2, L, I, X2, C)
  BY <1>1, <1>2, <1>3, Zenon DEF Aside, Unmoved, Slots
<1> QED BY <1>1, <1>2, <1>4, ParkedFrame, Zenon

\* context_switch_local keeps the invariant, whether it goes back to the stub
\* or to the next task, and the registers are then those given to it, or those
\* the next task was left with.
LEMMA SwitchStep ==
    ASSUME Inv, NEW regs, NEW stack, NEW s, NEW n \in 0 .. 27,
           DOMAIN stack = 1 .. Depth,
           s = Home(current, regs), s = Home(current, cpu), IsRegs(regs),
           Shaped(current, regs, [mem EXCEPT ![s] = stack], info, call, life),
           regs["cs"] # Selector("user") => regs["rsp"] = Sp(s, n),
           ContextSwitch(regs, stack, s, n)
    PROVE  /\ InvOf(cpu', mem', krsp', current', life', info', ctx', call')
           /\ tss' = current'
           /\ current' = current => cpu' = regs
           /\ current' # current => cpu' = ctx[current'] /\ current' \in Tasks
<1> DEFINE P == Push(stack, n, Saved(regs, s, n))
           M0 == [mem EXCEPT ![s] = stack]
           M1 == [mem EXCEPT ![s] = P]
           rsp == Sp(s, n + SavedLen)
           saved == IF current = None THEN krsp ELSE [krsp EXCEPT ![current] = rsp]
<1>0. /\ IsMem(mem) /\ current \in Slots /\ Shaped(current, cpu, mem, info, call, life)
      /\ DOMAIN krsp = Tasks /\ DOMAIN life = Tasks /\ DOMAIN info = Tasks
      /\ DOMAIN ctx = Tasks /\ DOMAIN call = Tasks
      /\ current \in Tasks => life[current] \in {"ready", "zombie"}
  BY Zenon DEF Inv, InvOf
<1>1. s \in Slots
  BY <1>0, HomeIs, Zenon DEF Slots
<1>n. n \in Nat /\ n <= Depth /\ n + 23 <= Depth
  BY DepthHolds
<1>2. /\ DOMAIN P = 1 .. Depth /\ Holds(P, n, Saved(regs, s, n))
      /\ \A j \in 1 .. n : P[j] = stack[j]
  <2> DEFINE ws == Saved(regs, s, n)
  <2>1. Len(ws) = SavedLen
    BY SavedLength, Zenon
  <2> HIDE DEF ws
  <2>2. Len(ws) \in Nat /\ n + Len(ws) <= Depth
    BY <1>n, <2>1 DEF SavedLen
  <2>3. /\ DOMAIN Push(stack, n, ws) = 1 .. Depth /\ Holds(Push(stack, n, ws), n, ws)
        /\ \A j \in 1 .. n : Push(stack, n, ws)[j] = stack[j]
    BY <1>n, <2>2, PushFacts, Zenon
  <2> QED BY <2>3, Zenon DEF ws
<1>3. Stack(rsp) = s /\ Resumes(P, rsp, regs, n)
  <2> HIDE DEF P
  <2>1. Stack(rsp) = s
    BY WordFacts, Zenon
  <2>2. Resumes(P, rsp, regs, n)
    BY <1>n, <1>2, RestoreSaved, Zenon
  <2> QED BY <2>1, <2>2, Zenon
<1>4. Replaces(M0, mem, s, stack) /\ Replaces(M1, mem, s, P)
  <2> HIDE DEF P
  <2>1. Replaces(M0, mem, s, stack)
    BY <1>0, <1>1, <1>2, StackFacts, Zenon
  <2>2. Replaces(M1, mem, s, P)
    BY <1>0, <1>1, <1>2, StackFacts, Zenon
  <2> QED BY <2>1, <2>2, Zenon
<1>5. life' = life /\ info' = info /\ call' = call
  BY Zenon DEF ContextSwitch
<1>6. /\ saved[current] = rsp \/ current = None
      /\ DOMAIN saved = Tasks /\ \A t \in Tasks \ {current} : saved[t] = krsp[t]
  BY <1>0, Zenon DEF Slots
<1>7. \/ /\ krsp' \in {krsp, saved} /\ Apply(M1, rsp)
         /\ current' = current /\ tss' = tss /\ ctx' = ctx
      \/ \E next \in Ready :
            /\ krsp' = saved /\ current' = next /\ tss' = next /\ Apply(M1, saved[next])
            /\ ctx' = [t \in Tasks |-> CASE t = next -> Blank
                                         [] t = current /\ t # next -> regs
                                         [] OTHER -> ctx[t]]
  BY Zenon DEF ContextSwitch, SetTssKstack
<1> HIDE DEF P, M0, M1, rsp, saved
<1>8. ASSUME Apply(M1, rsp), current' = current, DOMAIN krsp' = Tasks, DOMAIN ctx' = Tasks,
             \A t \in Tasks \ {current} : krsp'[t] = krsp[t] /\ ctx'[t] = ctx[t]
      PROVE  cpu' = regs /\ InvOf(cpu', mem', krsp', current', life', info', ctx', call')
  <2>1. cpu' = regs /\ mem' = [M1 EXCEPT ![s] = Cut(P, n)]
    BY <1>3, <1>4, <1>8, Zenon DEF Apply, Replaces, Resumes
  <2>2. DOMAIN Cut(P, n) = 1 .. Depth /\ \A j \in 1 .. n : Cut(P, n)[j] = P[j]
    BY <1>n, CutFacts, Zenon
  <2>3. IsMem(mem') /\ mem'[s] = Cut(P, n) /\ \A v \in Slots \ {s} : mem'[v] = mem[v]
    <3>0. IsMem(M1)
      BY <1>4, Zenon DEF Replaces
    <3>1. Replaces(mem', M1, s, Cut(P, n))
      BY <1>1, <2>1, <2>2, <3>0, StackFacts, Zenon
    <3> QED BY <1>4, <3>1, Zenon DEF Replaces
  <2>4. Same(current, regs, M0, info, call, life, mem', info, call, life)
    <3>1. s # current => mem'[current] = M0[current]
      BY <1>0, <1>4, <2>3, Zenon DEF Replaces
    <3>2. regs["cs"] # Selector("user") =>
             \A j \in 1 .. Pos(regs["rsp"]) : mem'[s][j] = M0[s][j]
      BY <1>2, <1>4, <2>2, <2>3, WordFacts DEF Replaces
    <3> QED BY <3>1, <3>2, Zenon DEF Same
  <2>5. Shaped(current, regs, mem', info, call, life)
    BY <2>4, ShapedFrame, Zenon DEF M0
  <2>6. Local(cpu, mem, krsp, current, life, info, ctx, call,
              regs, mem', krsp', life, ctx', call)
    BY <1>0, <1>8, <2>3, <2>5, Zenon DEF Local
  <2>7. InvOf(regs, mem', krsp', current, life, info, ctx', call)
    BY <2>6, LocalStep DEF Inv
  <2> QED BY <1>5, <1>8, <2>1, <2>7, Zenon
<1>9. CASE /\ krsp' \in {krsp, saved} /\ Apply(M1, rsp)
           /\ current' = current /\ tss' = tss /\ ctx' = ctx
  <2>1. DOMAIN krsp' = Tasks /\ \A t \in Tasks \ {current} : krsp'[t] = krsp[t]
    BY <1>0, <1>6, <1>9, Zenon
  <2>2. cpu' = regs /\ InvOf(cpu', mem', krsp', current', life', info', ctx', call')
    BY <1>0, <1>8, <1>9, <2>1, Zenon
  <2> QED BY <1>9, <2>2, Zenon DEF Inv
<1>10. ASSUME NEW next \in Ready, krsp' = saved, current' = next, tss' = next,
              Apply(M1, saved[next]),
              ctx' = [t \in Tasks |-> CASE t = next -> Blank
                                         [] t = current /\ t # next -> regs
                                         [] OTHER -> ctx[t]]
       PROVE  /\ InvOf(cpu', mem', krsp', current', life', info', ctx', call')
              /\ tss' = current'
              /\ current' = current => cpu' = regs
              /\ current' # current => cpu' = ctx[current'] /\ current' \in Tasks
  <2>0. next \in Tasks /\ life[next] = "ready" /\ next # None /\ DOMAIN ctx' = Tasks
        /\ DOMAIN krsp' = Tasks
    BY <1>6, <1>10, NoneIsNoTask, Zenon DEF Ready
  <2>1. CASE next = current
    <3>1. saved[next] = rsp
      BY <1>6, <2>0, <2>1, Zenon
    <3>2. \A t \in Tasks \ {current} : krsp'[t] = krsp[t] /\ ctx'[t] = ctx[t]
      BY <1>6, <1>10, <2>1, Zenon
    <3>3. cpu' = regs /\ InvOf(cpu', mem', krsp', current', life', info', ctx', call')
      BY <1>8, <1>10, <2>0, <2>1, <3>1, <3>2, Zenon
    <3> QED BY <1>10, <2>1, <3>3, Zenon
  <2>2. CASE next # current
    <3> DEFINE s2 == Home(next, ctx[next])
    <3>1. next \in Waiting(current, life)
      BY <2>0, <2>2, ZenonT(40) DEF Waiting
    <3>2. /\ next # s /\ s2 # s /\ s2 \in Tasks /\ s2 # current
          /\ s2 # next => life[s2] = "building"
          /\ Parked(next, mem, krsp, life, info, ctx, call)
      BY <3>1, WaitingFacts DEF Inv
    <3>3. /\ Shaped(next, ctx[next], mem, info, call, life) /\ IsRegs(ctx[next])
          /\ Suspended(s2, ctx[next], krsp[next], mem)
      BY <3>2, Zenon DEF Parked, Shaped
    <3> HIDE DEF s2
    <3>4. PICK n2 \in 0 .. 27 :
             /\ krsp[next] = Sp(s2, n2 + SavedLen)
             /\ Holds(mem[s2], n2, Saved(ctx[next], s2, n2))
             /\ ctx[next]["cs"] # Selector("user") => ctx[next]["rsp"] = Sp(s2, n2)
      BY <3>3, Zenon DEF Suspended
    <3>5. saved[next] = Sp(s2, n2 + SavedLen) /\ M1[s2] = mem[s2]
      BY <1>4, <1>6, <2>0, <2>2, <3>2, <3>4, Zenon DEF Slots, Replaces
    <3>m. n2 \in Nat /\ n2 <= Depth
      BY DepthHolds
    <3>6. Stack(saved[next]) = s2 /\ Resumes(mem[s2], saved[next], ctx[next], n2)
      <4>1. Stack(saved[next]) = s2
        BY <3>5, WordFacts, Zenon
      <4>2. Resumes(mem[s2], saved[next], ctx[next], n2)
        BY <3>3, <3>4, <3>5, <3>m, RestoreSaved, Zenon
      <4> QED BY <4>1, <4>2, Zenon
    <3>7. cpu' = ctx[next] /\ mem' = [M1 EXCEPT ![s2] = Cut(mem[s2], n2)]
      BY <1>10, <3>5, <3>6, Zenon DEF Apply, Resumes
    <3>8. DOMAIN Cut(mem[s2], n2) = 1 .. Depth
          /\ \A j \in 1 .. n2 : Cut(mem[s2], n2)[j] = mem[s2][j]
      BY <3>m, CutFacts, Zenon
    <3>9. IsMem(mem') /\ mem'[s2] = Cut(mem[s2], n2) /\ mem'[s] = P
          /\ \A v \in Slots \ {s, s2} : mem'[v] = mem[v]
      <4>1. Replaces(mem', M1, s2, Cut(mem[s2], n2))
        <5>1. s2 \in Slots /\ IsMem(M1)
          BY <1>4, <3>2, Zenon DEF Slots, Replaces
        <5> QED BY <3>7, <3>8, <5>1, StackFacts, Zenon
      <4> QED BY <1>1, <1>4, <3>2, <4>1, Zenon DEF Replaces
    <3>10. Shaped(next, ctx[next], mem', info, call, life)
      <4>1. s2 # next => mem'[next] = mem[next]
        BY <2>0, <3>2, <3>9, ZenonT(40) DEF Slots
      <4>2. ctx[next]["cs"] # Selector("user") =>
               \A j \in 1 .. Pos(ctx[next]["rsp"]) : mem'[s2][j] = mem[s2][j]
        BY <3>4, <3>8, <3>9, WordFacts
      <4>3. Same(next, ctx[next], mem, info, call, life, mem', info, call, life)
        BY <4>1, <4>2, Zenon DEF Same, s2
      <4> QED BY <3>3, <4>3, ShapedFrame, Zenon
    <3>11. ASSUME current \in Waiting(next, life)
           PROVE  /\ ctx'[current] = regs /\ Parked(current, mem', krsp', life, info, ctx', call)
      <4>1. current \in Tasks /\ ctx'[current] = regs /\ krsp'[current] = rsp
        BY <1>6, <1>10, <2>2, <3>11, NoneIsNoTask, Zenon DEF Waiting
      <4>2. s # current => mem'[current] = M0[current]
        BY <1>0, <1>4, <3>2, <3>9, ZenonT(40) DEF Replaces
      <4>3. regs["cs"] # Selector("user") =>
               \A j \in 1 .. Pos(regs["rsp"]) : mem'[s][j] = M0[s][j]
        BY <1>2, <1>4, <3>9, WordFacts DEF Replaces
      <4>4. Same(current, regs, M0, info, call, life, mem', info, call, life)
        BY <4>2, <4>3, Zenon DEF Same
      <4>5. Shaped(current, regs, mem', info, call, life)
        BY <4>4, ShapedFrame, Zenon DEF M0
      <4>6. Suspended(s, regs, rsp, mem')
        BY <1>2, <3>9, Zenon DEF Suspended, rsp
      <4> QED BY <4>1, <4>5, <4>6, Zenon DEF Parked
    <3>12. ASSUME NEW t \in Waiting(next, life), t # current
           PROVE  /\ t \in Waiting(current, life) /\ ctx'[t] = ctx[t]
                  /\ Home(t, ctx[t]) # s2 /\ Home(t, ctx[t]) # s
                  /\ Parked(t, mem', krsp', life, info, ctx', call)
      <4>1. t \in Waiting(current, life) /\ t # next /\ t \in Tasks
        BY <3>12, Zenon DEF Waiting
      <4>2. ctx'[t] = ctx[t] /\ krsp'[t] = krsp[t]
        BY <1>6, <1>10, <3>12, <4>1, Zenon
      <4>3. Aside(t, next, cpu, mem, krsp, current, ctx, mem', krsp', ctx')
        BY <3>9, <4>2, Zenon DEF Aside, s2
      <4>4. InvOf(cpu, mem, krsp, current, life, info, ctx, call)
        BY Zenon DEF Inv
      <4>5. /\ Home(t, ctx[t]) # Home(next, ctx[next]) /\ Home(t, ctx[t]) # Home(current, cpu)
            /\ Parked(t, mem', krsp', life, info, ctx', call)
        BY <3>1, <4>1, <4>3, <4>4, WaitsOn, Zenon
      <4> QED BY <4>1, <4>2, <4>5, Zenon DEF s2
    <3>13. \A t \in Waiting(next, life) :
              /\ Parked(t, mem', krsp', life, info, ctx', call)
              /\ Home(t, ctx'[t]) # Home(next, ctx[next])
      BY <3>2, <3>11, <3>12, Zenon DEF s2
    <3>14. \A t, v \in Waiting(next, life) : Home(t, ctx'[t]) = Home(v, ctx'[v]) => t = v
      <4>1. \A t, v \in Waiting(current, life) : Home(t, ctx[t]) = Home(v, ctx[v]) => t = v
        BY Zenon DEF Inv, InvOf
      <4> QED BY <3>11, <3>12, <4>1, Zenon
    <3>15. InvOf(ctx[next], mem', krsp', next, life, info, ctx', call)
      BY <1>0, <2>0, <3>9, <3>10, <3>13, <3>14, Zenon DEF InvOf, Slots
    <3> QED BY <1>5, <1>10, <2>0, <2>2, <3>7, <3>15, Zenon
  <2> QED BY <2>1, <2>2, Zenon
<1> QED BY <1>7, <1>9, <1>10, Zenon

-----------------------------------------------------------------------------
(* The stack of a new task.                                                *)

\* The registers of the calling convention, in its order.
LEMMA ArgFacts ==
    /\ ArgPos["rdi"] = 1 /\ ArgPos["rsi"] = 2 /\ ArgPos["rdx"] = 3
    /\ ArgPos["rcx"] = 4 /\ ArgPos["r8"] = 5 /\ ArgPos["r9"] = 6
    /\ \A r \in Regs \ {"rdi", "rsi", "rdx", "rcx", "r8", "r9"} : ArgPos[r] = 0
<1>1. DOMAIN ArgRegs = 1 .. 6
  BY DEF ArgRegs
<1>2. \A i \in 1 .. 6 : ArgRegs[i] \in Regs
  BY DEF ArgRegs, Regs, Data
<1>3. \A i, j \in 1 .. 6 : ArgRegs[i] = ArgRegs[j] => i = j
  BY DEF ArgRegs
<1>4. \A i \in 1 .. 6 : ArgPos[ArgRegs[i]] = i
  BY <1>1, <1>2, <1>3, PositionOf DEF ArgPos
<1>5. /\ ArgPos["rdi"] = 1 /\ ArgPos["rsi"] = 2 /\ ArgPos["rdx"] = 3
      /\ ArgPos["rcx"] = 4 /\ ArgPos["r8"] = 5 /\ ArgPos["r9"] = 6
  <2>1. /\ ArgRegs[1] = "rdi" /\ ArgRegs[2] = "rsi" /\ ArgRegs[3] = "rdx"
        /\ ArgRegs[4] = "rcx" /\ ArgRegs[5] = "r8" /\ ArgRegs[6] = "r9"
    BY Zenon DEF ArgRegs
  <2> QED BY <1>4, <2>1
<1>6. ASSUME NEW r \in Regs \ {"rdi", "rsi", "rdx", "rcx", "r8", "r9"}
      PROVE  ArgPos[r] = 0
  <2>1. \A i \in DOMAIN ArgRegs : ArgRegs[i] # r
    BY <1>1 DEF ArgRegs
  <2> QED BY <2>1, NoPosition, Zenon DEF ArgPos
<1> QED BY <1>5, <1>6, Zenon

\* The registers a new task is to start with.
Begins(r, a, xmm, sp, table, ring) ==
    /\ IsRegs(r)
    /\ r["rdi"] = a[1] /\ r["rsi"] = a[2] /\ r["rdx"] = a[3]
    /\ r["rcx"] = a[4] /\ r["r8"] = a[5] /\ r["r9"] = a[6]
    /\ r["cr3"] = table /\ r["xmm"] = xmm /\ r["rsp"] = sp
    /\ r["rflags"] = Flag(TRUE) /\ r["cs"] = Selector(ring) /\ r["ss"] = Selector(ring)
    /\ r["rip"] = Code(IF ring = "user" THEN "user" ELSE "kernel")
    /\ \A x \in {"rax", "rbx", "rbp", "r10", "r11", "r12", "r13", "r14", "r15"} : r[x] = Zero

\* Started, written out register by register.
LEMMA StartedIs ==
    ASSUME NEW a, NEW xmm, NEW sp, NEW table, NEW ring, NEW r,
           r = Started(a, xmm, sp, table, ring)
    PROVE  Begins(r, a, xmm, sp, table, ring)
<1>0. /\ IsRegs(r)
      /\ \A x \in Regs : r[x] =
            CASE ArgPos[x] # 0 -> a[ArgPos[x]]
              [] x = "cr3" -> table
              [] x = "xmm" -> xmm
              [] x = "rsp" -> sp
              [] x = "rflags" -> Flag(TRUE)
              [] x \in {"cs", "ss"} -> Selector(ring)
              [] x = "rip" -> Code(IF ring = "user" THEN "user" ELSE "kernel")
              [] OTHER -> Zero
  BY DEF Started, IsRegs
<1>1. ASSUME NEW x \in {"rdi", "rsi", "rdx", "rcx", "r8", "r9"}
      PROVE  r[x] = a[ArgPos[x]]
  <2>1. x \in Regs /\ ArgPos[x] # 0
    BY ArgFacts DEF Regs, Data
  <2> QED BY <1>0, <2>1, Zenon
<1>2. ASSUME NEW x \in Regs \ {"rdi", "rsi", "rdx", "rcx", "r8", "r9"}
      PROVE  r[x] = CASE x = "cr3" -> table
                      [] x = "xmm" -> xmm
                      [] x = "rsp" -> sp
                      [] x = "rflags" -> Flag(TRUE)
                      [] x \in {"cs", "ss"} -> Selector(ring)
                      [] x = "rip" -> Code(IF ring = "user" THEN "user" ELSE "kernel")
                      [] OTHER -> Zero
  BY <1>0, ArgFacts, Zenon
<1>3. /\ r["cr3"] = table /\ r["xmm"] = xmm /\ r["rsp"] = sp
      /\ r["rflags"] = Flag(TRUE) /\ r["cs"] = Selector(ring) /\ r["ss"] = Selector(ring)
      /\ r["rip"] = Code(IF ring = "user" THEN "user" ELSE "kernel")
  BY <1>2, Zenon DEF Regs, Data
<1>4. \A x \in {"rax", "rbx", "rbp", "r10", "r11", "r12", "r13", "r14", "r15"} : r[x] = Zero
  BY <1>2, Zenon DEF Regs, Data
<1>5. /\ r["rdi"] = a[1] /\ r["rsi"] = a[2] /\ r["rdx"] = a[3]
      /\ r["rcx"] = a[4] /\ r["r8"] = a[5] /\ r["r9"] = a[6]
  BY <1>1, ArgFacts, Zenon
<1> QED BY <1>0, <1>3, <1>4, <1>5, Zenon DEF Begins

\* The words that init_kernel_task and init_usr_task push are the ones that a
\* stub would push for a task with the registers of a new one.
LEMMA StartSaved ==
    ASSUME NEW a, NEW xmm, NEW sp, NEW table, NEW ring, NEW s, NEW n, NEW i \in 1 .. 21
    PROVE  StartFrame(a, sp, table, ring)[i] = Saved(Started(a, xmm, sp, table, ring), s, n)[i]
<1> DEFINE r == Started(a, xmm, sp, table, ring)
           k == 22 - i
<1>1. k \in 1 .. 21 /\ 22 - k = i
  OBVIOUS
<1>2. Saved(r, s, n)[i] = r[RestoreOrder[k]]
  <2> HIDE DEF r, k
  <2> QED BY <1>1, SavedAt
<1>3. StartFrame(a, sp, table, ring)[i] = r[RestoreOrder[22 - i]]
  <2> HIDE DEF r
  <2>1. Begins(r, a, xmm, sp, table, ring)
    BY StartedIs, Zenon DEF r
  <2>c. CASE i = 1
    BY <2>1, <2>c DEF StartFrame, RestoreOrder, Begins
  <2>d. CASE i = 2
    BY <2>1, <2>d DEF StartFrame, RestoreOrder, Begins
  <2>e. CASE i = 3
    <3> DEFINE flag == Flag(TRUE)
    <3>1. r["rflags"] = flag
      BY <2>1, Zenon DEF Begins
    <3>2. StartFrame(a, sp, table, ring) =
             <<Selector(ring), sp, flag, Selector(ring),
               Code(IF ring = "user" THEN "user" ELSE "kernel"),
               Zero, Zero, a[1], a[2], a[3], a[4], Zero, table,
               Zero, Zero, Zero, Zero, Zero, Zero, a[6], a[5]>>
      BY Zenon DEF StartFrame
    <3> HIDE DEF flag
    <3> QED BY <2>e, <3>1, <3>2 DEF RestoreOrder
  <2>f. CASE i = 4
    BY <2>1, <2>f DEF StartFrame, RestoreOrder, Begins
  <2>b. CASE i = 5
    BY <2>1, <2>b DEF StartFrame, RestoreOrder, Begins
  <2>2. CASE i \in 6 .. 7
    BY <2>1, <2>2 DEF StartFrame, RestoreOrder, Begins
  <2>3. CASE i \in 8 .. 14
    BY <2>1, <2>3 DEF StartFrame, RestoreOrder, Begins
  <2>4. CASE i \in 15 .. 21
    BY <2>1, <2>4 DEF StartFrame, RestoreOrder, Begins
  <2> QED BY <2>c, <2>d, <2>e, <2>f, <2>b, <2>2, <2>3, <2>4
<1> QED BY <1>2, <1>3, Zenon

\* The stack of a new task.
NewStack(m, u, a, xmm, sp, table, ring) ==
    Push(m, 0, ReturnPath(Exit(u)) \o StartFrame(a, sp, table, ring) \o <<xmm, Sp(u, 25)>>)

\* A new stack holds the way back, and above it a context that
\* switch_and_apply starts the task from.
LEMMA BuiltWords ==
    ASSUME NEW a, NEW xmm, NEW sp, NEW table, NEW ring, NEW u, NEW m, NEW stk,
           stk = NewStack(m, u, a, xmm, sp, table, ring)
    PROVE  /\ DOMAIN stk = 1 .. Depth /\ AtReturn(stk, u)
           /\ Holds(stk, 4, Saved(Started(a, xmm, sp, table, ring), u, 4))
<1> DEFINE A == ReturnPath(Exit(u))
           B == StartFrame(a, sp, table, ring)
           Q == <<xmm, Sp(u, 25)>>
           r == Started(a, xmm, sp, table, ring)
           S == {Zero, Code("trampoline"), Exit(u), Code("stub"), xmm, Sp(u, 25)}
                  \cup {B[i] : i \in 1 .. 21}
           AB == A \o B
           W == AB \o Q
<1>1. A \in Seq(S) /\ Len(A) = 4 /\ AtReturn(A, u)
  <2> HIDE DEF B
  <2> QED BY DEF ReturnPath, AtReturn
<1>2. Q \in Seq(S) /\ Len(Q) = 2 /\ Q[1] = xmm /\ Q[2] = Sp(u, 25)
  <2> HIDE DEF B
  <2> QED OBVIOUS
<1>3. B \in Seq(S) /\ Len(B) = 21
  <2> DEFINE flag == Flag(TRUE)
  <2>1. B = <<Selector(ring), sp, flag, Selector(ring),
              Code(IF ring = "user" THEN "user" ELSE "kernel"),
              Zero, Zero, a[1], a[2], a[3], a[4], Zero, table,
              Zero, Zero, Zero, Zero, Zero, Zero, a[6], a[5]>>
    BY Zenon DEF StartFrame
  <2> HIDE DEF flag, B
  <2>2. Len(B) = 21 /\ B = [i \in 1 .. 21 |-> B[i]]
    BY <2>1
  <2> QED BY <2>2
<1>4. ASSUME NEW i \in 1 .. 21 PROVE B[i] = Saved(r, u, 4)[i]
  BY StartSaved
<1>5. r["xmm"] = xmm
  <2>1. Begins(r, a, xmm, sp, table, ring)
    BY StartedIs, Zenon
  <2> HIDE DEF r
  <2> QED BY <2>1, Zenon DEF Begins
<1> HIDE DEF A, B, Q, r, S
<1>6. Joins(AB, S, A, B)
  BY <1>1, <1>3, Concat, Zenon
<1> HIDE DEF AB
<1>7. /\ AB \in Seq(S) /\ Len(AB) = 25
      /\ \A i \in 1 .. 4 : AB[i] = A[i]
      /\ \A i \in 1 .. 21 : AB[4 + i] = B[i]
  BY <1>1, <1>3, <1>6 DEF Joins
<1>8. Joins(W, S, AB, Q)
  BY <1>2, <1>7, Concat, Zenon
<1>9. stk = Push(m, 0, W)
  BY Zenon DEF A, B, Q, AB, NewStack
<1> HIDE DEF W
<1>10. /\ Len(W) = 27
       /\ \A i \in 1 .. 4 : W[i] = A[i]
       /\ \A i \in 1 .. 21 : W[4 + i] = B[i]
       /\ W[26] = xmm /\ W[27] = Sp(u, 25)
  <2>1. /\ Len(W) = 27
        /\ \A i \in 1 .. 25 : W[i] = AB[i]
        /\ \A i \in 1 .. 2 : W[25 + i] = Q[i]
    BY <1>2, <1>7, <1>8 DEF Joins
  <2>2. W[25 + 1] = Q[1] /\ W[25 + 2] = Q[2]
    BY <2>1
  <2>3. ASSUME NEW i \in 1 .. 21 PROVE W[4 + i] = B[i]
    <3>1. 4 + i \in 1 .. 25
      OBVIOUS
    <3>2. W[4 + i] = AB[4 + i]
      BY <2>1, <3>1, Zenon
    <3> QED BY <1>7, <3>2, Zenon
  <2>4. \A i \in 1 .. 4 : W[i] = A[i]
    <3>1. \A i \in 1 .. 4 : W[i] = AB[i]
      BY <2>1
    <3> QED BY <1>7, <3>1, Zenon
  <2>5. W[26] = xmm /\ W[27] = Sp(u, 25)
    BY <1>2, <2>2
  <2> QED BY <2>1, <2>3, <2>4, <2>5, Zenon
<1>11. DOMAIN stk = 1 .. Depth /\ \A i \in 1 .. 27 : stk[i] = W[i]
  BY <1>9, <1>10, DepthHolds DEF Push
<1>12. AtReturn(stk, u)
  <2>1. \A i \in 1 .. 4 : stk[i] = W[i]
    <3>1. \A i \in 1 .. 4 : i \in 1 .. 27
      OBVIOUS
    <3> QED BY <1>11, <3>1, Zenon
  <2>2. \A i \in 1 .. 4 : stk[i] = A[i]
    BY <1>10, <2>1, Zenon
  <2> QED BY <1>1, <2>2 DEF AtReturn
<1>13. Holds(stk, 4, Saved(r, u, 4))
  <2> DEFINE ws == Saved(r, u, 4)
  <2>0. Len(ws) = SavedLen
    BY SavedLength, Zenon
  <2> HIDE DEF ws
  <2> SUFFICES ASSUME NEW i \in 1 .. 23
               PROVE  stk[4 + i] = ws[i]
    BY <2>0, Zenon DEF Holds, SavedLen, ws
  <2>1. CASE i \in 1 .. 21
    <3>1. 4 + i \in 1 .. 27
      BY <2>1
    <3>2. stk[4 + i] = W[4 + i]
      BY <1>11, <3>1, Zenon
    <3>3. W[4 + i] = B[i]
      BY <1>10, <2>1, Zenon
    <3> QED BY <1>4, <2>1, <3>2, <3>3, Zenon DEF ws
  <2>2. ws[22] = r["xmm"] /\ ws[23] = Sp(u, 4 + 21)
    BY SavedAt DEF ws
  <2>3. stk[4 + 22] = xmm /\ stk[4 + 23] = Sp(u, 25)
    <3>1. stk[26] = W[26] /\ stk[27] = W[27]
      BY <1>11
    <3> QED BY <1>10, <3>1
  <2>4. CASE i = 22
    BY <1>5, <2>2, <2>3, <2>4, Zenon
  <2>5. CASE i = 23
    BY <2>2, <2>3, <2>5
  <2> QED BY <2>1, <2>4, <2>5
<1> QED BY <1>11, <1>12, <1>13, Zenon DEF r

-----------------------------------------------------------------------------
(* The stack of a system call.                                             *)

\* The stack at the start of the handler of a system call made with regs.
CallStack(m, regs) ==
    Push(m, 0, Words(regs, FrameOrder) \o Words(regs, SysPushOrder)
                 \o <<Code("syscall_exit")>> \o Words(regs, CalleeSaved))

\* int 0x80, the pushes of syscall_stub and those of the handler leave the
\* registers of the call where AtCall says.
LEMMA CallWords ==
    ASSUME NEW regs, NEW m, NEW stk, stk = CallStack(m, regs)
    PROVE  DOMAIN stk = 1 .. Depth /\ AtCall(stk, regs)
<1> DEFINE S == {regs[r] : r \in Regs} \cup {Code("syscall_exit")}
           A == Words(regs, FrameOrder)
           B == Words(regs, SysPushOrder)
           E == <<Code("syscall_exit")>>
           Q == Words(regs, CalleeSaved)
           AB == A \o B
           ABE == AB \o E
           W == ABE \o Q
<1>1. A \in Seq(S) /\ Len(A) = 5 /\ \A i \in 1 .. 5 : A[i] = regs[FrameOrder[i]]
  BY DEF Words, FrameOrder, Regs
<1>2. B \in Seq(S) /\ Len(B) = 11 /\ \A i \in 1 .. 11 : B[i] = regs[SysPushOrder[i]]
  BY DEF Words, SysPushOrder, Regs, Data
<1>3. E \in Seq(S) /\ Len(E) = 1 /\ E[1] = Code("syscall_exit")
  OBVIOUS
<1>4. Q \in Seq(S) /\ Len(Q) = 4 /\ \A i \in 1 .. 4 : Q[i] = regs[CalleeSaved[i]]
  BY DEF Words, CalleeSaved, Regs, Data
<1>5. stk = Push(m, 0, W)
  BY Zenon DEF CallStack
<1> HIDE DEF S, A, B, E, Q
<1>6. Joins(AB, S, A, B)
  BY <1>1, <1>2, Concat, Zenon
<1> HIDE DEF AB
<1>7. /\ AB \in Seq(S) /\ Len(AB) = 16
      /\ \A i \in 1 .. 5 : AB[i] = A[i]
      /\ \A i \in 1 .. 11 : AB[5 + i] = B[i]
  BY <1>1, <1>2, <1>6 DEF Joins
<1>8. Joins(ABE, S, AB, E)
  BY <1>3, <1>7, Concat, Zenon
<1> HIDE DEF ABE
<1>9. /\ ABE \in Seq(S) /\ Len(ABE) = 17
      /\ \A i \in 1 .. 16 : ABE[i] = AB[i]
      /\ ABE[17] = E[1]
  BY <1>3, <1>7, <1>8 DEF Joins
<1>10. Joins(W, S, ABE, Q)
  BY <1>4, <1>9, Concat, Zenon
<1> HIDE DEF W
<1>11. /\ Len(W) = 21
       /\ \A i \in 1 .. 17 : W[i] = ABE[i]
       /\ \A i \in 1 .. 4 : W[17 + i] = Q[i]
  BY <1>4, <1>9, <1>10 DEF Joins
<1>12. DOMAIN stk = 1 .. Depth /\ \A i \in 1 .. 21 : stk[i] = W[i]
  BY <1>5, <1>11, DepthHolds DEF Push
<1>13. \A i \in 1 .. 16 : stk[i] = AB[i]
  <2> SUFFICES ASSUME NEW i \in 1 .. 16 PROVE stk[i] = AB[i]
    BY Zenon
  <2>1. i \in 1 .. 17 /\ i \in 1 .. 21
    OBVIOUS
  <2> QED BY <1>9, <1>11, <1>12, <2>1, Zenon
<1>14. Frame(stk, regs)
  <2> SUFFICES ASSUME NEW i \in 1 .. 5 PROVE stk[i] = regs[FrameOrder[i]]
    BY Zenon DEF Frame
  <2>1. i \in 1 .. 16
    OBVIOUS
  <2> QED BY <1>1, <1>7, <1>13, <2>1, Zenon
<1>15. ASSUME NEW i \in 1 .. 11 PROVE stk[5 + i] = regs[SysPushOrder[i]]
  <2>1. 5 + i \in 1 .. 16
    OBVIOUS
  <2> QED BY <1>2, <1>7, <1>13, <2>1, ZenonT(40)
<1>16. stk[17] = Code("syscall_exit")
  <2>1. 17 \in 1 .. 17 /\ 17 \in 1 .. 21
    OBVIOUS
  <2>2. stk[17] = W[17] /\ W[17] = ABE[17]
    BY <1>11, <1>12, <2>1, Zenon
  <2> QED BY <1>3, <1>9, <2>2, Zenon
<1>17. ASSUME NEW i \in 1 .. 4 PROVE stk[17 + i] = regs[CalleeSaved[i]]
  <2>1. 17 + i \in 1 .. 21
    OBVIOUS
  <2>2. stk[17 + i] = W[17 + i]
    BY <1>12, <2>1, Zenon
  <2> QED BY <1>4, <1>11, <2>2, Zenon
<1> QED BY <1>12, <1>14, <1>15, <1>16, <1>17, Zenon DEF AtCall

\* The return of the handler gives r12 to r15 back, and changes neither the
\* ring nor the page table.
LEMMA CalleeFacts ==
    ASSUME NEW stk, NEW c, NEW r, AtCall(stk, c), NEW q, q = Popped(stk, 21, CalleePos, r)
    PROVE  /\ q = [x \in Regs |-> q[x]]
           /\ \A i \in 1 .. 4 : q[CalleeSaved[i]] = c[CalleeSaved[i]]
           /\ q["cs"] = r["cs"] /\ q["cr3"] = r["cr3"]
<1> DEFINE O == <<"r15", "r14", "r13", "r12">>
<1>1. /\ DOMAIN O = 1 .. 4 /\ \A i \in 1 .. 4 : O[i] \in Regs /\ O[i] \notin {"cs", "cr3"}
      /\ \A i, j \in 1 .. 4 : O[i] = O[j] => i = j
      /\ \A i \in 1 .. 4 : CalleeSaved[i] = O[5 - i] /\ 5 - i \in 1 .. 4
  BY DEF Regs, Data, CalleeSaved
<1>2. CalleePos = Positions(O)
  BY Zenon DEF CalleePos
<1> HIDE DEF O
<1>3. \A i \in 1 .. 4 : CalleePos[O[i]] = i
  BY <1>1, <1>2, PositionOf
<1>4. "cs" \in Regs /\ "cr3" \in Regs
  BY Zenon DEF Regs
<1>5. CalleePos["cs"] = 0 /\ CalleePos["cr3"] = 0
  BY <1>1, <1>2, <1>4, NoPosition
<1>6. \A x \in Regs : q[x] = IF CalleePos[x] = 0 THEN r[x] ELSE stk[21 + 1 - CalleePos[x]]
  BY Zenon DEF Popped
<1>7. ASSUME NEW i \in 1 .. 4 PROVE q[CalleeSaved[i]] = c[CalleeSaved[i]]
  <2>1. CalleePos[CalleeSaved[i]] = 5 - i /\ CalleeSaved[i] \in Regs /\ 21 + 1 - (5 - i) = 17 + i
    BY <1>1, <1>3
  <2>2. q[CalleeSaved[i]] = stk[17 + i]
    BY <1>6, <2>1
  <2> QED BY <2>2, Zenon DEF AtCall
<1>8. q = [x \in Regs |-> q[x]]
  BY Zenon DEF Popped
<1> QED BY <1>4, <1>5, <1>6, <1>7, <1>8, Zenon

\* The pops of syscall_stub give back every register but rax, rdx and the
\* vector state.
LEMMA ExitFacts ==
    ASSUME NEW stk, NEW c, NEW r, AtAnswer(stk, c),
           \A i \in 1 .. 4 : r[CalleeSaved[i]] = c[CalleeSaved[i]], r["cr3"] = c["cr3"],
           NEW q, q = Popped(stk, 16, SysPopPos, r)
    PROVE  /\ q = [x \in Regs |-> q[x]]
           /\ \A x \in Regs \ {"rax", "rdx", "xmm"} : q[x] = c[x]
<1> DEFINE F == <<"rip", "cs", "rflags", "rsp", "ss">>
           O == SysPopOrder \o F
<1>1. /\ F \in Seq(Regs) /\ Len(F) = 5
      /\ \A j \in 1 .. 5 : F[j] \in Regs /\ F[j] = FrameOrder[6 - j] /\ 6 - j \in 1 .. 5
      /\ \A i, j \in 1 .. 5 : F[i] = F[j] => i = j
  BY DEF FrameOrder, Regs
<1>2. /\ SysPopOrder \in Seq(Regs) /\ Len(SysPopOrder) = 11
      /\ \A i, j \in 1 .. 11 : SysPopOrder[i] = SysPopOrder[j] => i = j
  BY DEF SysPopOrder, Regs, Data
<1>3. \A i \in 1 .. 11 : /\ SysPopOrder[i] \in Data
                         /\ SysPopOrder[i] = SysPushOrder[12 - i] /\ 12 - i \in 1 .. 11
                         /\ SysPopOrder[i] \notin {"rax", "rdx"} => 12 - i \notin {8, 11}
  BY DEF SysPopOrder, SysPushOrder, Data
<1>4. \A i \in 1 .. 11, j \in 1 .. 5 : SysPopOrder[i] # F[j]
  BY DEF SysPopOrder
<1>5. \A x \in {"r12", "r13", "r14", "r15", "cr3"} :
         /\ x \in Regs /\ \A i \in 1 .. 11 : SysPopOrder[i] # x
         /\ \A j \in 1 .. 5 : F[j] # x
  BY DEF SysPopOrder, Regs, Data
<1>6. \A x \in Regs \ {"rax", "rdx", "xmm"} :
         \/ \E i \in 1 .. 11 : SysPopOrder[i] = x
         \/ \E j \in 1 .. 5 : F[j] = x
         \/ \E k \in 1 .. 4 : CalleeSaved[k] = x
         \/ x = "cr3"
  BY DEF SysPopOrder, Regs, Data, CalleeSaved
<1>7. \A k \in 1 .. 4 : CalleeSaved[k] \in {"r12", "r13", "r14", "r15", "cr3"}
  BY DEF CalleeSaved
<1>8. SysPopPos = Positions(O)
  BY Zenon DEF SysPopPos
<1> HIDE DEF F
<1>9. Joins(O, Regs, SysPopOrder, F)
  BY <1>1, <1>2, Concat, Zenon
<1> HIDE DEF O
<1>10. /\ DOMAIN O = 1 .. 16
       /\ \A i \in 1 .. 11 : O[i] = SysPopOrder[i]
       /\ \A j \in 1 .. 5 : O[11 + j] = F[j]
  BY <1>1, <1>2, <1>9 DEF Joins
<1>11. \A i \in 1 .. 16 : i \in 1 .. 11 \/ \E j \in 1 .. 5 : i = 11 + j
  <2> SUFFICES ASSUME NEW i \in 1 .. 16, i \notin 1 .. 11
               PROVE  i - 11 \in 1 .. 5 /\ i = 11 + (i - 11)
    BY Zenon
  <2> QED OBVIOUS
<1>12. \A i \in 1 .. 11 : SysPopPos[SysPopOrder[i]] = i
  <2> SUFFICES ASSUME NEW i \in 1 .. 11 PROVE Positions(O)[O[i]] = i
    BY <1>8, <1>10, Zenon
  <2>1. i \in DOMAIN O /\ O[i] \in Regs
    BY <1>3, <1>10 DEF Regs
  <2>2. ASSUME NEW k \in DOMAIN O, O[k] = O[i] PROVE k = i
    <3>1. k \in 1 .. 16 /\ O[i] = SysPopOrder[i]
      BY <1>10, Zenon
    <3>2. CASE k \in 1 .. 11
      <4>1. SysPopOrder[k] = SysPopOrder[i]
        BY <1>10, <2>2, <3>1, <3>2, Zenon
      <4>2. \A m, j \in 1 .. 11 : SysPopOrder[m] = SysPopOrder[j] => m = j
        BY <1>2, Zenon
      <4> QED BY <3>2, <4>1, <4>2, Zenon
    <3>3. ASSUME NEW j \in 1 .. 5, k = 11 + j PROVE FALSE
      BY <1>4, <1>10, <2>2, <3>1, <3>3
    <3> QED BY <1>11, <3>1, <3>2, <3>3, Zenon
  <2> QED BY <2>1, <2>2, PositionOf, Zenon
<1>13. \A j \in 1 .. 5 : SysPopPos[F[j]] = 11 + j
  <2> SUFFICES ASSUME NEW j \in 1 .. 5 PROVE Positions(O)[O[11 + j]] = 11 + j
    BY <1>8, <1>10, Zenon
  <2>1. 11 + j \in DOMAIN O /\ O[11 + j] \in Regs
    BY <1>1, <1>10
  <2>2. ASSUME NEW k \in DOMAIN O, O[k] = O[11 + j] PROVE k = 11 + j
    <3>1. k \in 1 .. 16 /\ O[11 + j] = F[j]
      BY <1>10, Zenon
    <3>2. CASE k \in 1 .. 11
      BY <1>4, <1>10, <2>2, <3>1, <3>2
    <3>3. ASSUME NEW i \in 1 .. 5, k = 11 + i PROVE k = 11 + j
      <4>1. F[i] = F[j]
        BY <1>10, <2>2, <3>1, <3>3, Zenon
      <4> QED BY <1>1, <3>3, <4>1, Zenon
    <3> QED BY <1>11, <3>1, <3>2, <3>3, Zenon
  <2> QED BY <2>1, <2>2, PositionOf, Zenon
<1>14. \A x \in {"r12", "r13", "r14", "r15", "cr3"} : SysPopPos[x] = 0
  <2> SUFFICES ASSUME NEW x \in {"r12", "r13", "r14", "r15", "cr3"}
               PROVE  Positions(O)[x] = 0
    BY <1>8, Zenon
  <2>1. x \in Regs /\ \A i \in DOMAIN O : O[i] # x
    BY <1>5, <1>10, <1>11
  <2> QED BY <2>1, NoPosition, Zenon
<1>15. \A x \in Regs : q[x] = IF SysPopPos[x] = 0 THEN r[x] ELSE stk[16 + 1 - SysPopPos[x]]
  BY Zenon DEF Popped
<1>16. q = [x \in Regs |-> q[x]]
  BY Zenon DEF Popped
<1>17. ASSUME NEW x \in Regs \ {"rax", "rdx", "xmm"} PROVE q[x] = c[x]
  <2>1. ASSUME NEW i \in 1 .. 11, SysPopOrder[i] = x PROVE q[x] = c[x]
    <3>1. q[x] = stk[17 - i] /\ 17 - i = 5 + (12 - i)
      BY <1>12, <1>15, <2>1
    <3>2. stk[5 + (12 - i)] = c[SysPushOrder[12 - i]]
      BY <1>3, <2>1, Zenon DEF AtAnswer
    <3> QED BY <1>3, <2>1, <3>1, <3>2, Zenon
  <2>2. ASSUME NEW j \in 1 .. 5, F[j] = x PROVE q[x] = c[x]
    <3>1. q[x] = stk[6 - j]
      BY <1>13, <1>15, <2>2
    <3>2. stk[6 - j] = c[FrameOrder[6 - j]]
      BY <1>1, Zenon DEF AtAnswer, Frame
    <3> QED BY <1>1, <2>2, <3>1, <3>2, Zenon
  <2>3. ASSUME NEW k \in 1 .. 4, CalleeSaved[k] = x PROVE q[x] = c[x]
    BY <1>7, <1>14, <1>15, <2>3, Zenon
  <2>4. CASE x = "cr3"
    BY <1>14, <1>15, <2>4, Zenon
  <2> QED BY <1>6, <2>1, <2>2, <2>3, <2>4, Zenon
<1> QED BY <1>16, <1>17, Zenon

\* The fields of SysCallCtx, and the two that the handler writes.
LEMMA FieldFacts ==
    /\ \A i \in 1 .. 11 : SysCallCtx[i] \in Regs /\ FieldPos[SysCallCtx[i]] = i
    /\ \A s : Field(Sp(s, 16), "rax") = 16 /\ Field(Sp(s, 16), "rdx") = 13
<1>1. /\ DOMAIN SysCallCtx = 1 .. 11 /\ \A i \in 1 .. 11 : SysCallCtx[i] \in Regs
      /\ \A i, j \in 1 .. 11 : SysCallCtx[i] = SysCallCtx[j] => i = j
  BY DEF SysCallCtx, Regs, Data
<1>2. \A i \in 1 .. 11 : FieldPos[SysCallCtx[i]] = i
  BY <1>1, PositionOf DEF FieldPos
<1>3. SysCallCtx[1] = "rax" /\ SysCallCtx[4] = "rdx"
  BY Zenon DEF SysCallCtx
<1>4. FieldPos["rax"] = 1 /\ FieldPos["rdx"] = 4
  BY <1>2, <1>3
<1>5. \A s : Field(Sp(s, 16), "rax") = 16 /\ Field(Sp(s, 16), "rdx") = 13
  BY <1>4, WordFacts DEF Field
<1> QED BY <1>1, <1>2, <1>5, Zenon

\* Whatever the answer, only rax and rdx of the saved registers change.
LEMMA AnswerFacts ==
    ASSUME NEW s, NEW stk, NEW c, AtCall(stk, c), DOMAIN stk = 1 .. Depth,
           NEW res \in {"bad", "err", "ok"}, NEW stk2,
           stk2 = Cut(Answer(Sp(s, 16), stk, res), 16)
    PROVE  DOMAIN stk2 = 1 .. Depth /\ AtAnswer(stk2, c)
<1> DEFINE A == Answer(Sp(s, 16), stk, res)
<1>1. \A j \in 1 .. 16 : j \notin {13, 16} => A[j] = stk[j]
  <2>1. Field(Sp(s, 16), "rax") = 16 /\ Field(Sp(s, 16), "rdx") = 13
    BY FieldFacts, Zenon
  <2>2. CASE res = "bad"
    BY <2>1, <2>2 DEF Answer
  <2>3. CASE res = "err"
    BY <2>1, <2>3 DEF Answer
  <2>4. CASE res = "ok"
    <3>1. A = [stk EXCEPT ![16] = Result("Value"), ![13] = Result("NoErr")]
      BY <2>1, <2>4, Zenon DEF Answer
    <3> HIDE DEF A
    <3> DEFINE B == [stk EXCEPT ![16] = Result("Value")]
    <3>2. A = [B EXCEPT ![13] = Result("NoErr")]
      BY <3>1, Zenon
    <3>3. DOMAIN B = 1 .. Depth /\ \A j \in 1 .. 16 : j # 16 => B[j] = stk[j]
      BY DepthHolds
    <3> HIDE DEF B
    <3> QED BY <3>2, <3>3, DepthHolds
  <2> QED BY <2>2, <2>3, <2>4, Zenon
<1> HIDE DEF A
<1>2. DOMAIN stk2 = 1 .. Depth /\ \A j \in 1 .. 16 : stk2[j] = A[j]
  BY DepthHolds, CutFacts DEF A
<1>3. \A j \in 1 .. 16 : j \notin {13, 16} => stk2[j] = stk[j]
  BY <1>1, <1>2, Zenon
<1>4. Frame(stk2, c)
  <2> SUFFICES ASSUME NEW j \in 1 .. 5 PROVE stk2[j] = c[FrameOrder[j]]
    BY Zenon DEF Frame
  <2>1. stk2[j] = stk[j]
    BY <1>3
  <2> QED BY <2>1, Zenon DEF AtCall, Frame
<1>5. ASSUME NEW i \in 1 .. 11, i \notin {8, 11} PROVE stk2[5 + i] = c[SysPushOrder[i]]
  <2>1. 5 + i \in 1 .. 16 /\ 5 + i \notin {13, 16}
    BY <1>5
  <2> QED BY <1>3, <2>1, Zenon DEF AtCall
<1> QED BY <1>2, <1>4, <1>5, Zenon DEF AtAnswer

\* Code computes with the data registers only.
LEMMA ComputedFacts ==
    ASSUME NEW regs, NEW ring \in Rings, current \in Slots, NEW q \in Computed(regs, ring)
    PROVE  IsRegs(q) /\ \A x \in Regs \ Data : q[x] = regs[x]
<1>1. PICK c \in Contents[current, ring] : q = Set(regs, c)
  BY Zenon DEF Computed
<1>2. DOMAIN c = Data
  BY <1>1, ContentsAreData, Zenon
<1> QED BY <1>1, <1>2, Zenon DEF Set, IsRegs

\* Which registers are data.
LEMMA Registers ==
    /\ {"rax", "rsi", "rdi", "rdx", "xmm", "r8", "r9"} \subseteq Data
    /\ {"cr3", "ss", "rsp", "rflags", "cs", "rip"} = Regs \ Data
    /\ Data \subseteq Regs
  BY Zenon DEF Regs, Data

\* Where a ret takes the registers and the stack.
Returned(regs, q, s, n, to) ==
    /\ IsRegs(q) /\ q["rip"] = to /\ q["rsp"] = Sp(s, n)
    /\ q["cs"] = regs["cs"] /\ q["cr3"] = regs["cr3"]
    /\ to \notin {Code("kernel"), Code("syscall")} => \A x \in Data : q[x] = regs[x]

\* A ret goes to the word on top of the stack, and takes it off.
LEMMA RetFacts ==
    ASSUME NEW regs, NEW s, NEW n \in Nat, NEW m, m = n + 1, regs["rsp"] = Sp(s, m),
           current \in Slots, Ret(regs)
    PROVE  /\ Returned(regs, cpu', s, n, mem[s][m])
           /\ mem' = [mem EXCEPT ![s] = Cut(mem[s], n)]
<1> DEFINE to == mem[s][m]
           ret == Set(regs, [rip |-> to, rsp |-> Sp(s, n)])
<1>1. Stack(regs["rsp"]) = s /\ Pos(regs["rsp"]) = m /\ m - 1 = n
  BY WordFacts
<1>2. /\ IsRegs(ret) /\ ret["rip"] = to /\ ret["rsp"] = Sp(s, n)
      /\ \A x \in Regs \ {"rip", "rsp"} : ret[x] = regs[x]
  <2> HIDE DEF to
  <2> QED BY Registers, Zenon DEF Set, IsRegs
<1>3. /\ cpu' \in IF ret["rip"] \in {Code("kernel"), Code("syscall")}
                  THEN Computed(ret, "kernel") ELSE {ret}
      /\ mem' = [mem EXCEPT ![s] = Cut(mem[s], n)]
  <2> DEFINE p == regs["rsp"]
             raw == Set(regs, [rip |-> mem[Stack(p)][Pos(p)], rsp |-> Sp(Stack(p), Pos(p) - 1)])
  <2>1. /\ cpu' \in IF raw["rip"] \in {Code("kernel"), Code("syscall")}
                    THEN Computed(raw, "kernel") ELSE {raw}
        /\ mem' = [mem EXCEPT ![Stack(p)] = Cut(mem[Stack(p)], Pos(p) - 1)]
    BY Zenon DEF Ret
  <2>2. Pos(p) - 1 = n
    BY <1>1, Zenon
  <2>3. raw = ret
    BY <1>1, <2>2, Zenon
  <2>4. mem' = [mem EXCEPT ![s] = Cut(mem[s], n)]
    BY <1>1, <2>1, <2>2, Zenon
  <2> HIDE DEF raw, ret
  <2> QED BY <2>1, <2>3, <2>4, Zenon
<1> HIDE DEF ret, to
<1>4. CASE to \in {Code("kernel"), Code("syscall")}
  <2>1. cpu' \in Computed(ret, "kernel") /\ "kernel" \in Rings
    BY <1>2, <1>3, <1>4, Zenon DEF Rings
  <2>2. IsRegs(cpu') /\ \A x \in Regs \ Data : cpu'[x] = ret[x]
    BY <2>1, ComputedFacts, Zenon
  <2> QED BY <1>2, <1>3, <1>4, <2>2, Registers, Zenon DEF Returned, to
<1>5. CASE to \notin {Code("kernel"), Code("syscall")}
  <2>1. cpu' = ret
    BY <1>2, <1>3, <1>5, Zenon
  <2> QED BY <1>2, <1>3, <2>1, Registers, Zenon DEF Returned, to
<1> QED BY <1>4, <1>5, Zenon

=============================================================================
