---------------------------- MODULE FilesProofs -----------------------------
(***************************************************************************)
(* The inductive invariant of Files, the lemmas about slots, counts and    *)
(* frames that its proof rests on, and the theorems.                       *)
(***************************************************************************)
EXTENDS Files, FiniteSetTheorems, SequenceTheorems, TLAPS

\* Steps are proved by SMT unless they name another prover.
USE SMTT(30)

ActRec == [do : STRING, from : Fds, to : Fds]
PCs == {"idle", "nextfd", "addfd", "added", "lookup", "drop", "read", "first", "waiter", "again",
        "asleep", "write", "advance", "seek", "inherit", "action", "insert", "dropold", "clear",
        "fail", "dead"}
Modes == {"no", "timed", "forever", "given"}
OpRec == [pc : PCs, fd : Nat, old : Fds, n : Nat, mode : Modes, left : Seq(ActRec)]

Types ==
    /\ h \in [Slots -> AllFiles \cup {None}]
    /\ cnt \in [Ends -> Int]
    /\ op \in [Actors -> OpRec]
    /\ alive \in BOOLEAN
    /\ eof \subseteq Pipes
    /\ buf \in [Pipes -> Seq(Nat)] /\ sent \in [Pipes -> Nat]
    /\ ram \in Nat /\ cur \in [Rams -> Nat]

\* What the temporaries of thread t hold at each point of a call.
TmpOf(t) ==
    /\ h[Tmp(t, 2)] # None => op[t].pc \in {"nextfd", "addfd", "added", "dead"}
    /\ op[t].pc \in {"idle", "lookup", "inherit", "action", "clear", "fail"} => h[Tmp(t, 1)] = None
    /\ At(t, "nextfd") => op[t].n \in {0, 1, 2}
    /\ At(t, "nextfd") /\ op[t].n # 1 => h[Tmp(t, 1)] = None
    /\ At(t, "nextfd") /\ op[t].n = 0 => h[Tmp(t, 2)] = None
    /\ op[t].pc \in {"addfd", "added"} => op[t].n \in {1, 2}
    /\ op[t].pc \in {"addfd", "added"} /\ op[t].n = 2 => h[Tmp(t, 1)] = None
    /\ op[t].pc \in {"addfd", "lookup"} => op[t].fd \in Fds
    /\ At(t, "insert") => op[t].left # <<>>
TmpInv == \A t \in Actors : TmpOf(t)

\* One builder at a time, and before Child is added only the builder touches its table.
BuildInv ==
    /\ ~alive => At(Son, "idle")
    /\ \A t \in Actors : Building(t) => t \in Threads /\ ~alive
    /\ \A t, u \in Actors : Building(t) /\ Building(u) => t = u
    /\ \A t \in Actors : At(t, "inherit") => \A n \in Fds : n >= op[t].fd => h[Fd(Child, n)] = None
    /\ FailedSpawnHoldsNothing

EofInv == \A p \in eof : p \in used /\ buf[p] = <<>> /\ cnt[<<p, "w">>] = 0

\* A file that some slot holds has been made.
UsedInv == \A s \in Slots : h[s] # None => h[s][1] \in used

IInv == Types /\ HandleCount /\ TmpInv /\ BuildInv /\ EofInv /\ UsedInv

-----------------------------------------------------------------------------
(* Slots and counts *)

\* There are finitely many slots.
LEMMA SlotsFinite == IsFiniteSet(Slots)
<1>1. IsFiniteSet({Parent, Child}) /\ IsFiniteSet({1, 2}) /\ IsFiniteSet({Son})
  <2>1. \A x : IsFiniteSet({x}) BY FS_Singleton, Zenon
  <2>2. {Parent, Child} = {Parent} \cup {Child} /\ {1, 2} = {1} \cup {2} BY Zenon
  <2>3. IsFiniteSet({Parent} \cup {Child}) /\ IsFiniteSet({1} \cup {2}) BY <2>1, FS_Union, Zenon
  <2> QED BY <2>1, <2>2, <2>3, Zenon
<1>2. IsFiniteSet(Actors)
  BY <1>1, FS_Union, FilesAssumption, Zenon DEF Actors
<1>3. IsFiniteSet(Fds)
  BY FS_Interval, FilesAssumption, MaxFd - 1 \in Int DEF Fds
<1>4. IsFiniteSet({Parent, Child} \X Fds) /\ IsFiniteSet(Actors \X {1, 2})
  BY <1>1, <1>2, <1>3, FS_Product, Zenon
<1> QED BY <1>4, FS_Union, Zenon DEF Slots

\* The handles of one end are finitely many.
LEMMA HoldersFinite ==
    ASSUME NEW e PROVE IsFiniteSet(Holders(e)) /\ Cardinality(Holders(e)) \in Nat
<1>1. Holders(e) \in SUBSET Slots BY Zenon DEF Holders
<1> QED BY <1>1, SlotsFinite, FS_Subset, FS_CardinalityType, Zenon

\* Writing into one slot changes the count of an end by what the slot held
\* and what it holds now.
LEMMA PutCount ==
    ASSUME NEW s \in Slots, NEW e \in Ends, \A x \in Slots : x # s => h'[x] = h[x]
    PROVE  Cardinality(Holders(e)') = Cardinality(Holders(e))
               + (IF h'[s] = e THEN 1 ELSE 0) - (IF h[s] = e THEN 1 ELSE 0)
<1>1. IsFiniteSet(Holders(e)) /\ Cardinality(Holders(e)) \in Nat
  BY HoldersFinite, Zenon
<1>2. CASE h'[s] = e /\ h[s] # e
  <2>1. Holders(e)' = Holders(e) \cup {s} /\ s \notin Holders(e) BY <1>2, Zenon DEF Holders
  <2>2. Cardinality(Holders(e) \cup {s}) = Cardinality(Holders(e)) + 1
    BY <2>1, <1>1, FS_AddElement, Zenon
  <2> QED BY <2>1, <2>2, <1>1, <1>2
<1>3. CASE h'[s] # e /\ h[s] = e
  <2>1. Holders(e)' = Holders(e) \ {s} /\ s \in Holders(e) BY <1>3 DEF Holders
  <2>2. Cardinality(Holders(e) \ {s}) = Cardinality(Holders(e)) - 1
    BY <2>1, <1>1, FS_RemoveElement, Zenon
  <2> QED BY <2>1, <2>2, <1>1, <1>3
<1>4. CASE (h'[s] = e) <=> (h[s] = e)
  <2>1. Holders(e)' = Holders(e) BY <1>4, Zenon DEF Holders
  <2> QED BY <2>1, <1>1, <1>4
<1> QED BY <1>2, <1>3, <1>4, Zenon

\* Moving handles between two slots changes no count.
LEMMA SwapCount ==
    ASSUME h \in [Slots -> AllFiles \cup {None}], NEW a \in Slots, NEW b \in Slots, a # b,
           h' = [h EXCEPT ![a] = h[b], ![b] = h[a]], NEW e \in Ends
    PROVE  Cardinality(Holders(e)') = Cardinality(Holders(e))
<1>1. IsFiniteSet(Holders(e)) /\ Cardinality(Holders(e)) \in Nat
  BY HoldersFinite, Zenon
<1>2. CASE h[a] = e /\ h[b] # e
  <2>1. Holders(e)' = (Holders(e) \ {a}) \cup {b} BY <1>2, Zenon DEF Holders
  <2>2. a \in Holders(e) /\ b \notin Holders(e) \ {a} BY <1>2, Zenon DEF Holders
  <2>3. IsFiniteSet(Holders(e) \ {a}) /\ Cardinality(Holders(e) \ {a}) = Cardinality(Holders(e)) - 1
    BY <2>2, <1>1, FS_RemoveElement, Zenon
  <2>4. Cardinality((Holders(e) \ {a}) \cup {b}) = Cardinality(Holders(e) \ {a}) + 1
    BY <2>2, <2>3, FS_AddElement, Zenon
  <2> QED BY <2>1, <2>3, <2>4, <1>1
<1>3. CASE h[b] = e /\ h[a] # e
  <2>1. Holders(e)' = (Holders(e) \ {b}) \cup {a} BY <1>3, Zenon DEF Holders
  <2>2. b \in Holders(e) /\ a \notin Holders(e) \ {b} BY <1>3, Zenon DEF Holders
  <2>3. IsFiniteSet(Holders(e) \ {b}) /\ Cardinality(Holders(e) \ {b}) = Cardinality(Holders(e)) - 1
    BY <2>2, <1>1, FS_RemoveElement, Zenon
  <2>4. Cardinality((Holders(e) \ {b}) \cup {a}) = Cardinality(Holders(e) \ {b}) + 1
    BY <2>2, <2>3, FS_AddElement, Zenon
  <2> QED BY <2>1, <2>3, <2>4, <1>1
<1>4. CASE (h[a] = e) <=> (h[b] = e)
  <2>1. Holders(e)' = Holders(e) BY <1>4, Zenon DEF Holders
  <2> QED BY <2>1, Zenon
<1> QED BY <1>2, <1>3, <1>4, Zenon

\* FileHandle::clone into a free slot keeps the counters right.
LEMMA CloneKeeps ==
    ASSUME Types, HandleCount, NEW a \in Slots, NEW b \in Slots, h[b] = None, Clone(a, b)
    PROVE  /\ h' \in [Slots -> AllFiles \cup {None}] /\ cnt' \in [Ends -> Int] /\ HandleCount'
           /\ h' = [h EXCEPT ![b] = h[a]]
           /\ \A e \in Ends : cnt[e] = 0 => cnt'[e] = 0
<1>1. h' = [h EXCEPT ![b] = h[a]] /\ cnt' = Inc(h[a]) BY Zenon DEF Clone
<1>2. h[a] \in AllFiles \cup {None} /\ h' \in [Slots -> AllFiles \cup {None}]
  BY <1>1, Zenon DEF Types
<1>3. cnt' \in [Ends -> Int] BY <1>1 DEF Types, Inc
<1>4. ASSUME NEW e \in Ends PROVE cnt'[e] = Cardinality(Holders(e)')
  <2>1. h[b] # e BY DEF Ends, None
  <2>2. h'[b] = h[a] /\ \A x \in Slots : x # b => h'[x] = h[x] BY <1>1, Zenon DEF Types
  <2>3. Cardinality(Holders(e)') = Cardinality(Holders(e))
            + (IF h'[b] = e THEN 1 ELSE 0) - (IF h[b] = e THEN 1 ELSE 0)
    BY <2>2, PutCount, Zenon
  <2>4. cnt'[e] = IF e = h[a] THEN cnt[e] + 1 ELSE cnt[e] BY <1>1, Zenon DEF Inc
  <2> QED BY <2>1, <2>2, <2>3, <2>4, HoldersFinite DEF HandleCount
<1>5. ASSUME NEW e \in Ends, cnt[e] = 0 PROVE cnt'[e] = 0
  <2>1. Holders(e) = {} BY <1>5, HoldersFinite, FS_EmptySet, Zenon DEF HandleCount
  <2>2. h[a] # e BY <2>1, Zenon DEF Holders
  <2> QED BY <1>1, <1>5, <2>2, Zenon DEF Inc
<1> QED BY <1>1, <1>2, <1>3, <1>4, <1>5, Zenon DEF HandleCount

\* So does FileHandle::drop.
LEMMA DropKeeps ==
    ASSUME Types, HandleCount, NEW s \in Slots, Drop(s)
    PROVE  /\ h' \in [Slots -> AllFiles \cup {None}] /\ cnt' \in [Ends -> Int] /\ HandleCount'
           /\ h' = [h EXCEPT ![s] = None]
           /\ \A e \in Ends : cnt[e] = 0 => cnt'[e] = 0
<1>1. h' = [h EXCEPT ![s] = None] /\ cnt' = Dec(h[s]) BY Zenon DEF Drop
<1>2. h' \in [Slots -> AllFiles \cup {None}] BY <1>1, Zenon DEF Types
<1>3. cnt' \in [Ends -> Int] BY <1>1 DEF Types, Dec
<1>4. ASSUME NEW e \in Ends PROVE cnt'[e] = Cardinality(Holders(e)')
  <2>1. None # e BY DEF Ends, None
  <2>2. h'[s] = None /\ \A x \in Slots : x # s => h'[x] = h[x] BY <1>1, Zenon DEF Types
  <2>3. Cardinality(Holders(e)') = Cardinality(Holders(e))
            + (IF h'[s] = e THEN 1 ELSE 0) - (IF h[s] = e THEN 1 ELSE 0)
    BY <2>2, PutCount, Zenon
  <2>4. cnt'[e] = IF e = h[s] THEN cnt[e] - 1 ELSE cnt[e] BY <1>1, Zenon DEF Dec
  <2> QED BY <2>1, <2>2, <2>3, <2>4, HoldersFinite DEF HandleCount
<1>5. ASSUME NEW e \in Ends, cnt[e] = 0 PROVE cnt'[e] = 0
  <2>1. Holders(e) = {} BY <1>5, HoldersFinite, FS_EmptySet, Zenon DEF HandleCount
  <2>2. h[s] # e BY <2>1, Zenon DEF Holders
  <2> QED BY <1>1, <1>5, <2>2, Zenon DEF Dec
<1> QED BY <1>1, <1>2, <1>3, <1>4, <1>5, Zenon DEF HandleCount

\* So does moving a handle into or out of a table.
LEMMA SwapKeeps ==
    ASSUME Types, HandleCount, NEW a \in Slots, NEW b \in Slots, a # b, Swap(a, b)
    PROVE  /\ h' \in [Slots -> AllFiles \cup {None}] /\ HandleCount' /\ cnt' = cnt
           /\ h' = [h EXCEPT ![a] = h[b], ![b] = h[a]]
<1>1. h' = [h EXCEPT ![a] = h[b], ![b] = h[a]] /\ cnt' = cnt BY Zenon DEF Swap
<1>2. h' \in [Slots -> AllFiles \cup {None}] BY <1>1, Zenon DEF Types
<1>3. ASSUME NEW e \in Ends PROVE cnt'[e] = Cardinality(Holders(e)')
  BY <1>1, SwapCount, Zenon DEF Types, HandleCount
<1> QED BY <1>1, <1>2, <1>3, Zenon DEF HandleCount

\* A step that leaves the handles and the counters alone.
LEMMA SameKeeps ==
    ASSUME HandleCount, UNCHANGED <<h, cnt>>
    PROVE  HandleCount'
<1>1. \A e : Holders(e)' = Holders(e) BY Zenon DEF Holders
<1> QED BY <1>1, Zenon DEF HandleCount

-----------------------------------------------------------------------------
(* Frames: what a step of thread t does to the other conjuncts *)

\* The temporaries of the other threads are not touched.
LEMMA TmpFrame ==
    ASSUME TmpInv, NEW t \in Actors, TmpOf(t)',
           \A u \in Actors \ {t} : op'[u] = op[u],
           \A u \in Actors \ {t} : h'[Tmp(u, 1)] = h[Tmp(u, 1)] /\ h'[Tmp(u, 2)] = h[Tmp(u, 2)]
    PROVE  TmpInv'
BY DEF TmpInv, TmpOf, At

\* A step that neither starts nor ends a spawn, and changes the table of Child
\* only if Child has been added or t is its builder and past "inherit".
LEMMA BuildFrame ==
    ASSUME Types, BuildInv, NEW t \in Actors, alive' = alive,
           \A u \in Actors \ {t} : op'[u] = op[u],
           Building(t)' <=> Building(t),
           At(t, "inherit")' => At(t, "inherit") /\ op'[t].fd >= op[t].fd,
           ~alive /\ t = Son => op'[t].pc = "idle",
           op'[t].fd \in Nat,
           \/ \A n \in Fds : h'[Fd(Child, n)] = h[Fd(Child, n)]
           \/ alive
           \/ Building(t) /\ ~At(t, "inherit")'
           \/ At(t, "inherit") /\ \A n \in Fds : n >= op'[t].fd => h'[Fd(Child, n)] = h[Fd(Child, n)]
    PROVE  BuildInv'
<1> USE DEF BuildInv, Building, At, Types, Actors
<1>1. (~alive => At(Son, "idle"))'
  <2>1. CASE t = Son BY <2>1, Zenon
  <2>2. CASE t # Son
    <3>1. op'[Son] = op[Son] BY <2>2, Zenon
    <3> QED BY <3>1, Zenon
  <2> QED BY <2>1, <2>2, Zenon
<1>2. ASSUME NEW u \in Actors, Building(u)' PROVE u \in Threads /\ ~alive'
  <2>1. Building(u) BY <1>2, Zenon
  <2> QED BY <2>1, Zenon
<1>3. (\A u, v \in Actors : Building(u) /\ Building(v) => u = v)' BY ZenonT(40)
<1>4. ASSUME NEW u \in Actors, At(u, "inherit")', NEW n \in Fds, n >= op'[u].fd
      PROVE  h'[Fd(Child, n)] = None
  <2>0. n \in Int /\ op[u].fd \in Nat /\ op[t].fd \in Nat BY FilesAssumption DEF OpRec, Fds
  <2>1. At(u, "inherit") /\ n >= op[u].fd
    <3>1. CASE u = t BY <1>4, <2>0, <3>1
    <3>2. CASE u # t BY <1>4, <2>0, <3>2, Zenon
    <3> QED BY <3>1, <3>2, Zenon
  <2>2. h[Fd(Child, n)] = None BY <2>1, Zenon
  <2>3. h'[Fd(Child, n)] = h[Fd(Child, n)] BY <1>4, <2>1, Zenon
  <2> QED BY <2>2, <2>3, Zenon
<1>5. FailedSpawnHoldsNothing' BY Zenon DEF FailedSpawnHoldsNothing
<1> QED BY <1>1, <1>2, <1>3, <1>4, <1>5, Zenon

\* The counters of the ends that have none stay at zero, and only a writer fills a pipe.
LEMMA EofFrame ==
    ASSUME EofInv, eof' = eof, buf' = buf, used \subseteq used',
           \A p \in eof : cnt'[<<p, "w">>] = cnt[<<p, "w">>] \/ cnt'[<<p, "w">>] = 0
    PROVE  EofInv'
BY Zenon DEF EofInv

\* Only thread t moves.
OpStep(t) == op' \in [Actors -> OpRec] /\ \A u \in Actors \ {t} : op'[u] = op[u]

\* A step of thread t that keeps the counters right and neither starts nor ends a spawn.
LEMMA StepKeeps ==
    ASSUME IInv, NEW t \in Actors, OpStep(t),
           h' \in [Slots -> AllFiles \cup {None}], cnt' \in [Ends -> Int], HandleCount',
           UNCHANGED <<buf, sent, eof, alive>>, used \subseteq used',
           ram' \in Nat, cur' \in [Rams -> Nat], UsedInv',
           \A p \in eof : cnt'[<<p, "w">>] = 0,
           \A u \in Actors \ {t} : h'[Tmp(u, 1)] = h[Tmp(u, 1)] /\ h'[Tmp(u, 2)] = h[Tmp(u, 2)],
           TmpOf(t)',
           Building(t)' <=> Building(t),
           op'[t].pc = "inherit" => At(t, "inherit") /\ op'[t].fd >= op[t].fd,
           At(t, "idle") /\ t = Son => alive,
           \/ \A n \in Fds : h'[Fd(Child, n)] = h[Fd(Child, n)]
           \/ alive
           \/ Building(t) /\ op'[t].pc # "inherit"
           \/ At(t, "inherit") /\ \A n \in Fds : n >= op'[t].fd => h'[Fd(Child, n)] = h[Fd(Child, n)]
    PROVE  IInv'
<1>1. op' \in [Actors -> OpRec] /\ \A u \in Actors \ {t} : op'[u] = op[u]
  BY Zenon DEF OpStep
<1>2. Types' BY <1>1, Zenon DEF IInv, Types
<1>3. TmpInv' BY <1>1, TmpFrame, Zenon DEF IInv
<1>4. BuildInv'
  <2>1. op'[t].fd \in Nat BY <1>1, Zenon DEF OpRec
  <2>2. ~(~alive /\ t = Son) BY Zenon DEF IInv, BuildInv
  <2> QED BY <1>1, <2>1, <2>2, BuildFrame, Zenon DEF IInv, At
<1>5. EofInv' BY EofFrame, Zenon DEF IInv
<1> QED BY <1>2, <1>3, <1>4, <1>5, Zenon DEF IInv

\* A step inside a call that leaves the handles alone.
LEMMA MoveKeeps ==
    ASSUME IInv, NEW t \in Actors, UNCHANGED <<h, cnt, buf, sent, eof, used, alive>>,
           ram' \in Nat, cur' \in [Rams -> Nat], OpStep(t), TmpOf(t)', ~At(t, "idle"),
           Building(t)' <=> Building(t), op'[t].pc # "inherit"
    PROVE  IInv'
<1>1. HandleCount' BY SameKeeps, Zenon DEF IInv
<1>2. \A p \in eof : cnt'[<<p, "w">>] = 0 BY Zenon DEF IInv, EofInv
<1>3. h' \in [Slots -> AllFiles \cup {None}] /\ cnt' \in [Ends -> Int] BY Zenon DEF IInv, Types
<1>4. UsedInv' BY Zenon DEF IInv, UsedInv
<1> QED BY <1>1, <1>2, <1>3, <1>4, StepKeeps, Zenon

\* Tables and temporaries are different slots.
LEMMA SlotFacts ==
    /\ \A t \in Actors : Tmp(t, 1) \in Slots /\ Tmp(t, 2) \in Slots /\ Tmp(t, 1) # Tmp(t, 2)
    /\ \A t \in Actors, n \in Fds : Fd(Proc(t), n) \in Slots
    /\ \A n \in Fds : Fd(Parent, n) \in Slots /\ Fd(Child, n) \in Slots
    /\ \A t \in Actors, i \in {1, 2}, p \in {Parent, Child}, n \in Fds : Tmp(t, i) # Fd(p, n)
    /\ \A t, u \in Actors, i, j \in {1, 2} : t # u => Tmp(t, i) # Tmp(u, j)
    /\ \A m, n \in Fds : Fd(Parent, m) # Fd(Child, n) /\ (m # n => Fd(Child, m) # Fd(Child, n))
    /\ \A t \in Actors : Proc(t) \in {Parent, Child} /\ (Proc(t) = Child <=> t = Son)
BY FilesAssumption DEF Slots, Tmp, Fd, Proc, Actors

-----------------------------------------------------------------------------
(* The actions *)

\* The record of a thread inside a call is well formed.
LEMMA StartType ==
    ASSUME NEW l \in PCs, NEW f \in Nat, NEW o \in Fds, NEW k \in Nat, NEW w \in Modes
    PROVE  /\ Start(l, f, o, k, w) \in OpRec
           /\ Start(l, f, o, k, w).pc = l
           /\ Start(l, f, o, k, w).fd = f
           /\ Start(l, f, o, k, w).n = k
  BY DEF Start, OpRec

\* The record of a thread outside a call.
LEMMA IdleType == Idle \in OpRec /\ Idle.pc = "idle" /\ 0 \in Fds
<1>1. 0 \in Fds BY FilesAssumption DEF Fds
<1> QED BY <1>1, StartType DEF Idle, PCs, Modes

\* Steps that only move the thread on.
LEMMA Moves ==
    ASSUME IInv, NEW t \in Actors,
           \/ NextFd(t) \/ AtEnd(t) \/ Waiter(t) \/ WriteDenied(t) \/ RamRead(t) \/ RamWrite(t)
           \/ Advance(t) \/ Seek(t) \/ TimerWakes(t) \/ InheritDone(t) \/ ActionClear(t)
    PROVE  IInv'
<1> USE DEF At, data
<1>0. /\ op \in [Actors -> OpRec] /\ op[t] \in OpRec /\ op[t].n \in Nat /\ TmpOf(t)
      /\ ram \in Nat /\ cur \in [Rams -> Nat] /\ File(t) \in AllFiles \cup {None}
  BY SlotFacts, Zenon DEF IInv, Types, TmpInv, OpRec, File
<1>1. CASE NextFd(t)
  <2>1. PICK n \in Fds, l \in {"lookup", "addfd"} :
            op' = [op EXCEPT ![t].fd = n, ![t].pc = l] /\ (l = "lookup" <=> op[t].n = 0)
    BY <1>1, Zenon DEF NextFd
  <2>2. n \in Nat BY FilesAssumption DEF Fds
  <2>3. OpStep(t) /\ op'[t].pc = l /\ op'[t].fd = n /\ op'[t].n = op[t].n
    BY <1>0, <2>1, <2>2, Zenon DEF OpStep, OpRec, PCs
  <2>4. TmpOf(t)'
    <3>1. h' = h /\ op[t].pc = "nextfd" BY <1>1, Zenon DEF NextFd
    <3>2. CASE l = "lookup" BY <1>0, <2>1, <2>3, <3>1, <3>2, Zenon DEF TmpOf
    <3>3. CASE l = "addfd" BY <1>0, <2>1, <2>3, <3>1, <3>3 DEF TmpOf
    <3> QED BY <3>2, <3>3, Zenon
  <2> QED BY <1>0, <1>1, <2>1, <2>3, <2>4, MoveKeeps, Zenon DEF NextFd, Building
<1>2. CASE AtEnd(t) \/ Waiter(t) \/ WriteDenied(t) \/ Advance(t) \/ Seek(t) \/ RamWrite(t)
  <2>1. PICK l \in {"drop", "first", "again", "advance"} : op' = [op EXCEPT ![t].pc = l]
    BY <1>2, Zenon DEF AtEnd, Waiter, WriteDenied, Advance, Seek, RamWrite, Goto
  <2>2. OpStep(t) /\ op'[t].pc = l BY <1>0, <2>1, Zenon DEF OpStep, OpRec, PCs
  <2>3. h' = h /\ cnt' = cnt /\ buf' = buf /\ sent' = sent /\ eof' = eof /\ used' = used /\ alive' = alive
    BY <1>2, Zenon DEF AtEnd, Waiter, WriteDenied, Advance, Seek, RamWrite
  <2>4. op[t].pc \in {"read", "waiter", "write", "advance", "seek"}
    BY <1>2, Zenon DEF AtEnd, Waiter, WriteDenied, Advance, Seek, RamWrite
  <2>5. TmpOf(t)' BY <1>0, <2>1, <2>2, <2>3, <2>4, Zenon DEF TmpOf, Tmp
  <2>6. ram' \in Nat /\ cur' \in [Rams -> Nat]
    <3>1. CASE AtEnd(t) \/ Waiter(t) \/ WriteDenied(t) BY <1>0, <3>1, Zenon DEF AtEnd, Waiter, WriteDenied
    <3>2. CASE RamWrite(t)
      <4>1. File(t)[1] \in Rams BY <1>0, <3>2, Zenon DEF RamWrite, IsRam, AllFiles, Ends
      <4> QED BY <1>0, <3>2, <4>1 DEF RamWrite
    <3>3. CASE Advance(t)
      <4>1. CASE File(t)[1] \in Rams BY <1>0, <3>3, <4>1 DEF Advance
      <4>2. CASE File(t)[1] \notin Rams BY <1>0, <3>3, <4>2, Zenon DEF Advance
      <4> QED BY <4>1, <4>2, Zenon
    <3>4. CASE Seek(t)
      <4>1. CASE IsRam(t) BY <1>0, <3>4, <4>1, Zenon DEF Seek
      <4>2. CASE ~IsRam(t) BY <1>0, <3>4, <4>2, Zenon DEF Seek
      <4> QED BY <4>1, <4>2, Zenon
    <3> QED BY <1>2, <3>1, <3>2, <3>3, <3>4, Zenon
  <2> QED BY <2>1, <2>2, <2>3, <2>4, <2>5, <2>6, MoveKeeps, Zenon DEF Building
<1>3. CASE RamRead(t)
  <2>1. PICK l \in {"drop", "waiter", "asleep", "advance"} : op'[t].pc = l /\ OpStep(t)
    <3>1. CASE op' = [op EXCEPT ![t].pc = "drop"] BY <1>0, <3>1, Zenon DEF OpStep, OpRec, PCs
    <3>2. CASE op' = [op EXCEPT ![t].pc = "waiter"] BY <1>0, <3>2, Zenon DEF OpStep, OpRec, PCs
    <3>3. CASE op' = [op EXCEPT ![t].pc = "asleep"] BY <1>0, <3>3, Zenon DEF OpStep, OpRec, PCs
    <3>4. CASE \E n \in Nat : op' = [op EXCEPT ![t].pc = "advance", ![t].n = n]
      <4>1. PICK n \in Nat : op' = [op EXCEPT ![t].pc = "advance", ![t].n = n] BY <3>4, Zenon
      <4> QED BY <1>0, <4>1, Zenon DEF OpStep, OpRec, PCs
    <3>5. File(t)[1] \in Rams BY <1>0, <1>3, Zenon DEF RamRead, IsRam, AllFiles, Ends
    <3>6. cur[File(t)[1]] \in Nat BY <1>0, <3>5, Zenon
    <3> QED BY <1>0, <1>3, <3>1, <3>2, <3>3, <3>4, <3>6 DEF RamRead, Got, Goto, Least
  <2>2. TmpOf(t)' BY <1>0, <1>3, <2>1, Zenon DEF TmpOf, Tmp, RamRead
  <2> QED BY <1>0, <1>3, <2>1, <2>2, MoveKeeps, ZenonT(40) DEF Building, RamRead
<1>4. CASE TimerWakes(t)
  <2>1. op'[t].pc = "again" /\ OpStep(t) BY <1>0, <1>4, Zenon DEF TimerWakes, OpStep, OpRec, PCs, Modes
  <2>2. TmpOf(t)' BY <1>0, <1>4, <2>1, Zenon DEF TmpOf, Tmp, TimerWakes
  <2> QED BY <1>0, <1>4, <2>1, <2>2, MoveKeeps, Zenon DEF Building, TimerWakes
<1>5. CASE InheritDone(t)
  <2>1. op'[t].pc = "action" /\ OpStep(t) BY <1>0, <1>5, Zenon DEF InheritDone, Goto, OpStep, OpRec, PCs
  <2>2. TmpOf(t)' BY <1>0, <1>5, <2>1, Zenon DEF TmpOf, Tmp, InheritDone
  <2> QED BY <1>0, <1>5, <2>1, <2>2, MoveKeeps, Zenon DEF Building, InheritDone
<1>6. CASE ActionClear(t)
  <2>1. op'[t].pc = "clear" /\ OpStep(t) 
    <3>1. Tail(op[t].left) \in Seq(ActRec) BY <1>0, <1>6 DEF ActionClear, OpRec
    <3> QED BY <1>0, <1>6, <3>1, Zenon DEF ActionClear, OpStep, OpRec, PCs
  <2>2. TmpOf(t)' BY <1>0, <1>6, <2>1, Zenon DEF TmpOf, Tmp, ActionClear
  <2> QED BY <1>0, <1>6, <2>1, <2>2, MoveKeeps, Zenon DEF Building, ActionClear
<1> QED BY <1>1, <1>2, <1>3, <1>4, <1>5, <1>6, Zenon

-----------------------------------------------------------------------------

\* Reading and writing a pipe.
LEMMA PipeSteps ==
    ASSUME IInv, NEW t \in Actors, PipeRead(t) \/ PipeWrite(t)
    PROVE  IInv'
<1> USE DEF At
<1>0. /\ op \in [Actors -> OpRec] /\ op[t] \in OpRec /\ op[t].n \in Nat /\ TmpOf(t) /\ Types
      /\ File(t) \in AllFiles \cup {None} /\ EofInv /\ HandleCount
  BY SlotFacts, Zenon DEF IInv, Types, TmpInv, OpRec, File
<1>1. h' = h /\ cnt' = cnt /\ used' = used /\ alive' = alive /\ ram' = ram /\ cur' = cur
  BY Zenon DEF PipeRead, PipeWrite
<1>2. PICK l \in {"drop", "waiter", "asleep"} : op'[t].pc = l /\ OpStep(t)
  <2>1. CASE op' = [op EXCEPT ![t].pc = "drop"] BY <1>0, <2>1, Zenon DEF OpStep, OpRec, PCs
  <2>2. CASE op' = [op EXCEPT ![t].pc = "waiter"] BY <1>0, <2>2, Zenon DEF OpStep, OpRec, PCs
  <2>3. CASE op' = [op EXCEPT ![t].pc = "asleep"] BY <1>0, <2>3, Zenon DEF OpStep, OpRec, PCs
  <2> QED BY <2>1, <2>2, <2>3, Zenon DEF PipeRead, PipeWrite, Got, Goto
<1>3. op[t].pc \in {"first", "again", "write"} BY Zenon DEF PipeRead, PipeWrite
<1>4. TmpOf(t)' BY <1>0, <1>1, <1>2, <1>3, Zenon DEF TmpOf
<1>5. HandleCount' BY <1>0, <1>1, SameKeeps, Zenon
<1>6. TmpInv' BY <1>1, <1>2, <1>4, TmpFrame, Zenon DEF IInv, OpStep
<1>7. BuildInv'
  <2>1. op'[t].fd \in Nat BY <1>2, Zenon DEF OpStep, OpRec
  <2>2. ~(~alive /\ t = Son) BY <1>3, Zenon DEF IInv, BuildInv
  <2>3. Building(t)' <=> Building(t) BY <1>2, <1>3, Zenon DEF Building
  <2> QED BY <1>1, <1>2, <2>1, <2>2, <2>3, BuildFrame, Zenon DEF IInv, OpStep
<1>u. UsedInv' BY <1>1, Zenon DEF IInv, UsedInv
<1>8. CASE PipeRead(t)
  <2> DEFINE p == File(t)[1]
  <2>1. p \in Pipes BY <1>0, <1>8, Zenon DEF PipeRead, Ends
  <2>2. sent' = sent BY <1>8, Zenon DEF PipeRead
  <2>3. CASE buf[p] = <<>> /\ cnt[<<p, "w">>] = 0
    <3>1. eof' = eof \cup {p} /\ buf' = buf BY <1>8, <2>3, Zenon DEF PipeRead
    <3>2. p \in used'
      <4>1. h[Tmp(t, 1)] \in Ends BY <1>8, Zenon DEF PipeRead, File
      <4>2. \A e \in Ends : e # None BY DEF Ends, None
      <4> QED BY <1>1, <4>1, <4>2, SlotFacts, Zenon DEF IInv, UsedInv, File
    <3>3. EofInv' BY <1>0, <1>1, <2>3, <3>1, <3>2, Zenon DEF EofInv
    <3> QED BY <1>0, <1>1, <1>2, <1>5, <1>6, <1>7, <1>u, <2>1, <2>2, <3>1, <3>3, ZenonT(40) DEF IInv, Types, OpStep
  <2>4. CASE ~(buf[p] = <<>> /\ cnt[<<p, "w">>] = 0)
    <3> DEFINE k == Least(op[t].n, Len(buf[p]))
    <3>1. eof' = eof /\ buf' = [buf EXCEPT ![p] = SubSeq(buf[p], k + 1, Len(buf[p]))] BY <1>8, <2>4, Zenon DEF PipeRead
    <3>2. buf[p] \in Seq(Nat) /\ k \in Nat BY <1>0, <2>1 DEF Types, Least
    <3>3. SubSeq(buf[p], k + 1, Len(buf[p])) \in Seq(Nat) BY <3>2, SMTT(30)
    <3>4. buf' \in [Pipes -> Seq(Nat)] BY <1>0, <3>1, <3>3, Zenon DEF Types
    <3>5. p \notin eof BY <1>0, <2>4, Zenon DEF EofInv
    <3>6. EofInv' BY <1>0, <1>1, <3>1, <3>5, Zenon DEF EofInv, Types
    <3> QED BY <1>0, <1>1, <1>2, <1>5, <1>6, <1>7, <1>u, <2>2, <3>1, <3>4, <3>6, ZenonT(40) DEF IInv, Types, OpStep
  <2> QED BY <2>3, <2>4, Zenon
<1>9. CASE PipeWrite(t)
  <2> DEFINE p == File(t)[1]
  <2> DEFINE k == IF Cap > Len(buf[p]) THEN Least(Cap - Len(buf[p]), op[t].n) ELSE 0
  <2>1. p \in Pipes /\ File(t) = <<p, "w">> BY <1>0, <1>9 DEF PipeWrite, IsEnd, Ends
  <2>2. eof' = eof /\ buf' = [buf EXCEPT ![p] = buf[p] \o [i \in 1..k |-> sent[p] + i]]
        /\ sent' = [sent EXCEPT ![p] = sent[p] + k] BY <1>9, Zenon DEF PipeWrite
  <2>3. buf[p] \in Seq(Nat) /\ sent[p] \in Nat BY <1>0, <2>1, Zenon DEF Types
  <2>4. k \in Nat BY <1>0, <2>3, FilesAssumption DEF Least
  <2>5. [i \in 1..k |-> sent[p] + i] \in Seq(Nat) BY <2>3, <2>4
  <2>6. buf' \in [Pipes -> Seq(Nat)] /\ sent' \in [Pipes -> Nat]
    <3>1. buf[p] \o [i \in 1..k |-> sent[p] + i] \in Seq(Nat) BY <2>3, <2>5
    <3>2. sent[p] + k \in Nat BY <2>3, <2>4
    <3> HIDE DEF k
    <3> QED BY <1>0, <2>2, <3>1, <3>2, Zenon DEF Types
  <2>7. p \notin eof
    <3>1. Tmp(t, 1) \in Holders(<<p, "w">>) BY <2>1, SlotFacts, Zenon DEF Holders, File
    <3>2. Cardinality(Holders(<<p, "w">>)) # 0 BY <3>1, HoldersFinite, FS_EmptySet, Zenon
    <3>3. <<p, "w">> \in Ends BY <2>1, Zenon DEF Ends
    <3> QED BY <1>0, <3>2, <3>3, Zenon DEF EofInv, HandleCount
  <2>8. EofInv' BY <1>0, <1>1, <2>2, <2>7, Zenon DEF EofInv, Types
  <2> QED BY <1>0, <1>1, <1>2, <1>5, <1>6, <1>7, <1>u, <2>2, <2>6, <2>8, ZenonT(40) DEF IInv, Types, OpStep
<1> QED BY <1>8, <1>9, Zenon

\* A step that drops, fills by a clone, or exchanges with a table entry one
\* temporary of thread t.
LEMMA TmpStep ==
    ASSUME IInv, NEW t \in Actors, NEW i \in {1, 2}, OpStep(t),
           UNCHANGED <<buf, sent, eof, alive, used, ram, cur>>,
           TmpOf(t)', Building(t)' <=> Building(t), op'[t].pc # "inherit",
           At(t, "idle") /\ t = Son => alive,
           \/ Drop(Tmp(t, i))
           \/ \E s \in Slots : Clone(s, Tmp(t, i)) /\ h[Tmp(t, i)] = None
           \/ \E n \in Fds, p \in {Parent, Child} :
                Swap(Tmp(t, i), Fd(p, n)) /\ (p = Child => alive \/ Building(t))
    PROVE  IInv'
<1>0. Types /\ HandleCount /\ EofInv /\ UsedInv /\ Tmp(t, i) \in Slots
      /\ ram' \in Nat /\ cur' \in [Rams -> Nat] /\ used \subseteq used' /\ used' = used
  BY SlotFacts, Zenon DEF IInv, Types
<1>e. \A p \in eof : <<p, "w">> \in Ends /\ cnt[<<p, "w">>] = 0 BY <1>0, Zenon DEF EofInv, Types, Ends
<1>1. CASE Drop(Tmp(t, i))
  <2>1. /\ h' \in [Slots -> AllFiles \cup {None}] /\ cnt' \in [Ends -> Int] /\ HandleCount'
        /\ h' = [h EXCEPT ![Tmp(t, i)] = None] /\ \A e \in Ends : cnt[e] = 0 => cnt'[e] = 0
    BY <1>0, <1>1, DropKeeps, Zenon
  <2>2. \A x \in Slots : x # Tmp(t, i) => h'[x] = h[x] BY <1>0, <2>1, Zenon DEF Types
  <2>3. UsedInv' BY <1>0, <2>1, <2>2, Zenon DEF UsedInv, Types
  <2>4. \A u \in Actors \ {t} : h'[Tmp(u, 1)] = h[Tmp(u, 1)] /\ h'[Tmp(u, 2)] = h[Tmp(u, 2)]
    BY <2>2, SlotFacts, Zenon
  <2>5. \A n \in Fds : h'[Fd(Child, n)] = h[Fd(Child, n)] BY <2>2, SlotFacts, Zenon
  <2> QED BY <1>0, <1>e, <2>1, <2>3, <2>4, <2>5, StepKeeps, Zenon
<1>2. CASE \E s \in Slots : Clone(s, Tmp(t, i)) /\ h[Tmp(t, i)] = None
  <2>0. PICK s \in Slots : Clone(s, Tmp(t, i)) /\ h[Tmp(t, i)] = None BY <1>2, Zenon
  <2>1. /\ h' \in [Slots -> AllFiles \cup {None}] /\ cnt' \in [Ends -> Int] /\ HandleCount'
        /\ h' = [h EXCEPT ![Tmp(t, i)] = h[s]] /\ \A e \in Ends : cnt[e] = 0 => cnt'[e] = 0
    BY <1>0, <2>0, CloneKeeps, Zenon
  <2>2. h'[Tmp(t, i)] = h[s] /\ \A x \in Slots : x # Tmp(t, i) => h'[x] = h[x] BY <1>0, <2>1, Zenon DEF Types
  <2>3. UsedInv' BY <1>0, <2>0, <2>2, Zenon DEF UsedInv
  <2>4. \A u \in Actors \ {t} : h'[Tmp(u, 1)] = h[Tmp(u, 1)] /\ h'[Tmp(u, 2)] = h[Tmp(u, 2)]
    BY <2>2, SlotFacts, Zenon
  <2>5. \A n \in Fds : h'[Fd(Child, n)] = h[Fd(Child, n)] BY <2>2, SlotFacts, Zenon
  <2> QED BY <1>0, <1>e, <2>1, <2>3, <2>4, <2>5, StepKeeps, ZenonT(40)
<1>3. CASE \E n \in Fds, p \in {Parent, Child} :
              Swap(Tmp(t, i), Fd(p, n)) /\ (p = Child => alive \/ Building(t))
  <2>0. PICK n \in Fds, p \in {Parent, Child} :
              Swap(Tmp(t, i), Fd(p, n)) /\ (p = Child => alive \/ Building(t))
    BY <1>3, Zenon
  <2> DEFINE b == Fd(p, n)
  <2>1. b \in Slots /\ b # Tmp(t, i) BY SlotFacts, Zenon
  <2>2. /\ h' \in [Slots -> AllFiles \cup {None}] /\ HandleCount' /\ cnt' = cnt
        /\ h' = [h EXCEPT ![Tmp(t, i)] = h[b], ![b] = h[Tmp(t, i)]]
    BY <1>0, <2>0, <2>1, SwapKeeps, Zenon
  <2>3. /\ h'[Tmp(t, i)] = h[b] /\ h'[b] = h[Tmp(t, i)]
        /\ \A x \in Slots : x # Tmp(t, i) /\ x # b => h'[x] = h[x]
    BY <1>0, <2>1, <2>2, Zenon DEF Types
  <2>4. UsedInv' BY <1>0, <2>1, <2>3, Zenon DEF UsedInv
  <2>5. \A u \in Actors \ {t} : h'[Tmp(u, 1)] = h[Tmp(u, 1)] /\ h'[Tmp(u, 2)] = h[Tmp(u, 2)]
    BY <2>3, SlotFacts, ZenonT(40)
  <2>6. (\A m \in Fds : h'[Fd(Child, m)] = h[Fd(Child, m)]) \/ alive \/ Building(t)
    BY <2>0, <2>3, SlotFacts, ZenonT(40)
  <2>7. cnt' \in [Ends -> Int] BY <1>0, <2>2, Zenon DEF Types
  <2> QED BY <1>0, <1>e, <2>2, <2>4, <2>5, <2>6, <2>7, StepKeeps, ZenonT(40)
<1> QED BY <1>1, <1>2, <1>3, Zenon

\* What such a step leaves in the temporaries of thread t.
LEMMA TmpAfter ==
    ASSUME Types, NEW t \in Actors
    PROVE  /\ \A i \in {1, 2} : Drop(Tmp(t, i)) =>
                h'[Tmp(t, i)] = None /\ \A j \in {1, 2} : j # i => h'[Tmp(t, j)] = h[Tmp(t, j)]
           /\ \A s \in Slots : Clone(s, Tmp(t, 1)) => h'[Tmp(t, 2)] = h[Tmp(t, 2)]
           /\ \A i \in {1, 2}, n \in Fds, p \in {Parent, Child} : Swap(Tmp(t, i), Fd(p, n)) =>
                \A j \in {1, 2} : j # i => h'[Tmp(t, j)] = h[Tmp(t, j)]
<1>1. \A j \in {1, 2} : Tmp(t, j) \in Slots BY SlotFacts, Zenon
<1>2. Tmp(t, 1) # Tmp(t, 2) BY SlotFacts, Zenon
<1>3. \A j \in {1, 2}, n \in Fds, p \in {Parent, Child} : Tmp(t, j) # Fd(p, n) BY SlotFacts, Zenon
<1>4. ASSUME NEW i \in {1, 2}, Drop(Tmp(t, i))
      PROVE  h'[Tmp(t, i)] = None /\ \A j \in {1, 2} : j # i => h'[Tmp(t, j)] = h[Tmp(t, j)]
  BY <1>1, <1>2, <1>4 DEF Drop, Types
<1>5. ASSUME NEW s \in Slots, Clone(s, Tmp(t, 1)) PROVE h'[Tmp(t, 2)] = h[Tmp(t, 2)]
  BY <1>1, <1>2, <1>5, Zenon DEF Clone, Types
<1>6. ASSUME NEW i \in {1, 2}, NEW n \in Fds, NEW p \in {Parent, Child}, Swap(Tmp(t, i), Fd(p, n)),
             NEW j \in {1, 2}, j # i
      PROVE  h'[Tmp(t, j)] = h[Tmp(t, j)]
  BY <1>1, <1>2, <1>3, <1>6 DEF Swap, Types
<1> QED BY <1>4, <1>5, <1>6, Zenon

\* The same for the first temporary, which most steps use.
LEMMA TmpOne ==
    ASSUME Types, NEW t \in Actors
    PROVE  /\ Drop(Tmp(t, 1)) => h'[Tmp(t, 1)] = None /\ h'[Tmp(t, 2)] = h[Tmp(t, 2)]
           /\ \A s \in Slots : Clone(s, Tmp(t, 1)) => h'[Tmp(t, 2)] = h[Tmp(t, 2)]
           /\ \A n \in Fds, p \in {Parent, Child} :
                Swap(Tmp(t, 1), Fd(p, n)) => h'[Tmp(t, 2)] = h[Tmp(t, 2)]
<1>1. 1 \in {1, 2} /\ 2 \in {1, 2} /\ 2 # 1 OBVIOUS
<1>2. Drop(Tmp(t, 1)) => h'[Tmp(t, 1)] = None /\ h'[Tmp(t, 2)] = h[Tmp(t, 2)] BY <1>1, TmpAfter, Zenon
<1>3. \A n \in Fds, p \in {Parent, Child} : Swap(Tmp(t, 1), Fd(p, n)) => h'[Tmp(t, 2)] = h[Tmp(t, 2)]
  BY <1>1, TmpAfter, Zenon
<1> QED BY <1>2, <1>3, TmpAfter, Zenon


\* open, pipe, dup, close and the end of a call.
LEMMA HandleSteps ==
    ASSUME IInv, NEW t \in Actors,
           AddFd(t) \/ Added(t) \/ DupLookup(t) \/ DropTmp(t)
    PROVE  IInv'
<1> USE DEF At, data
<1>0. /\ op \in [Actors -> OpRec] /\ op[t] \in OpRec /\ op[t].n \in Nat /\ op[t].old \in Fds
      /\ TmpOf(t) /\ Types
  BY Zenon DEF IInv, Types, TmpInv, OpRec
<1>a. ~At(t, "idle") /\ Proc(t) \in {Parent, Child} /\ (Proc(t) = Child => alive)
  BY SlotFacts, Zenon DEF IInv, BuildInv, AddFd, Added, DupLookup, DropTmp
<1>1. CASE AddFd(t)
  <2> DEFINE i == op[t].n
             n == op[t].fd
  <2>1. i \in {1, 2} /\ n \in Fds BY <1>0, <1>1, Zenon DEF AddFd, TmpOf
  <2>2. Swap(Tmp(t, i), Fd(Proc(t), n)) BY <1>1, Zenon DEF AddFd
  <2>3. OpStep(t) /\ op'[t].pc = "added" /\ op'[t].n = i
    BY <1>0, <1>1, Zenon DEF AddFd, Goto, OpStep, OpRec, PCs
  <2>4. \A j \in {1, 2} : j # i => h'[Tmp(t, j)] = h[Tmp(t, j)] BY <1>0, <1>a, <2>1, <2>2, TmpAfter, Zenon
  <2>8. i = 2 => h[Tmp(t, 1)] = None BY <1>0, <1>1, Zenon DEF AddFd, TmpOf
  <2>9. i = 2 => h'[Tmp(t, 1)] = None BY <2>4, <2>8
  <2>5. TmpOf(t)' BY <2>1, <2>3, <2>9, Zenon DEF TmpOf
  <2>6. ~Building(t)' /\ ~Building(t) BY <1>1, <2>3, Zenon DEF AddFd, Building
  <2>7. UNCHANGED <<buf, sent, eof, alive, used, ram, cur>> BY <1>1, Zenon DEF AddFd
  <2> QED BY <1>a, <2>1, <2>2, <2>3, <2>5, <2>6, <2>7, TmpStep, ZenonT(40)
<1>2. CASE Added(t)
  <2> DEFINE i == op[t].n
  <2>1. i \in {1, 2} BY <1>0, <1>2, Zenon DEF Added, TmpOf
  <2>2. UNCHANGED <<buf, sent, eof, alive, used, ram, cur>> BY <1>2, Zenon DEF Added
  <2>3. OpStep(t) /\ op'[t].pc \in {"nextfd", "idle"}
        /\ (op'[t].pc = "nextfd" => op'[t].n = 2 /\ i = 1)
        /\ (op'[t].pc = "idle" => i = 2 \/ h[Tmp(t, 2)] = None)
    <3>1. CASE i = 1 /\ h[Tmp(t, 2)] # None
      <4>1. op' = [op EXCEPT ![t].pc = "nextfd", ![t].n = 2] BY <1>2, <3>1, Zenon DEF Added
      <4> QED BY <1>0, <3>1, <4>1, Zenon DEF OpStep, OpRec, PCs
    <3>2. CASE ~(i = 1 /\ h[Tmp(t, 2)] # None)
      <4>1. op' = [op EXCEPT ![t] = Idle] BY <1>2, <3>2, Zenon DEF Added, Return
      <4> QED BY <1>0, <2>1, <3>2, <4>1, IdleType, Zenon DEF OpStep
    <3> QED BY <3>1, <3>2, Zenon
  <2>4. ~Building(t)' /\ ~Building(t) BY <1>2, <2>3, Zenon DEF Added, Building
  <2>5. CASE h[Tmp(t, i)] # None
    <3>1. Drop(Tmp(t, i)) BY <1>2, <2>5, Zenon DEF Added
    <3>2. h'[Tmp(t, i)] = None /\ \A j \in {1, 2} : j # i => h'[Tmp(t, j)] = h[Tmp(t, j)]
      BY <1>0, <2>1, <3>1, TmpAfter, ZenonT(40)
    <3>3. TmpOf(t)' BY <1>0, <1>2, <2>1, <2>3, <3>2 DEF Added, TmpOf
    <3> QED BY <1>a, <2>1, <2>2, <2>3, <2>4, <3>1, <3>3, TmpStep, ZenonT(40)
  <2>6. CASE h[Tmp(t, i)] = None
    <3>1. UNCHANGED <<h, cnt>> BY <1>2, <2>6, ZenonT(40) DEF Added
    <3>2. TmpOf(t)' BY <1>0, <1>2, <2>1, <2>3, <2>6, <3>1 DEF Added, TmpOf
    <3> QED BY <1>0, <1>a, <2>2, <2>3, <2>4, <3>1, <3>2, MoveKeeps, ZenonT(40) DEF Types
  <2> QED BY <2>5, <2>6, Zenon
<1>3. CASE DupLookup(t)
  <2> DEFINE s == Fd(Proc(t), op[t].old)
  <2>1. UNCHANGED <<buf, sent, eof, alive, used, ram, cur>> BY <1>3, Zenon DEF DupLookup
  <2>2. h[Tmp(t, 1)] = None /\ h[Tmp(t, 2)] = None /\ op[t].fd \in Fds BY <1>0, <1>3, Zenon DEF DupLookup, TmpOf
  <2>3. CASE h[s] = None
    <3>1. op' = [op EXCEPT ![t] = Idle] /\ UNCHANGED <<h, cnt>> BY <1>3, <2>3, Zenon DEF DupLookup, Return
    <3>2. OpStep(t) /\ op'[t].pc = "idle" BY <1>0, <3>1, IdleType, Zenon DEF OpStep
    <3>3. TmpOf(t)' BY <2>2, <3>1, <3>2, Zenon DEF TmpOf
    <3> QED BY <1>0, <1>3, <1>a, <2>1, <3>1, <3>2, <3>3, MoveKeeps, ZenonT(40) DEF Types, DupLookup, Building
  <2>4. CASE h[s] # None
    <3>1. op' = [op EXCEPT ![t].pc = "addfd", ![t].n = 1] /\ Clone(s, Tmp(t, 1)) BY <1>3, <2>4, Zenon DEF DupLookup
    <3>2. OpStep(t) /\ op'[t].pc = "addfd" /\ op'[t].n = 1 /\ op'[t].fd = op[t].fd
      BY <1>0, <3>1, Zenon DEF OpStep, OpRec, PCs
    <3>3. s \in Slots BY <1>0, SlotFacts, Zenon
    <3>4. h'[Tmp(t, 2)] = h[Tmp(t, 2)] BY <1>0, <3>1, <3>3, TmpOne, Zenon
    <3>5. TmpOf(t)' BY <2>2, <3>2, <3>4, Zenon DEF TmpOf
    <3>6. ~Building(t)' /\ ~Building(t) BY <1>3, <3>2, Zenon DEF DupLookup, Building
    <3> QED BY <1>a, <2>1, <2>2, <3>1, <3>2, <3>3, <3>5, <3>6, TmpStep, ZenonT(40)
  <2> QED BY <2>3, <2>4, Zenon
<1>4. CASE DropTmp(t)
  <2>1. UNCHANGED <<buf, sent, eof, alive, used, ram, cur>> BY <1>4, Zenon DEF DropTmp
  <2>2. op' = [op EXCEPT ![t] = Idle] /\ Drop(Tmp(t, 1)) BY <1>4, Zenon DEF DropTmp, Return
  <2>3. OpStep(t) /\ op'[t].pc = "idle" BY <1>0, <2>2, IdleType, Zenon DEF OpStep
  <2>4. h'[Tmp(t, 1)] = None /\ h'[Tmp(t, 2)] = h[Tmp(t, 2)] BY <1>0, <2>2, TmpOne, Zenon
  <2>5. h[Tmp(t, 2)] = None BY <1>0, <1>4, Zenon DEF DropTmp, TmpOf
  <2>6. TmpOf(t)' BY <2>3, <2>4, <2>5, Zenon DEF TmpOf
  <2>7. ~Building(t)' /\ ~Building(t) BY <1>4, <2>3, Zenon DEF DropTmp, Building
  <2> QED BY <1>a, <2>1, <2>2, <2>3, <2>6, <2>7, TmpStep, ZenonT(40)
<1> QED BY <1>1, <1>2, <1>3, <1>4, Zenon

\* An open of the RAM file appears in a free temporary of thread t; no pipe is concerned.
PutRam(t, r) ==
    h' = [h EXCEPT ![Tmp(t, 1)] = <<r, "ram">>] /\ used' = used \cup {r} /\ cnt' = cnt

LEMMA PutRamKeeps ==
    ASSUME Types, HandleCount, UsedInv, NEW t \in Actors, NEW r \in Rams, PutRam(t, r), h[Tmp(t, 1)] = None
    PROVE  /\ h' \in [Slots -> AllFiles \cup {None}] /\ HandleCount' /\ UsedInv'
           /\ \A x \in Slots : x # Tmp(t, 1) => h'[x] = h[x]
<1>1. Tmp(t, 1) \in Slots BY SlotFacts, Zenon
<1>2. <<r, "ram">> \in AllFiles /\ <<r, "ram">>[1] = r /\ <<r, "ram">> # None BY Zenon DEF AllFiles, None
<1>3. \A e \in Ends : e # <<r, "ram">> /\ e # None BY DEF Ends, None
<1>4. h'[Tmp(t, 1)] = <<r, "ram">> /\ \A x \in Slots : x # Tmp(t, 1) => h'[x] = h[x]
  BY <1>1, Zenon DEF PutRam, Types
<1>5. h' \in [Slots -> AllFiles \cup {None}] BY <1>1, <1>2, Zenon DEF PutRam, Types
<1>6. UsedInv' BY <1>2, <1>4 DEF UsedInv, PutRam
<1>7. \A e \in Ends : Holders(e)' = Holders(e) BY <1>3, <1>4, Zenon DEF Holders
<1>8. HandleCount' BY <1>7, Zenon DEF HandleCount, PutRam
<1> QED BY <1>4, <1>5, <1>6, <1>8, Zenon

\* The steps of spawn_process on the child's table.
LEMMA BuildSteps ==
    ASSUME IInv, NEW t \in Actors,
           \/ InheritOne(t) \/ ActionClone(t) \/ ActionOpen(t) \/ ActionInsert(t) \/ ActionClose(t)
           \/ DropOld(t) \/ ClearOne(t)
    PROVE  IInv'
<1> USE DEF At, data
<1>0. /\ op \in [Actors -> OpRec] /\ op[t] \in OpRec /\ op[t].left \in Seq(ActRec) /\ op[t].fd \in Nat
      /\ TmpOf(t) /\ Types /\ EofInv /\ HandleCount /\ UsedInv
  BY Zenon DEF IInv, Types, TmpInv, OpRec
<1>a. Building(t) /\ ~At(t, "idle") /\ t # Son /\ ~alive
  <2>1. Building(t) BY Zenon DEF Building, InheritOne, ActionClone, ActionOpen, ActionInsert, ActionClose, DropOld, ClearOne
  <2>2. ~At(t, "idle") BY <2>1, Zenon DEF Building
  <2> QED BY <2>1, <2>2, Zenon DEF IInv, BuildInv
<1>e. \A p \in eof : <<p, "w">> \in Ends /\ cnt[<<p, "w">>] = 0 BY <1>0, Zenon DEF EofInv, Types, Ends
<1>1. CASE InheritOne(t)
  <2>1. PICK n \in Fds : /\ n >= op[t].fd /\ Clone(Fd(Parent, n), Fd(Child, n))
                         /\ op' = [op EXCEPT ![t].fd = n + 1]
    BY <1>1, Zenon DEF InheritOne
  <2>2. n \in Nat BY FilesAssumption DEF Fds
  <2>3. OpStep(t) /\ op'[t].pc = "inherit" /\ op'[t].fd = n + 1
    <3>1. n + 1 \in Nat /\ op[t].pc = "inherit" BY <1>1, <2>2 DEF InheritOne
    <3>2. PICK k \in Nat : k = n + 1 BY <3>1, Zenon
    <3>3. op' = [op EXCEPT ![t].fd = k] BY <2>1, <3>2, Zenon
    <3> QED BY <1>0, <3>1, <3>2, <3>3, Zenon DEF OpStep, OpRec
  <2>4. h[Fd(Child, n)] = None BY <1>1, <2>1, Zenon DEF IInv, BuildInv, InheritOne
  <2>5. Fd(Child, n) \in Slots /\ Fd(Parent, n) \in Slots BY SlotFacts, Zenon
  <2>6. /\ h' \in [Slots -> AllFiles \cup {None}] /\ cnt' \in [Ends -> Int] /\ HandleCount'
        /\ h' = [h EXCEPT ![Fd(Child, n)] = h[Fd(Parent, n)]] /\ \A e \in Ends : cnt[e] = 0 => cnt'[e] = 0
    BY <1>0, <2>1, <2>4, <2>5, CloneKeeps, ZenonT(40)
  <2>7. h'[Fd(Child, n)] = h[Fd(Parent, n)] /\ \A x \in Slots : x # Fd(Child, n) => h'[x] = h[x]
    BY <1>0, <2>5, <2>6, Zenon DEF Types
  <2>8. UNCHANGED <<buf, sent, eof, alive, used, ram, cur>> BY <1>1, Zenon DEF InheritOne
  <2>9. UsedInv' BY <1>0, <2>5, <2>7, <2>8, Zenon DEF UsedInv
  <2>10. \A u \in Actors : h'[Tmp(u, 1)] = h[Tmp(u, 1)] /\ h'[Tmp(u, 2)] = h[Tmp(u, 2)]
    BY <2>7, SlotFacts, Zenon
  <2>11. \A m \in Fds : m >= op'[t].fd => h'[Fd(Child, m)] = h[Fd(Child, m)]
    <3> SUFFICES ASSUME NEW m \in Fds, m >= n + 1 PROVE h'[Fd(Child, m)] = h[Fd(Child, m)] BY <2>3, Zenon
    <3>1. m # n BY <2>2 DEF Fds
    <3> QED BY <2>7, <3>1, SlotFacts, Zenon
  <2>12. TmpOf(t)' BY <1>0, <1>1, <2>3, <2>10, ZenonT(40) DEF TmpOf, InheritOne
  <2>13. At(t, "inherit") /\ op'[t].fd >= op[t].fd /\ Building(t)'
    BY <1>0, <1>1, <2>1, <2>2, <2>3 DEF InheritOne, Building
  <2> QED BY <1>0, <1>a, <1>e, <2>3, <2>6, <2>8, <2>9, <2>10, <2>11, <2>12, <2>13, StepKeeps, ZenonT(40) DEF Types
<1>2. CASE ActionClone(t)
  <2> DEFINE a == Head(op[t].left)
             s == Fd(IF a.do = "dup" THEN Child ELSE Parent, a.from)
  <2>0. op[t].left \in Seq(ActRec) /\ op[t].left # <<>> BY <1>0, <1>2, Zenon DEF ActionClone
  <2>1. a \in ActRec BY <2>0
  <2>2. s \in Slots
    <3>1. a.from \in Fds BY <2>1, Zenon DEF ActRec
    <3> QED BY <3>1, SlotFacts, Zenon
  <2>3. UNCHANGED <<buf, sent, eof, alive, used, ram, cur>> BY <1>2, Zenon DEF ActionClone
  <2>4. h[Tmp(t, 1)] = None /\ h[Tmp(t, 2)] = None /\ op[t].left # <<>> BY <1>0, <1>2, Zenon DEF ActionClone, TmpOf
  <2>5. CASE h[s] = None
    <3>1. op' = [op EXCEPT ![t].pc = "fail"] /\ UNCHANGED <<h, cnt>> BY <1>2, <2>5, Zenon DEF ActionClone, Goto
    <3>2. OpStep(t) /\ op'[t].pc = "fail" BY <1>0, <3>1, Zenon DEF OpStep, OpRec, PCs
    <3>3. TmpOf(t)' BY <2>4, <3>1, <3>2, Zenon DEF TmpOf
    <3> QED BY <1>0, <1>a, <2>3, <3>1, <3>2, <3>3, MoveKeeps, ZenonT(40) DEF Types, Building
  <2>6. CASE h[s] # None
    <3>1. op' = [op EXCEPT ![t].pc = "insert"] /\ Clone(s, Tmp(t, 1)) BY <1>2, <2>6, Zenon DEF ActionClone, Goto
    <3>2. OpStep(t) /\ op'[t].pc = "insert" /\ op'[t].left = op[t].left
      BY <1>0, <3>1, Zenon DEF OpStep, OpRec, PCs
    <3>3. h'[Tmp(t, 2)] = h[Tmp(t, 2)] BY <1>0, <2>2, <3>1, TmpOne, Zenon
    <3>4. TmpOf(t)' BY <2>4, <3>2, <3>3, Zenon DEF TmpOf
    <3>5. Building(t)' BY <3>2, Zenon DEF Building
    <3> HIDE DEF s
    <3> QED BY <1>a, <2>2, <2>3, <2>4, <3>1, <3>2, <3>4, <3>5, TmpStep, ZenonT(40)
  <2> QED BY <2>5, <2>6, Zenon
<1>3. CASE ActionOpen(t)
  <2>1. UNCHANGED <<buf, sent, eof, alive, ram, cnt>> /\ used \subseteq used' BY <1>3, Zenon DEF ActionOpen
  <2>2. h[Tmp(t, 1)] = None /\ h[Tmp(t, 2)] = None /\ op[t].left # <<>> BY <1>0, <1>3, Zenon DEF ActionOpen, TmpOf
  <2>3. CASE Goto(t, "fail") /\ UNCHANGED <<h, used, cur>>
    <3>1. op' = [op EXCEPT ![t].pc = "fail"] BY <2>3, Zenon DEF Goto
    <3>2. OpStep(t) /\ op'[t].pc = "fail" BY <1>0, <3>1, Zenon DEF OpStep, OpRec, PCs
    <3>3. TmpOf(t)' BY <2>2, <2>3, <3>2, Zenon DEF TmpOf
    <3> QED BY <1>0, <1>a, <2>1, <2>3, <3>2, <3>3, MoveKeeps, ZenonT(40) DEF Types, Building
  <2>4. ASSUME NEW r \in Rams \ used, h' = [h EXCEPT ![Tmp(t, 1)] = <<r, "ram">>],
               used' = used \cup {r}, cur' = [cur EXCEPT ![r] = 0], Goto(t, "insert")
        PROVE  IInv'
    <3>1. op' = [op EXCEPT ![t].pc = "insert"] BY <2>4, Zenon DEF Goto
    <3>2. OpStep(t) /\ op'[t].pc = "insert" /\ op'[t].left = op[t].left
      BY <1>0, <3>1, Zenon DEF OpStep, OpRec, PCs
    <3>3. PutRam(t, r) BY <2>4, <2>1, Zenon DEF PutRam
    <3>4. /\ h' \in [Slots -> AllFiles \cup {None}] /\ HandleCount' /\ UsedInv'
          /\ \A x \in Slots : x # Tmp(t, 1) => h'[x] = h[x]
      BY <1>0, <2>2, <3>3, PutRamKeeps, Zenon
    <3>5. h'[Tmp(t, 2)] = h[Tmp(t, 2)] BY <3>4, SlotFacts, Zenon
    <3>6. TmpOf(t)' BY <2>2, <3>2, <3>5, Zenon DEF TmpOf
    <3>7. Building(t)' BY <3>2, Zenon DEF Building
    <3>8. cur' \in [Rams -> Nat] /\ ram' \in Nat /\ cnt' \in [Ends -> Int] BY <1>0, <2>1, <2>4, Zenon DEF Types
    <3>9. \A u \in Actors \ {t} : h'[Tmp(u, 1)] = h[Tmp(u, 1)] /\ h'[Tmp(u, 2)] = h[Tmp(u, 2)]
      BY <3>4, SlotFacts, Zenon
    <3>10. \A n \in Fds : h'[Fd(Child, n)] = h[Fd(Child, n)] BY <3>4, SlotFacts, Zenon
    <3> QED BY <1>a, <1>e, <2>1, <3>2, <3>4, <3>6, <3>7, <3>8, <3>9, <3>10, StepKeeps, ZenonT(40)
  <2> QED BY <1>3, <2>3, <2>4, Zenon DEF ActionOpen
<1>4. CASE ActionInsert(t) \/ ActionClose(t)
  <2> DEFINE n == Head(op[t].left).to
  <2>1. op[t].left # <<>> BY <1>0, <1>4, Zenon DEF ActionInsert, ActionClose, TmpOf
  <2>2. n \in Fds /\ Tail(op[t].left) \in Seq(ActRec)
    <3>1. Head(op[t].left) \in ActRec /\ Tail(op[t].left) \in Seq(ActRec) BY <1>0, <2>1
    <3> QED BY <3>1, Zenon DEF ActRec
  <2>3. Swap(Tmp(t, 1), Fd(Child, n)) BY <1>4, Zenon DEF ActionInsert, ActionClose
  <2>4. OpStep(t) /\ op'[t].pc = "dropold"
    <3>1. PICK q \in Seq(ActRec) : q = Tail(op[t].left) BY <2>2, Zenon
    <3>2. op' = [op EXCEPT ![t].pc = "dropold", ![t].left = q]
      BY <1>4, <3>1, Zenon DEF ActionInsert, ActionClose
    <3> QED BY <1>0, <3>2, Zenon DEF OpStep, OpRec, PCs
  <2>5. h'[Tmp(t, 2)] = h[Tmp(t, 2)] BY <1>0, <2>2, <2>3, TmpOne, Zenon
  <2>6. h[Tmp(t, 2)] = None BY <1>0, <1>4, Zenon DEF ActionInsert, ActionClose, TmpOf
  <2>7. TmpOf(t)' BY <2>4, <2>5, <2>6, Zenon DEF TmpOf
  <2>8. Building(t)' BY <2>4, Zenon DEF Building
  <2>9. UNCHANGED <<buf, sent, eof, alive, used, ram, cur>> BY <1>4, Zenon DEF ActionInsert, ActionClose
  <2> HIDE DEF n
  <2> QED BY <1>a, <2>2, <2>3, <2>4, <2>7, <2>8, <2>9, TmpStep, ZenonT(40)
<1>5. CASE DropOld(t)
  <2>1. UNCHANGED <<buf, sent, eof, alive, used, ram, cur>> BY <1>5, Zenon DEF DropOld
  <2>2. OpStep(t) /\ op'[t].pc = "action" BY <1>0, <1>5, Zenon DEF DropOld, Goto, OpStep, OpRec, PCs
  <2>3. h[Tmp(t, 2)] = None BY <1>0, <1>5, Zenon DEF DropOld, TmpOf
  <2>4. Building(t)' BY <2>2, Zenon DEF Building
  <2>5. CASE h[Tmp(t, 1)] # None
    <3>1. Drop(Tmp(t, 1)) BY <1>5, <2>5, Zenon DEF DropOld
    <3>2. h'[Tmp(t, 1)] = None /\ h'[Tmp(t, 2)] = h[Tmp(t, 2)] BY <1>0, <3>1, TmpOne, Zenon
    <3>3. TmpOf(t)' BY <2>2, <2>3, <3>2, Zenon DEF TmpOf
    <3> QED BY <1>a, <2>1, <2>2, <2>4, <3>1, <3>3, TmpStep, ZenonT(40)
  <2>6. CASE h[Tmp(t, 1)] = None
    <3>1. UNCHANGED <<h, cnt>> BY <1>5, <2>6, Zenon DEF DropOld
    <3>2. TmpOf(t)' BY <2>2, <2>3, <2>6, <3>1, Zenon DEF TmpOf
    <3> QED BY <1>0, <1>a, <2>1, <2>2, <2>4, <3>1, <3>2, MoveKeeps, ZenonT(40) DEF Types
  <2> QED BY <2>5, <2>6, Zenon
<1>6. CASE ClearOne(t)
  <2>1. PICK n \in Fds : Drop(Fd(Child, n)) BY <1>6, Zenon DEF ClearOne
  <2>2. Fd(Child, n) \in Slots BY SlotFacts, Zenon
  <2>3. /\ h' \in [Slots -> AllFiles \cup {None}] /\ cnt' \in [Ends -> Int] /\ HandleCount'
        /\ h' = [h EXCEPT ![Fd(Child, n)] = None] /\ \A e \in Ends : cnt[e] = 0 => cnt'[e] = 0
    BY <1>0, <2>1, <2>2, DropKeeps, Zenon
  <2>4. h'[Fd(Child, n)] = None /\ \A x \in Slots : x # Fd(Child, n) => h'[x] = h[x]
    BY <1>0, <2>2, <2>3, Zenon DEF Types
  <2>5. UNCHANGED <<buf, sent, eof, alive, used, ram, cur, op>> BY <1>6, Zenon DEF ClearOne
  <2>6. UsedInv' BY <1>0, <2>2, <2>4, <2>5, Zenon DEF UsedInv
  <2>7. \A u \in Actors : h'[Tmp(u, 1)] = h[Tmp(u, 1)] /\ h'[Tmp(u, 2)] = h[Tmp(u, 2)]
    BY <2>4, SlotFacts, Zenon
  <2>8. TmpOf(t)' BY <1>0, <2>5, <2>7, Zenon DEF TmpOf
  <2>9. OpStep(t) /\ op'[t].pc # "inherit" /\ Building(t)'
    BY <1>0, <1>6, <2>5, Zenon DEF OpStep, ClearOne, Building
  <2> QED BY <1>0, <1>a, <1>e, <2>3, <2>5, <2>6, <2>7, <2>8, <2>9, StepKeeps, ZenonT(40) DEF Types
<1> QED BY <1>1, <1>2, <1>3, <1>4, <1>5, <1>6, Zenon

-----------------------------------------------------------------------------

\* A spawn starts with an empty table, fails with an empty one, or adds the child.
LEMMA SpawnSteps ==
    ASSUME IInv, NEW t \in Actors,
           (\E as \in Actions : Spawn(t, as)) \/ ClearDone(t) \/ SpawnEnds(t)
    PROVE  IInv'
<1> USE DEF At, data
<1>0. /\ op \in [Actors -> OpRec] /\ op[t] \in OpRec /\ TmpOf(t) /\ Types /\ BuildInv
      /\ h[Tmp(t, 1)] = None /\ h[Tmp(t, 2)] = None
  BY Zenon DEF IInv, Types, TmpInv, TmpOf, Spawn, Enter, ClearDone, SpawnEnds
<1>1. UNCHANGED <<h, cnt, buf, sent, eof, used, ram, cur>> BY Zenon DEF Spawn, ClearDone, SpawnEnds
<1>2. PICK l \in {"inherit", "action", "idle", "fail"} :
        /\ OpStep(t) /\ op'[t].pc = l
        /\ l = "inherit" => op'[t].fd = 0 /\ \E as \in Actions : Spawn(t, as)
        /\ l = "action" => At(t, "clear") /\ alive' = alive
        /\ l = "fail" => At(t, "action") /\ alive' = alive
        /\ l = "idle" => \/ At(t, "fail") /\ alive' = alive /\ ClearDone(t)
                         \/ At(t, "action") /\ alive' = TRUE
  <2>1. CASE \E as \in Actions : Spawn(t, as)
    <3>1. PICK as \in Actions : Spawn(t, as) BY <2>1, Zenon
    <3>2. as \in Seq(ActRec) BY FilesAssumption, Zenon DEF ActRec, Fds
    <3>3. [Idle EXCEPT !.pc = "inherit", !.left = as] \in OpRec
          /\ [Idle EXCEPT !.pc = "inherit", !.left = as].pc = "inherit"
          /\ [Idle EXCEPT !.pc = "inherit", !.left = as].fd = 0
      BY <3>2, IdleType, Zenon DEF Idle, Start, OpRec, PCs, Modes
    <3>4. op' = [op EXCEPT ![t] = [Idle EXCEPT !.pc = "inherit", !.left = as]] BY <3>1, Zenon DEF Spawn, Enter
    <3>5. OpStep(t) /\ op'[t].pc = "inherit" /\ op'[t].fd = 0 BY <1>0, <3>3, <3>4, Zenon DEF OpStep
    <3> QED BY <2>1, <3>5, Zenon
  <2>2. CASE ClearDone(t)
    <3>1. CASE At(t, "clear")
      <4>1. op' = [op EXCEPT ![t].pc = "action"] /\ alive' = alive BY <2>2, <3>1, Zenon DEF ClearDone, Goto
      <4> QED BY <1>0, <3>1, <4>1, Zenon DEF OpStep, OpRec, PCs
    <3>2. CASE At(t, "fail")
      <4>1. op' = [op EXCEPT ![t] = Idle] /\ alive' = alive BY <2>2, <3>2, Zenon DEF ClearDone, Return
      <4> QED BY <1>0, <2>2, <3>2, <4>1, IdleType, Zenon DEF OpStep
    <3> QED BY <2>2, <3>1, <3>2, Zenon DEF ClearDone
  <2>3. CASE SpawnEnds(t)
    <3>1. CASE alive' = TRUE /\ Return(t)
      <4>1. op' = [op EXCEPT ![t] = Idle] BY <3>1, Zenon DEF Return
      <4> QED BY <1>0, <2>3, <3>1, <4>1, IdleType, Zenon DEF OpStep, SpawnEnds
    <3>2. CASE alive' = alive /\ Goto(t, "fail")
      <4>1. op' = [op EXCEPT ![t].pc = "fail"] BY <3>2, Zenon DEF Goto
      <4> QED BY <1>0, <2>3, <3>2, <4>1, Zenon DEF OpStep, OpRec, PCs, SpawnEnds
    <3> QED BY <2>3, <3>1, <3>2, Zenon DEF SpawnEnds
  <2> QED BY <2>1, <2>2, <2>3, Zenon
<1>3. TmpOf(t)' BY <1>0, <1>1, <1>2, Zenon DEF TmpOf
<1>4. TmpInv' BY <1>1, <1>2, <1>3, TmpFrame, Zenon DEF IInv, OpStep
<1>5. HandleCount' BY <1>1, SameKeeps, Zenon DEF IInv
<1>6. EofInv' /\ UsedInv' BY <1>1, Zenon DEF IInv, EofInv, UsedInv
<1>7. alive' \in BOOLEAN /\ (alive' # alive => l = "idle") BY <1>0, <1>2, Zenon DEF Types, Spawn
<1>8. Types' BY <1>0, <1>1, <1>2, <1>7, Zenon DEF Types, OpStep
<1>9. BuildInv'
  <2>1. \A u \in Actors \ {t} : op'[u] = op[u] BY <1>2, Zenon DEF OpStep
  <2>2. CASE l = "inherit"
    <3>1. PICK as \in Actions : Spawn(t, as) BY <1>2, <2>2, Zenon
    <3>2. t \in Threads /\ ~alive /\ alive' = alive /\ \A u \in Threads : ~Building(u) BY <3>1, Zenon DEF Spawn
    <3>3. \A u \in Actors : ~Building(u) BY <1>0, <3>2, Zenon DEF BuildInv
    <3>4. \A n \in Fds : h'[Fd(Child, n)] = None
      BY <1>0, <1>1, <3>2, Zenon DEF BuildInv, FailedSpawnHoldsNothing
    <3>5. \A u \in Actors : Building(u)' => u = t BY <2>1, <3>3, Zenon DEF Building
    <3>6. Building(t)' BY <1>2, <2>2, Zenon DEF Building
    <3>7. Son \in Actors \ {t} BY <3>2, FilesAssumption, Zenon DEF Actors
    <3>8. op'[Son].pc = "idle" BY <1>0, <2>1, <3>2, <3>7, ZenonT(40) DEF BuildInv
    <3> QED BY <3>2, <3>4, <3>5, <3>6, <3>8, ZenonT(40) DEF BuildInv, FailedSpawnHoldsNothing, Building
  <2>3. CASE l = "action" \/ l = "fail"
    <3>1. Building(t) /\ Building(t)' /\ alive' = alive /\ op'[t].pc # "inherit" BY <1>2, <2>3, Zenon DEF Building
    <3>2. op'[t].fd \in Nat BY <1>2, Zenon DEF OpStep, OpRec
    <3>3. ~(~alive /\ t = Son) BY <1>2, <2>3, <1>0, Zenon DEF BuildInv
    <3> QED BY <1>0, <1>1, <2>1, <3>1, <3>2, <3>3, BuildFrame, ZenonT(40)
  <2>4. CASE l = "idle"
    <3>1. Building(t) /\ ~Building(t)' BY <1>2, <2>4, Zenon DEF Building
    <3>2. t \in Threads /\ ~alive /\ \A u \in Actors : Building(u) => u = t BY <1>0, <3>1, Zenon DEF BuildInv
    <3>3. \A u \in Actors : ~Building(u)' BY <2>1, <3>1, <3>2, Zenon DEF Building
    <3>4. Son \in Actors \ {t} BY <3>2, FilesAssumption, Zenon DEF Actors
    <3>5. op'[Son].pc = "idle" BY <1>0, <2>1, <3>2, <3>4, Zenon DEF BuildInv
    <3>6. alive' \/ \A n \in Fds : h'[Fd(Child, n)] = None BY <1>1, <1>2, <2>4, Zenon DEF ClearDone
    <3> QED BY <3>3, <3>5, <3>6, Zenon DEF BuildInv, FailedSpawnHoldsNothing, Building
  <2> QED BY <2>2, <2>3, <2>4, Zenon
<1> QED BY <1>4, <1>5, <1>6, <1>8, <1>9, Zenon DEF IInv

\* The start of every other call.
LEMMA CallSteps ==
    ASSUME IInv, NEW t \in Actors,
           \/ \E p \in Pipes : Pipe(t, p)
           \/ \E r \in Rams, mode \in {"plain", "append", "truncate"} : Open(t, r, mode)
           \/ \E old \in Fds, new \in 0..MaxFd : Dup(t, old, new)
           \/ \E n \in Fds : Close(t, n)
           \/ \E n \in Fds, len \in Lens, w \in {"no", "timed", "forever"} : IO(t, n, "read", len, w)
           \/ \E n \in Fds, len \in Lens, k \in {"write", "seek"} : IO(t, n, k, len, "no")
    PROVE  IInv'
<1> USE DEF At, data
<1>0. /\ op \in [Actors -> OpRec] /\ op[t] \in OpRec /\ TmpOf(t) /\ Types /\ BuildInv
      /\ HandleCount /\ UsedInv /\ EofInv
  BY Zenon DEF IInv, Types, TmpInv
<1>1. At(t, "idle") /\ (t = Son => alive) /\ UNCHANGED <<buf, sent, eof, alive>> /\ used \subseteq used'
  BY Zenon DEF Pipe, Open, Dup, Close, IO, Enter
<1>2. h[Tmp(t, 1)] = None /\ h[Tmp(t, 2)] = None BY <1>0, <1>1, Zenon DEF TmpOf
<1>3. ~Building(t) /\ Proc(t) \in {Parent, Child} /\ (Proc(t) = Child => alive)
  BY <1>1, SlotFacts, Zenon DEF Building
<1>e. \A p \in eof : p \in used /\ <<p, "w">> \in Ends /\ cnt[<<p, "w">>] = 0 BY <1>0, Zenon DEF EofInv, Types, Ends
<1>4. ASSUME NEW p \in Pipes, Pipe(t, p) PROVE IInv'
  <2> DEFINE R == <<p, "r">>
             W == <<p, "w">>
  <2>1. R \in Ends /\ W \in Ends /\ R # W /\ R # None /\ W # None /\ R[1] = p /\ W[1] = p BY Zenon DEF Ends, None
  <2>2. Tmp(t, 1) \in Slots /\ Tmp(t, 2) \in Slots /\ Tmp(t, 1) # Tmp(t, 2) BY SlotFacts, Zenon
  <2>3. h' = [h EXCEPT ![Tmp(t, 1)] = R, ![Tmp(t, 2)] = W] BY <1>4, Zenon DEF Pipe
  <2>4. h'[Tmp(t, 1)] = R /\ h'[Tmp(t, 2)] = W
        /\ \A x \in Slots : x # Tmp(t, 1) /\ x # Tmp(t, 2) => h'[x] = h[x]
    BY <1>0, <2>2, <2>3, Zenon DEF Types
  <2>5. h' \in [Slots -> AllFiles \cup {None}] BY <1>0, <2>1, <2>2, <2>3, Zenon DEF Types, AllFiles
  <2>6. cnt' = [cnt EXCEPT ![R] = cnt[R] + 1, ![W] = cnt[W] + 1] BY <1>4, <2>1, Zenon DEF Pipe
  <2>7. cnt' \in [Ends -> Int] /\ cnt'[R] = cnt[R] + 1 /\ cnt'[W] = cnt[W] + 1
        /\ \A e \in Ends : e # R /\ e # W => cnt'[e] = cnt[e]
    <3>1. cnt[R] \in Int /\ cnt[W] \in Int BY <1>0, <2>1, Zenon DEF Types
    <3> HIDE DEF R, W
    <3> QED BY <1>0, <2>1, <2>6, <3>1 DEF Types
  <2>8. HandleCount'
    <3> HIDE DEF R, W
    <3>1. Holders(R)' = Holders(R) \cup {Tmp(t, 1)} /\ Tmp(t, 1) \notin Holders(R)
      BY <1>2, <2>1, <2>2, <2>4, Zenon DEF Holders
    <3>2. Holders(W)' = Holders(W) \cup {Tmp(t, 2)} /\ Tmp(t, 2) \notin Holders(W)
      BY <1>2, <2>1, <2>2, <2>4, ZenonT(40) DEF Holders
    <3>3. Cardinality(Holders(R)') = Cardinality(Holders(R)) + 1
          /\ Cardinality(Holders(W)') = Cardinality(Holders(W)) + 1
      BY <3>1, <3>2, HoldersFinite, FS_AddElement, ZenonT(40)
    <3>4. ASSUME NEW e \in Ends, e # R, e # W PROVE Holders(e)' = Holders(e)
      <4>1. e # None BY DEF Ends, None
      <4> QED BY <1>2, <2>2, <2>4, <3>4, <4>1, ZenonT(40) DEF Holders
    <3>5. ASSUME NEW e \in Ends PROVE cnt'[e] = Cardinality(Holders(e)')
      BY <1>0, <2>1, <2>7, <3>3, <3>4, ZenonT(40) DEF HandleCount
    <3> QED BY <3>5, Zenon DEF HandleCount
  <2>9. used' = used \cup {p} /\ ram' = ram /\ cur' = cur /\ p \notin used BY <1>4, Zenon DEF Pipe
  <2>10. UsedInv' BY <1>0, <2>1, <2>4, <2>9, Zenon DEF UsedInv
  <2>11. \A q \in eof : cnt'[<<q, "w">>] = 0
    <3> SUFFICES ASSUME NEW q \in eof PROVE cnt'[<<q, "w">>] = 0 BY Zenon
    <3>1. q # p /\ <<q, "w">> \in Ends /\ cnt[<<q, "w">>] = 0 BY <1>e, <2>9, Zenon
    <3>2. <<q, "w">> # R /\ <<q, "w">> # W BY <3>1, Zenon
    <3> QED BY <2>7, <3>1, <3>2, Zenon
  <2>12. 0 \in Fds /\ "nextfd" \in PCs /\ "no" \in Modes BY IdleType, Zenon DEF PCs, Modes
  <2>13. op' = [op EXCEPT ![t] = Start("nextfd", 0, 0, 1, "no")] BY <1>4, Zenon DEF Pipe, Enter
  <2>14. OpStep(t) /\ op'[t].pc = "nextfd" /\ op'[t].n = 1 BY <1>0, <2>12, <2>13, StartType DEF OpStep
  <2>15. TmpOf(t)'
    <3> HIDE DEF R, W
    <3> QED BY <2>14 DEF TmpOf
  <2>16. \A u \in Actors \ {t} : h'[Tmp(u, 1)] = h[Tmp(u, 1)] /\ h'[Tmp(u, 2)] = h[Tmp(u, 2)]
    BY <2>4, SlotFacts, Zenon
  <2>17. \A n \in Fds : h'[Fd(Child, n)] = h[Fd(Child, n)] BY <2>4, SlotFacts, Zenon
  <2>18. ~Building(t)' BY <2>14, Zenon DEF Building
  <2>19. ram' \in Nat /\ cur' \in [Rams -> Nat] BY <1>0, <2>9, Zenon DEF Types
  <2> QED BY <1>1, <1>3, <2>5, <2>7, <2>8, <2>10, <2>11, <2>14, <2>15, <2>16, <2>17, <2>18, <2>19, StepKeeps, ZenonT(40)
<1>5. ASSUME NEW r \in Rams, NEW mode \in {"plain", "append", "truncate"}, Open(t, r, mode) PROVE IInv'
  <2>1. PutRam(t, r) BY <1>5, Zenon DEF Open, PutRam
  <2>2. /\ h' \in [Slots -> AllFiles \cup {None}] /\ HandleCount' /\ UsedInv'
        /\ \A x \in Slots : x # Tmp(t, 1) => h'[x] = h[x]
    BY <1>0, <1>2, <2>1, PutRamKeeps, Zenon
  <2>3. /\ op' = [op EXCEPT ![t] = Start("nextfd", 0, 0, 1, "no")]
        /\ 0 \in Fds /\ "nextfd" \in PCs /\ "no" \in Modes
    BY <1>5, IdleType, Zenon DEF Open, Enter, PCs, Modes
  <2>4. OpStep(t) /\ op'[t].pc = "nextfd" /\ op'[t].n = 1 BY <1>0, <2>3, StartType DEF OpStep
  <2>5. h'[Tmp(t, 2)] = h[Tmp(t, 2)] BY <2>2, SlotFacts, Zenon
  <2>6. TmpOf(t)' BY <1>2, <2>4, <2>5, Zenon DEF TmpOf
  <2>7. \A u \in Actors \ {t} : h'[Tmp(u, 1)] = h[Tmp(u, 1)] /\ h'[Tmp(u, 2)] = h[Tmp(u, 2)]
    BY <2>2, SlotFacts, Zenon
  <2>8. \A n \in Fds : h'[Fd(Child, n)] = h[Fd(Child, n)] BY <2>2, SlotFacts, Zenon
  <2>9. ~Building(t)' BY <2>4, Zenon DEF Building
  <2>10. ram' \in Nat /\ cur' \in [Rams -> Nat]
    <3>1. ram' = (IF mode = "truncate" THEN 0 ELSE ram)
          /\ cur' = [cur EXCEPT ![r] = IF mode = "append" THEN ram ELSE 0] BY <1>5, Zenon DEF Open
    <3>2. ram \in Nat /\ cur \in [Rams -> Nat] BY <1>0, Zenon DEF Types
    <3>3. PICK k \in Nat : k = IF mode = "append" THEN ram ELSE 0 BY <3>2, Zenon
    <3>4. cur' = [cur EXCEPT ![r] = k] BY <3>1, <3>3, Zenon
    <3> QED BY <3>1, <3>2, <3>4, Zenon
  <2>11. cnt' = cnt BY <1>5, Zenon DEF Open
  <2>12. cnt' \in [Ends -> Int] /\ \A q \in eof : cnt'[<<q, "w">>] = 0 BY <1>0, <1>e, <2>11, Zenon DEF Types
  <2> QED BY <1>1, <1>3, <2>2, <2>4, <2>6, <2>7, <2>8, <2>9, <2>10, <2>12, StepKeeps, ZenonT(40)
<1>6. ASSUME NEW old \in Fds, NEW new \in 0..MaxFd, Dup(t, old, new) PROVE IInv'
  <2>1. new \in Nat /\ (new # MaxFd => new \in Fds) BY FilesAssumption DEF Fds
  <2>2. PICK l \in {"nextfd", "lookup"}, w \in Modes :
          /\ op' = [op EXCEPT ![t] = Start(l, new, old, 0, w)]
          /\ l = "lookup" => new # MaxFd
    BY <1>6, Zenon DEF Dup, Enter, Modes
  <2>3. l \in PCs BY Zenon DEF PCs
  <2>4. OpStep(t) /\ op'[t].pc = l /\ op'[t].fd = new /\ op'[t].n = 0 BY <1>0, <2>1, <2>2, <2>3, StartType DEF OpStep
  <2>5. UNCHANGED <<h, cnt, used, ram, cur>> BY <1>6, Zenon DEF Dup
  <2>6. TmpOf(t)' BY <1>2, <2>1, <2>2, <2>4, <2>5, ZenonT(40) DEF TmpOf
  <2>7. ~Building(t)' BY <2>2, <2>4, Zenon DEF Building
  <2>8. h' \in [Slots -> AllFiles \cup {None}] /\ cnt' \in [Ends -> Int] /\ ram' \in Nat /\ cur' \in [Rams -> Nat]
    BY <1>0, <2>5, Zenon DEF Types
  <2>9. HandleCount' /\ UsedInv' BY <1>0, <2>5, SameKeeps, Zenon DEF UsedInv
  <2> QED BY <1>1, <1>3, <1>e, <2>2, <2>4, <2>5, <2>6, <2>7, <2>8, <2>9, StepKeeps, ZenonT(40)
<1>7. ASSUME NEW n \in Fds, Close(t, n) PROVE IInv'
  <2>1. op' = [op EXCEPT ![t] = Start("drop", 0, 0, 0, "no")] /\ Swap(Tmp(t, 1), Fd(Proc(t), n))
        /\ 0 \in Fds /\ "drop" \in PCs /\ "no" \in Modes
    BY <1>7, IdleType, Zenon DEF Close, Enter, PCs, Modes
  <2>2. OpStep(t) /\ op'[t].pc = "drop" BY <1>0, <2>1, StartType DEF OpStep
  <2>3. h'[Tmp(t, 2)] = h[Tmp(t, 2)] BY <1>0, <1>3, <2>1, TmpOne, Zenon
  <2>4. TmpOf(t)' BY <1>2, <2>2, <2>3, Zenon DEF TmpOf
  <2>5. ~Building(t)' BY <2>2, Zenon DEF Building
  <2>6. UNCHANGED <<used, ram, cur>> BY <1>7, Zenon DEF Close
  <2> QED BY <1>1, <1>3, <2>1, <2>2, <2>4, <2>5, <2>6, TmpStep, ZenonT(40)
<1>8. ASSUME NEW n \in Fds, NEW len \in Lens, NEW w \in {"no", "timed", "forever"},
             NEW k \in {"read", "write", "seek"}, IO(t, n, k, len, w)
      PROVE  IInv'
  <2>1. op' = [op EXCEPT ![t] = Start(k, n, 0, len, w)] /\ Clone(Fd(Proc(t), n), Tmp(t, 1))
    BY <1>8, Zenon DEF IO, Enter
  <2>2. n \in Nat /\ len \in Nat /\ 0 \in Fds /\ k \in PCs /\ w \in Modes
    BY FilesAssumption, IdleType DEF Fds, PCs, Modes
  <2>3. OpStep(t) /\ op'[t].pc = k BY <1>0, <2>1, <2>2, StartType DEF OpStep
  <2>4. Fd(Proc(t), n) \in Slots BY SlotFacts, Zenon
  <2>5. h'[Tmp(t, 2)] = h[Tmp(t, 2)] BY <1>0, <2>1, <2>4, TmpOne, Zenon
  <2>6. TmpOf(t)' BY <1>2, <2>3, <2>5, Zenon DEF TmpOf
  <2>7. ~Building(t)' /\ op'[t].pc # "inherit" BY <2>3, Zenon DEF Building
  <2>8. UNCHANGED <<used, ram, cur>> BY <1>8, Zenon DEF IO
  <2> QED BY <1>1, <1>2, <1>3, <2>1, <2>3, <2>4, <2>6, <2>7, <2>8, TmpStep, ZenonT(40)
<1> QED BY <1>4, <1>5, <1>6, <1>7, <1>8, Zenon

\* KillChild: the child's thread stops where it is and keeps what it holds.
LEMMA KillStep == ASSUME IInv, KillChild PROVE IInv'
<1> USE DEF At, data
<1>0. /\ Son \in Actors /\ op \in [Actors -> OpRec] /\ op[Son] \in OpRec /\ TmpOf(Son) /\ Types /\ BuildInv
      /\ alive /\ UNCHANGED <<h, cnt, buf, sent, eof, alive, used, ram, cur>>
  <2>1. Son \in Actors BY Zenon DEF Actors
  <2> QED BY <2>1, Zenon DEF IInv, Types, TmpInv, KillChild
<1>1. OpStep(Son) /\ op'[Son].pc = "dead" BY <1>0, Zenon DEF KillChild, Goto, OpStep, OpRec, PCs
<1>2. TmpOf(Son)' BY <1>0, <1>1, Zenon DEF TmpOf
<1>3. ~Building(Son)' /\ ~Building(Son) BY <1>0, <1>1, Zenon DEF Building, BuildInv
<1>4. HandleCount' /\ UsedInv' BY <1>0, SameKeeps, Zenon DEF IInv, UsedInv
<1>5. /\ h' \in [Slots -> AllFiles \cup {None}] /\ cnt' \in [Ends -> Int]
      /\ ram' \in Nat /\ cur' \in [Rams -> Nat]
  BY <1>0, Zenon DEF Types
<1>6. \A p \in eof : cnt'[<<p, "w">>] = 0 BY <1>0, Zenon DEF IInv, EofInv
<1> QED BY <1>0, <1>1, <1>2, <1>3, <1>4, <1>5, <1>6, StepKeeps, ZenonT(40)

-----------------------------------------------------------------------------
(* The inductive invariant and what follows from it *)

\* Initially no slot holds anything and every thread is outside a call.
LEMMA InitHolds == Init => IInv
<1> SUFFICES ASSUME Init PROVE IInv BY Zenon
<1> USE DEF Init
<1>1. Types
  <2>1. <<>> \in Seq(Nat) OBVIOUS
  <2>2. op \in [Actors -> OpRec] BY IdleType, Zenon
  <2>3. h \in [Slots -> AllFiles \cup {None}] /\ cnt \in [Ends -> Int] OBVIOUS
  <2>4. alive \in BOOLEAN /\ eof \subseteq Pipes BY Zenon
  <2>5. buf \in [Pipes -> Seq(Nat)] /\ sent \in [Pipes -> Nat] BY <2>1, Zenon
  <2>6. ram \in Nat /\ cur \in [Rams -> Nat] BY Zenon
  <2> QED BY <2>2, <2>3, <2>4, <2>5, <2>6, ZenonT(40) DEF Types
<1>2. HandleCount
  <2> SUFFICES ASSUME NEW e \in Ends PROVE cnt[e] = Cardinality(Holders(e)) BY Zenon DEF HandleCount
  <2>1. e # None BY DEF Ends, None
  <2>2. Holders(e) = {} BY <2>1, Zenon DEF Holders
  <2> QED BY <2>2, FS_EmptySet, Zenon
<1>3. \A t \in Actors : op[t].pc = "idle" /\ h[Tmp(t, 1)] = None /\ h[Tmp(t, 2)] = None
  BY IdleType, SlotFacts, Zenon
<1>4. TmpInv BY <1>3, Zenon DEF TmpInv, TmpOf, At
<1>5. BuildInv
  <2>1. \A t \in Actors : ~Building(t) /\ op[t].pc # "inherit" BY <1>3, Zenon DEF Building, At
  <2>2. \A n \in Fds : h[Fd(Child, n)] = None BY SlotFacts, Zenon
  <2>3. Son \in Actors BY Zenon DEF Actors
  <2> QED BY <1>3, <2>1, <2>2, <2>3, Zenon DEF BuildInv, FailedSpawnHoldsNothing, At
<1>6. EofInv /\ UsedInv BY Zenon DEF EofInv, UsedInv
<1> QED BY <1>1, <1>2, <1>4, <1>5, <1>6, Zenon DEF IInv

\* A stuttering step.
LEMMA Stutter == ASSUME IInv, UNCHANGED vars PROVE IInv'
<1>1. UNCHANGED <<h, cnt, buf, sent, eof, alive, used, ram, cur, op>> BY Zenon DEF vars
<1>2. Types' /\ EofInv' /\ UsedInv' BY <1>1, Zenon DEF IInv, Types, EofInv, UsedInv
<1>3. HandleCount' BY <1>1, Zenon DEF IInv, HandleCount, Holders
<1>4. TmpInv' BY <1>1, Zenon DEF IInv, TmpInv, TmpOf, At
<1>5. BuildInv' BY <1>1, Zenon DEF IInv, BuildInv, FailedSpawnHoldsNothing, Building, At
<1> QED BY <1>2, <1>3, <1>4, <1>5, Zenon DEF IInv

\* Every step keeps the invariant.
LEMMA Inductive == IInv /\ [Next]_vars => IInv'
<1> SUFFICES ASSUME IInv, [Next]_vars PROVE IInv' BY Zenon
<1>1. ASSUME NEW t \in Actors, Call(t) PROVE IInv'
  BY <1>1, CallSteps, SpawnSteps, Zenon DEF Call
<1>2. ASSUME NEW t \in Actors, Step(t) PROVE IInv'
  BY <1>2, Moves, PipeSteps, HandleSteps, BuildSteps, SpawnSteps, Zenon DEF Step
<1>3. ASSUME NEW t \in Actors, TimerWakes(t) PROVE IInv'
  BY <1>3, Moves, Zenon
<1> QED BY <1>1, <1>2, <1>3, KillStep, Stutter, Zenon DEF Next

\* The inductive invariant holds in every reachable state.
THEOREM Invariance == Spec => []IInv
  BY InitHolds, Inductive, PTL DEF Spec

\* Pipe.readers and Pipe.writers equal the number of handles that exist, for any
\* number of threads, pipes and descriptors and through every clone and drop.
THEOREM CountsAreExact == Spec => []HandleCount
<1>1. IInv => HandleCount BY Zenon DEF IInv
<1> QED BY <1>1, Invariance, PTL

\* Once Pipe::read has reported the end, the pipe stays empty and has no write handle.
THEOREM EndIsFinal == Spec => []EofIsFinal
<1>1. IInv => EofIsFinal
  <2> SUFFICES ASSUME IInv, NEW p \in eof PROVE buf[p] = <<>> /\ Holders(<<p, "w">>) = {} BY Zenon DEF EofIsFinal
  <2>1. buf[p] = <<>> /\ cnt[<<p, "w">>] = 0 /\ <<p, "w">> \in Ends BY Zenon DEF IInv, EofInv, Types, Ends
  <2>2. Cardinality(Holders(<<p, "w">>)) = 0 BY <2>1, Zenon DEF IInv, HandleCount
  <2>3. IsFiniteSet(Holders(<<p, "w">>)) BY <2>1, HoldersFinite, Zenon
  <2> QED BY <2>1, <2>2, <2>3, FS_EmptySet, Zenon
<1> QED BY <1>1, Invariance, PTL

\* A spawn_process that fails leaves no handle behind in the table it was building.
THEOREM FailedSpawn == Spec => []FailedSpawnHoldsNothing
<1>1. IInv => FailedSpawnHoldsNothing BY Zenon DEF IInv, BuildInv
<1> QED BY <1>1, Invariance, PTL

-----------------------------------------------------------------------------
(* The bytes of a pipe *)

\* The n bytes that follow byte g.
Bytes(g, n) == [i \in 1..n |-> g + i]

BytesInv ==
    /\ got \in [Pipes -> Nat]
    /\ \A p \in Pipes : got[p] <= sent[p] /\ sent[p] <= MaxBytes /\ sent[p] - got[p] <= Cap
    /\ PipeInOrder

\* Consecutive bytes are a sequence of their number.
LEMMA BytesSeq ==
    ASSUME NEW g \in Nat, NEW n \in Nat
    PROVE  Bytes(g, n) \in Seq(Nat) /\ Len(Bytes(g, n)) = n /\ \A i \in 1..n : Bytes(g, n)[i] = g + i
BY DEF Bytes

\* Consecutive bytes without the first k of them, as Pipe::read leaves them.
LEMMA BytesTaken ==
    ASSUME NEW g \in Nat, NEW n \in Nat, NEW k \in 0..n
    PROVE  SubSeq(Bytes(g, n), k + 1, n) = Bytes(g + k, n - k)
<1> DEFINE s == SubSeq(Bytes(g, n), k + 1, n)
<1> DEFINE b == Bytes(g + k, n - k)
<1>1. k \in Nat /\ k + 1 \in Int /\ n - k \in Nat /\ g + k \in Nat /\ n \in Int OBVIOUS
<1>2. \A i \in (k + 1)..n : Bytes(g, n)[i] = g + i /\ Bytes(g, n)[i] \in Nat
  <2>1. \A i \in (k + 1)..n : i \in 1..n /\ g + i \in Nat BY <1>1
  <2>2. \A i \in 1..n : Bytes(g, n)[i] = g + i BY BytesSeq, Zenon
  <2> QED BY <2>1, <2>2, Zenon
<1>3. s \in Seq(Nat) /\ Len(s) = (IF k + 1 <= n THEN n - (k + 1) + 1 ELSE 0)
      /\ \A i \in 1..(n - (k + 1) + 1) : s[i] = Bytes(g, n)[k + 1 + i - 1]
  <2> DEFINE x == Bytes(g, n)
  <2>1. \A i \in (k + 1)..n : x[i] \in Nat BY <1>2, Zenon
  <2> HIDE DEF x
  <2>2. /\ SubSeq(x, k + 1, n) \in Seq(Nat)
        /\ Len(SubSeq(x, k + 1, n)) = (IF k + 1 <= n THEN n - (k + 1) + 1 ELSE 0)
        /\ \A i \in 1..(n - (k + 1) + 1) : SubSeq(x, k + 1, n)[i] = x[k + 1 + i - 1]
    BY <1>1, <2>1, SubSeqProperties
  <2> QED BY <2>2, Zenon DEF x
<1>4. b \in Seq(Nat) /\ Len(b) = n - k /\ \A i \in 1..(n - k) : b[i] = (g + k) + i
  BY <1>1, BytesSeq, Zenon
<1> HIDE DEF s, b
<1>5. Len(s) = Len(b) BY <1>1, <1>3, <1>4
<1>6. \A i \in 1..Len(s) : s[i] = b[i]
  <2> SUFFICES ASSUME NEW i \in 1..(n - k) PROVE s[i] = b[i] BY <1>4, <1>5, Zenon
  <2>1. k + 1 + i - 1 \in (k + 1)..n /\ k + 1 + i - 1 = k + i /\ i \in 1..(n - (k + 1) + 1) BY <1>1
  <2>2. s[i] = g + (k + i) BY <1>2, <1>3, <2>1, Zenon
  <2> QED BY <1>1, <1>4, <2>2
<1>7. s = b BY <1>3, <1>4, <1>5, <1>6, SeqEqual, Zenon
<1> QED BY <1>7, Zenon DEF s, b

\* Consecutive bytes followed by the next k, as Pipe::write leaves them.
LEMMA BytesAdded ==
    ASSUME NEW g \in Nat, NEW n \in Nat, NEW k \in Nat
    PROVE  Bytes(g, n) \o Bytes(g + n, k) = Bytes(g, n + k)
<1> DEFINE x == Bytes(g, n)
<1> DEFINE y == Bytes(g + n, k)
<1> DEFINE b == Bytes(g, n + k)
<1>1. g + n \in Nat /\ n + k \in Nat OBVIOUS
<1>2. x \in Seq(Nat) /\ Len(x) = n /\ \A i \in 1..n : x[i] = g + i BY BytesSeq, Zenon
<1>3. y \in Seq(Nat) /\ Len(y) = k /\ \A i \in 1..k : y[i] = (g + n) + i BY <1>1, BytesSeq, Zenon
<1>4. b \in Seq(Nat) /\ Len(b) = n + k /\ \A i \in 1..(n + k) : b[i] = g + i BY <1>1, BytesSeq, Zenon
<1> HIDE DEF x, y, b
<1>5. /\ x \o y \in Seq(Nat) /\ Len(x \o y) = n + k
      /\ \A i \in 1..(n + k) : (x \o y)[i] = IF i <= n THEN x[i] ELSE y[i - n]
  BY <1>2, <1>3, ConcatProperties, Zenon
<1>6. \A i \in 1..(n + k) : (x \o y)[i] = b[i]
  <2> SUFFICES ASSUME NEW i \in 1..(n + k) PROVE (x \o y)[i] = b[i] BY Zenon
  <2>1. CASE i <= n
    <3>1. i \in 1..n BY <2>1
    <3> QED BY <1>2, <1>4, <1>5, <2>1, <3>1, Zenon
  <2>2. CASE ~(i <= n)
    <3>1. i - n \in 1..k /\ (g + n) + (i - n) = g + i BY <2>2
    <3> QED BY <1>3, <1>4, <1>5, <2>2, <3>1, Zenon
  <2> QED BY <2>1, <2>2, Zenon
<1>7. x \o y = b BY <1>4, <1>5, <1>6, SeqEqual, Zenon
<1> QED BY <1>7, Zenon DEF x, y, b

\* What a pipe holds is its unread bytes.
LEMMA Unread ==
    ASSUME Types, BytesInv, NEW p \in Pipes
    PROVE  /\ sent[p] \in Nat /\ got[p] \in Nat /\ sent[p] - got[p] \in Nat
           /\ buf[p] = Bytes(got[p], sent[p] - got[p]) /\ Len(buf[p]) = sent[p] - got[p]
<1>1. sent[p] \in Nat /\ got[p] \in Nat /\ got[p] <= sent[p] BY Zenon DEF Types, BytesInv
<1>2. sent[p] - got[p] \in Nat BY <1>1
<1>3. buf[p] = Bytes(got[p], sent[p] - got[p]) BY Zenon DEF BytesInv, PipeInOrder, Bytes
<1>4. Len(Bytes(got[p], sent[p] - got[p])) = sent[p] - got[p] BY <1>1, <1>2, BytesSeq, Zenon
<1>5. Len(buf[p]) = sent[p] - got[p] BY <1>3, <1>4, Zenon
<1> QED BY <1>1, <1>2, <1>3, <1>5, Zenon

\* Pipe::read takes the oldest bytes.
LEMMA ReadKeepsOrder ==
    ASSUME IInv, BytesInv, NEW t \in Actors, PipeRead(t)
    PROVE  BytesInv'
<1> DEFINE p == File(t)[1]
<1>0. Types /\ sent' = sent BY Zenon DEF IInv, PipeRead
<1>1. p \in Pipes BY Zenon DEF PipeRead, Ends
<1>2. CASE UNCHANGED <<buf, got>> BY <1>0, <1>2, Zenon DEF BytesInv, PipeInOrder
<1>3. CASE ~UNCHANGED <<buf, got>>
  <2> DEFINE k == Least(op[t].n, Len(buf[p]))
  <2> DEFINE m == sent[p] - got[p]
  <2>1. buf' = [buf EXCEPT ![p] = SubSeq(buf[p], k + 1, Len(buf[p]))] /\ got' = [got EXCEPT ![p] = got[p] + k]
    BY <1>3, Zenon DEF PipeRead
  <2>2. /\ sent[p] \in Nat /\ got[p] \in Nat /\ m \in Nat
        /\ buf[p] = Bytes(got[p], m) /\ Len(buf[p]) = m
    BY <1>0, <1>1, Unread, Zenon
  <2>3. op[t].n \in Nat BY <1>0, Zenon DEF Types, OpRec
  <2>4. k \in 0..m BY <2>2, <2>3 DEF Least
  <2>5. SubSeq(buf[p], k + 1, Len(buf[p])) = Bytes(got[p] + k, m - k)
    <3> HIDE DEF k, p, m
    <3>1. SubSeq(Bytes(got[p], m), k + 1, m) = Bytes(got[p] + k, m - k) BY <2>2, <2>4, BytesTaken, Zenon
    <3>2. SubSeq(buf[p], k + 1, Len(buf[p])) = SubSeq(Bytes(got[p], m), k + 1, m) BY <2>2, Zenon
    <3> QED BY <3>1, <3>2, Zenon
  <2> HIDE DEF k, p
  <2>6. got[p] + k \in Nat /\ got[p] + k <= sent[p] /\ sent[p] - (got[p] + k) = m - k
        /\ (m <= Cap => m - k <= Cap)
    BY <2>2, <2>4, FilesAssumption
  <2> HIDE DEF m
  <2>7. buf \in [Pipes -> Seq(Nat)] /\ got \in [Pipes -> Nat] BY <1>0, Zenon DEF Types, BytesInv
  <2>8. got' \in [Pipes -> Nat] /\ got'[p] = got[p] + k /\ buf'[p] = Bytes(got[p] + k, m - k)
    BY <1>1, <2>1, <2>5, <2>6, <2>7, Zenon
  <2>9. \A q \in Pipes \ {p} : got'[q] = got[q] /\ buf'[q] = buf[q] BY <2>1, <2>7, Zenon
  <2>10. got'[p] <= sent'[p] /\ sent'[p] <= MaxBytes /\ sent'[p] - got'[p] <= Cap
    BY <1>0, <1>1, <2>6, <2>8, Zenon DEF BytesInv, m
  <2>11. buf'[p] = [i \in 1..(sent'[p] - got'[p]) |-> got'[p] + i]
    BY <1>0, <2>6, <2>8, Zenon DEF Bytes
  <2> QED BY <1>0, <2>8, <2>9, <2>10, <2>11, Zenon DEF BytesInv, PipeInOrder
<1> QED BY <1>2, <1>3, Zenon

\* Pipe::write adds bytes behind the newest, and no more than there is room for.
LEMMA WriteKeepsOrder ==
    ASSUME IInv, BytesInv, NEW t \in Actors, PipeWrite(t)
    PROVE  BytesInv'
<1> DEFINE p == File(t)[1]
<1> DEFINE m == sent[p] - got[p]
<1> DEFINE k == IF Cap > Len(buf[p]) THEN Least(Cap - Len(buf[p]), op[t].n) ELSE 0
<1>0. Types /\ got' = got BY Zenon DEF IInv, PipeWrite
<1>1. p \in Pipes BY Zenon DEF PipeWrite, IsEnd, Ends
<1>2. /\ sent[p] + k <= MaxBytes /\ sent' = [sent EXCEPT ![p] = sent[p] + k]
      /\ buf' = [buf EXCEPT ![p] = buf[p] \o Bytes(sent[p], k)]
  BY Zenon DEF PipeWrite, Bytes
<1>3. /\ sent[p] \in Nat /\ got[p] \in Nat /\ m \in Nat
      /\ buf[p] = Bytes(got[p], m) /\ Len(buf[p]) = m
  BY <1>0, <1>1, Unread, Zenon
<1>4. op[t].n \in Nat BY <1>0, Zenon DEF Types, OpRec
<1>5. k \in Nat /\ (m <= Cap => m + k <= Cap) BY <1>3, <1>4, FilesAssumption DEF Least
<1> HIDE DEF k, p
<1>6. sent[p] = got[p] + m /\ (sent[p] + k) - got[p] = m + k /\ got[p] <= sent[p] + k /\ sent[p] + k \in Nat
  BY <1>3, <1>5
<1> HIDE DEF m
<1>7. buf[p] \o Bytes(sent[p], k) = Bytes(got[p], m + k)
  <2>1. Bytes(got[p], m) \o Bytes(got[p] + m, k) = Bytes(got[p], m + k) BY <1>3, <1>5, BytesAdded, Zenon
  <2>2. buf[p] \o Bytes(sent[p], k) = Bytes(got[p], m) \o Bytes(got[p] + m, k)
    <3>1. buf[p] = Bytes(got[p], m) /\ sent[p] = got[p] + m BY <1>3, <1>6, Zenon
    <3> QED BY <3>1, Zenon
  <2> QED BY <2>1, <2>2, Zenon
<1>8. buf \in [Pipes -> Seq(Nat)] /\ sent \in [Pipes -> Nat] BY <1>0, Zenon DEF Types
<1>9. sent'[p] = sent[p] + k /\ buf'[p] = Bytes(got[p], m + k)
  BY <1>1, <1>2, <1>7, <1>8, Zenon
<1>10. \A q \in Pipes \ {p} : sent'[q] = sent[q] /\ buf'[q] = buf[q] BY <1>2, <1>8, Zenon
<1>11. got'[p] <= sent'[p] /\ sent'[p] <= MaxBytes /\ sent'[p] - got'[p] <= Cap
  <2>1. m <= Cap BY <1>1, Zenon DEF BytesInv, m
  <2> QED BY <1>0, <1>2, <1>5, <1>6, <1>9, <2>1, Zenon
<1>12. buf'[p] = [i \in 1..(sent'[p] - got'[p]) |-> got'[p] + i]
  BY <1>0, <1>6, <1>9, Zenon DEF Bytes
<1> QED BY <1>0, <1>9, <1>10, <1>11, <1>12, Zenon DEF BytesInv, PipeInOrder

\* Nothing but Pipe::read and Pipe::write touches the bytes of a pipe.
LEMMA OnlyPipeSteps ==
    ASSUME [Next]_vars
    PROVE  UNCHANGED <<buf, sent, got>> \/ \E t \in Actors : PipeRead(t) \/ PipeWrite(t)
<1> USE DEF data
<1>1. ASSUME NEW t \in Actors, Call(t) PROVE UNCHANGED <<buf, sent, got>>
  BY <1>1, Zenon DEF Call, Pipe, Open, Dup, Close, IO, Spawn
<1>2. ASSUME NEW t \in Actors, Step(t), ~PipeRead(t), ~PipeWrite(t) PROVE UNCHANGED <<buf, sent, got>>
  BY <1>2, Zenon DEF Step, NextFd, AddFd, Added, DupLookup, DropTmp, AtEnd, Waiter, WriteDenied, RamRead,
     RamWrite, Advance, Seek, InheritOne, InheritDone, ActionClone, ActionOpen, ActionInsert, ActionClose,
     DropOld, ActionClear, ClearOne, ClearDone, SpawnEnds
<1>3. (\E t \in Actors : TimerWakes(t)) \/ KillChild \/ UNCHANGED vars => UNCHANGED <<buf, sent, got>>
  BY Zenon DEF TimerWakes, KillChild, vars
<1> QED BY <1>1, <1>2, <1>3, Zenon DEF Next

\* A pipe holds the bytes written to it and not yet read, in order, none lost
\* and none twice, and never more than its capacity: for any number of readers
\* and writers, threads, pipes and lengths, through partial reads and writes.
THEOREM PipeKeepsOrder == Spec => [](PipeInOrder /\ \A p \in Pipes : Len(buf[p]) <= Cap)
<1>1. Init => BytesInv
  <2> SUFFICES ASSUME Init PROVE BytesInv BY Zenon
  <2>1. got = [p \in Pipes |-> 0] /\ sent = [p \in Pipes |-> 0] /\ buf = [p \in Pipes |-> <<>>] BY Zenon DEF Init
  <2>2. 0 \in Nat /\ 0 <= 0 /\ 0 <= MaxBytes /\ 0 - 0 = 0 /\ 0 <= Cap BY FilesAssumption
  <2>3. [i \in 1..0 |-> 0 + i] = <<>> OBVIOUS
  <2>4. \A p \in Pipes : got[p] = 0 /\ sent[p] = 0 /\ buf[p] = <<>> BY <2>1, Zenon
  <2>5. got \in [Pipes -> Nat] BY <2>1, <2>2, Zenon
  <2> QED BY <2>2, <2>3, <2>4, <2>5, Zenon DEF BytesInv, PipeInOrder
<1>2. IInv /\ BytesInv /\ [Next]_vars => BytesInv'
  <2> SUFFICES ASSUME IInv, BytesInv, [Next]_vars PROVE BytesInv' BY Zenon
  <2>1. CASE UNCHANGED <<buf, sent, got>> BY <2>1, Zenon DEF BytesInv, PipeInOrder
  <2> QED BY <2>1, OnlyPipeSteps, ReadKeepsOrder, WriteKeepsOrder, Zenon
<1>3. IInv /\ BytesInv => PipeInOrder /\ \A p \in Pipes : Len(buf[p]) <= Cap
  <2> SUFFICES ASSUME IInv, BytesInv, NEW p \in Pipes PROVE PipeInOrder /\ Len(buf[p]) <= Cap
    BY Zenon DEF BytesInv
  <2>1. Len(buf[p]) = sent[p] - got[p] BY Unread, Zenon DEF IInv
  <2> QED BY <2>1, Zenon DEF BytesInv
<1> QED BY <1>1, <1>2, <1>3, Invariance, PTL DEF Spec

=============================================================================
