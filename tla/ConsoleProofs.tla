--------------------------- MODULE ConsoleProofs ---------------------------
(***************************************************************************)
(* Proofs about module Console that rest on those of ConsoleReadProofs:    *)
(* the steady reader, the output queue and the types.                      *)
(***************************************************************************)
EXTENDS ConsoleReadProofs

\* Steps are proved by SMT unless they name another prover.
USE SMTT(30)

-----------------------------------------------------------------------------
(* The steady reader                                                       *)
Busy == {"check", "insert", "load", "dead"} \cup UnderGuard

\* A steady process has one call at a time ...
Alone(p) ==
    \A t, u \in Threads : proc[t] = p /\ proc[u] = p /\ th[t].pc \in Busy /\ th[u].pc \in Busy => t = u

\* ... its cursor is in the ring, and all it has got comes before the cursor.
SteadyCursor(p) ==
    /\ Increasing(got[p])
    /\ stdin[p] = {} => got[p] = <<>>
    /\ \A c \in stdin[p] : c <= count /\ count <= c + SIZE /\ \A i \in DOMAIN got[p] : got[p][i] <= c

\* What its call has read are the keys that follow the cursor; once the cursor has
\* moved, those between what was got before and the cursor.
SteadyCall(p, t) ==
    /\ th[t].pc \in {"check", "insert", "load"} => th[t].off = 0
    /\ th[t].pc \in {"check", "insert", "load", "valid", "start"} => th[t].keys = <<>>
    /\ \A c \in stdin[p] :
          /\ th[t].pc = "valid" => th[t].at = c /\ c < count
          /\ th[t].pc \in {"test", "fetch", "advance"} =>
                /\ th[t].at = c + Len(th[t].keys) /\ th[t].at <= count
                /\ \A i \in DOMAIN th[t].keys : th[t].keys[i] = c + i
          /\ th[t].pc = "map" =>
                /\ Increasing(th[t].keys)
                /\ \A j \in DOMAIN th[t].keys :
                      th[t].keys[j] <= c /\ \A i \in DOMAIN got[p] : got[p][i] < th[t].keys[j]

SteadyInv ==
    \A p \in steady : /\ Alone(p) /\ SteadyCursor(p)
                      /\ \A t \in Threads : proc[t] = p => SteadyCall(p, t)

\* At the start every process is steady, and has got nothing.
LEMMA InitSteadyInv == Init => SteadyInv
<1> SUFFICES ASSUME Init, NEW p \in Procs PROVE Alone(p) /\ SteadyCursor(p) /\ \A t \in Threads : SteadyCall(p, t)
  BY Zenon DEF SteadyInv, Init
<1>1. th = [t \in Threads |-> Idle] /\ got[p] = <<>> /\ stdin[p] = {}
  BY Zenon DEF Init
<1>2. \A t \in Threads : th[t].pc = "idle"
  BY <1>1, Zenon DEF Idle, Call
<1>3. Alone(p)
  BY <1>2, Zenon DEF Alone, Busy, UnderGuard
<1>4. SteadyCursor(p)
  BY <1>1 DEF SteadyCursor, Increasing
<1>5. \A t \in Threads : SteadyCall(p, t)
  BY <1>1, <1>2, Zenon DEF SteadyCall
<1> QED
  BY <1>3, <1>4, <1>5, Zenon

\* A step in a call changes nothing for the other processes, and the other threads
\* of its own are not in a call.
LEMMA StepSteady ==
    ASSUME ReadInv, SteadyInv, NEW t \in Threads, Only(t), typed' = typed, proc' = proc,
           steady' \subseteq steady,
           \A p \in Procs \ {P(t)} : stdin'[p] = stdin[p] /\ got'[p] = got[p],
           P(t) \in steady' => /\ \A u \in Threads \ {t} : proc[u] = P(t) => th[u].pc \notin Busy
                               /\ SteadyCursor(P(t))' /\ SteadyCall(P(t), t)'
    PROVE  SteadyInv'
<1>0. Types /\ count' = count /\ \A u \in Threads : P(u)' = P(u) /\ P(u) \in Procs
  BY Zenon DEF ReadInv, Types, P, count
<1>1. ASSUME NEW p \in steady', p # P(t)
      PROVE  Alone(p)' /\ SteadyCursor(p)' /\ \A u \in Threads : proc'[u] = p => SteadyCall(p, u)'
  <2>1. p \in steady /\ p \in Procs /\ stdin'[p] = stdin[p] /\ got'[p] = got[p]
    BY <1>0, <1>1, Zenon DEF Types
  <2>2. \A u \in Threads : proc[u] = p => th'[u] = th[u]
    BY <1>1, Zenon DEF Only, P
  <2>3. Alone(p) /\ SteadyCursor(p) /\ \A u \in Threads : proc[u] = p => SteadyCall(p, u)
    BY <2>1, Zenon DEF SteadyInv
  <2>4. Alone(p)'
    BY <2>2, <2>3, Zenon DEF Alone
  <2>5. SteadyCursor(p)'
    BY <1>0, <2>1, <2>3, Zenon DEF SteadyCursor
  <2>6. ASSUME NEW u \in Threads, proc[u] = p PROVE SteadyCall(p, u)'
    <3>1. SteadyCall(p, u) /\ th'[u] = th[u]
      BY <2>2, <2>3, <2>6, Zenon
    <3> QED
      BY <1>0, <2>1, <3>1 DEF SteadyCall
  <2> QED
    BY <2>4, <2>5, <2>6, Zenon
<1>2. ASSUME P(t) \in steady'
      PROVE  Alone(P(t))' /\ \A u \in Threads : proc'[u] = P(t) => SteadyCall(P(t), u)'
  <2>1. ASSUME NEW u \in Threads, u # t, proc[u] = P(t) PROVE th'[u].pc \notin Busy
    BY <1>2, <2>1, Zenon DEF Only
  <2>2. Alone(P(t))'
    BY <1>0, <2>1, Zenon DEF Alone, P
  <2>3. ASSUME NEW u \in Threads, u # t, proc[u] = P(t) PROVE SteadyCall(P(t), u)'
    BY <2>1, <2>3, Zenon DEF SteadyCall, Busy, UnderGuard
  <2> QED
    BY <1>2, <2>2, <2>3, Zenon
<1> QED
  BY <1>0, <1>1, <1>2, Zenon DEF SteadyInv

\* A thread in a call of a steady process is alone in it.
LEMMA AloneInCall ==
    ASSUME SteadyInv, NEW t \in Threads, P(t) \in steady, th[t].pc \in Busy
    PROVE  \A u \in Threads \ {t} : proc[u] = P(t) => th[u].pc \notin Busy
  BY Zenon DEF SteadyInv, Alone, P

\* A key press: a process that the ring overtakes is no longer steady.
LEMMA KeyPressSteady ==
    ASSUME ReadInv, SteadyInv, NEW k \in Keys, KeyPress(k)
    PROVE  SteadyInv'
<1>0. Types /\ count \in Nat
  BY CountIsNat, Zenon DEF ReadInv, Types
<1>1. UNCHANGED <<proc, stdin, got, th>> /\ typed' = Append(typed, k)
  BY Zenon DEF KeyPress, world, output
<1>2. count' = count + 1
  BY <1>0, <1>1 DEF Types, count
<1> SUFFICES ASSUME NEW p \in steady'
             PROVE  Alone(p)' /\ SteadyCursor(p)' /\ \A t \in Threads : proc'[t] = p => SteadyCall(p, t)'
  BY Zenon DEF SteadyInv
<1>3. p \in steady /\ p \in Procs /\ \A c \in stdin[p] : count + 1 <= c + SIZE
  BY <1>0, Zenon DEF KeyPress, Types
<1>4. stdin[p] \subseteq Nat
  BY <1>0, <1>3, Zenon DEF Types
<1>5. Alone(p) /\ SteadyCursor(p) /\ \A t \in Threads : proc[t] = p => SteadyCall(p, t)
  BY <1>3, Zenon DEF SteadyInv
<1>6. Alone(p)'
  BY <1>1, <1>5, Zenon DEF Alone
<1>7. SteadyCursor(p)'
  BY <1>0, <1>1, <1>2, <1>3, <1>4, <1>5 DEF SteadyCursor
<1>8. ASSUME NEW t \in Threads, proc[t] = p PROVE SteadyCall(p, t)'
  <2>1. SteadyCall(p, t) /\ th[t].at \in Nat
    BY <1>0, <1>5, <1>8, Zenon DEF Types, CallSet
  <2>2. \A c \in stdin[p] : c < count => c < count + 1
    BY <1>0, <1>4
  <2>3. th[t].at <= count => th[t].at <= count + 1
    BY <1>0, <2>1
  <2> QED
    BY <1>1, <1>2, <2>1, <2>2, <2>3, Zenon DEF SteadyCall
<1> QED
  BY <1>1, <1>6, <1>7, <1>8, Zenon

\* A process stays steady if it starts a call from offset 0 with no other open.
LEMMA ReadStepSteady ==
    ASSUME ReadInv, SteadyInv, NEW t \in Threads, NEW len \in Lens, Read(t, len)
    PROVE  SteadyInv'
<1>0. Types /\ P(t) \in Procs
  BY Zenon DEF ReadInv, Types, P
<1>1. UNCHANGED <<proc, typed, stdin, got>> /\ steady' \subseteq steady
  BY Zenon DEF Read, world, output
<1>2. Only(t) /\ th'[t] = Call("check", len, off[P(t)], <<>>)
  BY <1>0, Zenon DEF Read, Types, Only
<1>3. ASSUME P(t) \in steady'
      PROVE  /\ \A u \in Threads \ {t} : proc[u] = P(t) => th[u].pc \notin Busy
             /\ SteadyCursor(P(t))' /\ SteadyCall(P(t), t)'
  <2>1. P(t) \in steady /\ off[P(t)] = 0 /\ InCall(P(t)) = {}
    BY <1>3, Zenon DEF Read
  <2>2. \A u \in Threads \ {t} : proc[u] = P(t) => th[u].pc \notin Busy
    BY <2>1, Zenon DEF InCall, Busy, UnderGuard
  <2>3. SteadyCursor(P(t))'
    BY <1>1, <2>1, Zenon DEF SteadyInv, SteadyCursor, count, P
  <2>4. th'[t].pc = "check" /\ th'[t].off = 0 /\ th'[t].keys = <<>>
    BY <1>2, <2>1 DEF Call
  <2>5. SteadyCall(P(t), t)'
    BY <2>4, Zenon DEF SteadyCall
  <2> QED
    BY <2>2, <2>3, <2>5, Zenon
<1> QED
  BY <1>1, <1>2, <1>3, StepSteady, Zenon

\* A step that leaves the keys got and the cursors alone.
LEMMA LocalSteady ==
    ASSUME ReadInv, SteadyInv, NEW t \in Threads, Only(t), UNCHANGED <<typed, proc, stdin, got>>,
           steady' \subseteq steady, th[t].pc \in Busy,
           (P(t) \in steady /\ SteadyCall(P(t), t) /\ SteadyCursor(P(t))) => SteadyCall(P(t), t)'
    PROVE  SteadyInv'
<1>1. ASSUME P(t) \in steady'
      PROVE  /\ \A u \in Threads \ {t} : proc[u] = P(t) => th[u].pc \notin Busy
             /\ SteadyCursor(P(t))' /\ SteadyCall(P(t), t)'
  <2>1. P(t) \in steady
    BY <1>1, Zenon
  <2>2. SteadyCursor(P(t)) /\ SteadyCall(P(t), t)
    BY <2>1, Zenon DEF SteadyInv, P
  <2>3. SteadyCursor(P(t))'
    BY <2>2, Zenon DEF SteadyCursor, count, P
  <2> QED
    BY <2>1, <2>2, <2>3, AloneInCall, Zenon
<1> QED
  BY <1>1, StepSteady, Zenon

\* ensure_init's test reads nothing.
LEMMA CheckSteady ==
    ASSUME ReadInv, SteadyInv, NEW t \in Threads, Check(t)
    PROVE  SteadyInv'
<1>0. Types /\ th[t] \in CallSet /\ th[t].pc = "check"
  BY Zenon DEF ReadInv, Types, Check, At
<1>1. UNCHANGED <<typed, proc, stdin, got, steady>>
  BY Zenon DEF Check, world, input
<1>2. Only(t) /\ th'[t] = [th[t] EXCEPT !.pc = IF stdin[P(t)] # {} THEN "load" ELSE "insert"]
  BY <1>0, Zenon DEF Check, Goto, Only, Types
<1>3. th'[t].pc \in {"load", "insert"} /\ th'[t].off = th[t].off /\ th'[t].keys = th[t].keys
  BY <1>0, <1>2, Zenon DEF CallSet
<1>4. SteadyCall(P(t), t) => SteadyCall(P(t), t)'
  BY <1>0, <1>3, Zenon DEF SteadyCall
<1> QED
  BY <1>0, <1>1, <1>2, <1>4, LocalSteady, Zenon DEF Busy

\* The loop of readn starts at the cursor.
LEMMA StartSteady ==
    ASSUME ReadInv, SteadyInv, NEW t \in Threads, Start(t)
    PROVE  SteadyInv'
<1>0. Types /\ Cursors /\ th[t] \in CallSet /\ th[t].pc = "start" /\ stdin[P(t)] # {} /\ count \in Nat
  BY CountIsNat, Zenon DEF ReadInv, Types, Start, At, CallOK, UnderGuard
<1>1. UNCHANGED <<typed, proc, stdin, got, steady>>
  BY Zenon DEF Start, world, input
<1>2. Only(t) /\ th'[t] = [th[t] EXCEPT !.pc = "test", !.at = Cursor(t)]
  BY <1>0, Zenon DEF Start, Only, Types
<1>3. th'[t].pc = "test" /\ th'[t].at = Cursor(t) /\ th'[t].keys = th[t].keys
  BY <1>0, <1>2, Zenon DEF CallSet
<1>4. stdin[P(t)] = {Cursor(t)} /\ Cursor(t) \in Nat
  BY <1>0, CursorIs
<1>5. SteadyCall(P(t), t) /\ SteadyCursor(P(t)) => SteadyCall(P(t), t)'
  <2> SUFFICES ASSUME SteadyCall(P(t), t), SteadyCursor(P(t)) PROVE SteadyCall(P(t), t)'
    BY Zenon
  <2>1. th'[t].keys = <<>> /\ Len(<<>>) = 0 /\ DOMAIN <<>> = {}
    BY <1>0, <1>3 DEF SteadyCall
  <2>2. Cursor(t) <= count /\ count' = count /\ P(t)' = P(t)
    BY <1>1, <1>4, Zenon DEF SteadyCursor, count, P
  <2> QED
    BY <1>1, <1>3, <1>4, <2>1, <2>2 DEF SteadyCall
<1> QED
  BY <1>0, <1>1, <1>2, <1>5, LocalSteady, Zenon DEF Busy, UnderGuard

\* Its test reads nothing.
LEMMA TestSteady ==
    ASSUME ReadInv, SteadyInv, NEW t \in Threads, Test(t)
    PROVE  SteadyInv'
<1> DEFINE l == IF cursor_is_valid(th[t].at) /\ Len(th[t].keys) < th[t].len THEN "fetch" ELSE "advance"
<1>0. Types /\ th[t] \in CallSet /\ th[t].pc = "test"
  BY Zenon DEF ReadInv, Types, Test, At
<1>1. UNCHANGED <<typed, proc, stdin, got, steady>>
  BY Zenon DEF Test, world, input
<1>2. Only(t) /\ th'[t] = [th[t] EXCEPT !.pc = l]
  BY <1>0, Zenon DEF Test, Goto, Only, Types
<1>3. l \in {"fetch", "advance"}
  BY Zenon
<1> HIDE DEF l
<1>4. th'[t].pc = l /\ th'[t].at = th[t].at /\ th'[t].keys = th[t].keys
  BY <1>0, <1>2, Zenon DEF CallSet
<1>5. SteadyCall(P(t), t) => SteadyCall(P(t), t)'
  BY <1>0, <1>1, <1>3, <1>4 DEF SteadyCall, count, P
<1> QED
  BY <1>0, <1>1, <1>2, <1>5, LocalSteady, Zenon DEF Busy, UnderGuard

\* The slot is read after the test, and presses in between may have filled it again:
\* not while the process is steady.
LEMMA FetchSteady ==
    ASSUME ReadInv, SteadyInv, NEW t \in Threads, Fetch(t)
    PROVE  SteadyInv'
<1> DEFINE ks == th[t].keys
           k == Slot(th[t].at)
<1>0. /\ Types /\ Cursors /\ th[t] \in CallSet /\ th[t].pc = "fetch" /\ stdin[P(t)] # {}
      /\ count \in Nat /\ th[t].at < count /\ typed \in Seq(Keys) /\ SIZE \in Nat
  BY CountIsNat, ConsoleAssumption, Zenon DEF ReadInv, Types, Fetch, At, CallOK, UnderGuard, ConsoleAssumption
<1>1. UNCHANGED <<typed, proc, stdin, got, steady>>
  BY Zenon DEF Fetch, world, input
<1>2. Only(t) /\ th'[t] = [th[t] EXCEPT !.pc = "test", !.at = @ + 1, !.keys = Append(ks, k)]
  BY <1>0, Zenon DEF Fetch, Only, Types
<1>3. th'[t].pc = "test" /\ th'[t].at = th[t].at + 1 /\ th'[t].keys = Append(ks, k)
  BY <1>0, <1>2, Zenon DEF CallSet
<1>4. ks \in Seq(Nat) /\ th[t].at \in Nat
  BY <1>0, Zenon DEF CallSet
<1>5. PICK c \in Nat : stdin[P(t)] = {c}
  BY <1>0, CursorIs
<1>6. ASSUME SteadyCall(P(t), t), SteadyCursor(P(t)) PROVE SteadyCall(P(t), t)'
  <2>1. th[t].at = c + Len(ks) /\ \A i \in DOMAIN ks : ks[i] = c + i
    BY <1>0, <1>5, <1>6, Zenon DEF SteadyCall
  <2>2. count <= c + SIZE
    BY <1>5, <1>6, Zenon DEF SteadyCursor
  <2>3. count <= th[t].at + SIZE
    <3>1. Len(ks) \in Nat
      BY <1>4
    <3> HIDE DEF ks
    <3> QED
      BY <1>0, <1>4, <2>1, <2>2, <3>1
  <2>4. k = th[t].at + 1
    BY <1>0, <1>4, <2>3, SlotIsNextKey, Zenon
  <2> HIDE DEF k, ks
  <2>5. k \in Nat /\ k = c + Len(ks) + 1 /\ Len(ks) \in Nat
    BY <1>4, <2>1, <2>4
  <2>6. Len(Append(ks, k)) = Len(ks) + 1 /\ \A i \in DOMAIN Append(ks, k) : Append(ks, k)[i] = c + i
    BY <1>4, <2>1, <2>5
  <2>7. th'[t].at = c + Len(th'[t].keys) /\ th'[t].at <= count
    BY <1>0, <1>3, <1>4, <2>1, <2>5, <2>6
  <2>8. count' = count /\ P(t)' = P(t) /\ stdin' = stdin
    BY <1>1, Zenon DEF count, P
  <2>9. \A i \in DOMAIN th'[t].keys : th'[t].keys[i] = c + i
    BY <1>3, <2>6, Zenon
  <2> QED
    BY <1>3, <1>5, <2>7, <2>8, <2>9, Zenon DEF SteadyCall
<1> QED
  BY <1>0, <1>1, <1>2, <1>6, LocalSteady, Zenon DEF Busy, UnderGuard

\* A small number is its own remainder.
LEMMA ModSmall ==
    ASSUME NEW n \in Nat \ {0}, NEW a \in 0..(n - 1)
    PROVE  a % n = a
<1>0. a \in Nat
  OBVIOUS
<1>1. a % n \in 0..(n - 1) /\ a \div n \in Nat /\ a = n * (a \div n) + (a % n)
  BY <1>0, DivRest, Zenon
<1> DEFINE r == a % n
           q == a \div n
<1> HIDE DEF r, q
<1>2. r \in 0..(n - 1) /\ q \in Nat /\ n * q + r = n * 0 + a
  <2>1. r \in 0..(n - 1) /\ q \in Nat /\ n * q + r = a
    BY <1>1, Zenon DEF r, q
  <2> QED
    BY <1>0, <2>1
<1>3. r = a
  BY <1>2, SameRest
<1> QED
  BY <1>3, Zenon DEF r

\* From offset 0 the call starts at the cursor itself, or finds nothing new.
LEMMA LoadCursorSteady ==
    ASSUME ReadInv, SteadyInv, NEW t \in Threads, LoadCursor(t)
    PROVE  SteadyInv'
<1> DEFINE c == Cursor(t)
<1>0. /\ Types /\ Cursors /\ th[t] \in CallSet /\ th[t].pc = "load" /\ stdin[P(t)] # {} /\ P(t) \in Procs
      /\ count \in Nat /\ count <= MaxKeys
  BY CountIsNat, Zenon DEF ReadInv, Types, LoadCursor, At, CallOK, UnderGuard, P
<1>1. UNCHANGED <<typed, proc, stdin, steady>>
  BY Zenon DEF LoadCursor, world
<1>2. c \in 0..(WordSize - 1) /\ stdin[P(t)] = {c}
  BY <1>0, CursorIs, Zenon
<1> HIDE DEF c
<1>3. CASE Return(t, <<>>, 0)
  <2>1. Only(t) /\ th'[t] = Call("idle", 0, 0, <<>>)
    BY <1>0, <1>3, Zenon DEF Return, Types, Only
  <2>2. got' = got
    <3>1. got[P(t)] \o <<>> = got[P(t)]
      BY <1>0 DEF Types
    <3> QED
      BY <1>0, <1>3, <3>1, Zenon DEF Return, Types
  <2>3. SteadyCall(P(t), t)'
    BY <2>1 DEF SteadyCall, Call
  <2> QED
    BY <1>0, <1>1, <2>1, <2>2, <2>3, LocalSteady, Zenon DEF Busy
<1>4. CASE /\ ~is_up_to_date((Cursor(t) + th[t].off) % WordSize)
           /\ th' = [th EXCEPT ![t].pc = "valid", ![t].at = (Cursor(t) + th[t].off) % WordSize, ![t].off = 0]
           /\ UNCHANGED got
  <2> DEFINE a == (Cursor(t) + th[t].off) % WordSize
  <2>1. Only(t) /\ th'[t] = [th[t] EXCEPT !.pc = "valid", !.at = a, !.off = 0]
    BY <1>0, <1>4, Zenon DEF Types, Only
  <2>2. th'[t].pc = "valid" /\ th'[t].at = a /\ th'[t].keys = th[t].keys
    BY <1>0, <2>1, Zenon DEF CallSet
  <2>3. ASSUME SteadyCall(P(t), t), SteadyCursor(P(t)) PROVE SteadyCall(P(t), t)'
    <3>1. th[t].off = 0 /\ th[t].keys = <<>> /\ c <= count
      BY <1>0, <1>2, <2>3, Zenon DEF SteadyCall, SteadyCursor
    <3>2. WordSize \in Nat \ {0}
      BY ConsoleAssumption DEF ConsoleAssumption
    <3>3. c % WordSize = c /\ c + 0 = c
      BY <1>2, <3>2, ModSmall
    <3>4. a = c
      BY <3>1, <3>3, Zenon DEF c
    <3>5. c < count
      BY <1>0, <1>2, <1>4, <3>1, <3>4 DEF is_up_to_date
    <3>6. count' = count /\ P(t)' = P(t) /\ stdin' = stdin
      BY <1>1, Zenon DEF count, P
    <3> QED
      BY <1>2, <2>2, <3>1, <3>4, <3>5, <3>6, Zenon DEF SteadyCall
  <2> QED
    BY <1>0, <1>1, <1>4, <2>1, <2>3, LocalSteady, Zenon DEF Busy
<1> QED
  BY <1>3, <1>4, Zenon DEF LoadCursor

\* A steady process finds its cursor valid: a key was pressed after it, and the
\* ring has not overtaken it.
LEMMA ValidateSteady ==
    ASSUME ReadInv, SteadyInv, NEW t \in Threads, Validate(t)
    PROVE  SteadyInv'
<1>0. /\ Types /\ Cursors /\ th[t] \in CallSet /\ th[t].pc = "valid" /\ stdin[P(t)] # {} /\ P(t) \in Procs
      /\ count \in Nat /\ SIZE \in Nat
  BY CountIsNat, ConsoleAssumption, Zenon DEF ReadInv, Types, Validate, At, CallOK, UnderGuard, P, ConsoleAssumption
<1>1. UNCHANGED <<typed, proc, got, steady>>
  BY Zenon DEF Validate, world
<1>2. Only(t) /\ th'[t] = [th[t] EXCEPT !.pc = "start"]
  BY <1>0, Zenon DEF Validate, Goto, Only, Types
<1>3. th'[t].pc = "start" /\ th'[t].keys = th[t].keys
  BY <1>0, <1>2, Zenon DEF CallSet
<1>4. \A p \in Procs \ {P(t)} : stdin'[p] = stdin[p]
  BY <1>0, Zenon DEF Validate, Types
<1>5. ASSUME P(t) \in steady'
      PROVE  /\ \A u \in Threads \ {t} : proc[u] = P(t) => th[u].pc \notin Busy
             /\ SteadyCursor(P(t))' /\ SteadyCall(P(t), t)'
  <2>1. P(t) \in steady
    BY <1>1, <1>5, Zenon
  <2>2. SteadyCursor(P(t)) /\ SteadyCall(P(t), t)
    BY <2>1, Zenon DEF SteadyInv, P
  <2>3. PICK c \in Nat : stdin[P(t)] = {c}
    BY <1>0, CursorIs
  <2>4. th[t].at = c /\ c < count /\ count <= c + SIZE
    BY <1>0, <2>2, <2>3, Zenon DEF SteadyCall, SteadyCursor
  <2>5. cursor_is_valid(th[t].at)
    BY <1>0, <2>4 DEF cursor_is_valid, SatSub
  <2>6. stdin' = stdin
    BY <2>5, Zenon DEF Validate
  <2>7. count' = count /\ P(t)' = P(t)
    BY <1>1, Zenon DEF count, P
  <2>8. SteadyCursor(P(t))'
    BY <1>1, <2>2, <2>6, <2>7, Zenon DEF SteadyCursor
  <2>9. SteadyCall(P(t), t)'
    BY <1>0, <1>3, <2>2, Zenon DEF SteadyCall
  <2> QED
    BY <1>0, <2>1, <2>8, <2>9, AloneInCall, Zenon DEF Busy, UnderGuard
<1> QED
  BY <1>1, <1>2, <1>4, <1>5, StepSteady, Zenon

\* Once a key was pressed, the last one is the current one.
LEMMA CurrentIsLast ==
    ASSUME typed \in Seq(Keys), count <= MaxKeys, count > 0
    PROVE  get_current = count - 1
<1> DEFINE a == count - 1
<1>1. count \in Nat /\ WordSize \in Nat \ {0} /\ MaxKeys \in Nat /\ SIZE \in Nat /\ WordSize > MaxKeys + SIZE
  BY CountIsNat, ConsoleAssumption DEF ConsoleAssumption
<1>2. a \in Nat /\ a \in 0..(WordSize - 1)
  BY <1>1
<1>3. count + WordSize - 1 = a + WordSize * 1
  BY <1>1
<1> HIDE DEF a
<1>4. (a + WordSize * 1) % WordSize = a % WordSize
  BY <1>1, <1>2, ModShift, Zenon
<1>5. a % WordSize = a
  BY <1>1, <1>2, ModSmall, Zenon
<1> QED
  BY <1>3, <1>4, <1>5, Zenon DEF a, get_current

\* The first cursor of a process is at the key pressed last.
LEMMA InsertCursorSteady ==
    ASSUME ReadInv, SteadyInv, NEW t \in Threads, InsertCursor(t)
    PROVE  SteadyInv'
<1>0. /\ Types /\ th[t] \in CallSet /\ th[t].pc = "insert" /\ P(t) \in Procs /\ count \in Nat
      /\ SIZE \in Nat \ {0}
  BY CountIsNat, ConsoleAssumption, Zenon DEF ReadInv, Types, InsertCursor, At, P, ConsoleAssumption
<1>1. UNCHANGED <<typed, proc, got>> /\ steady' \subseteq steady
  BY Zenon DEF InsertCursor, world
<1>2. CASE Goto(t, "dead") /\ UNCHANGED <<stdin, steady>>
  <2>1. Only(t) /\ th'[t] = [th[t] EXCEPT !.pc = "dead"]
    BY <1>0, <1>2, Zenon DEF Goto, Only, Types
  <2>2. th'[t].pc = "dead"
    BY <1>0, <2>1, Zenon DEF CallSet
  <2>3. SteadyCall(P(t), t)'
    BY <2>2, Zenon DEF SteadyCall
  <2> QED
    BY <1>0, <1>1, <1>2, <2>1, <2>3, LocalSteady, Zenon DEF Busy
<1>3. CASE /\ stdin' = [stdin EXCEPT ![P(t)] = {get_current}]
           /\ steady' = IF count > 0 /\ stdin[P(t)] = {} THEN steady ELSE steady \ {P(t)}
           /\ Goto(t, "load")
  <2>1. Only(t) /\ th'[t] = [th[t] EXCEPT !.pc = "load"]
    BY <1>0, <1>3, Zenon DEF Goto, Only, Types
  <2>2. th'[t].pc = "load" /\ th'[t].off = th[t].off /\ th'[t].keys = th[t].keys
    BY <1>0, <2>1, Zenon DEF CallSet
  <2>3. \A p \in Procs \ {P(t)} : stdin'[p] = stdin[p]
    BY <1>0, <1>3, Zenon DEF Types
  <2>4. ASSUME P(t) \in steady'
        PROVE  /\ \A u \in Threads \ {t} : proc[u] = P(t) => th[u].pc \notin Busy
               /\ SteadyCursor(P(t))' /\ SteadyCall(P(t), t)'
    <3>1. P(t) \in steady /\ count > 0 /\ stdin[P(t)] = {}
      BY <1>3, <2>4, Zenon
    <3>2. SteadyCursor(P(t)) /\ SteadyCall(P(t), t)
      BY <3>1, Zenon DEF SteadyInv, P
    <3>3. get_current = count - 1
      BY <1>0, <3>1, CurrentIsLast, Zenon DEF Types
    <3>4. stdin'[P(t)] = {count - 1}
      BY <1>0, <1>3, <3>3, Zenon DEF Types
    <3>5. count' = count /\ P(t)' = P(t)
      BY <1>1, Zenon DEF count, P
    <3>6. got[P(t)] = <<>> /\ DOMAIN <<>> = {}
      BY <3>1, <3>2 DEF SteadyCursor
    <3>7. SteadyCursor(P(t))'
      BY <1>0, <1>1, <3>4, <3>5, <3>6 DEF SteadyCursor, Increasing
    <3>8. SteadyCall(P(t), t)'
      BY <1>0, <2>2, <3>2, Zenon DEF SteadyCall
    <3> QED
      BY <1>0, <3>1, <3>7, <3>8, AloneInCall, Zenon DEF Busy
  <2> QED
    BY <1>1, <2>1, <2>3, <2>4, StepSteady, Zenon
<1> QED
  BY <1>2, <1>3, Zenon DEF InsertCursor

\* The cursor moves past what was read; all that was got before comes earlier.
LEMMA AdvanceSteady ==
    ASSUME ReadInv, SteadyInv, NEW t \in Threads, Advance(t)
    PROVE  SteadyInv'
<1> DEFINE ks == th[t].keys
           n == (Cursor(t) + Len(ks)) % WordSize
<1>0. /\ Types /\ Cursors /\ th[t] \in CallSet /\ th[t].pc = "advance" /\ stdin[P(t)] # {} /\ P(t) \in Procs
      /\ count \in Nat /\ SIZE \in Nat /\ count <= MaxKeys
  BY CountIsNat, ConsoleAssumption, Zenon DEF ReadInv, Types, Advance, At, CallOK, UnderGuard, P, ConsoleAssumption
<1>1. UNCHANGED <<typed, proc, got, steady>> /\ stdin' = [stdin EXCEPT ![P(t)] = {n}]
  BY Zenon DEF Advance, world
<1>2. Only(t) /\ th'[t] = [th[t] EXCEPT !.pc = "map"]
  BY <1>0, Zenon DEF Advance, Goto, Only, Types
<1>3. th'[t].pc = "map" /\ th'[t].keys = ks /\ ks \in Seq(Nat) /\ Len(ks) \in Nat /\ DOMAIN ks = 1..Len(ks)
  BY <1>0, <1>2 DEF CallSet
<1>4. \A p \in Procs \ {P(t)} : stdin'[p] = stdin[p]
  BY <1>0, <1>1, Zenon DEF Types
<1>5. ASSUME P(t) \in steady'
      PROVE  /\ \A u \in Threads \ {t} : proc[u] = P(t) => th[u].pc \notin Busy
             /\ SteadyCursor(P(t))' /\ SteadyCall(P(t), t)'
  <2> DEFINE c == Cursor(t)
             g == got[P(t)]
  <2>1. P(t) \in steady
    BY <1>1, <1>5, Zenon
  <2>2. SteadyCursor(P(t)) /\ SteadyCall(P(t), t)
    BY <2>1 DEF SteadyInv, P
  <2>3. c \in Nat /\ stdin[P(t)] = {c}
    BY <1>0, CursorIs
  <2>4. g \in Seq(Nat) /\ stdin'[P(t)] = {n}
    BY <1>0, <1>1, Zenon DEF Types
  <2> HIDE DEF c, ks, g
  <2>5. /\ th[t].at = c + Len(ks) /\ th[t].at <= count /\ \A i \in DOMAIN ks : ks[i] = c + i
        /\ c <= count /\ count <= c + SIZE /\ Increasing(g) /\ \A i \in DOMAIN g : g[i] <= c
    BY <1>0, <2>2, <2>3, Zenon DEF SteadyCall, SteadyCursor, ks, g
  <2>6. c + Len(ks) \in 0..(WordSize - 1) /\ WordSize \in Nat \ {0}
    BY <1>0, <1>3, <2>3, <2>5, ConsoleAssumption DEF ConsoleAssumption
  <2>7. n = c + Len(ks)
    BY <2>6, ModSmall, Zenon DEF c
  <2> HIDE DEF n
  <2>8. count' = count /\ P(t)' = P(t)
    BY <1>1, Zenon DEF count, P
  <2>9. \A i \in DOMAIN g : g[i] \in Nat
    BY <2>4
  <2>10. n \in Nat /\ n <= count /\ count <= n + SIZE /\ \A i \in DOMAIN g : g[i] <= n
    BY <1>0, <1>3, <2>3, <2>5, <2>7, <2>9
  <2>11. SteadyCursor(P(t))'
    BY <1>1, <2>4, <2>5, <2>8, <2>10, Zenon DEF SteadyCursor, g
  <2>12. Increasing(ks)
    BY <1>3, <2>3, <2>5 DEF Increasing
  <2>13. \A j \in DOMAIN ks : ks[j] <= n /\ \A i \in DOMAIN g : g[i] < ks[j]
    BY <1>3, <2>3, <2>5, <2>7, <2>9
  <2>14. SteadyCall(P(t), t)'
    BY <1>1, <1>3, <2>4, <2>8, <2>12, <2>13, Zenon DEF SteadyCall, g, ks
  <2> QED
    BY <1>0, <2>1, <2>11, <2>14, AloneInCall, Zenon DEF Busy, UnderGuard
<1> QED
  BY <1>1, <1>2, <1>4, <1>5, StepSteady, Zenon

\* Increasing keys that follow increasing keys.
LEMMA IncreasingConcat ==
    ASSUME NEW s \in Seq(Nat), NEW r \in Seq(Nat), Increasing(s), Increasing(r),
           \A i \in DOMAIN s, j \in DOMAIN r : s[i] < r[j]
    PROVE  s \o r \in Seq(Nat) /\ Increasing(s \o r)
<1> DEFINE x == s \o r
           m == Len(s)
           n == Len(r)
<1>1. x \in Seq(Nat) /\ m \in Nat /\ n \in Nat /\ Len(x) = m + n
  OBVIOUS
<1>2. DOMAIN s = 1..m /\ DOMAIN r = 1..n /\ DOMAIN x = 1..(m + n)
  BY <1>1
<1>3. \A i \in 1..(m + n) : x[i] = IF i <= m THEN s[i] ELSE r[i - m]
  OBVIOUS
<1> HIDE DEF x, m, n
<1>4. ASSUME NEW i \in 1..(m + n), NEW j \in 1..(m + n), i < j PROVE x[i] < x[j]
  <2>1. CASE j <= m
    <3>1. i \in DOMAIN s /\ j \in DOMAIN s /\ x[i] = s[i] /\ x[j] = s[j]
      BY <1>1, <1>2, <1>3, <1>4, <2>1
    <3> QED
      BY <1>4, <3>1, Zenon DEF Increasing
  <2>2. CASE i <= m /\ ~(j <= m)
    <3>1. i \in DOMAIN s /\ j - m \in DOMAIN r /\ x[i] = s[i] /\ x[j] = r[j - m]
      BY <1>1, <1>2, <1>3, <1>4, <2>2
    <3> QED
      BY <3>1, Zenon
  <2>3. CASE ~(i <= m)
    <3>1. i - m \in DOMAIN r /\ j - m \in DOMAIN r /\ x[i] = r[i - m] /\ x[j] = r[j - m] /\ i - m < j - m
      BY <1>1, <1>2, <1>3, <1>4, <2>3
    <3> QED
      BY <3>1, Zenon DEF Increasing
  <2> QED
    BY <1>1, <2>1, <2>2, <2>3, Zenon
<1>5. Increasing(x)
  BY <1>2, <1>4, Zenon DEF Increasing
<1> QED
  BY <1>1, <1>5, Zenon DEF x

\* The keys of a call are returned: they follow those got before.
LEMMA MapKeysSteady ==
    ASSUME ReadInv, SteadyInv, NEW t \in Threads, MapKeys(t)
    PROVE  SteadyInv'
<1> DEFINE ks == th[t].keys
           m == Mapped(ks, th[t].len)
           g == got[P(t)]
<1>0. /\ Types /\ Cursors /\ CallOK(t) /\ th[t] \in CallSet /\ th[t].pc = "map" /\ P(t) \in Procs
      /\ stdin[P(t)] # {} /\ g \in Seq(Nat)
  BY Zenon DEF ReadInv, Types, P, MapKeys, At, CallOK, UnderGuard
<1>1. UNCHANGED <<proc, typed, stdin, steady>>
  BY Zenon DEF MapKeys, world
<1>2. CASE Return(t, m.keys, m.bytes)
  <2>1. ks \in Seq(Nat) /\ th[t].len \in Nat /\ typed \in Seq(Keys) /\ \A i \in DOMAIN ks : ks[i] \in 1..count
    BY <1>0, Zenon DEF CallSet, CallOK, Types
  <2>2. MappedOK(m, ks, th[t].len, Len(ks))
    BY <2>1, MappedIsOK, Zenon
  <2>3. got' = [got EXCEPT ![P(t)] = g \o m.keys]
    BY <1>2, Zenon DEF Return
  <2>4. Only(t) /\ th'[t].pc \in {"idle", "echo"}
    BY <1>0, <1>2, Zenon DEF Return, Call, Types, Only
  <2>5. got'[P(t)] = g \o m.keys /\ \A p \in Procs \ {P(t)} : got'[p] = got[p]
    BY <1>0, <2>3, Zenon DEF Types
  <2> HIDE DEF m
  <2>6. ASSUME P(t) \in steady'
        PROVE  /\ \A u \in Threads \ {t} : proc[u] = P(t) => th[u].pc \notin Busy
               /\ SteadyCursor(P(t))' /\ SteadyCall(P(t), t)'
    <3>1. P(t) \in steady
      BY <1>1, <2>6
    <3>2. SteadyCursor(P(t)) /\ SteadyCall(P(t), t)
      BY <3>1 DEF SteadyInv, P
    <3>3. PICK c \in Nat : stdin[P(t)] = {c}
      BY <1>0, CursorIs
    <3>4. /\ Increasing(ks) /\ \A j \in DOMAIN ks : ks[j] <= c /\ \A i \in DOMAIN g : g[i] < ks[j]
          /\ Increasing(g) /\ \A i \in DOMAIN g : g[i] <= c
          /\ c <= count /\ count <= c + SIZE
      BY <1>0, <3>2, <3>3, Zenon DEF SteadyCall, SteadyCursor
    <3> DEFINE s == m.keys
               x == g \o s
    <3> HIDE DEF ks, g
    <3>5. s \in Seq(Nat) /\ Increasing(s) /\ \A j \in DOMAIN s : \E i \in 1..Len(ks) : s[j] = ks[i]
      BY <2>2, <3>4, Zenon DEF MappedOK
    <3>6. DOMAIN ks = 1..Len(ks)
      BY <2>1
    <3>7. \A j \in DOMAIN s : s[j] <= c /\ \A i \in DOMAIN g : g[i] < s[j]
      BY <3>4, <3>5, <3>6, Zenon
    <3> HIDE DEF s
    <3>8. x \in Seq(Nat) /\ Increasing(x)
      BY <1>0, <3>4, <3>5, <3>7, IncreasingConcat, Zenon
    <3>9. \A i \in DOMAIN x : x[i] <= c
      <4>1. /\ Len(g) \in Nat /\ Len(s) \in Nat /\ DOMAIN g = 1..Len(g) /\ DOMAIN s = 1..Len(s)
            /\ DOMAIN x = 1..(Len(g) + Len(s))
            /\ \A i \in 1..(Len(g) + Len(s)) : x[i] = IF i <= Len(g) THEN g[i] ELSE s[i - Len(g)]
        BY <1>0, <3>5
      <4> HIDE DEF x
      <4>2. ASSUME NEW i \in 1..(Len(g) + Len(s)) PROVE x[i] <= c
        <5>1. CASE i <= Len(g)
          BY <3>4, <4>1, <4>2, <5>1
        <5>2. CASE ~(i <= Len(g))
          <6>1. i - Len(g) \in DOMAIN s /\ x[i] = s[i - Len(g)]
            BY <4>1, <4>2, <5>2
          <6> QED
            BY <3>7, <6>1, Zenon
        <5> QED
          BY <5>1, <5>2, Zenon
      <4> QED
        BY <4>1, <4>2, Zenon
    <3>10. got'[P(t)] = x
      BY <2>5, Zenon DEF s
    <3> HIDE DEF x
    <3>11. count' = count /\ P(t)' = P(t)
      BY <1>1, Zenon DEF count, P
    <3>12. SteadyCursor(P(t))'
      BY <1>1, <3>3, <3>4, <3>8, <3>9, <3>10, <3>11, Zenon DEF SteadyCursor
    <3>13. SteadyCall(P(t), t)'
      BY <2>4, Zenon DEF SteadyCall
    <3> QED
      BY <1>0, <3>1, <3>12, <3>13, AloneInCall, Zenon DEF Busy, UnderGuard
  <2> QED
    BY <1>1, <2>4, <2>5, <2>6, StepSteady, Zenon
<1>3. CASE Goto(t, "dead") /\ UNCHANGED <<rdr, got, off>>
  <2>1. Only(t) /\ th'[t] = [th[t] EXCEPT !.pc = "dead"]
    BY <1>0, <1>3, Zenon DEF Goto, Only, Types
  <2>2. th'[t].pc = "dead"
    BY <1>0, <2>1, Zenon DEF CallSet
  <2>3. SteadyCall(P(t), t)'
    BY <2>2 DEF SteadyCall
  <2> QED
    BY <1>0, <1>1, <1>3, <2>1, <2>3, LocalSteady, Zenon DEF Busy, UnderGuard
<1> QED
  BY <1>2, <1>3, Zenon DEF MapKeys

\* What is written out does not concern the reads.
LEMMA EchoSteady ==
    ASSUME ReadInv, SteadyInv, NEW t \in Threads, Echo(t)
    PROVE  SteadyInv'
<1>0. Types /\ th[t] \in CallSet /\ th[t].pc = "echo"
  BY Zenon DEF ReadInv, Types, Echo, At
<1>1. UNCHANGED <<proc, typed, stdin, got, steady>> /\ count' = count
  BY Zenon DEF Echo, world, input, count
<1>2. \A u \in Threads \ {t} : th'[u] = th[u]
  BY <1>0, Zenon DEF Echo, Types
<1>3. th'[t].pc \in {"idle", "echo"}
  BY <1>0, Zenon DEF Echo, Types, CallSet
<1>4. ASSUME NEW p \in steady'
      PROVE  Alone(p)' /\ SteadyCursor(p)' /\ \A u \in Threads : proc'[u] = p => SteadyCall(p, u)'
  <2>1. p \in steady
    BY <1>1, Zenon
  <2>2. Alone(p) /\ SteadyCursor(p) /\ \A u \in Threads : proc[u] = p => SteadyCall(p, u)
    BY <2>1, Zenon DEF SteadyInv
  <2>3. Alone(p)'
    BY <1>1, <1>2, <1>3, <2>2 DEF Alone, Busy, UnderGuard
  <2>4. SteadyCursor(p)'
    BY <1>1, <2>2, Zenon DEF SteadyCursor
  <2>5. ASSUME NEW u \in Threads, proc'[u] = p PROVE SteadyCall(p, u)'
    <3>1. CASE u = t
      BY <1>3, <3>1, Zenon DEF SteadyCall
    <3>2. CASE u # t
      BY <1>1, <1>2, <2>2, <2>5, <3>2 DEF SteadyCall
    <3> QED
      BY <3>1, <3>2, Zenon
  <2> QED
    BY <2>3, <2>4, <2>5, Zenon
<1> QED
  BY <1>4, Zenon DEF SteadyInv

\* Nor do the steps that leave the threads, the ring and the cursors alone.
LEMMA SameSteady ==
    ASSUME SteadyInv, UNCHANGED <<proc, typed, stdin, got, steady, th>>
    PROVE  SteadyInv'
<1>1. count' = count
  BY Zenon DEF count
<1>2. ASSUME NEW p \in steady'
      PROVE  Alone(p)' /\ SteadyCursor(p)' /\ \A u \in Threads : proc'[u] = p => SteadyCall(p, u)'
  <2>1. Alone(p) /\ SteadyCursor(p) /\ \A u \in Threads : proc[u] = p => SteadyCall(p, u)
    BY <1>2, Zenon DEF SteadyInv
  <2>2. Alone(p)'
    BY <2>1, Zenon DEF Alone
  <2>3. SteadyCursor(p)'
    BY <1>1, <2>1 DEF SteadyCursor
  <2>4. ASSUME NEW u \in Threads, proc'[u] = p PROVE SteadyCall(p, u)'
    BY <1>1, <2>1, <2>4 DEF SteadyCall
  <2> QED
    BY <2>2, <2>3, <2>4, Zenon
<1> QED
  BY <1>2, Zenon DEF SteadyInv

\* Every step keeps the invariant of the steady readers.
LEMMA NextSteadyInv == ReadInv /\ SteadyInv /\ [Next]_vars => SteadyInv'
<1> SUFFICES ASSUME ReadInv, SteadyInv, [Next]_vars PROVE SteadyInv'
  BY Zenon
<1>1. CASE \E k \in Keys : KeyPress(k)
  BY <1>1, KeyPressSteady, Zenon
<1>2. ASSUME NEW t \in Threads, Reading(t) PROVE SteadyInv'
  BY <1>2, CheckSteady, InsertCursorSteady, LoadCursorSteady, ValidateSteady, StartSteady, TestSteady,
     FetchSteady, AdvanceSteady, MapKeysSteady, EchoSteady, Zenon DEF Reading
<1>3. ASSUME NEW t \in Threads, Seek(t) PROVE SteadyInv'
  BY <1>3, SameSteady, Zenon DEF Seek, world
<1>4. ASSUME NEW t \in Threads, NEW len \in Lens, Read(t, len) PROVE SteadyInv'
  BY <1>4, ReadStepSteady, Zenon
<1>5. CASE Driver
  BY <1>5, SameSteady, Zenon DEF Driver, Flush, NextSink, world, input
<1>6. CASE UNCHANGED vars
  BY <1>6, SameSteady, Zenon DEF vars, world, input
<1> QED
  BY <1>1, <1>2, <1>3, <1>4, <1>5, <1>6, Zenon DEF Next

\* A process that reads one call at a time, from offset 0, and is not overtaken by
\* the ring, gets the keys in the order of the presses and none of them twice.
THEOREM SteadyReader == Spec => []SteadyReaderGetsEachKeyOnce
<1>1. SteadyInv => SteadyReaderGetsEachKeyOnce
  BY Zenon DEF SteadyInv, SteadyCursor, SteadyReaderGetsEachKeyOnce
<1> QED
  BY ReadInvariance, InitSteadyInv, NextSteadyInv, <1>1, PTL DEF Spec

-----------------------------------------------------------------------------
(* The standard output                                                     *)

\* The clause of ShownInOrder for one thread: of its b characters, all but the
\* first a are in the queue, in order.
InOrder(q, t, a, b) ==
    /\ \A n \in (a + 1)..b : \E i \in DOMAIN q : q[i] = <<t, n>>
    /\ \A i \in DOMAIN q : q[i][1] = t => q[i][2] \in (a + 1)..b
    /\ \A i, j \in DOMAIN q : i < j /\ q[i][1] = t /\ q[j][1] = t => q[i][2] < q[j][2]

Items == Threads \X Nat

\* A push appends the next character of its thread (TTYSink::write).
LEMMA PushOwn ==
    ASSUME NEW q \in Seq(Items), NEW t \in Threads, NEW a \in Nat, NEW b \in Nat, a <= b, InOrder(q, t, a, b)
    PROVE  InOrder(Append(q, <<t, b + 1>>), t, a, b + 1)
<1> DEFINE x == Append(q, <<t, b + 1>>)
           m == Len(q)
<1>1. m \in Nat /\ DOMAIN q = 1..m /\ DOMAIN x = 1..(m + 1) /\ x[m + 1] = <<t, b + 1>>
  OBVIOUS
<1>2. \A i \in 1..m : x[i] = q[i] /\ q[i] \in Items
  OBVIOUS
<1> HIDE DEF x, m
<1>3. \A i \in 1..m : q[i][1] = t => q[i][2] \in (a + 1)..b
  BY <1>1, Zenon DEF InOrder
<1>4. \A n \in (a + 1)..(b + 1) : \E i \in DOMAIN x : x[i] = <<t, n>>
  <2> TAKE n \in (a + 1)..(b + 1)
  <2>1. CASE n = b + 1
    BY <1>1, <2>1
  <2>2. CASE n # b + 1
    <3>1. n \in (a + 1)..b
      BY <2>2
    <3>2. PICK i \in 1..m : q[i] = <<t, n>>
      BY <1>1, <3>1, Zenon DEF InOrder
    <3>3. i \in DOMAIN x /\ x[i] = <<t, n>>
      BY <1>1, <1>2, <3>2
    <3> QED
      BY <3>3, Zenon
  <2> QED
    BY <2>1, <2>2, Zenon
<1>5. ASSUME NEW i \in DOMAIN x, x[i][1] = t PROVE x[i][2] \in (a + 1)..(b + 1) /\ (i <= m => x[i][2] \in (a + 1)..b)
  <2>1. CASE i = m + 1
    BY <1>1, <2>1
  <2>2. CASE i # m + 1
    <3>1. i \in 1..m /\ x[i] = q[i]
      BY <1>1, <1>2, <2>2
    <3> QED
      BY <1>3, <1>5, <3>1
  <2> QED
    BY <2>1, <2>2, Zenon
<1>6. ASSUME NEW i \in DOMAIN x, NEW j \in DOMAIN x, i < j, x[i][1] = t, x[j][1] = t PROVE x[i][2] < x[j][2]
  <2>1. i \in 1..m /\ x[i] = q[i]
    BY <1>1, <1>2, <1>6
  <2>2. CASE j = m + 1
    <3>1. x[j][2] = b + 1 /\ x[i][2] \in (a + 1)..b
      BY <1>1, <1>3, <1>6, <2>1, <2>2
    <3> QED
      BY <3>1
  <2>3. CASE j # m + 1
    <3>1. j \in 1..m /\ x[j] = q[j]
      BY <1>1, <1>2, <2>3
    <3> QED
      BY <1>1, <1>6, <2>1, <3>1, Zenon DEF InOrder
  <2> QED
    BY <2>2, <2>3, Zenon
<1>7. InOrder(x, t, a, b + 1)
  BY <1>4, <1>5, <1>6, Zenon DEF InOrder
<1> QED
  BY <1>7, Zenon DEF x

\* To the other threads a push changes nothing.
LEMMA PushOther ==
    ASSUME NEW q \in Seq(Items), NEW t \in Threads, NEW u \in Threads, u # t, NEW n \in Nat,
           NEW a \in Nat, NEW b \in Nat, InOrder(q, t, a, b)
    PROVE  InOrder(Append(q, <<u, n>>), t, a, b)
<1> DEFINE x == Append(q, <<u, n>>)
           m == Len(q)
<1>1. m \in Nat /\ DOMAIN q = 1..m /\ DOMAIN x = 1..(m + 1) /\ x[m + 1] = <<u, n>>
  OBVIOUS
<1>2. \A i \in 1..m : x[i] = q[i]
  OBVIOUS
<1> HIDE DEF x, m
<1>3. \A i \in DOMAIN x : x[i][1] = t => i \in DOMAIN q /\ x[i] = q[i]
  BY <1>1, <1>2
<1>4. \A i \in DOMAIN q : i \in DOMAIN x /\ x[i] = q[i]
  BY <1>1, <1>2
<1>5. \A k \in (a + 1)..b : \E i \in DOMAIN x : x[i] = <<t, k>>
  BY <1>4, Zenon DEF InOrder
<1>6. \A i \in DOMAIN x : x[i][1] = t => x[i][2] \in (a + 1)..b
  BY <1>3, Zenon DEF InOrder
<1>7. \A i, j \in DOMAIN x : i < j /\ x[i][1] = t /\ x[j][1] = t => x[i][2] < x[j][2]
  BY <1>3, Zenon DEF InOrder
<1>8. InOrder(x, t, a, b)
  BY <1>5, <1>6, <1>7, Zenon DEF InOrder
<1> QED
  BY <1>8, Zenon DEF x

\* A flush takes the oldest character of its thread (TTYSink::flush) ...
LEMMA PopOwn ==
    ASSUME NEW q \in Seq(Items), q # <<>>, NEW t \in Threads, NEW a \in Nat, NEW b \in Nat,
           InOrder(q, t, a, b), Head(q)[1] = t
    PROVE  /\ Head(q)[2] = a + 1 /\ a + 1 <= b
           /\ InOrder(Tail(q), t, a + 1, b)
<1> DEFINE x == Tail(q)
           m == Len(q)
           h == q[1]
<1>1. m \in Nat \ {0} /\ DOMAIN q = 1..m /\ DOMAIN x = 1..(m - 1) /\ Head(q) = h /\ h \in Items
  OBVIOUS
<1>2. \A i \in 1..(m - 1) : x[i] = q[i + 1]
  OBVIOUS
<1>3. h[2] \in (a + 1)..b
  BY <1>1 DEF InOrder
<1>4. PICK k \in DOMAIN q : q[k] = <<t, a + 1>>
  BY <1>3 DEF InOrder
<1>5. h[2] = a + 1
  <2>1. CASE k = 1
    BY <1>4, <2>1
  <2>2. CASE k # 1
    <3>1. 1 \in DOMAIN q /\ 1 < k /\ q[1][1] = t /\ q[k][1] = t /\ q[k][2] = a + 1
      BY <1>1, <1>4, <2>2
    <3>2. q[1][2] < q[k][2]
      BY <1>4, <3>1, Zenon DEF InOrder
    <3> QED
      BY <1>3, <3>1, <3>2
  <2> QED
    BY <2>1, <2>2, Zenon
<1> HIDE DEF x, m, h
<1>6. \A i \in DOMAIN x : i + 1 \in DOMAIN q /\ x[i] = q[i + 1] /\ 1 < i + 1 /\ i \in Nat /\ 1 \in DOMAIN q
  BY <1>1, <1>2
<1>7. ASSUME NEW n \in (a + 2)..b PROVE \E i \in DOMAIN x : x[i] = <<t, n>>
  <2>1. n \in (a + 1)..b /\ n # a + 1
    OBVIOUS
  <2>2. PICK j \in DOMAIN q : q[j] = <<t, n>>
    BY <2>1, Zenon DEF InOrder
  <2>3. j # 1
    BY <1>5, <2>1, <2>2 DEF h
  <2>4. j - 1 \in DOMAIN x /\ x[j - 1] = q[j]
    BY <1>1, <1>2, <2>2, <2>3
  <2> QED
    BY <2>2, <2>4, Zenon
<1>8. ASSUME NEW i \in DOMAIN x, x[i][1] = t PROVE x[i][2] \in (a + 2)..b
  <2>1. q[1][2] < q[i + 1][2] /\ q[i + 1][2] \in (a + 1)..b
    BY <1>1, <1>6, <1>8, Zenon DEF InOrder, h
  <2>2. x[i][2] \in (a + 1)..b /\ a + 1 < x[i][2]
    BY <1>5, <1>6, <2>1, Zenon DEF h
  <2> QED
    BY <2>2
<1>9. ASSUME NEW i \in DOMAIN x, NEW j \in DOMAIN x, i < j, x[i][1] = t, x[j][1] = t PROVE x[i][2] < x[j][2]
  <2>1. /\ i + 1 \in DOMAIN q /\ j + 1 \in DOMAIN q /\ i + 1 < j + 1 /\ q[i + 1][1] = t /\ q[j + 1][1] = t
        /\ x[i] = q[i + 1] /\ x[j] = q[j + 1]
    BY <1>6, <1>9
  <2> QED
    BY <2>1, Zenon DEF InOrder
<1>10. InOrder(x, t, a + 1, b)
  <2>1. a + 1 + 1 = a + 2
    OBVIOUS
  <2> QED
    BY <1>7, <1>8, <1>9, <2>1, Zenon DEF InOrder
<1> QED
  BY <1>1, <1>3, <1>5, <1>10 DEF x

\* ... and leaves those of the others.
LEMMA PopOther ==
    ASSUME NEW q \in Seq(Items), q # <<>>, NEW t \in Threads, NEW a \in Nat, NEW b \in Nat,
           InOrder(q, t, a, b), Head(q)[1] # t
    PROVE  InOrder(Tail(q), t, a, b)
<1> DEFINE x == Tail(q)
           m == Len(q)
<1>1. m \in Nat \ {0} /\ DOMAIN q = 1..m /\ DOMAIN x = 1..(m - 1) /\ q[1][1] # t
  OBVIOUS
<1>2. \A i \in 1..(m - 1) : x[i] = q[i + 1]
  OBVIOUS
<1> HIDE DEF x, m
<1>3. \A i \in DOMAIN x : i + 1 \in DOMAIN q /\ x[i] = q[i + 1] /\ i \in Nat
  BY <1>1, <1>2
<1>4. ASSUME NEW n \in (a + 1)..b PROVE \E i \in DOMAIN x : x[i] = <<t, n>>
  <2>1. PICK j \in DOMAIN q : q[j] = <<t, n>>
    BY Zenon DEF InOrder
  <2>2. j # 1
    BY <1>1, <2>1
  <2>3. j - 1 \in DOMAIN x /\ x[j - 1] = q[j]
    BY <1>1, <1>2, <2>1, <2>2
  <2> QED
    BY <2>1, <2>3, Zenon
<1>5. ASSUME NEW i \in DOMAIN x, x[i][1] = t PROVE x[i][2] \in (a + 1)..b
  BY <1>3, <1>5, Zenon DEF InOrder
<1>6. ASSUME NEW i \in DOMAIN x, NEW j \in DOMAIN x, i < j, x[i][1] = t, x[j][1] = t PROVE x[i][2] < x[j][2]
  <2>1. /\ i + 1 \in DOMAIN q /\ j + 1 \in DOMAIN q /\ i + 1 < j + 1 /\ q[i + 1][1] = t /\ q[j + 1][1] = t
        /\ x[i] = q[i + 1] /\ x[j] = q[j + 1]
    BY <1>3, <1>6
  <2> QED
    BY <2>1, Zenon DEF InOrder
<1>7. InOrder(x, t, a, b)
  BY <1>4, <1>5, <1>6, Zenon DEF InOrder
<1> QED
  BY <1>7, Zenon DEF x

\* The output's types; what waits in a queue was written by a thread of that sink.
OutTypes ==
    /\ queue \in [Sinks -> Seq(Items)] /\ tty \in Sinks
    /\ said \in [Threads -> Nat] /\ shown \in [Threads -> Nat] /\ \A t \in Threads : shown[t] <= said[t]
Sink(t) == Out[P(t)]
Homed == \A s \in Sinks : \A i \in DOMAIN queue[s] : Sink(queue[s][i][1]) = s
OutInv == OutTypes /\ Homed /\ \A t \in Threads : InOrder(queue[Sink(t)], t, shown[t], said[t])

\* Nothing is written at the start.
LEMMA InitOutInv == Init => OutInv
<1> SUFFICES ASSUME Init PROVE OutInv
  BY Zenon
<1>1. /\ queue = [s \in Sinks |-> <<>>] /\ tty = "serial"
      /\ said = [t \in Threads |-> 0] /\ shown = [t \in Threads |-> 0] /\ proc \in [Threads -> Procs]
  BY ConsoleAssumption, Zenon DEF Init, ConsoleAssumption
<1>2. OutTypes
  BY <1>1 DEF OutTypes, Sinks
<1>3. Homed
  BY <1>1 DEF Homed
<1>4. ASSUME NEW t \in Threads PROVE InOrder(queue[Sink(t)], t, shown[t], said[t])
  <2>1. Sink(t) \in Sinks
    BY <1>1, ConsoleAssumption, Zenon DEF Sink, P, ConsoleAssumption
  <2>2. queue[Sink(t)] = <<>> /\ shown[t] = 0 /\ said[t] = 0 /\ DOMAIN <<>> = {}
    BY <1>1, <2>1
  <2> QED
    BY <2>2 DEF InOrder
<1> QED
  BY <1>2, <1>3, <1>4, Zenon DEF OutInv

\* Writing a character.
LEMMA EchoOut ==
    ASSUME ReadInv, OutInv, NEW t \in Threads, Echo(t)
    PROVE  OutInv'
<1> DEFINE s == Sink(t)
           n == said[t] + 1
<1>0. /\ OutTypes /\ Homed /\ said[t] \in Nat /\ n \in Nat
      /\ \A u \in Threads : Sink(u) \in Sinks
  BY ConsoleAssumption DEF OutInv, OutTypes, ReadInv, Types, Sink, P, ConsoleAssumption
<1>1. /\ queue' = [queue EXCEPT ![s] = Append(queue[s], <<t, n>>)] /\ said' = [said EXCEPT ![t] = n]
      /\ UNCHANGED <<proc, tty, shown>>
  BY Zenon DEF Echo, world, Sink
<1>2. s \in Sinks /\ \A u : Sink(u)' = Sink(u)
  BY <1>0, <1>1, Zenon DEF Sink, P
<1>3. <<t, n>> \in Items /\ queue[s] \in Seq(Items)
  BY <1>0, <1>2, Zenon DEF Items, OutTypes
<1>4. Append(queue[s], <<t, n>>) \in Seq(Items)
  BY <1>3
<1>5. /\ queue'[s] = Append(queue[s], <<t, n>>) /\ \A r \in Sinks \ {s} : queue'[r] = queue[r]
      /\ said'[t] = n /\ \A u \in Threads \ {t} : said'[u] = said[u]
  BY <1>0, <1>1, <1>2, Zenon DEF OutTypes
<1>6. OutTypes'
  <2>1. queue' \in [Sinks -> Seq(Items)] /\ said' \in [Threads -> Nat]
    BY <1>0, <1>1, <1>4, Zenon DEF OutTypes
  <2>2. \A u \in Threads : shown'[u] <= said'[u]
    BY <1>0, <1>1, <1>5 DEF OutTypes
  <2> QED
    BY <1>0, <1>1, <2>1, <2>2, Zenon DEF OutTypes
<1>7. Homed'
  <2> SUFFICES ASSUME NEW r \in Sinks, NEW i \in DOMAIN queue'[r] PROVE Sink(queue'[r][i][1]) = r
    BY <1>2, Zenon DEF Homed
  <2>1. CASE r # s
    BY <1>0, <1>5, <2>1, Zenon DEF Homed
  <2>2. CASE r = s /\ i = Len(queue[s]) + 1
    <3>1. queue'[r][i] = <<t, n>>
      BY <1>3, <1>5, <2>2
    <3> QED
      BY <2>2, <3>1
  <2>3. CASE r = s /\ i # Len(queue[s]) + 1
    <3>1. i \in DOMAIN queue[s] /\ queue'[r][i] = queue[s][i]
      BY <1>3, <1>5, <2>3
    <3> QED
      BY <1>0, <1>2, <2>3, <3>1, Zenon DEF Homed
  <2> QED
    BY <2>1, <2>2, <2>3, Zenon
<1>8. ASSUME NEW u \in Threads PROVE InOrder(queue[Sink(u)], u, shown[u], said[u])'
  <2>1. InOrder(queue[Sink(u)], u, shown[u], said[u]) /\ shown[u] \in Nat /\ said[u] \in Nat /\ shown[u] <= said[u]
    BY <1>0, Zenon DEF OutInv, OutTypes
  <2>2. CASE u = t
    <3>1. InOrder(Append(queue[s], <<t, n>>), t, shown[t], n)
      BY <1>3, <2>1, <2>2, PushOwn, Zenon
    <3> QED
      BY <1>1, <1>2, <1>5, <2>2, <3>1, Zenon
  <2>3. CASE u # t /\ Sink(u) = s
    <3>1. InOrder(Append(queue[s], <<t, n>>), u, shown[u], said[u])
      BY <1>0, <1>3, <2>1, <2>3, PushOther, Zenon
    <3> QED
      BY <1>1, <1>2, <1>5, <2>3, <3>1, ZenonT(40)
  <2>4. CASE u # t /\ Sink(u) # s
    BY <1>0, <1>1, <1>2, <1>5, <2>1, <2>4, Zenon
  <2> QED
    BY <2>2, <2>3, <2>4, Zenon
<1> QED
  BY <1>6, <1>7, <1>8, Zenon DEF OutInv

\* Showing one.
LEMMA FlushOut ==
    ASSUME ReadInv, OutInv, NEW s \in Sinks, Flush(s)
    PROVE  OutInv'
<1> DEFINE q == queue[s]
           t == Head(q)[1]
           n == Head(q)[2]
<1>0. OutTypes /\ Homed /\ \A u \in Threads : Sink(u) \in Sinks
  BY ConsoleAssumption, Zenon DEF OutInv, ReadInv, Types, Sink, P, ConsoleAssumption
<1>1. /\ queue' = [queue EXCEPT ![s] = Tail(q)] /\ shown' = [shown EXCEPT ![t] = n]
      /\ UNCHANGED <<proc, tty, said>> /\ q # <<>>
  BY Zenon DEF Flush, world
<1>2. \A u : Sink(u)' = Sink(u)
  BY <1>1, Zenon DEF Sink, P
<1>3. q \in Seq(Items)
  BY <1>0, Zenon DEF OutTypes
<1>4. Head(q) \in Items /\ Tail(q) \in Seq(Items) /\ Head(q) = q[1] /\ 1 \in DOMAIN q
  BY <1>1, <1>3
<1>5. t \in Threads /\ n \in Nat /\ Sink(t) = s
  BY <1>0, <1>4, Zenon DEF Items, Homed
<1>6. /\ queue'[s] = Tail(q) /\ \A r \in Sinks \ {s} : queue'[r] = queue[r]
      /\ shown'[t] = n /\ \A u \in Threads \ {t} : shown'[u] = shown[u]
  BY <1>0, <1>1, <1>5, Zenon DEF OutTypes
<1>7. InOrder(q, t, shown[t], said[t]) /\ shown[t] \in Nat /\ said[t] \in Nat
  BY <1>5, Zenon DEF OutInv, OutTypes
<1>8. n = shown[t] + 1 /\ shown[t] + 1 <= said[t] /\ InOrder(Tail(q), t, shown[t] + 1, said[t])
  <2> DEFINE a == shown[t]
             b == said[t]
  <2>1. InOrder(q, t, a, b) /\ a \in Nat /\ b \in Nat /\ q \in Seq(Items) /\ q # <<>> /\ t \in Threads
    BY <1>1, <1>3, <1>5, <1>7, Zenon
  <2> HIDE DEF a, b
  <2>2. Head(q)[1] = t /\ Head(q)[2] = n
    BY Zenon
  <2> HIDE DEF q, t, n
  <2>3. Head(q)[2] = a + 1 /\ a + 1 <= b /\ InOrder(Tail(q), t, a + 1, b)
    BY <2>1, <2>2, PopOwn, Zenon
  <2> QED
    BY <2>2, <2>3, Zenon DEF a, b
<1> HIDE DEF q, t, n
<1>9. OutTypes'
  <2>1. queue' \in [Sinks -> Seq(Items)] /\ shown' \in [Threads -> Nat]
    BY <1>0, <1>1, <1>4, <1>5, Zenon DEF OutTypes
  <2>2. \A u \in Threads : shown'[u] <= said'[u]
    BY <1>0, <1>1, <1>6, <1>8, Zenon DEF OutTypes
  <2> QED
    BY <1>0, <1>1, <2>1, <2>2, Zenon DEF OutTypes
<1>10. Homed'
  <2> SUFFICES ASSUME NEW r \in Sinks, NEW i \in DOMAIN queue'[r] PROVE Sink(queue'[r][i][1]) = r
    BY <1>2, Zenon DEF Homed
  <2>1. CASE r # s
    BY <1>0, <1>6, <2>1, Zenon DEF Homed
  <2>2. CASE r = s
    <3>1. i + 1 \in DOMAIN q /\ queue'[r][i] = q[i + 1]
      BY <1>1, <1>3, <1>6, <2>2
    <3> QED
      BY <1>0, <2>2, <3>1, Zenon DEF Homed, q
  <2> QED
    BY <2>1, <2>2, Zenon
<1>11. ASSUME NEW u \in Threads PROVE InOrder(queue[Sink(u)], u, shown[u], said[u])'
  <2>1. InOrder(queue[Sink(u)], u, shown[u], said[u]) /\ shown[u] \in Nat /\ said[u] \in Nat
    BY <1>0, Zenon DEF OutInv, OutTypes
  <2>2. CASE u = t
    BY <1>1, <1>2, <1>5, <1>6, <1>8, <2>2, Zenon
  <2>3. CASE u # t /\ Sink(u) = s
    <3>1. InOrder(q, u, shown[u], said[u])
      BY <2>1, <2>3, Zenon DEF q
    <3>2. InOrder(Tail(q), u, shown[u], said[u])
      BY <1>1, <1>3, <2>1, <2>3, <3>1, PopOther, Zenon DEF t
    <3> QED
      BY <1>1, <1>2, <1>6, <2>3, <3>2, Zenon
  <2>4. CASE u # t /\ Sink(u) # s
    BY <1>0, <1>1, <1>2, <1>6, <2>1, <2>4, Zenon
  <2> QED
    BY <2>2, <2>3, <2>4, Zenon
<1> QED
  BY <1>9, <1>10, <1>11, Zenon DEF OutInv

\* The driver thread goes on to the next sink.
LEMMA NextSinkOut ==
    ASSUME OutInv, NEW s \in Sinks, NextSink(s)
    PROVE  OutInv'
<1>1. UNCHANGED <<proc, queue, said, shown>> /\ tty' \in Sinks
  BY Zenon DEF NextSink, world, Sinks
<1>2. \A u : Sink(u)' = Sink(u)
  BY <1>1, Zenon DEF Sink, P
<1> QED
  BY <1>1, <1>2, Zenon DEF OutInv, OutTypes, Homed

\* The other steps write and show nothing.
LEMMA SameOut ==
    ASSUME OutInv, UNCHANGED <<proc, output>>
    PROVE  OutInv'
<1>1. \A u : Sink(u)' = Sink(u)
  BY Zenon DEF Sink, P
<1> QED
  BY <1>1, Zenon DEF OutInv, OutTypes, Homed, output

\* Every step keeps the output in order.
LEMMA NextOutInv == ReadInv /\ OutInv /\ [Next]_vars => OutInv'
<1> SUFFICES ASSUME ReadInv, OutInv, [Next]_vars PROVE OutInv'
  OBVIOUS
<1>1. CASE \E k \in Keys : KeyPress(k)
  BY <1>1, SameOut, Zenon DEF KeyPress, world
<1>2. ASSUME NEW t \in Threads, Reading(t) PROVE OutInv'
  <2>1. CASE Echo(t)
    BY <2>1, EchoOut, Zenon
  <2>2. CASE Check(t) \/ InsertCursor(t) \/ LoadCursor(t) \/ Validate(t) \/ Start(t)
    BY <2>2, SameOut, Zenon DEF Check, InsertCursor, LoadCursor, Validate, Start, world
  <2>3. CASE Test(t) \/ Fetch(t) \/ Advance(t) \/ MapKeys(t)
    BY <2>3, SameOut, Zenon DEF Test, Fetch, Advance, MapKeys, world
  <2> QED
    BY <1>2, <2>1, <2>2, <2>3, Zenon DEF Reading
<1>3. ASSUME NEW t \in Threads, Seek(t) PROVE OutInv'
  BY <1>3, SameOut, Zenon DEF Seek, world
<1>4. ASSUME NEW t \in Threads, NEW len \in Lens, Read(t, len) PROVE OutInv'
  BY <1>4, SameOut, Zenon DEF Read, world
<1>5. CASE Driver
  BY <1>5, FlushOut, NextSinkOut, Zenon DEF Driver
<1>6. CASE UNCHANGED vars
  BY <1>6, SameOut, Zenon DEF vars, world
<1> QED
  BY <1>1, <1>2, <1>3, <1>4, <1>5, <1>6 DEF Next

\* What a thread has written and is not yet shown is in its sink's queue, in the
\* order of the writes and only once (TTYSink::write, TTYSink::flush).
THEOREM OutputInOrder == Spec => []ShownInOrder
<1>1. OutInv => ShownInOrder
  BY Zenon DEF OutInv, InOrder, ShownInOrder, Sink
<1> QED
  BY ReadInvariance, InitOutInv, NextOutInv, <1>1, PTL DEF Spec

\* Every variable of the console keeps its type, and the lock of open_files is
\* never held by a reader and a writer at once.
THEOREM ConsoleTypes == Spec => []TypeOK
<1>1. ReadInv /\ OutInv => TypeOK
  <2> SUFFICES ASSUME ReadInv, OutInv PROVE TypeOK
    BY Zenon
  <2>1. Types /\ Cursors /\ tty \in Sinks /\ \A t \in Threads : CallOK(t)
    BY Zenon DEF ReadInv, OutInv, OutTypes
  <2>2. ASSUME NEW p \in Procs PROVE stdin[p] \subseteq 0..(WordSize - 1) /\ \A c, d \in stdin[p] : c = d
    BY <2>1, Zenon DEF Cursors
  <2> QED
    BY <2>1, <2>2, Zenon DEF Types, CallOK, TypeOK
<1> QED
  BY ReadInvariance, InitOutInv, NextOutInv, <1>1, PTL DEF Spec
=============================================================================
