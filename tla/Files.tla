-------------------------------- MODULE Files --------------------------------
(***************************************************************************)
(* Open files: the descriptor table of a process, FileHandle's hooks and   *)
(* File's cursor (kernel/fd/mod.rs), pipes (devices/tty/mod.rs), the file  *)
(* system calls (syscalls/funcs.rs) and what spawn_process does with the   *)
(* descriptors of a child (funcs.rs, threading/task.rs).                   *)
(*                                                                         *)
(* A File is <<p, "r">> or <<p, "w">>, an end of pipe p, or <<r, "ram">>,  *)
(* an open of one RAM file.  A FileHandle lives in a slot: an entry of a   *)
(* descriptor table, or a temporary of a thread that is in a system call.  *)
(* Parent's threads share its table; Child, once spawned, has its own.     *)
(* Bytes are numbered in the order in which they are written.              *)
(***************************************************************************)
EXTENDS Naturals, FiniteSets, Sequences

CONSTANTS
    Parent, Child,   \* processes
    Threads,         \* the threads of Parent
    Son,             \* the thread of Child
    Pipes,           \* pipes that can be made
    Rams,            \* opens of the RAM file
    MaxFd,           \* bound on descriptors: 0..MaxFd - 1
    Cap,             \* capacity of a pipe
    MaxBytes,        \* bound on the bytes ever written to a pipe, and to the RAM file
    Lens,            \* lengths of reads and writes
    Calls,           \* bound on the system calls
    Actions          \* lists of descriptor actions that a spawn may carry

ASSUME FilesAssumption ==
    /\ Parent # Child /\ Son \notin Threads
    /\ {Parent, Child} \cap (Threads \cup {Son}) = {}
    /\ MaxFd \in Nat \ {0} /\ Cap \in Nat /\ MaxBytes \in Nat /\ Calls \in Nat
    /\ Lens \subseteq Nat
    /\ Actions \subseteq Seq([do : STRING, from : 0..(MaxFd - 1), to : 0..(MaxFd - 1)])
    /\ IsFiniteSet(Threads) /\ IsFiniteSet(Pipes) /\ Pipes \cap Rams = {}

None == <<>>
Fds == 0..(MaxFd - 1)
Actors == Threads \cup {Son}
Ends == Pipes \X {"r", "w"}
AllFiles == Ends \cup (Rams \X {"ram"})
Proc(t) == IF t = Son THEN Child ELSE Parent
Fd(p, n) == <<p, n>>
Tmp(t, i) == <<t, i>>
Slots == ({Parent, Child} \X Fds) \cup (Actors \X {1, 2})

VARIABLES
    h,       \* slot -> the File its FileHandle refers to, or None
    cnt,     \* Pipe.readers and Pipe.writers, per end
    buf,     \* Pipe.buf
    sent,    \* per pipe: bytes written so far
    got,     \* per pipe: bytes read so far
    eof,     \* pipes on which a read returned the "no writers" error
    ram,     \* the RAM file: its length
    cur,     \* File.cursor, of the opens of the RAM file
    used,    \* pipes and opens made so far
    op,      \* per thread: the system call it is in
    alive,   \* whether Child has been added
    calls    \* system calls left
vars == <<h, cnt, buf, sent, got, eof, ram, cur, used, op, alive, calls>>
data == <<buf, sent, got, eof, ram, cur>>

Start(pc, fd, old, n, mode) ==
    [pc |-> pc, fd |-> fd, old |-> old, n |-> n, mode |-> mode, left |-> <<>>]
Idle == Start("idle", 0, 0, 0, "no")

Init ==
    /\ h = [s \in Slots |-> None]
    /\ cnt = [e \in Ends |-> 0]
    /\ buf = [p \in Pipes |-> <<>>]
    /\ sent = [p \in Pipes |-> 0]
    /\ got = [p \in Pipes |-> 0]
    /\ eof = {}
    /\ ram = 0
    /\ cur = [r \in Rams |-> 0]
    /\ used = {}
    /\ op = [t \in Actors |-> Idle]
    /\ alive = FALSE
    /\ calls = Calls

-----------------------------------------------------------------------------
At(t, l) == op[t].pc = l
Goto(t, l) == op' = [op EXCEPT ![t].pc = l]
Return(t) == op' = [op EXCEPT ![t] = Idle]
Enter(t, o) ==
    /\ At(t, "idle") /\ calls > 0 /\ (t = Son => alive)
    /\ op' = [op EXCEPT ![t] = o]
    /\ calls' = calls - 1

\* on_clone and on_drop, which only pipes implement.
Inc(f) == [e \in Ends |-> IF e = f THEN cnt[e] + 1 ELSE cnt[e]]
Dec(f) == [e \in Ends |-> IF e = f THEN cnt[e] - 1 ELSE cnt[e]]

\* Mutant: clone copies the Arc and forgets the hook.
CloneUncounted(from, to) ==
    /\ h' = [h EXCEPT ![to] = h[from]]
    /\ cnt' = cnt

\* FileHandle::clone of the handle in from, into the empty slot to.
Clone(from, to) ==
    /\ h' = [h EXCEPT ![to] = h[from]]
    /\ cnt' = Inc(h[from])

\* FileHandle::drop.
Drop(s) ==
    /\ h' = [h EXCEPT ![s] = None]
    /\ cnt' = Dec(h[s])

\* Exchanges a temporary and a table entry: insert and remove move handles.
Swap(a, b) ==
    /\ h' = [h EXCEPT ![a] = h[b], ![b] = h[a]]
    /\ UNCHANGED cnt

\* A builder that copies the table of Parent holds its lock for reading.
Copied(p) == p = Parent /\ \E u \in Threads : At(u, "inherit")

-----------------------------------------------------------------------------
(* pipe, open, dup, close *)

\* Pipe::new and two FileBuilders; finish runs on_open.
Pipe(t, p) ==
    /\ p \notin used
    /\ Enter(t, Start("nextfd", 0, 0, 1, "no"))
    /\ used' = used \cup {p}
    /\ h' = [h EXCEPT ![Tmp(t, 1)] = <<p, "r">>, ![Tmp(t, 2)] = <<p, "w">>]
    /\ cnt' = [cnt EXCEPT ![<<p, "r">>] = @ + 1, ![<<p, "w">>] = @ + 1]
    /\ UNCHANGED <<data, alive>>

\* open of the RAM file: APPEND puts the cursor at the end, TRUNCATE clears.
Open(t, r, mode) ==
    /\ r \notin used
    /\ Enter(t, Start("nextfd", 0, 0, 1, "no"))
    /\ used' = used \cup {r}
    /\ h' = [h EXCEPT ![Tmp(t, 1)] = <<r, "ram">>]
    /\ ram' = IF mode = "truncate" THEN 0 ELSE ram
    /\ cur' = [cur EXCEPT ![r] = IF mode = "append" THEN ram ELSE 0]
    /\ UNCHANGED <<cnt, buf, sent, got, eof, alive>>

\* next_fd: one past the greatest descriptor, under the table's read lock.
NextFd(t) ==
    /\ At(t, "nextfd")
    /\ \E n \in Fds :
        /\ \A m \in Fds : m >= n => h[Fd(Proc(t), m)] = None
        /\ n > 0 => h[Fd(Proc(t), n - 1)] # None
        /\ op' = [op EXCEPT ![t].fd = n, ![t].pc = IF op[t].n = 0 THEN "lookup" ELSE "addfd"]
    /\ UNCHANGED <<h, cnt, data, used, alive, calls>>

\* add_fd, under the table's write lock; a handle that it replaces is returned
\* and dropped by the caller.
AddFd(t) ==
    /\ At(t, "addfd") /\ ~Copied(Proc(t))
    /\ Swap(Tmp(t, op[t].n), Fd(Proc(t), op[t].fd))
    /\ Goto(t, "added")
    /\ UNCHANGED <<data, used, alive, calls>>

\* The old handle is dropped; pipe goes on with its second end.
Added(t) ==
    /\ At(t, "added")
    /\ IF h[Tmp(t, op[t].n)] # None THEN Drop(Tmp(t, op[t].n)) ELSE UNCHANGED <<h, cnt>>
    /\ IF op[t].n = 1 /\ h[Tmp(t, 2)] # None
       THEN op' = [op EXCEPT ![t].pc = "nextfd", ![t].n = 2] ELSE Return(t)
    /\ UNCHANGED <<data, used, alive, calls>>

\* dup to a given descriptor, or (new = MaxFd) to the next one, which is
\* chosen before the old one is looked up.
Dup(t, old, new) ==
    /\ Enter(t, IF new = MaxFd THEN Start("nextfd", new, old, 0, "no")
                ELSE Start("lookup", new, old, 0, "given"))
    /\ UNCHANGED <<h, cnt, data, used, alive>>

DupLookup(t) ==
    /\ At(t, "lookup")
    /\ LET s == Fd(Proc(t), op[t].old) IN
       IF h[s] = None THEN Return(t) /\ UNCHANGED <<h, cnt>>
       ELSE Clone(s, Tmp(t, 1)) /\ op' = [op EXCEPT ![t].pc = "addfd", ![t].n = 1]
    /\ UNCHANGED <<data, used, alive, calls>>

\* remove_fd moves the handle out of the table, its drop follows.
Close(t, n) ==
    /\ h[Fd(Proc(t), n)] # None /\ ~Copied(Proc(t))
    /\ Enter(t, Start("drop", 0, 0, 0, "no"))
    /\ Swap(Tmp(t, 1), Fd(Proc(t), n))
    /\ UNCHANGED <<data, used, alive>>

\* The end of a call that holds a handle.
DropTmp(t) ==
    /\ At(t, "drop")
    /\ Drop(Tmp(t, 1))
    /\ Return(t)
    /\ UNCHANGED <<data, used, alive, calls>>

-----------------------------------------------------------------------------
(* read, write, seek: the handle in the table is cloned first *)

IO(t, n, kind, len, mode) ==
    /\ h[Fd(Proc(t), n)] # None
    /\ Enter(t, Start(kind, n, 0, len, mode))
    /\ Clone(Fd(Proc(t), n), Tmp(t, 1))
    /\ UNCHANGED <<data, used, alive>>

File(t) == h[Tmp(t, 1)]
IsEnd(t, e) == File(t) \in Ends /\ File(t)[2] = e
IsRam(t) == File(t) # None /\ File(t)[2] = "ram"
Least(a, b) == IF a < b THEN a ELSE b

\* is_at_end; a pipe reports the greatest size and is never at its end.
AtEnd(t) ==
    /\ At(t, "read")
    /\ Goto(t, IF IsRam(t) /\ ram <= cur[File(t)[1]] THEN "drop" ELSE "first")
    /\ UNCHANGED <<h, cnt, data, used, alive, calls>>

\* What read does when it has got n bytes: the first attempt returns them, or
\* nothing if it may not wait; later ones wait until there is something, or
\* until the time is up.
Got(t, n) ==
    \/ /\ n > 0 \/ op[t].mode = "no" \/ (At(t, "again") /\ op[t].mode = "timed")
       /\ Goto(t, "drop")
    \/ /\ n = 0 /\ op[t].mode # "no"
       /\ Goto(t, IF At(t, "first") THEN "waiter" ELSE "asleep")

\* Mutant: an empty pipe is taken for one without writers.
PipeReadEmptyEnds(t) ==
    /\ At(t, "first") \/ At(t, "again")
    /\ File(t) \in Ends
    /\ LET p == File(t)[1]
           n == Least(op[t].n, Len(buf[p]))
       IN \/ /\ buf[p] = <<>>
             /\ eof' = eof \cup {p}
             /\ Goto(t, "drop")
             /\ UNCHANGED <<buf, got>>
          \/ /\ buf[p] # <<>>
             /\ buf' = [buf EXCEPT ![p] = SubSeq(@, n + 1, Len(@))]
             /\ got' = [got EXCEPT ![p] = @ + n]
             /\ Got(t, n)
             /\ UNCHANGED eof
    /\ UNCHANGED <<h, cnt, sent, ram, cur, used, alive, calls>>

\* Pipe::read.  File lets a writer read, so both ends do.
PipeRead(t) ==
    /\ At(t, "first") \/ At(t, "again")
    /\ File(t) \in Ends
    /\ LET p == File(t)[1]
           n == Least(op[t].n, Len(buf[p]))
       IN \/ /\ buf[p] = <<>> /\ cnt[<<p, "w">>] = 0
             /\ eof' = eof \cup {p}
             /\ Goto(t, "drop")
             /\ UNCHANGED <<buf, got>>
          \/ /\ ~(buf[p] = <<>> /\ cnt[<<p, "w">>] = 0)
             /\ buf' = [buf EXCEPT ![p] = SubSeq(@, n + 1, Len(@))]
             /\ got' = [got EXCEPT ![p] = @ + n]
             /\ Got(t, n)
             /\ UNCHANGED eof
    /\ UNCHANGED <<h, cnt, sent, ram, cur, used, alive, calls>>

\* The second lookup of read, for the wait condition; a pipe names the queue
\* Lock(descriptor).  The descriptor may have been closed meanwhile.
Waiter(t) ==
    /\ At(t, "waiter")
    /\ Goto(t, IF h[Fd(Proc(t), op[t].fd)] = None THEN "drop" ELSE "again")
    /\ UNCHANGED <<h, cnt, data, used, alive, calls>>

\* Only a timer wakes the reader: no code posts an event for a Lock queue, nor
\* for the path of a RAM file.
TimerWakes(t) ==
    /\ At(t, "asleep") /\ op[t].mode = "timed"
    /\ op' = [op EXCEPT ![t].pc = "again", ![t].mode = "no"]
    /\ UNCHANGED <<h, cnt, data, used, alive, calls>>

\* Mutant: the length is not cut to the room.
PipeWriteUncut(t) ==
    /\ At(t, "write") /\ IsEnd(t, "w")
    /\ LET p == File(t)[1]
           n == IF Cap > Len(buf[p]) THEN op[t].n ELSE 0
       IN /\ sent[p] + n <= MaxBytes
          /\ buf' = [buf EXCEPT ![p] = @ \o [i \in 1..n |-> sent[p] + i]]
          /\ sent' = [sent EXCEPT ![p] = @ + n]
    /\ Goto(t, "drop")
    /\ UNCHANGED <<h, cnt, got, eof, ram, cur, used, alive, calls>>

\* Mutant: write reports the length it was given, not what it pushed.
PipeWriteReportsAll(t) ==
    /\ At(t, "write") /\ IsEnd(t, "w")
    /\ LET p == File(t)[1]
           n == IF Cap > Len(buf[p]) THEN Least(Cap - Len(buf[p]), op[t].n) ELSE 0
       IN /\ sent[p] + op[t].n <= MaxBytes
          /\ buf' = [buf EXCEPT ![p] = @ \o [i \in 1..n |-> sent[p] + i]]
          /\ sent' = [sent EXCEPT ![p] = @ + op[t].n]
    /\ Goto(t, "drop")
    /\ UNCHANGED <<h, cnt, got, eof, ram, cur, used, alive, calls>>

\* As much as there is room for; StorageFull when there is none.
PipeWrite(t) ==
    /\ At(t, "write") /\ IsEnd(t, "w")
    /\ LET p == File(t)[1]
           n == IF Cap > Len(buf[p]) THEN Least(Cap - Len(buf[p]), op[t].n) ELSE 0
       IN /\ sent[p] + n <= MaxBytes
          /\ buf' = [buf EXCEPT ![p] = @ \o [i \in 1..n |-> sent[p] + i]]
          /\ sent' = [sent EXCEPT ![p] = @ + n]
    /\ Goto(t, "drop")
    /\ UNCHANGED <<h, cnt, got, eof, ram, cur, used, alive, calls>>

\* The read end has no write permission.
WriteDenied(t) ==
    /\ At(t, "write") /\ IsEnd(t, "r")
    /\ Goto(t, "drop")
    /\ UNCHANGED <<h, cnt, data, used, alive, calls>>

\* RamFile::read at the cursor that was loaded; the cursor is advanced later,
\* by a fetch_add.  A read past the end, after the file has shrunk, is an error.
RamRead(t) ==
    /\ At(t, "first") \/ At(t, "again")
    /\ IsRam(t)
    /\ LET c == cur[File(t)[1]]
           n == Least(op[t].n, ram - c)
       IN \/ c > ram /\ Goto(t, "drop")
          \/ c = ram /\ Got(t, 0)
          \/ c < ram /\ op' = [op EXCEPT ![t].pc = "advance", ![t].n = n]
    /\ UNCHANGED <<h, cnt, data, used, alive, calls>>

\* RamFile::write extends the file, with a gap of zeros if need be.
RamWrite(t) ==
    /\ At(t, "write") /\ IsRam(t)
    /\ LET end == cur[File(t)[1]] + op[t].n
       IN end <= MaxBytes /\ ram' = IF end > ram THEN end ELSE ram
    /\ Goto(t, "advance")
    /\ UNCHANGED <<h, cnt, buf, sent, got, eof, cur, used, alive, calls>>

Advance(t) ==
    /\ At(t, "advance")
    /\ cur' = [cur EXCEPT ![File(t)[1]] = @ + op[t].n]
    /\ Goto(t, "drop")
    /\ UNCHANGED <<h, cnt, buf, sent, got, eof, ram, used, alive, calls>>

Seek(t) ==
    /\ At(t, "seek")
    /\ cur' = IF IsRam(t) THEN [cur EXCEPT ![File(t)[1]] = op[t].n] ELSE cur
    /\ Goto(t, "drop")
    /\ UNCHANGED <<h, cnt, buf, sent, got, eof, ram, used, alive, calls>>

-----------------------------------------------------------------------------
(* spawn_process: the child's table, one descriptor action at a time *)

Building(t) == op[t].pc \in {"inherit", "action", "insert", "dropold", "clear", "fail"}

\* One child is built at a time, and one is ever added: a bound of the model.
Spawn(t, actions) ==
    /\ t \in Threads /\ ~alive /\ \A u \in Threads : ~Building(u)
    /\ Enter(t, [Idle EXCEPT !.pc = "inherit", !.left = actions])
    /\ UNCHANGED <<h, cnt, data, used, alive>>

\* with_default_files clones the parent's table into the child's, in the order
\* of the descriptors, and holds the parent's read lock meanwhile.
InheritOne(t) ==
    /\ At(t, "inherit")
    /\ \E n \in Fds :
        /\ h[Fd(Parent, n)] # None /\ n >= op[t].fd
        /\ \A m \in Fds : op[t].fd <= m /\ m < n => h[Fd(Parent, m)] = None
        /\ Clone(Fd(Parent, n), Fd(Child, n))
        /\ op' = [op EXCEPT ![t].fd = n + 1]
    /\ UNCHANGED <<data, used, alive, calls>>

InheritDone(t) ==
    /\ At(t, "inherit")
    /\ \A n \in Fds : n >= op[t].fd => h[Fd(Parent, n)] = None
    /\ Goto(t, "action")
    /\ UNCHANGED <<h, cnt, data, used, alive, calls>>

\* FDAction::Dup and Inherit clone a handle into a temporary, then with_file
\* inserts it and drops what was there; without the source spawn fails.
ActionClone(t) ==
    /\ At(t, "action") /\ op[t].left # <<>>
    /\ LET a == Head(op[t].left)
           s == Fd(IF a.do = "dup" THEN Child ELSE Parent, a.from)
       IN /\ a.do \in {"dup", "inherit"}
          /\ IF h[s] = None THEN Goto(t, "fail") /\ UNCHANGED <<h, cnt>>
             ELSE Clone(s, Tmp(t, 1)) /\ Goto(t, "insert")
    /\ UNCHANGED <<data, used, alive, calls>>

\* FDAction::Open, which may fail.
ActionOpen(t) ==
    /\ At(t, "action") /\ op[t].left # <<>>
    /\ Head(op[t].left).do = "open"
    /\ \/ Goto(t, "fail") /\ UNCHANGED <<h, used, cur>>
       \/ \E r \in Rams \ used :
            /\ h' = [h EXCEPT ![Tmp(t, 1)] = <<r, "ram">>]
            /\ used' = used \cup {r}
            /\ cur' = [cur EXCEPT ![r] = 0]
            /\ Goto(t, "insert")
    /\ UNCHANGED <<cnt, buf, sent, got, eof, ram, alive, calls>>

ActionInsert(t) ==
    /\ At(t, "insert")
    /\ Swap(Tmp(t, 1), Fd(Child, Head(op[t].left).to))
    /\ op' = [op EXCEPT ![t].pc = "dropold", ![t].left = Tail(@)]
    /\ UNCHANGED <<data, used, alive, calls>>

\* FDAction::Close takes the handle out of the child's table.
ActionClose(t) ==
    /\ At(t, "action") /\ op[t].left # <<>>
    /\ Head(op[t].left).do = "close"
    /\ Swap(Tmp(t, 1), Fd(Child, Head(op[t].left).to))
    /\ op' = [op EXCEPT ![t].pc = "dropold", ![t].left = Tail(@)]
    /\ UNCHANGED <<data, used, alive, calls>>

DropOld(t) ==
    /\ At(t, "dropold")
    /\ IF h[Tmp(t, 1)] # None THEN Drop(Tmp(t, 1)) ELSE UNCHANGED <<h, cnt>>
    /\ Goto(t, "action")
    /\ UNCHANGED <<data, used, alive, calls>>

\* FDAction::Clear, and the drop of the builder when spawn fails, drop the
\* child's handles one by one.
ActionClear(t) ==
    /\ At(t, "action") /\ op[t].left # <<>>
    /\ Head(op[t].left).do = "clear"
    /\ op' = [op EXCEPT ![t].pc = "clear", ![t].left = Tail(@)]
    /\ UNCHANGED <<h, cnt, data, used, alive, calls>>

ClearOne(t) ==
    /\ At(t, "clear") \/ At(t, "fail")
    /\ \E n \in Fds : h[Fd(Child, n)] # None /\ Drop(Fd(Child, n))
    /\ UNCHANGED <<data, used, op, alive, calls>>

ClearDone(t) ==
    /\ At(t, "clear") \/ At(t, "fail")
    /\ \A n \in Fds : h[Fd(Child, n)] = None
    /\ IF At(t, "clear") THEN Goto(t, "action") ELSE Return(t)
    /\ UNCHANGED <<h, cnt, data, used, alive, calls>>

\* Mutant: a build that fails returns, and its table stays.
SpawnEndsForgets(t) ==
    /\ At(t, "action") /\ op[t].left = <<>>
    /\ \/ alive' = TRUE /\ Return(t)
       \/ alive' = alive /\ Return(t)
    /\ UNCHANGED <<h, cnt, data, used, calls>>

\* The actions are done: the task is built and added, or building it fails.
SpawnEnds(t) ==
    /\ At(t, "action") /\ op[t].left = <<>>
    /\ \/ alive' = TRUE /\ Return(t)
       \/ alive' = alive /\ Goto(t, "fail")
    /\ UNCHANGED <<h, cnt, data, used, calls>>

\* The child is killed: its thread stops where it is.  Neither its table nor
\* the handles it was using are ever dropped.
KillChild ==
    /\ alive /\ ~At(Son, "dead")
    /\ Goto(Son, "dead")
    /\ UNCHANGED <<h, cnt, data, used, alive, calls>>

-----------------------------------------------------------------------------
Call(t) ==
    \/ \E p \in Pipes : Pipe(t, p)
    \/ \E r \in Rams, mode \in {"plain", "append", "truncate"} : Open(t, r, mode)
    \/ \E old \in Fds, new \in 0..MaxFd : Dup(t, old, new)
    \/ \E n \in Fds : Close(t, n)
    \/ \E n \in Fds, len \in Lens, w \in {"no", "timed", "forever"} : IO(t, n, "read", len, w)
    \/ \E n \in Fds, len \in Lens, k \in {"write", "seek"} : IO(t, n, k, len, "no")
    \/ \E as \in Actions : Spawn(t, as)

Step(t) ==
    \/ NextFd(t) \/ AddFd(t) \/ Added(t) \/ DupLookup(t) \/ DropTmp(t)
    \/ AtEnd(t) \/ PipeRead(t) \/ Waiter(t) \/ PipeWrite(t) \/ WriteDenied(t)
    \/ RamRead(t) \/ RamWrite(t) \/ Advance(t) \/ Seek(t)
    \/ InheritOne(t) \/ InheritDone(t) \/ ActionClone(t) \/ ActionOpen(t) \/ ActionInsert(t)
    \/ ActionClose(t) \/ DropOld(t) \/ ActionClear(t) \/ ClearOne(t) \/ ClearDone(t)
    \/ SpawnEnds(t)

Next == KillChild \/ \E t \in Actors : Call(t) \/ Step(t) \/ TimerWakes(t)

Spec == Init /\ [][Next]_vars

\* A thread that is not asleep is scheduled again and again, and time passes.
FairSpec == Spec /\ \A t \in Actors : WF_vars(Step(t)) /\ WF_vars(TimerWakes(t))

-----------------------------------------------------------------------------
TypeOK ==
    /\ h \in [Slots -> AllFiles \cup {None}]
    /\ cnt \in [Ends -> Nat]
    /\ \A p \in Pipes : Len(buf[p]) <= Cap /\ sent[p] <= MaxBytes /\ got[p] <= sent[p]
    /\ eof \subseteq Pipes
    /\ ram \in 0..MaxBytes
    /\ cur \in [Rams -> Nat]
    /\ used \subseteq Pipes \cup Rams
    /\ alive \in BOOLEAN /\ calls \in 0..Calls
    /\ \A t \in Actors : op[t].fd \in 0..MaxFd /\ op[t].n \in Nat

\* Pipe.readers and Pipe.writers count the handles of each end that exist: in
\* every descriptor table, in a builder, or held by a thread inside a system
\* call, whatever it does meanwhile (FileHandle::clone, drop, FileBuilder::finish).
Holders(e) == {s \in Slots : h[s] = e}
HandleCount == \A e \in Ends : cnt[e] = Cardinality(Holders(e))

\* After a read has reported that a pipe has no writers, nothing is ever written
\* to it and no write handle appears ("we will stay empty forever", Pipe::read).
EofIsFinal == \A p \in eof : buf[p] = <<>> /\ Holders(<<p, "w">>) = {}

\* The bytes in a pipe are those written and not yet read, in order, none lost
\* and none twice, with several readers and writers and partial writes.
PipeInOrder ==
    \A p \in Pipes : buf[p] = [i \in 1..(sent[p] - got[p]) |-> got[p] + i]

\* A spawn that fails gives back every handle that it had put into the child's table.
FailedSpawnHoldsNothing ==
    ~alive /\ (\A u \in Threads : ~Building(u)) => \A n \in Fds : h[Fd(Child, n)] = None

\* A reader that sleeps on a pipe is woken once the pipe has something for it
\* (funcs.rs, read: "wait until timeout OR until the watched file is updated").
Sleeps(t, p) == At(t, "asleep") /\ File(t) = <<p, "r">>
ReaderWakes ==
    \A t \in Actors, p \in Pipes : Sleeps(t, p) /\ buf[p] # <<>> ~> ~Sleeps(t, p) \/ buf[p] = <<>>
=============================================================================
