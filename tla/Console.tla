------------------------------ MODULE Console ------------------------------
(***************************************************************************)
(* From a key press to the screen: the keyboard interrupt fills a ring of  *)
(* scancodes (drivers/keyboard/queue.rs); every process reads it through a *)
(* cursor of its own, kept in a map behind a read-write lock               *)
(* (devices/tty/source.rs); scancodes become one or several bytes          *)
(* (drivers/tty/mod.rs); what is written to the standard output goes       *)
(* through a queue that a driver thread empties (devices/tty/sink.rs).     *)
(*                                                                         *)
(* Interrupts come between any two steps of a thread.  A key is its number *)
(* in the order of presses, so the slot of a cursor holds the last key     *)
(* with that number modulo the size of the ring.                           *)
(***************************************************************************)
EXTENDS Naturals, Sequences

CONSTANTS
    Threads,
    Procs,
    Homes,       \* the ways in which threads belong to processes: thread -> process
    Out,         \* process -> the sink of its standard output
    SIZE,        \* STDIN_QUEUE_SIZE
    Lens,        \* lengths of the buffers that threads read into
    WordSize,    \* usize arithmetic is modulo this
    Texts,       \* what may be typed: sequences of keys
    MaxKeys,     \* bound on the key presses
    Calls        \* bound on the reads

Sinks == {"serial", "fb"}
\* What a scancode stands for, and the bytes it is worth to a reader: nothing, a
\* character, Escape or Backspace, a sequence as that of an arrow key.
Keys == {"release", "char", "control", "sequence"}
Bytes(k) == CASE k = "release" -> 0 [] k \in {"char", "control"} -> 1 [] OTHER -> 3
None == "none"

ASSUME ConsoleAssumption ==
    /\ SIZE \in Nat \ {0} /\ MaxKeys \in Nat /\ Calls \in Nat
    /\ WordSize \in Nat /\ WordSize > MaxKeys + SIZE
    /\ Lens \subseteq Nat \ {0} /\ None \notin Threads
    /\ \A x \in Texts : x \in Seq(Keys) /\ Len(x) <= MaxKeys
    /\ Homes \subseteq [Threads -> Procs] /\ Out \in [Procs -> Sinks]

VARIABLES
    proc,      \* thread -> its process
    build,     \* the profile: "dev" checks arithmetic, "release" wraps
    typed,     \* the keys pressed so far
    stdin,     \* process -> the cursors in open_files: {} or {c}
    off,       \* process -> the cursor of its file for the standard input
    wrt, rdr,  \* the lock of open_files: its writer, its readers
    th,        \* thread -> where it is in a read, and what it has read
    got,       \* process -> the keys its reads have returned
    steady,    \* processes that have read one call at a time, from offset 0, without
               \* falling behind the ring or losing their cursor
    queue,     \* sink -> what is written and not yet shown
    tty,       \* the sink the driver thread is flushing
    said,      \* thread -> how much it has written
    shown,     \* thread -> how much of that has been put out
    calls
input == <<typed, stdin, off, wrt, rdr, got, steady>>
output == <<queue, tty, said, shown>>
world == <<proc, build>>
vars == <<world, input, output, th, calls>>

Call(pc, len, offset, keys) == [pc |-> pc, len |-> len, at |-> 0, off |-> offset, keys |-> keys]
Idle == Call("idle", 0, 0, <<>>)

Init ==
    /\ proc \in Homes /\ build \in {"dev", "release"}
    /\ typed = <<>>
    /\ stdin = [p \in Procs |-> {}] /\ off = [p \in Procs |-> 0]
    /\ wrt = None /\ rdr = {}
    /\ th = [t \in Threads |-> Idle]
    /\ got = [p \in Procs |-> <<>>] /\ steady = Procs
    /\ queue = [s \in Sinks |-> <<>>] /\ tty = "serial"
    /\ said = [t \in Threads |-> 0] /\ shown = [t \in Threads |-> 0]
    /\ calls = Calls

-----------------------------------------------------------------------------
(* The ring *)
count == Len(typed)
SatSub(a, b) == IF a > b THEN a - b ELSE 0
cursor_is_valid(c) == SatSub(count, SIZE) <= c /\ c < count
is_up_to_date(c) == count = c
get_current == (count + WordSize - 1) % WordSize

\* The key in the slot of a cursor.
Slot(c) == CHOOSE k \in 1..count : (k - 1) % SIZE = c % SIZE /\ k + SIZE > count

\* keyboard_interrupt_handler, put_scancode; the events it posts are WaitManager's.
KeyPress(k) ==
    /\ \E x \in Texts : count < Len(x) /\ Append(typed, k) = SubSeq(x, 1, count + 1)
    /\ typed' = Append(typed, k)
    /\ steady' = {p \in steady : \A c \in stdin[p] : count + 1 <= c + SIZE}
    /\ UNCHANGED <<world, stdin, off, wrt, rdr, got, output, th, calls>>

-----------------------------------------------------------------------------
(* A read of the standard input: File::read_continuous, then read_buf of    *)
(* StdInFileFactory and of the process's OwnedStdin.                        *)
At(t, l) == th[t].pc = l
Goto(t, l) == th' = [th EXCEPT ![t].pc = l]
P(t) == proc[t]
Cursor(t) == CHOOSE c \in stdin[P(t)] : TRUE
InCall(p) == {t \in Threads : proc[t] = p /\ th[t].pc \notin {"idle", "echo"}}
Dead == {t \in Threads : th[t].pc = "dead"}

Read(t, len) ==
    /\ At(t, "idle") /\ calls > 0 /\ calls' = calls - 1
    /\ th' = [th EXCEPT ![t] = Call("check", len, off[P(t)], <<>>)]
    /\ steady' = IF off[P(t)] = 0 /\ InCall(P(t)) = {} THEN steady ELSE steady \ {P(t)}
    /\ UNCHANGED <<world, typed, stdin, off, wrt, rdr, got, output>>

\* sys_seek back to the start of the file.
Seek(t) ==
    /\ At(t, "idle") /\ off' = [off EXCEPT ![P(t)] = 0]
    /\ UNCHANGED <<world, typed, stdin, wrt, rdr, got, steady, output, th, calls>>

\* Mutant: the guard of the test lives on while the map is written.
CheckKeepsGuard(t) ==
    /\ At(t, "check") /\ wrt = None
    /\ IF stdin[P(t)] # {} THEN Goto(t, "load") /\ UNCHANGED rdr
       ELSE Goto(t, "insert") /\ rdr' = rdr \cup {t}
    /\ UNCHANGED <<world, typed, stdin, off, wrt, got, steady, output, calls>>

\* ensure_init looks under the read lock ...
Check(t) ==
    /\ At(t, "check") /\ wrt = None
    /\ Goto(t, IF stdin[P(t)] # {} THEN "load" ELSE "insert")
    /\ UNCHANGED <<world, input, output, calls>>

\* ... and inserts under the write lock. Before the first key, get_current
\* overflows: a checked build panics with the lock held, and the thread is
\* killed without dropping it.
InsertCursor(t) ==
    /\ At(t, "insert") /\ wrt = None /\ rdr = {}
    /\ IF count = 0 /\ build = "dev"
       THEN Goto(t, "dead") /\ wrt' = t /\ UNCHANGED <<stdin, steady>>
       ELSE /\ stdin' = [stdin EXCEPT ![P(t)] = {get_current}]
            /\ steady' = IF count > 0 /\ stdin[P(t)] = {} THEN steady ELSE steady \ {P(t)}
            /\ Goto(t, "load") /\ UNCHANGED wrt
    /\ UNCHANGED <<world, typed, off, rdr, got, output, calls>>

\* The call returns n keys, worth bytes bytes.
Return(t, keys, bytes) ==
    /\ rdr' = rdr \ {t}
    /\ got' = [got EXCEPT ![P(t)] = @ \o keys]
    /\ off' = [off EXCEPT ![P(t)] = @ + bytes]
    /\ th' = [th EXCEPT ![t] = Call(IF keys = <<>> THEN "idle" ELSE "echo", 0, 0, keys)]

\* delegate takes the read lock for the rest of the call.
LoadCursor(t) ==
    /\ At(t, "load") /\ wrt = None
    /\ IF is_up_to_date((Cursor(t) + th[t].off) % WordSize)
       THEN Return(t, <<>>, 0)
       ELSE /\ rdr' = rdr \cup {t}
            /\ th' = [th EXCEPT ![t].pc = "valid", ![t].at = (Cursor(t) + th[t].off) % WordSize, ![t].off = 0]
            /\ UNCHANGED <<off, got>>
    /\ UNCHANGED <<world, typed, stdin, wrt, steady, output, calls>>

\* A cursor outside the ring is set to a place within it.
Validate(t) ==
    /\ At(t, "valid")
    /\ IF cursor_is_valid(th[t].at) THEN UNCHANGED stdin
       ELSE stdin' = [stdin EXCEPT ![P(t)] = {SatSub(get_current, IF th[t].len < SIZE THEN th[t].len ELSE SIZE)}]
    /\ Goto(t, "start")
    /\ UNCHANGED <<world, typed, off, wrt, rdr, got, steady, output, calls>>

Start(t) ==
    /\ At(t, "start")
    /\ th' = [th EXCEPT ![t].pc = "test", ![t].at = Cursor(t)]
    /\ UNCHANGED <<world, input, output, calls>>

\* readn: the loop tests the cursor, then loads its slot.
Test(t) ==
    /\ At(t, "test")
    /\ Goto(t, IF cursor_is_valid(th[t].at) /\ Len(th[t].keys) < th[t].len THEN "fetch" ELSE "advance")
    /\ UNCHANGED <<world, input, output, calls>>

Fetch(t) ==
    /\ At(t, "fetch")
    /\ th' = [th EXCEPT ![t].pc = "test", ![t].at = @ + 1, ![t].keys = Append(@, Slot(th[t].at))]
    /\ UNCHANGED <<world, input, output, calls>>

\* Mutant: the cursor moves by one key, however many were read.
AdvanceByOne(t) ==
    /\ At(t, "advance")
    /\ stdin' = [stdin EXCEPT ![P(t)] = {(Cursor(t) + (IF th[t].keys = <<>> THEN 0 ELSE 1)) % WordSize}]
    /\ Goto(t, "map")
    /\ UNCHANGED <<world, typed, off, wrt, rdr, got, steady, output, calls>>

Advance(t) ==
    /\ At(t, "advance")
    /\ stdin' = [stdin EXCEPT ![P(t)] = {(Cursor(t) + Len(th[t].keys)) % WordSize}]
    /\ Goto(t, "map")
    /\ UNCHANGED <<world, typed, off, wrt, rdr, got, steady, output, calls>>

\* Mutant: a sequence is written as far as it fits.
MapKeyPartly(k, space) == IF Bytes(k) <= space THEN Bytes(k) ELSE space

\* map_key: the bytes written for a key; a character that does not fit panics in
\* encode_utf8, anything else is refused.
NoSpace == 4
Panics == 5
MapKey(k, space) ==
    CASE Bytes(k) <= space -> Bytes(k)
      [] Bytes(k) > space /\ k = "char" -> Panics
      [] OTHER -> NoSpace

\* The loop over the scancodes: the keys mapped, their bytes, how it ended.
MapNone == [keys |-> <<>>, bytes |-> 0, end |-> 0]
MapNext(r, key, len) ==
    LET m == MapKey(typed[key], len - r.bytes)
    IN  CASE r.end # 0 -> r
          [] r.end = 0 /\ m \in {NoSpace, Panics} -> [keys |-> r.keys, bytes |-> r.bytes, end |-> m]
          [] OTHER -> [keys |-> IF m = 0 THEN r.keys ELSE Append(r.keys, key), bytes |-> r.bytes + m, end |-> 0]
MapLoop(keys, len) ==
    LET go[i \in 0..Len(keys)] == IF i = 0 THEN MapNone ELSE MapNext(go[i - 1], keys[i], len)
    IN  go
Mapped(keys, len) == MapLoop(keys, len)[Len(keys)]

\* A panic kills the thread, which keeps the read lock.
MapKeys(t) ==
    LET r == Mapped(th[t].keys, th[t].len) IN
    /\ At(t, "map")
    /\ IF r.end = Panics THEN Goto(t, "dead") /\ UNCHANGED <<rdr, got, off>>
       ELSE Return(t, r.keys, r.bytes)
    /\ UNCHANGED <<world, typed, stdin, wrt, steady, output, calls>>

-----------------------------------------------------------------------------
(* The standard output *)

\* __write_stdout, TTYSink::write: one push at a time.
Echo(t) ==
    /\ At(t, "echo")
    /\ queue' = [queue EXCEPT ![Out[P(t)]] = Append(@, <<t, said[t] + 1>>)]
    /\ said' = [said EXCEPT ![t] = @ + 1]
    /\ th' = [th EXCEPT ![t].keys = Tail(@), ![t].pc = IF Len(th[t].keys) = 1 THEN "idle" ELSE "echo"]
    /\ UNCHANGED <<world, input, tty, shown, calls>>

\* Mutant: flush takes what was written last.
FlushLast(s) ==
    /\ tty = s /\ queue[s] # <<>>
    /\ queue' = [queue EXCEPT ![s] = SubSeq(@, 1, Len(@) - 1)]
    /\ LET item == queue[s][Len(queue[s])] IN shown' = [shown EXCEPT ![item[1]] = item[2]]
    /\ UNCHANGED <<world, input, tty, said, th, calls>>

\* TTYSink::flush by the driver thread.
Flush(s) ==
    /\ tty = s /\ queue[s] # <<>>
    /\ queue' = [queue EXCEPT ![s] = Tail(@)]
    /\ LET item == Head(queue[s]) IN shown' = [shown EXCEPT ![item[1]] = item[2]]
    /\ UNCHANGED <<world, input, tty, said, th, calls>>

\* start_tty_backend: the loop over the sinks; it yields at its end.
NextSink(s) ==
    /\ tty = s /\ queue[s] = <<>>
    /\ tty' = IF s = "serial" THEN "fb" ELSE "serial"
    /\ UNCHANGED <<world, input, queue, said, shown, th, calls>>

Reading(t) ==
    \/ Check(t) \/ InsertCursor(t) \/ LoadCursor(t) \/ Validate(t) \/ Start(t)
    \/ Test(t) \/ Fetch(t) \/ Advance(t) \/ MapKeys(t) \/ Echo(t)
Driver == \E s \in Sinks : Flush(s) \/ NextSink(s)

Next ==
    \/ \E k \in Keys : KeyPress(k)
    \/ \E t \in Threads : Reading(t) \/ Seek(t) \/ \E len \in Lens : Read(t, len)
    \/ Driver

Spec == Init /\ [][Next]_vars
\* Round robin runs every thread.
FairSpec == Spec /\ \A t \in Threads : WF_vars(Reading(t))

-----------------------------------------------------------------------------
(* Properties *)
Increasing(s) == \A i, j \in DOMAIN s : i < j => s[i] < s[j]

\* Every variable has its type, the lock of open_files is never held by a reader
\* and a writer, and a cursor stays a usize.
TypeOK ==
    /\ typed \in Seq(Keys) /\ count <= MaxKeys
    /\ \A p \in Procs : stdin[p] \subseteq 0..(WordSize - 1) /\ \A c, d \in stdin[p] : c = d
    /\ wrt \in Threads \cup {None} /\ rdr \subseteq Threads /\ (wrt # None => rdr = {})
    /\ \A t \in Threads : Len(th[t].keys) <= th[t].len \/ th[t].pc \in {"echo"}
    /\ steady \subseteq Procs /\ tty \in Sinks

\* A process that reads one call at a time, goes back to offset 0 before each, and
\* never lets the ring overtake its cursor, gets keys in the order they were
\* pressed and none of them twice, whatever is pressed during its calls and
\* whatever the others read.
SteadyReaderGetsEachKeyOnce == \A p \in steady : Increasing(got[p])

\* What the first i of these keys are worth.
BytesUpTo(keys) ==
    LET sum[i \in 0..Len(keys)] == IF i = 0 THEN 0 ELSE sum[i - 1] + Bytes(typed[keys[i]])
    IN  sum

\* A call never returns more bytes than its buffer holds, and a key is returned
\* whole or not at all.
KeysAreWhole ==
    \A t \in Threads : At(t, "map") =>
        LET r == Mapped(th[t].keys, th[t].len)
        IN  r.bytes = BytesUpTo(r.keys)[Len(r.keys)] /\ r.bytes <= th[t].len

\* What a thread has written and is not yet shown is in the queue of its sink, in
\* the order in which it was written, and nothing is there twice.
ShownInOrder ==
    \A t \in Threads :
        LET q == queue[Out[P(t)]] IN
        /\ \A n \in (shown[t] + 1)..said[t] : \E i \in DOMAIN q : q[i] = <<t, n>>
        /\ \A i \in DOMAIN q : q[i][1] = t => q[i][2] \in (shown[t] + 1)..said[t]
        /\ \A i, j \in DOMAIN q : i < j /\ q[i][1] = t /\ q[j][1] = t => q[i][2] < q[j][2]

\* The lock of open_files is held for reading by the threads that are reading
\* under it and by some that were killed there, for writing only by one that was
\* killed there: whoever waits for the lock holds no part of it.
UnderGuard == {"valid", "start", "test", "fetch", "advance", "map"}
GuardsAreLive ==
    /\ \A t \in Threads : (th[t].pc \in UnderGuard => t \in rdr) /\ (t \in rdr => th[t].pc \in UnderGuard \cup {"dead"})
    /\ wrt # None => th[wrt].pc = "dead"

\* A read returns, unless a thread was killed inside one: open_files' lock is
\* taken twice in a row by the first read of a process, and shared by all.
ReadsReturn ==
    \A t \in Threads : (th[t].pc = "check") ~> (th[t].pc \in {"idle", "echo"} \/ Dead # {})
=============================================================================
