--------------------------------- MODULE Fs ---------------------------------
(***************************************************************************)
(* The file systems of the kernel: the VFS with its mount table, the RAM   *)
(* file system (directories, files, symbolic links, permissions, a         *)
(* read-write lock per node) and the proc file system, whose directories   *)
(* cache what the device registry holds.                                   *)
(*                                                                         *)
(* A call runs in steps, one per lock section; a guard that the code keeps *)
(* over several steps (the parent while a link is followed, the child      *)
(* while it is unlinked) is held in wr or rd until the call returns.       *)
(***************************************************************************)
EXTENDS Paths, FiniteSets

CONSTANTS
    Threads,
    MaxNode,       \* bound on the nodes that ever exist
    PathSet,       \* paths that the threads name
    OpenOpts,      \* sets of OpenOptions that they use
    UnlinkOpts,    \* sets of UnlinkOptions
    PermSets,      \* permissions that set_perm is given
    MountPoints,   \* paths at which something is mounted later
    DevPaths,      \* paths of devices, rooted in the proc file system
    Lengths,       \* lengths of names, for listing a directory
    Calls          \* bound on the number of calls

None == 0
Ram == 1           \* the root directory of the RAM file system
Proc == 2          \* the root directory of the proc file system
Nodes == 1..MaxNode
PathRam == <<"", "ram">>
PathProc == <<"", "proc">>

\* "path to device must be rooted in proc, ie start with the proc's root, NOT
\* with the path to proc": no mount is an ancestor of a device's path.
ASSUME FsAssumption ==
    /\ MaxNode >= 2 /\ None \notin Threads
    /\ \A m \in MountPoints \cup {PathRam, PathProc}, d \in DevPaths : ~IsPrefix(m, d)

VARIABLES
    mounts,   \* the mount table: path -> root of a file system
    node,     \* node -> [kind, fs, perm, ent, tgt, dev]; kind "free" before it is made
    reg,      \* the device registry: path -> device
    devices,  \* the paths of the devices registered so far; a device is its number
    wr, rd,   \* the lock of each node: its writer, its readers
    op,       \* the call each thread is in
    hd,       \* the last file each thread opened, and the options it gave
    gone,     \* nodes that unlink has removed
    calls
vars == <<mounts, node, reg, devices, wr, rd, op, hd, gone, calls>>
locks == <<wr, rd>>
registry == <<reg, devices>>

NoEntries == [k \in {} |-> None]
Free == [kind |-> "free", fs |-> None, perm |-> {}, ent |-> NoEntries, tgt |-> Root, dev |-> None]
RamFile(kind, perm) == [Free EXCEPT !.kind = kind, !.fs = Ram, !.perm = perm]
ram_dir == RamFile("dir", {"r", "w", "x"})
ram_file == RamFile("file", {"r", "w"})
empty_ram_link == RamFile("link", {"r", "w"})
proc_dir == [Free EXCEPT !.kind = "dir", !.fs = Proc]
proc_file(d) == [Free EXCEPT !.kind = "file", !.fs = Proc, !.dev = d]

Idle == [pc |-> "idle", call |-> "idle", fs |-> None, path |-> Root, opts |-> {}, left |-> <<>>,
         cur |-> None, child |-> None, dev |-> None]
NoFile == [node |-> None, opts |-> {}]

\* fs::init.
Init ==
    /\ mounts = (PathRam :> Ram) @@ (PathProc :> Proc)
    /\ node = [n \in Nodes |-> CASE n = Ram -> ram_dir [] n = Proc -> proc_dir [] OTHER -> Free]
    /\ reg = [p \in {} |-> None] /\ devices = <<>>
    /\ wr = [n \in Nodes |-> None] /\ rd = [n \in Nodes |-> {}]
    /\ op = [t \in Threads |-> Idle] /\ hd = [t \in Threads |-> NoFile]
    /\ gone = {} /\ calls = Calls

-----------------------------------------------------------------------------
(* Locks, results and entries *)
At(t, l) == op[t].pc = l
Goto(t, l) == op' = [op EXCEPT ![t].pc = l]
Flag(t, o) == o \in op[t].opts
Name(t) == <<FileName(op[t].path)>>
IsDir(n) == node[n].kind = "dir"

CanRead(n) == wr[n] = None

\* Mutant: a writer does not wait for readers.
CanWriteShared(n) == wr[n] = None

CanWrite(n) == wr[n] = None /\ rd[n] = {}
Keep == UNCHANGED locks

\* The call returns and drops every guard it holds: with an error (or nothing
\* to return), or with a file.
Release(t) ==
    /\ wr' = [n \in Nodes |-> IF wr[n] = t THEN None ELSE wr[n]]
    /\ rd' = [n \in Nodes |-> rd[n] \ {t}]
Fail(t) == Release(t) /\ op' = [op EXCEPT ![t] = Idle] /\ UNCHANGED hd
Finish(t, n) ==
    /\ Release(t) /\ op' = [op EXCEPT ![t] = Idle]
    /\ hd' = [hd EXCEPT ![t] = [node |-> n, opts |-> op[t].opts]]
Step(t, l) == Goto(t, l) /\ Keep /\ UNCHANGED hd

Has(d, k) == k \in DOMAIN node[d].ent
LeastFree(nd) == CHOOSE n \in Nodes : nd[n].kind = "free" /\ \A m \in 1..(n - 1) : nd[m].kind # "free"
CanMake == \E n \in Nodes : node[n].kind = "free"
Insert(nd, d, k, new) ==
    LET n == LeastFree(nd) IN [nd EXCEPT ![n] = new, ![d].ent = (k :> n) @@ @]
RemoveEntry(d, k) ==
    /\ node' = [node EXCEPT ![d].ent = [x \in DOMAIN @ \ {k} |-> @[x]]]
    /\ gone' = gone \cup {node[d].ent[k]}

\* DirData::ensure_entry: the entry, made when it is missing.
Entry(d, k) == IF Has(d, k) THEN node[d].ent[k] ELSE LeastFree(node)

\* Mutant: an existing entry is replaced.
EnsureReplaces(d, k, new) == CanMake /\ node' = Insert(node, d, k, new)

Ensure(d, k, new) ==
    IF Has(d, k) THEN UNCHANGED node ELSE CanMake /\ node' = Insert(node, d, k, new)

-----------------------------------------------------------------------------
(* The VFS: find the mount; its file system walks to the target's parent.  *)

\* From the mount point on, with the rest of the path; more says which nodes
\* the caller goes on holding.
Resolve(t, call, p, opts, more) ==
    LET at == DeepestMatchingMount(DOMAIN mounts, p)
    IN  IF at = {} THEN Fail(t)
        ELSE LET a == CHOOSE a \in at : TRUE
                 rest == StripPrefix(p, a)
                 todo == CASE call = "flush" /\ node[mounts[a]].fs = Proc -> Tail(rest)
                           [] call # "flush" /\ HasParent(rest) -> Tail(Parent(rest))
                           [] OTHER -> <<>>
             IN  /\ op' = [op EXCEPT ![t] =
                        [Idle EXCEPT !.pc = IF todo = <<>> THEN call ELSE "walk", !.call = call,
                                     !.fs = node[mounts[a]].fs, !.path = rest, !.opts = opts,
                                     !.left = todo, !.cur = mounts[a]]]
                 /\ rd' = [n \in Nodes |-> IF n \in more THEN rd[n] \cup {t} ELSE rd[n]]
                 /\ UNCHANGED <<hd, wr>>

\* VFS::open: the root of all paths is the VFS itself.
OpenPath(t, p, opts, more) ==
    IF IsEmptyPath(p)
    THEN Release(t) /\ op' = [op EXCEPT ![t] = Idle] /\ hd' = [hd EXCEPT ![t] = [node |-> None, opts |-> opts]]
    ELSE Resolve(t, "open", p, opts, more)

Call == calls > 0 /\ calls' = calls - 1

Open(t, p, opts) ==
    /\ At(t, "idle") /\ Call
    /\ OpenPath(t, p, opts, {})
    /\ UNCHANGED <<mounts, node, gone, registry>>

\* fs::rm.
Unlink(t, p, opts) ==
    /\ At(t, "idle") /\ Call
    /\ Resolve(t, "unlink", p, opts, {})
    /\ UNCHANGED <<mounts, node, gone, registry>>

\* VFS::flush; it creates the directories of the path.
Flush(t, p) ==
    /\ At(t, "idle") /\ Call
    /\ Resolve(t, "flush", p, {"CREATE_ALL"}, {})
    /\ UNCHANGED <<mounts, node, gone, registry>>

\* VFS::mount replaces what is mounted there, and reports that as an error.
Mount(p, root) ==
    /\ Call /\ mounts' = (p :> root) @@ mounts
    /\ UNCHANGED <<node, registry, locks, op, hd, gone>>

Unmount(p) ==
    /\ Call /\ p \in DOMAIN mounts
    /\ mounts' = [q \in DOMAIN mounts \ {p} |-> mounts[q]]
    /\ UNCHANGED <<node, registry, locks, op, hd, gone>>

-----------------------------------------------------------------------------
(* RamFS: traverse to the parent of the target.  *)
InRam(t, l) == At(t, l) /\ op[t].fs = Ram
fixed == <<mounts, registry, calls>>
Perm(n, p) == p \in node[n].perm
Next1(t) == <<Head(op[t].left)>>

\* One component further; the one before the target is looked at no more.
Down(t, n) ==
    /\ op' = [op EXCEPT ![t].cur = n, ![t].left = Tail(@),
                        ![t].pc = IF Len(op[t].left) = 1 THEN op[t].call ELSE "enter"]
    /\ Keep /\ UNCHANGED hd

\* with_dir: under the read lock.
RamWalk(t) ==
    LET d == op[t].cur IN
    /\ InRam(t, "walk") /\ ~Flag(t, "CREATE_ALL") /\ CanRead(d)
    /\ IF IsDir(d) /\ Has(d, Next1(t)) THEN Down(t, node[d].ent[Next1(t)]) ELSE Fail(t)
    /\ UNCHANGED <<fixed, node, gone>>

\* with_mut_dir: the permission under the read lock, the entry under the write lock.
RamWalkCheck(t) ==
    /\ InRam(t, "walk") /\ Flag(t, "CREATE_ALL") /\ CanRead(op[t].cur)
    /\ IF Perm(op[t].cur, "w") THEN Step(t, "make") ELSE Fail(t)
    /\ UNCHANGED <<fixed, node, gone>>

RamWalkMake(t) ==
    LET d == op[t].cur IN
    /\ InRam(t, "make") /\ CanWrite(d)
    /\ IF IsDir(d) THEN Ensure(d, Next1(t), ram_dir) /\ Down(t, Entry(d, Next1(t)))
       ELSE Fail(t) /\ UNCHANGED node
    /\ UNCHANGED <<fixed, gone>>

RamEnter(t) ==
    LET d == op[t].cur IN
    /\ InRam(t, "enter") /\ CanRead(d)
    /\ IF IsDir(d) /\ Perm(d, "x") THEN Step(t, "walk") ELSE Fail(t)
    /\ UNCHANGED <<fixed, node, gone>>

chk_perms(opts, perm) ==
    /\ "READ" \in opts => "r" \in perm
    /\ "WRITE" \in opts => "w" \in perm
    /\ "EXECUTE" \in opts => "x" \in perm

\* RamFS::open. The root is handed out as it is.
RamOpenRoot(t) ==
    /\ InRam(t, "open") /\ ~HasParent(op[t].path)
    /\ Finish(t, op[t].cur)
    /\ UNCHANGED <<fixed, node, gone>>

\* The parent's write lock is taken and kept.
Hold(t, n, l) ==
    /\ op' = [op EXCEPT ![t].child = n, ![t].pc = l]
    /\ wr' = [wr EXCEPT ![op[t].cur] = t] /\ UNCHANGED <<rd, hd>>

\* What open makes when the entry is missing; nothing without a CREATE option.
Created(t) ==
    CASE Flag(t, "CREATE_DIR") -> {ram_dir}
      [] ~Flag(t, "CREATE_DIR") /\ Flag(t, "CREATE_LINK") -> {empty_ram_link}
      [] {"CREATE_DIR", "CREATE_LINK"} \cap op[t].opts = {} /\ {"CREATE", "CREATE_ALL"} \cap op[t].opts # {} -> {ram_file}
      [] OTHER -> {}

RamOpen(t) ==
    LET d == op[t].cur
        k == Name(t)
        missing == IsDir(d) /\ ~Has(d, k)
    IN  /\ InRam(t, "open") /\ HasParent(op[t].path) /\ CanWrite(d)
        /\ \/ /\ ~IsDir(d) \/ ~Perm(d, "x") \/ (Created(t) # {} /\ missing /\ ~Perm(d, "w"))
              /\ Fail(t) /\ UNCHANGED node
           \/ /\ IsDir(d) /\ Perm(d, "x") /\ (Created(t) # {} /\ missing => Perm(d, "w"))
              /\ \/ /\ EndsWithSep(op[t].path)
                    /\ IF chk_perms(op[t].opts, node[d].perm) THEN Finish(t, d) ELSE Fail(t)
                    /\ UNCHANGED node
                 \/ /\ ~EndsWithSep(op[t].path) /\ Created(t) # {}
                    /\ \E new \in Created(t) : Ensure(d, k, new)
                    /\ Hold(t, Entry(d, k), "chk")
                 \/ /\ ~EndsWithSep(op[t].path) /\ Created(t) = {}
                    /\ IF missing THEN Fail(t) ELSE Hold(t, node[d].ent[k], "entry")
                    /\ UNCHANGED node
        /\ UNCHANGED <<fixed, gone>>

\* A link is followed with the parent's and the link's guards held.
RamEntry(t) ==
    LET n == op[t].child IN
    /\ InRam(t, "entry") /\ CanRead(n)
    /\ IF node[n].kind = "link" /\ ~Flag(t, "NO_FOLLOW")
       THEN OpenPath(t, node[n].tgt, op[t].opts, {n})
       ELSE Step(t, "chk")
    /\ UNCHANGED <<fixed, node, gone>>

\* Mutant: the permissions of the parent decide.
RamChkParent(t) ==
    /\ InRam(t, "chk") /\ CanRead(op[t].child)
    /\ IF chk_perms(op[t].opts, node[op[t].cur].perm) THEN Finish(t, op[t].child) ELSE Fail(t)
    /\ UNCHANGED <<fixed, node, gone>>

RamChk(t) ==
    LET n == op[t].child IN
    /\ InRam(t, "chk") /\ CanRead(n)
    /\ IF chk_perms(op[t].opts, node[n].perm) THEN Finish(t, n) ELSE Fail(t)
    /\ UNCHANGED <<fixed, node, gone>>

-----------------------------------------------------------------------------
(* RamFS::unlink: five lock sections after the walk.  *)
ForceRoot == {"NO_PRESERVE_ROOT", "FORCE", "RECURSIVE"}

RamUnlink(t) ==
    LET d == op[t].cur IN
    /\ InRam(t, "unlink") /\ CanRead(d)
    /\ IF (HasParent(op[t].path) \/ ForceRoot \subseteq op[t].opts) /\ Perm(d, "w") /\ Perm(d, "x")
       THEN Step(t, "uget") ELSE Fail(t)
    /\ UNCHANGED <<fixed, node, gone>>

RamUnlinkGet(t) ==
    LET d == op[t].cur IN
    /\ InRam(t, "uget") /\ CanRead(d)
    /\ IF IsDir(d) /\ Has(d, Name(t))
       THEN op' = [op EXCEPT ![t].child = node[d].ent[Name(t)], ![t].pc = "ukind"] /\ Keep /\ UNCHANGED hd
       ELSE Fail(t)
    /\ UNCHANGED <<fixed, node, gone>>

\* Mutant: the child is locked for writing before it is removed.
RamUnlinkKindWrites(t) ==
    LET n == op[t].child IN
    /\ InRam(t, "ukind") /\ CanWrite(n)
    /\ IF IF IsDir(n) THEN Flag(t, "RECURSIVE") ELSE ~EndsWithSep(op[t].path)
       THEN wr' = [wr EXCEPT ![n] = t] /\ Goto(t, "uperm") /\ UNCHANGED <<rd, hd>>
       ELSE Fail(t)
    /\ UNCHANGED <<fixed, node, gone>>

\* The child's read guard is held until it is removed.
RamUnlinkKind(t) ==
    LET n == op[t].child IN
    /\ InRam(t, "ukind") /\ CanRead(n)
    /\ IF IF IsDir(n) THEN Flag(t, "RECURSIVE") ELSE ~EndsWithSep(op[t].path)
       THEN rd' = [rd EXCEPT ![n] = @ \cup {t}] /\ Goto(t, "uperm") /\ UNCHANGED <<wr, hd>>
       ELSE Fail(t)
    /\ UNCHANGED <<fixed, node, gone>>

RamUnlinkPerm(t) ==
    /\ InRam(t, "uperm") /\ CanRead(op[t].cur)
    /\ IF Perm(op[t].cur, "w") THEN Step(t, "udel") ELSE Fail(t)
    /\ UNCHANGED <<fixed, node, gone>>

RamUnlinkRemove(t) ==
    LET d == op[t].cur IN
    /\ InRam(t, "udel") /\ CanWrite(d)
    /\ IF Has(d, Name(t)) THEN RemoveEntry(d, Name(t)) ELSE UNCHANGED <<node, gone>>
    /\ Fail(t)
    /\ UNCHANGED fixed

-----------------------------------------------------------------------------
(* ProcFS: directories cache the devices of the registry.  *)
InProc(t, l) == At(t, l) /\ op[t].fs = Proc

\* traverse: each component but the last has to be a directory.
ProcWalk(t) ==
    LET d == op[t].cur
        n == Entry(d, Next1(t))
        mid == Len(op[t].left) > 1
    IN  /\ InProc(t, "walk")
        /\ \/ /\ IsDir(d) /\ Flag(t, "CREATE_ALL")
              /\ Ensure(d, Next1(t), proc_dir)
              /\ IF mid /\ Has(d, Next1(t)) /\ ~IsDir(n) THEN Fail(t)
                 ELSE op' = [op EXCEPT ![t].cur = n, ![t].left = Tail(@), ![t].pc = IF mid THEN "walk" ELSE op[t].call]
                      /\ Keep /\ UNCHANGED hd
           \/ /\ ~IsDir(d) \/ ~Flag(t, "CREATE_ALL")
              /\ IF IsDir(d) /\ Has(d, Next1(t)) /\ (mid => IsDir(n))
                 THEN op' = [op EXCEPT ![t].cur = n, ![t].left = Tail(@), ![t].pc = IF mid THEN "walk" ELSE op[t].call]
                      /\ Keep /\ UNCHANGED hd
                 ELSE Fail(t)
              /\ UNCHANGED node
        /\ UNCHANGED <<fixed, gone>>

\* ProcFS::open up to the short path of get_or_update.
ProcOpen(t) ==
    LET d == op[t].cur
        p == op[t].path
    IN  /\ InProc(t, "open")
        /\ \/ /\ ~HasParent(p) \/ (IsDir(d) /\ EndsWithSep(p))
              /\ Finish(t, d) /\ UNCHANGED node
           \/ HasParent(p) /\ ~IsDir(d) /\ Fail(t) /\ UNCHANGED node
           \/ /\ HasParent(p) /\ IsDir(d) /\ ~EndsWithSep(p) /\ Flag(t, "CREATE_DIR")
              /\ Ensure(d, Name(t), proc_dir) /\ Finish(t, Entry(d, Name(t)))
           \/ /\ HasParent(p) /\ IsDir(d) /\ ~EndsWithSep(p) /\ ~Flag(t, "CREATE_DIR")
              /\ IF Has(d, Name(t)) THEN Finish(t, node[d].ent[Name(t)]) ELSE Step(t, "lookup")
              /\ UNCHANGED node
        /\ UNCHANGED <<fixed, gone>>

\* Mutant: any device whose path ends in the name.
ProcLookupName(t) ==
    /\ InProc(t, "lookup")
    /\ LET named == {p \in DOMAIN reg : FileName(p) = FileName(op[t].path)}
       IN  IF named # {}
           THEN /\ \E p \in named : op' = [op EXCEPT ![t].dev = reg[p], ![t].pc = "insert"]
                /\ Keep /\ UNCHANGED hd
           ELSE Fail(t)
    /\ UNCHANGED <<fixed, node, gone>>

\* get_or_update asks the registry ...
ProcLookup(t) ==
    LET p == op[t].path IN
    /\ InProc(t, "lookup")
    /\ IF p \in DOMAIN reg
       THEN op' = [op EXCEPT ![t].dev = reg[p], ![t].pc = "insert"] /\ Keep /\ UNCHANGED hd
       ELSE Fail(t)
    /\ UNCHANGED <<fixed, node, gone>>

\* ... and puts the answer into the directory; an entry made meanwhile is
\* replaced, and reported as an error.
ProcInsert(t) ==
    /\ InProc(t, "insert") /\ CanMake
    /\ node' = Insert(node, op[t].cur, Name(t), proc_file(op[t].dev))
    /\ IF Has(op[t].cur, Name(t)) THEN Fail(t) ELSE Finish(t, LeastFree(node))
    /\ UNCHANGED <<fixed, gone>>

\* ProcFS::unlink.
ProcUnlink(t) ==
    LET d == op[t].cur
        p == op[t].path
        allowed == IF HasParent(p) THEN EndsWithSep(p) => Flag(t, "RECURSIVE") ELSE ForceRoot \subseteq op[t].opts
    IN  /\ InProc(t, "unlink")
        /\ IF allowed /\ IsDir(d) /\ Has(d, Name(t)) /\ (IsDir(node[d].ent[Name(t)]) => Flag(t, "RECURSIVE"))
           THEN Step(t, "udel") ELSE Fail(t)
        /\ UNCHANGED <<fixed, node, gone>>

ProcRemove(t) ==
    LET d == op[t].cur IN
    /\ InProc(t, "udel")
    /\ IF Has(d, Name(t)) THEN RemoveEntry(d, Name(t)) ELSE UNCHANGED <<node, gone>>
    /\ Fail(t)
    /\ UNCHANGED fixed

\* ProcFS::flush copies every device below the path into the directory, under
\* the rest of its path. With a trailing '/' the rest has no '/' to strip.
ProcFlush(t) ==
    LET d == op[t].cur
        below == {p \in DOMAIN reg : IsPrefix(op[t].path, p)}
        key(p) == StripPrefix(p, op[t].path)
    IN  /\ InProc(t, "flush")
        /\ IF IsDir(d) /\ ~EndsWithSep(op[t].path)
           THEN /\ Cardinality({n \in Nodes : node[n].kind = "free"}) >= Cardinality(below)
                /\ node' = FoldSet(LAMBDA p, nd : Insert(nd, d, key(p), proc_file(reg[p])), node, below)
           ELSE UNCHANGED node
        /\ Fail(t)
        /\ UNCHANGED <<fixed, gone>>

\* RamFS::flush has nothing to do.
RamFlush(t) ==
    /\ InRam(t, "flush")
    /\ Fail(t)
    /\ UNCHANGED <<fixed, node, gone>>

\* DeviceRegistry::register replaces a device of the same path, and reports that
\* as an error.
Register(p) ==
    /\ Call /\ devices' = Append(devices, p)
    /\ reg' = (p :> Len(devices')) @@ reg
    /\ UNCHANGED <<mounts, node, locks, op, hd, gone>>

\* DeviceRegistry::deregister. The unlink of the device's path that follows finds
\* no mount, which counts as "not yet registered in vfs".
Deregister(p) ==
    /\ Call /\ p \in DOMAIN reg
    /\ reg' = [q \in DOMAIN reg \ {p} |-> reg[q]]
    /\ UNCHANGED <<mounts, node, devices, locks, op, hd, gone>>

-----------------------------------------------------------------------------
(* Calls on an open file.  *)

\* update_perms; of the three strategies AND and OR are the overwriting of
\* another set. Only RAM files implement it.
SetPerm(t, perm) ==
    LET n == hd[t].node IN
    /\ At(t, "idle") /\ Call /\ n # None /\ node[n].fs = Ram /\ CanWrite(n)
    /\ node' = [node EXCEPT ![n].perm = perm]
    /\ UNCHANGED <<mounts, registry, locks, op, hd, gone>>

\* Writing to a link sets its target.
WriteLink(t, p) ==
    LET n == hd[t].node IN
    /\ At(t, "idle") /\ Call /\ n # None /\ node[n].kind = "link" /\ "WRITE" \in hd[t].opts /\ CanWrite(n)
    /\ node' = [node EXCEPT ![n].tgt = p]
    /\ UNCHANGED <<mounts, registry, locks, op, hd, gone>>

Step1(t) ==
    \/ RamWalk(t) \/ RamWalkCheck(t) \/ RamWalkMake(t) \/ RamEnter(t)
    \/ RamOpenRoot(t) \/ RamOpen(t) \/ RamEntry(t) \/ RamChk(t)
    \/ RamUnlink(t) \/ RamUnlinkGet(t) \/ RamUnlinkKind(t) \/ RamUnlinkPerm(t) \/ RamUnlinkRemove(t)
    \/ ProcWalk(t) \/ ProcOpen(t) \/ ProcLookup(t) \/ ProcInsert(t)
    \/ ProcUnlink(t) \/ ProcRemove(t) \/ ProcFlush(t) \/ RamFlush(t)

Next ==
    \/ \E t \in Threads :
          \/ Step1(t)
          \/ \E p \in PathSet, o \in OpenOpts : Open(t, p, o)
          \/ \E p \in PathSet, o \in UnlinkOpts : Unlink(t, p, o)
          \/ \E p \in PathSet : Flush(t, p) \/ WriteLink(t, p)
          \/ \E perm \in PermSets : SetPerm(t, perm)
    \/ \E m \in MountPoints : Mount(m, Ram) \/ Mount(m, Proc) \/ Unmount(m)
    \/ \E p \in DevPaths : Register(p) \/ Deregister(p)

Spec == Init /\ [][Next]_vars

-----------------------------------------------------------------------------
(* Properties *)
Made == {n \in Nodes : node[n].kind # "free"}
Pcs == {"idle", "walk", "make", "enter", "open", "entry", "chk", "unlink", "uget", "ukind",
        "uperm", "udel", "lookup", "insert", "flush"}

\* Every variable has its type; entries lead to nodes of the same file system,
\* and no node is read and written at the same time.
TypeOK ==
    /\ \A p \in DOMAIN mounts : mounts[p] \in {Ram, Proc}
    /\ \A n \in Nodes :
          /\ node[n].kind \in {"free", "dir", "file", "link"}
          /\ node[n].perm \subseteq {"r", "w", "x"}
          /\ \A k \in DOMAIN node[n].ent :
                node[n].ent[k] \in Made /\ node[node[n].ent[k]].fs = node[n].fs
          /\ wr[n] \in Threads \cup {None} /\ rd[n] \subseteq Threads
          /\ wr[n] # None => rd[n] \subseteq {wr[n]}
    /\ \A p \in DOMAIN reg : reg[p] \in 1..Len(devices)
    /\ \A t \in Threads : op[t].pc \in Pcs /\ hd[t].node \in Made \cup {None}
    /\ gone \subseteq Made /\ calls \in 0..Calls

\* The nodes below n.
RECURSIVE Below(_)
Below(n) == {n} \cup UNION {Below(node[n].ent[k]) : k \in DOMAIN node[n].ent}

\* No file is lost: whatever open has made in the RAM file system is reached from
\* its root or from something that unlink removed, however the lock sections of
\* opens, unlinks and permission changes interleave (ensure_entry never replaces
\* an entry).
NoOrphan ==
    {n \in Made : node[n].fs = Ram} \subseteq Below(Ram) \cup UNION {Below(n) : n \in gone}

\* The node whose lock a thread waits for, as a writer (in wantw) or a reader.
Wants(t) == IF op[t].pc \in {"entry", "chk", "ukind"} THEN op[t].child ELSE op[t].cur
AsWriter(t) == op[t].pc \in {"make", "udel"} \/ (op[t].pc = "open" /\ HasParent(op[t].path))
Locking(t) == op[t].fs = Ram /\ op[t].pc \notin {"idle", "flush"} /\ (At(t, "open") => HasParent(op[t].path))
WaitsFor(t, u) ==
    /\ Locking(t)
    /\ wr[Wants(t)] = u \/ (AsWriter(t) /\ u \in rd[Wants(t)])
\* A thread that has followed a link holds guards of an earlier open.
ThroughLink(t) == \E n \in Nodes : t \in rd[n] /\ node[n].kind = "link" /\ op[t].call = "open"
RECURSIVE Blockers(_, _)
Blockers(S, seen) ==
    LET more == {u \in Threads : \E t \in S : WaitsFor(t, u)} \ seen
    IN  IF more = {} THEN seen ELSE Blockers(more, seen \cup more)
Stuck == {t \in Threads : t \in Blockers({t}, {})}

\* Threads never wait for each other's node locks in a circle, unless one of
\* them is following a symbolic link: open locks from the parent down, and
\* unlink holds its child's lock for reading only while it waits for the parent.
DeadlockOnlyBehindLinks == Stuck # {} => \E t \in Stuck : ThroughLink(t)

\* A file is handed out only when the permissions it has at that moment allow
\* every access the options ask for, also when it was reached through a link or
\* its permissions changed while the call was waiting (chk_perms under the locks).
GrantedIsAllowed ==
    [][\A t \in Threads :
          LET n == hd'[t].node
          IN  (hd'[t] # hd[t] /\ n \notin {None, Ram} /\ node'[n].fs = Ram)
                 => chk_perms(hd'[t].opts, node'[n].perm)]_vars

\* A directory of the proc file system never holds, under the name of one device,
\* the device of another path: what get_or_update inserts after its lookup is
\* what was registered for exactly this path, whatever was registered,
\* deregistered, opened or unlinked in between.
CacheHoldsItsDevice ==
    \A k \in DOMAIN node[Proc].ent :
        LET n == node[Proc].ent[k]
        IN  (Len(k) = 1 /\ node[n].kind = "file" /\ k # Root) => devices[node[n].dev] = <<"">> \o k

\* Of the mounts that contain a path, now that some were added and others taken
\* away, open and unlink use the longest one; a path outside every mount has none.
ResolvesToDeepest ==
    \A p \in PathSet :
        LET above == {m \in DOMAIN mounts : IsPrefix(m, p)}
            found == DeepestMatchingMount(DOMAIN mounts, p)
        IN  /\ (found = {}) = (above = {})
            /\ \A m \in found : m \in above /\ \A a \in above : Len(a) <= Len(m)

\* Listing the mounts, or a directory someone has opened, piece by piece, with a
\* buffer that holds some of the names, yields every entry exactly once, whatever
\* the lengths of the names and their order; a file is read to its end from an offset.
ReadsAreComplete ==
    LET opened == {hd[t].node : t \in Threads} \ {None}
        sized(k) == [1..k -> Lengths]
        whole(names) == Bytes(names, Len(names))
    IN  /\ (\E t \in Threads : hd[t].node = None /\ hd[t].opts # {}) =>
              \A names \in sized(Cardinality(DOMAIN mounts)) :
                  /\ VfsDisplay(names) = whole(names)
                  /\ LET n == VfsRead(names, 4, 0)
                     IN  VfsRead(names, whole(names), n) = whole(names) - n
        /\ \A d \in opened : IsDir(d) =>
              \A names \in sized(Cardinality(DOMAIN node[d].ent)) :
                  /\ IF node[d].fs = Ram THEN Display(names, 2, 0) = whole(names)
                     ELSE ProcDisplay(names) = whole(names) /\ ProcRead(names, whole(names)) = whole(names)
                  /\ ReadToEnd(whole(names), 0, 0, Len(names)) = whole(names) - Len(names)
=============================================================================
