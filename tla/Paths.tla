------------------------------- MODULE Paths -------------------------------
(***************************************************************************)
(* Paths and the pure loops of the file systems (kernel/fs/path/mod.rs,    *)
(* vfs/mod.rs, ramfs/mod.rs, procfs/mod.rs, kernel/io/mod.rs).             *)
(*                                                                         *)
(* A path is the sequence of segments into which '/' splits its text:      *)
(* "/ram/a" is <<"", "ram", "a">>, "" (the root) is <<"">>, and a trailing *)
(* '/' is a last segment "".  Names contain no '/' and none is a proper    *)
(* prefix of another.                                                      *)
(***************************************************************************)
EXTENDS Naturals, Sequences, SequencesExt

Root == <<"">>
IsEmptyPath(p) == p \in {<<"">>, <<"", "">>}
EndsWithSep(p) == Len(p) > 1 /\ Last(p) = ""

HasParent(p) == Len(p) > 1
Parent(p) == Front(p)
FileName(p) == IF Len(p) > 1 THEN Last(p) ELSE ""
Ancestors(p) == [i \in 1..Len(p) |-> SubSeq(p, 1, Len(p) - i + 1)]

\* What is left of the text of p after its ancestor a.
StripPrefix(p, a) == <<"">> \o SubSeq(p, Len(a) + 1, Len(p))

\* Mutant: the search starts at the root.
DeepestMatchingMountFirst(points, p) ==
    LET as == Reverse(Ancestors(p))
        hits == {i \in DOMAIN as : as[i] \in points}
    IN  IF hits = {} THEN {} ELSE {as[CHOOSE i \in hits : \A j \in hits : i <= j]}

\* VFS::deepest_matching_mount: the first of the ancestors that is a mount point.
DeepestMatchingMount(points, p) ==
    LET as == Ancestors(p)
        hits == {i \in DOMAIN as : as[i] \in points}
    IN  IF hits = {} THEN {} ELSE {as[CHOOSE i \in hits : \A j \in hits : i <= j]}

-----------------------------------------------------------------------------
(* Listing a directory: names are the lengths of its entries, in order.    *)

\* The bytes of entries 1..k, each followed by a tab.
Bytes(names, k) ==
    LET sum[i \in 0..k] == IF i = 0 THEN 0 ELSE sum[i - 1] + names[i] + 1 IN sum[k]

\* Mutant: an entry that starts at the offset is skipped too.
BufferedDisplaySkips(names, buf, offset) ==
    LET first == CHOOSE i \in 0..Len(names) :
                    /\ Bytes(names, i) > offset \/ i = Len(names)
                    /\ \A j \in 0..(i - 1) : Bytes(names, j) <= offset
        last == CHOOSE i \in first..Len(names) :
                    /\ Bytes(names, i) - Bytes(names, first) <= buf
                    /\ i = Len(names) \/ Bytes(names, i + 1) - Bytes(names, first) > buf
    IN  [n |-> Bytes(names, last) - Bytes(names, first), done |-> last = Len(names)]

\* buffered_display: skip the entries below offset, then write whole entries
\* while they fit; the second result says that none remains.
BufferedDisplay(names, buf, offset) ==
    LET first == CHOOSE i \in 0..Len(names) :
                    /\ Bytes(names, i) >= offset \/ i = Len(names)
                    /\ \A j \in 0..(i - 1) : Bytes(names, j) < offset
        last == CHOOSE i \in first..Len(names) :
                    /\ Bytes(names, i) - Bytes(names, first) <= buf
                    /\ i = Len(names) \/ Bytes(names, i + 1) - Bytes(names, first) > buf
    IN  [n |-> Bytes(names, last) - Bytes(names, first), done |-> last = Len(names)]

\* Display: read on with a buffer that doubles when nothing fits.
RECURSIVE Display(_, _, _)
Display(names, buf, offset) ==
    LET r == BufferedDisplay(names, buf, offset)
    IN  CASE r.done -> r.n
          [] ~r.done /\ r.n = 0 -> Display(names, 2 * buf, offset)
          [] OTHER -> r.n + Display(names, buf, offset + r.n)

\* The VFS and the proc file system have the same loops over their own tables.
\* Reading a proc directory starts at its first entry each time.
VfsRead(names, buf, offset) == BufferedDisplay(names, buf, offset).n
VfsDisplay(names) == Display(names, 2, 0)
ProcRead(names, buf) == BufferedDisplay(names, buf, 0).n
ProcDisplay(names) == Display(names, 2, 0)

\* Read::read_to_end of a file of that size with a buffer of length len.
RECURSIVE ReadToEnd(_, _, _, _)
ReadToEnd(size, len, written, offset) ==
    LET count == IF size - offset <= len - written THEN size - offset ELSE len - written
    IN  IF count # len - written /\ count = 0 THEN written
        ELSE ReadToEnd(size,
                       IF count = len - written THEN 2 * (IF len = 0 THEN 1 ELSE len) ELSE len,
                       written + count, offset + count)
=============================================================================
