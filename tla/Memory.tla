------------------------------- MODULE Memory -------------------------------
(***************************************************************************)
(* Physical frames and page tables as pure functions on a memory record:   *)
(* the frame allocator (kernel/mem/paging/alloc.rs), the region mappers    *)
(* (map.rs) and what they ask of the x86_64 crate's Mapper.                *)
(*                                                                         *)
(* A record m has                                                          *)
(*   free   the frames of the allocator's list.  The list is threaded      *)
(*          through the frames in LIFO order; which frame is first is      *)
(*          unobservable, so it is a set and the least frame is taken      *)
(*   twice  the frames that were freed while already in the list           *)
(*   added  how many frames of the boot memory map have entered the list   *)
(*   maps   the mappings, as triples <<space, page, frame>>                *)
(*   tabs   the page-table frames, roots included, as <<space, frame>>     *)
(* Space 0 is the kernel's PAGETABLE, the others are tasks' own tables.    *)
(***************************************************************************)
EXTENDS Naturals, FiniteSets, Sequences, SequencesExt

CONSTANTS
    NFrames,  \* usable 4 KiB frames of the boot memory map
    Batch     \* frames added to the list at a time (10000 in the code)

ASSUME MemoryAssumption == NFrames \in Nat /\ Batch \in Nat \ {0}

Frames == 1..NFrames

\* The frames behind a device's memory, which the allocator never owned.
DeviceFrame == NFrames + 1

Done(m) == [ok |-> TRUE, m |-> m]
Failed(m) == [ok |-> FALSE, m |-> m]

-----------------------------------------------------------------------------
\* The next Batch frames of the memory map, or what is left of it.
AddBatch(m) ==
    LET end == IF m.added + Batch > NFrames THEN NFrames ELSE m.added + Batch IN
    [m EXCEPT !.free = @ \cup (m.added + 1)..end, !.added = end]

\* A batch is added when the list is empty; None when it is still empty.
AllocateFrame(m) ==
    LET n == IF m.free = {} THEN AddBatch(m) ELSE m IN
    IF n.free = {} THEN [ok |-> FALSE, m |-> n, frame |-> 0]
    ELSE [ok |-> TRUE, m |-> [n EXCEPT !.free = @ \ {Min(n.free)}], frame |-> Min(n.free)]

DeallocateFrame(m, f) ==
    [m EXCEPT !.free = @ \cup {f}, !.twice = IF f \in m.free THEN @ \cup {f} ELSE @]

-----------------------------------------------------------------------------
MappedTo(m, s, p) == {x \in m.maps : x[1] = s /\ x[2] = p}
Mapped(m, s, p) == MappedTo(m, s, p) # {}
FrameAt(m, s, p) == (CHOOSE x \in MappedTo(m, s, p) : TRUE)[3]

\* Mapper::map_to takes a frame for a missing intermediate table (tab).
MapTo(m, s, p, f, tab) ==
    LET t == AllocateFrame(m) IN
    CASE ~tab -> Done([m EXCEPT !.maps = @ \cup {<<s, p, f>>}])
      [] tab /\ ~t.ok -> Failed(t.m)
      [] tab /\ t.ok -> Done([t.m EXCEPT !.maps = @ \cup {<<s, p, f>>},
                                         !.tabs = @ \cup {<<s, t.frame>>}])

\* New memory for the pages of a region, in order.  An error leaves the pages
\* mapped so far, and the frame of a failed map_to belongs to nobody.
MapRegion(m, s, pages, tab) ==
    LET Page(acc, p) ==
            LET a == AllocateFrame(acc.m) IN
            CASE ~acc.ok -> acc
              [] acc.ok /\ Mapped(acc.m, s, p) -> Failed(acc.m)
              [] acc.ok /\ ~Mapped(acc.m, s, p) /\ ~a.ok -> Failed(a.m)
              [] OTHER -> MapTo(a.m, s, p, a.frame, tab /\ p = pages[1])
    IN FoldLeft(Page, Done(m), pages)

\* Mutant: unmap_region leaves the page's entry behind.
UnmapRegionKept(m, s, pages) ==
    LET Page(acc, p) ==
            IF ~acc.ok THEN acc
            ELSE IF ~Mapped(acc.m, s, p) THEN Failed(acc.m)
            ELSE Done(DeallocateFrame(acc.m, FrameAt(acc.m, s, p)))
    IN FoldLeft(Page, Done(m), pages)

\* Unmaps the pages in order and frees their frames, up to the first page that
\* is not mapped.
UnmapRegion(m, s, pages) ==
    LET Page(acc, p) ==
            IF ~acc.ok THEN acc
            ELSE IF ~Mapped(acc.m, s, p) THEN Failed(acc.m)
            ELSE Done(DeallocateFrame([acc.m EXCEPT !.maps = @ \ MappedTo(acc.m, s, p)],
                                      FrameAt(acc.m, s, p)))
    IN FoldLeft(Page, Done(m), pages)

\* map_region_into for a device's memory: the donor frame is mapped again, no
\* memory is allocated but for a table.
MapRegionInto(m, s, p, f, tab) ==
    IF Mapped(m, s, p) THEN Failed(m) ELSE MapTo(m, s, p, f, tab)

\* PageMapper::map: a page of the segment that is already mapped is left alone.
\* Failed stands for the unwrap of a missing frame.
MapSegment(m, s, pages, tab) ==
    LET Page(acc, p) ==
            LET a == AllocateFrame(acc.m) IN
            CASE ~acc.ok \/ Mapped(acc.m, s, p) -> acc
              [] acc.ok /\ ~Mapped(acc.m, s, p) /\ ~a.ok -> Failed(a.m)
              [] OTHER -> Done(MapTo(a.m, s, p, a.frame, tab /\ p = pages[1]).m)
    IN FoldLeft(Page, Done(m), pages)

\* A frame for the root of a new address space.
NewRoot(m, s) ==
    LET a == AllocateFrame(m) IN
    IF a.ok THEN Done([a.m EXCEPT !.tabs = @ \cup {<<s, a.frame>>}]) ELSE Failed(a.m)

\* A table frame for a mapping of frames that exist (the heap, a stack).
NewTable(m, s, tab) == IF tab THEN NewRoot(m, s) ELSE Done(m)

\* TaskPageTable::cleanup: the tables are freed; the frames that user pages
\* still map are not.
DropSpace(m, s) ==
    LET tables == {x[2] : x \in {y \in m.tabs : y[1] = s}} IN
    [m EXCEPT !.free = @ \cup tables, !.twice = @ \cup (m.free \cap tables),
              !.maps = {x \in @ : x[1] # s}, !.tabs = {x \in @ : x[1] # s}]

=============================================================================
