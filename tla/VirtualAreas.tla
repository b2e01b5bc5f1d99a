---- MODULE VirtualAreas ----
(***************************************************************************)
(* The areas of a process's memory: mmap, remap_file_pages, munmap, brk,   *)
(* the growth of the stack, what the loader adds and the end of it all,    *)
(* and the merging and splitting they have in common, also in the way      *)
(* mprotect (not in the tree) uses them.  Addresses are page numbers.      *)
(* Every call holds mmap_sem for writing, or for the stack the lock of its *)
(* pages, and is one action.  The red-black tree and the list of areas are *)
(* two views of the set of areas.                                          *)
(***************************************************************************)
EXTENDS Integers, FiniteSets, FiniteSetsExt

CONSTANTS Top,          \* TASK_SIZE in pages
          MinAddr,      \* mmap_min_addr
          Base,         \* mm->mmap_base
          Guard,        \* stack_guard_gap
          MaxMapCount,  \* sysctl_max_map_count
          AsLimit, DataLimit, LockLimit, StackLimit,  \* the resource limits
          CommitLimit,  \* pages security_vm_enough_memory_mm grants
          Files,        \* files that may be mapped, besides "none"
          Places,       \* bound: pages that calls with a fixed place name
          Lengths,      \* bound: lengths asked for
          MayFail,      \* whether the kernel may be out of structures
          DriverFails,  \* whether a file's mmap operation may fail
          MaxCalls      \* bound: calls

VARIABLES mm,       \* the areas, the counters and the break
          topdown,  \* which way mm->get_unmapped_area searches
          call,     \* history: the last call and how it ended
          calls     \* the bound's count

vars == <<mm, topdown, call, calls>>

NoCall == [op |-> "none", start |-> 0, end |-> 0, prot |-> "none", file |-> "none", pgoff |-> 0,
           fixed |-> FALSE, chosen |-> TRUE, ok |-> TRUE]

\* an area; "anon" is its anon_vma, 0 for none
Area(start, end, flags, file, pgoff) ==
    [start |-> start, end |-> end, flags |-> flags, file |-> file, pgoff |-> pgoff, anon |-> 0]

Size(a) == a.end - a.start
First(as) == CHOOSE a \in as : \A b \in as : a.start <= b.start
Last(as) == CHOOSE a \in as : \A b \in as : a.start >= b.start
Above(as, a) == {b \in as : b.start >= a.end}
Below(as, addr) == {b \in as : b.end <= addr}
Overlapping(as, start, end) == {a \in as : a.end > start /\ a.start < end}

IsData(flags) == "write" \in flags /\ flags \cap {"shared", "stack"} = {}
Charge(m, flags, n) ==
    [m EXCEPT !.total = @ + n, !.data = IF IsData(flags) THEN @ + n ELSE @]
MayExpand(m, flags, n) ==
    m.total + n <= AsLimit /\ (IsData(flags) => m.data + n <= DataLimit)

----
(* Merging and splitting *)

\* the area that takes pages over takes their anon_vma over with them
Imports(a, others) ==
    LET anons == {b.anon : b \in others} \ {0}
    IN  IF a.anon = 0 /\ anons # {} THEN [a EXCEPT !.anon = CHOOSE x \in anons : TRUE] ELSE a

\* the boundary between an area and its next one moves to addr
Moved(next, addr) == [next EXCEPT !.start = addr, !.pgoff = @ + (addr - next.start)]

\* area a has become new and covers those of gone, which leave the list: one
\* for each pass, two in case 6
Absorbed(as, a, new, gone) == (as \ (gone \cup {a})) \cup {Imports(new, gone)}

\* __vma_adjust without an insert: a takes start, end and pgoff; what it covers
\* goes, or the next one's boundary moves with its own.  In case 8 it is the
\* next area that is kept.
VmaAdjust(as, a, start, end, pgoff, expand) ==
    LET after == Above(as, a)
        next == First(after)
        covered == {b \in after : b.end <= end}
        new == [a EXCEPT !.start = start, !.end = end, !.pgoff = pgoff]
    IN  CASE covered # {} /\ expand = next ->
               Absorbed(as, next, [next EXCEPT !.start = start, !.pgoff = pgoff], {a})
          [] covered # {} /\ expand # next -> Absorbed(as, a, new, covered)
          [] covered = {} /\ after # {} /\ end > next.start ->
               (as \ {a, next}) \cup {Imports(new, {next}), Moved(next, end)}
          [] covered = {} /\ after # {} /\ end <= next.start /\ end < a.end ->
               (as \ {a, next}) \cup {new, Imports(Moved(next, end), {a})}
          [] OTHER -> (as \ {a}) \cup {new}

\* is_mergeable_vma, with is_mergeable_anon_vma
SameAnon(x, y) == x = 0 \/ y = 0 \/ x = y
Mergeable(a, new) ==
    a.flags = new.flags /\ a.file = new.file /\ "special" \notin a.flags /\ SameAnon(a.anon, new.anon)
CanMergeBefore(a, new) == Mergeable(a, new) /\ a.pgoff = new.pgoff + Size(new)
CanMergeAfter(a, new) == Mergeable(a, new) /\ a.pgoff + Size(a) = new.pgoff

\* the areas before and after a request join over it
MergesBoth(prevs, nexts, new) ==
    \A p \in prevs, n \in nexts :
        /\ p.end = new.start /\ CanMergeAfter(p, new)
        /\ n.start = new.end /\ CanMergeBefore(n, new) /\ SameAnon(p.anon, n.anon)

\* vma_merge: what the areas become with request "new" merged into a
\* neighbour, or {} when it cannot be.  prevs holds the area before it.
VmaMerge(as, prevs, new) ==
    LET area == {a \in {First(S) : S \in {{b \in as : \A p \in prevs : b.start >= p.end}} \ {{}}} : TRUE}
        rest == {b \in as : \A p \in prevs \cup {a \in area : a.end = new.end} : b.start >= p.end}
        nexts == IF rest = {} THEN {} ELSE {First(rest)}
        after == {p \in prevs : p.end = new.start /\ CanMergeAfter(p, new)}
        before == {n \in nexts : n.start = new.end /\ CanMergeBefore(n, new)}
    IN  CASE after # {} /\ nexts # {} /\ MergesBoth(prevs, nexts, new) ->   \* cases 1, 6
               {VmaAdjust(as, p, p.start, First(nexts).end, p.pgoff, p) : p \in after}
          [] after # {} /\ ~(nexts # {} /\ MergesBoth(prevs, nexts, new)) ->  \* cases 2, 5, 7
               {VmaAdjust(as, p, p.start, new.end, p.pgoff, p) : p \in after}
          [] after = {} /\ before # {} /\ (\E p \in prevs : new.start < p.end) ->  \* case 4
               {VmaAdjust(as, p, p.start, new.start, p.pgoff, First(nexts)) : p \in prevs}
          [] after = {} /\ before # {} /\ ~(\E p \in prevs : new.start < p.end) ->  \* cases 3, 8
               {VmaAdjust(as, a, new.start, n.end, n.pgoff - Size(new), n) : a \in area, n \in nexts}
          [] OTHER -> {}

\* Mutant: the upper part starts at the file's offset of the lower one.
SplitSameOffset(as, a, addr) ==
    (as \ {a}) \cup {[a EXCEPT !.end = addr], [a EXCEPT !.start = addr]}

\* __split_vma: the two parts
SplitVma(as, a, addr) ==
    (as \ {a}) \cup {[a EXCEPT !.end = addr],
                     [a EXCEPT !.start = addr, !.pgoff = @ + (addr - a.start)]}

----
(* munmap *)

\* the end of do_munmap: the areas go, and their pages from every count
Detach(m, gone) ==
    LET SumOf(S) == FoldSet(LAMBDA a, n : n + Size(a), 0, S)
    IN  [m EXCEPT !.areas = @ \ gone, !.total = @ - SumOf(gone),
                  !.data = @ - SumOf({a \in gone : IsData(a.flags)}),
                  !.locked = @ - SumOf({a \in gone : "locked" \in a.flags}),
                  !.committed = @ - SumOf({a \in gone : "account" \in a.flags})]

Fails(m) == [mm |-> m, ok |-> FALSE]
Ends(m) == [mm |-> m, ok |-> TRUE]

\* the ways do_munmap may end.  The areas at the two ends are split first; a
\* split that fails leaves the one before it done.
DoMunmap(m, start, end) ==
    LET over == Overlapping(m.areas, start, end)
        first == First(over)
        cutsFirst == over # {} /\ start > first.start
        one == IF cutsFirst THEN [m EXCEPT !.areas = SplitVma(@, first, start)] ELSE m
        cutLast == {a \in one.areas : a.start < end /\ a.end > end}
        two == IF cutLast # {} THEN [one EXCEPT !.areas = SplitVma(@, First(cutLast), end)] ELSE one
    IN  IF cutsFirst /\ end < first.end /\ Cardinality(m.areas) >= MaxMapCount THEN {Fails(m)}
        ELSE {Ends(Detach(two, Overlapping(two.areas, start, end)))}
             \cup (IF MayFail /\ cutsFirst THEN {Fails(m)} ELSE {})
             \cup (IF MayFail /\ cutLast # {} THEN {Fails(one)} ELSE {})

----
(* mmap *)

\* vm_start_gap
StartGap(a) == IF "stack" \in a.flags THEN Max({a.start - Guard, 0}) ELSE a.start
\* the gaps, the last one without end
Gaps(as) ==
    {[from |-> IF Below(as, a.start) = {} THEN 0 ELSE Last(Below(as, a.start)).end, to |-> StartGap(a)] : a \in as}
Highest(as) == IF as = {} THEN 0 ELSE Last(as).end

\* where unmapped_area finds room for len pages in [low, high): the lowest
\* place; {} when there is none
UnmappedArea(as, low, high, len) ==
    LET fits == {Max({g.from, low}) : g \in {g \in Gaps(as) : g.from <= high - len /\ g.to >= low + len
                                                              /\ g.to - g.from >= len}}
                \cup (IF Highest(as) <= high - len THEN {Max({Highest(as), low})} ELSE {})
    IN  IF low > high - len \/ fits = {} THEN {} ELSE {Min(fits)}

\* unmapped_area_topdown: the highest place
UnmappedAreaTopdown(as, low, high, len) ==
    LET fits == {Min({g.to, high}) - len : g \in {g \in Gaps(as) : g.from <= high - len /\ g.to >= low + len
                                                                   /\ g.to - g.from >= len}}
    IN  IF low > high - len THEN {}
        ELSE IF Highest(as) <= high - len THEN {high - len}
        ELSE IF fits = {} THEN {} ELSE {Max(fits)}

\* arch_get_unmapped_area and its top-down form, which falls back to the other
Search(as, len) ==
    IF ~topdown THEN UnmappedArea(as, Base, Top, len)
    ELSE LET top == UnmappedAreaTopdown(as, Max({1, MinAddr}), Base, len)
         IN  IF top # {} THEN top ELSE UnmappedArea(as, Top \div 3, Top, len)
\* get_unmapped_area for a hint, 0 for none
GetUnmappedArea(as, hint, len) ==
    IF /\ hint # 0 /\ Top - len >= hint /\ hint >= MinAddr
       /\ \A a \in {a \in as : a.end > hint} : hint + len <= StartGap(a)
    THEN {hint} ELSE Search(as, len)

\* the private writable mappings are charged for
Accountable(flags) == "write" \in flags /\ "shared" \notin flags

\* vma_link of a new area, or the merge with a neighbour
Linked(m, new) ==
    LET merged == VmaMerge(m.areas, IF Below(m.areas, new.start) = {} THEN {} ELSE {Last(Below(m.areas, new.start))}, new)
    IN  [m EXCEPT !.areas = IF merged = {} THEN @ \cup {new} ELSE CHOOSE as \in merged : TRUE]
Grown(m, new) ==
    LET linked == Charge(Linked(m, new), new.flags, Size(new))
    IN  IF "locked" \in new.flags THEN [linked EXCEPT !.locked = @ + Size(new)] ELSE linked
IsMerged(m, new) == Cardinality(Linked(m, new).areas) <= Cardinality(m.areas)

\* mmap_region, once the place is free, with the ways it may end: the charge
\* refused; no structure; a driver's mmap that fails, where the charge is kept
MapFree(m, new) ==
    LET charged == IF Accountable(new.flags) THEN Size(new) ELSE 0
        area == IF charged = 0 THEN new ELSE [new EXCEPT !.flags = @ \cup {"account"}]
        paid == [m EXCEPT !.committed = @ + charged]
    IN  IF charged > 0 /\ m.committed + charged > CommitLimit THEN {Fails(m)}
        ELSE {Ends(Grown(paid, area))}
             \cup (IF MayFail /\ ~IsMerged(m, area) THEN {Fails(m)} ELSE {})
             \cup (IF DriverFails /\ new.file # "none" /\ ~IsMerged(m, area) THEN {Fails(paid)} ELSE {})
MmapRegion(m, new) ==
    LET over == Overlapping(m.areas, new.start, new.end)
        pages == FoldSet(LAMBDA a, n : n + Min({a.end, new.end}) - Max({a.start, new.start}), 0, over)
    IN  IF ~MayExpand(m, new.flags, Size(new)) /\ ~MayExpand(m, new.flags, Size(new) - pages)
        THEN {Fails(m)}
        ELSE UNION {IF out.ok THEN MapFree(out.mm, new) ELSE {out} : out \in DoMunmap(m, new.start, new.end)}

----
(* The calls *)

Calls(c, outs) ==
    /\ calls < MaxCalls /\ calls' = calls + 1
    /\ \E out \in outs : mm' = out.mm /\ call' = [c EXCEPT !.ok = out.ok]
    /\ UNCHANGED topdown

Prot(flags) == IF "write" \in flags THEN "rw" ELSE IF "read" \in flags THEN "ro" ELSE "no"
LockRefused(flags, len) == "locked" \in flags /\ mm.locked + len > LockLimit

\* do_mmap at a fixed place, over what is there or, with MAP_FIXED_NOREPLACE,
\* not; or anywhere, near a hint
Mmap(addr, len, flags, file, pgoff, fixed, noreplace) ==
    LET places == IF fixed THEN {addr} ELSE GetUnmappedArea(mm.areas, addr, len)
        c(at) == [op |-> "mmap", start |-> at, end |-> at + len, prot |-> Prot(flags), file |-> file,
                  pgoff |-> pgoff, fixed |-> fixed /\ ~noreplace, chosen |-> ~fixed, ok |-> TRUE]
        refused(at) == \/ Cardinality(mm.areas) > MaxMapCount
                       \/ noreplace /\ Overlapping(mm.areas, at, at + len) # {}
                       \/ LockRefused(flags, len)
    IN  IF places = {} THEN Calls(c(0), {Fails(mm)})
        ELSE \E at \in places :
            /\ at + len <= Top
            /\ Calls(c(at), IF refused(at) THEN {Fails(mm)}
                            ELSE MmapRegion(mm, Area(at, at + len, flags, file, IF file = "none" THEN at ELSE pgoff)))

\* remap_file_pages: shared areas of one file, alike and without a hole, cover
\* the range, which is mapped anew from another place of the file
RemapFilePages(start, len, pgoff) ==
    LET over == Overlapping(mm.areas, start, start + len)
        vma == First(over)
    IN  /\ \A p \in start .. start + len - 1 : \E a \in over : a.start <= p /\ p < a.end
        /\ \A a \in over : "shared" \in a.flags /\ a.flags = vma.flags /\ a.file = vma.file
        /\ Mmap(start, len, vma.flags, vma.file, pgoff, TRUE, FALSE)

Munmap(start, len) ==
    Calls([NoCall EXCEPT !.op = "munmap", !.start = start, !.end = start + len], DoMunmap(mm, start, start + len))

\* do_brk_flags
DoBrk(m, start, end) ==
    LET new == Area(start, end, {"read", "write", "account"}, "none", start)
        from(m2) ==
            IF \/ ~MayExpand(m2, new.flags, Size(new)) \/ Cardinality(m2.areas) > MaxMapCount
               \/ m2.committed + Size(new) > CommitLimit
            THEN {Fails(m2)}
            ELSE {Ends(Grown([m2 EXCEPT !.committed = @ + Size(new)], new))}
                 \cup (IF MayFail /\ ~IsMerged(m2, new) THEN {Fails(m2)} ELSE {})
    IN  UNION {IF out.ok THEN from(out.mm) ELSE {out} : out \in DoMunmap(m, start, end)}

\* vm_brk_flags, for the loader of a program
VmBrk(addr, len) ==
    /\ addr + len <= Top
    /\ Calls([NoCall EXCEPT !.op = "mmap", !.start = addr, !.end = addr + len, !.prot = "rw", !.fixed = TRUE,
                           !.chosen = FALSE], DoBrk(mm, addr, addr + len))

\* brk to a lower or a higher page; the new break is kept when it succeeded
WithBrk(outs, brk) == {IF out.ok THEN [out EXCEPT !.mm.brk = brk] ELSE out : out \in outs}
ShrinkBrk(brk) ==
    /\ brk < mm.brk /\ brk >= mm.startBrk
    /\ Calls([NoCall EXCEPT !.op = "munmap", !.start = brk, !.end = mm.brk], WithBrk(DoMunmap(mm, brk, mm.brk), brk))
GrowBrk(brk) ==
    /\ brk > mm.brk /\ brk <= Top
    /\ \A a \in {a \in mm.areas : a.end > mm.brk} : brk + 1 <= StartGap(a)
    /\ Calls([NoCall EXCEPT !.op = "mmap", !.start = mm.brk, !.end = brk, !.prot = "rw"],
             WithBrk(DoBrk(mm, mm.brk, brk), brk))

\* the place expand_downwards may grow to: below it is no accessible mapping
\* nearer than the gap
StackFits(a, addr) ==
    \A p \in Below(mm.areas, a.start) :
        p = Last(Below(mm.areas, a.start)) =>
            p.end <= addr /\ ("stack" \in p.flags \/ Prot(p.flags) = "no" \/ addr - p.end >= Guard)

\* acct_stack_growth
AcctStackGrowth(a, size, grow) ==
    /\ MayExpand(mm, a.flags, grow) /\ size <= StackLimit
    /\ ~LockRefused(a.flags, grow) /\ mm.committed + grow <= CommitLimit

\* find_extend_vma and expand_downwards, from a fault below the stack
ExpandStack(addr) ==
    LET above == {a \in mm.areas : a.end > addr}
        a == First(above)
        grow == a.start - addr
        grown == [a EXCEPT !.start = addr, !.pgoff = @ - grow, !.anon = IF @ = 0 THEN a.end ELSE @]
        ok == /\ addr >= MinAddr /\ StackFits(a, addr) /\ grow <= a.pgoff
              /\ AcctStackGrowth(a, a.end - addr, grow)
        m == Charge([mm EXCEPT !.areas = (@ \ {a}) \cup {grown}, !.committed = @ + grow], a.flags, grow)
    IN  /\ above # {} /\ a.start > addr /\ "stack" \in a.flags
        /\ Calls([NoCall EXCEPT !.op = "mmap", !.start = addr, !.end = a.start, !.prot = Prot(a.flags)],
                 {IF ok THEN Ends(IF "locked" \in a.flags THEN [m EXCEPT !.locked = @ + grow] ELSE m) ELSE Fails(mm)})

\* the anon_vma of an area's first written page; a neighbour's that would merge
\* but for the protection is used again
Fault(a) ==
    LET like(b) == b.file = a.file /\ b.flags \ {"read", "write"} = a.flags \ {"read", "write"}
        near == {b \in mm.areas : /\ b.anon # 0 /\ like(b)
                                  /\ \/ b.start = a.end /\ b.pgoff = a.pgoff + Size(a)
                                     \/ b.end = a.start /\ a.pgoff = b.pgoff + Size(b)}
    IN  /\ a.anon = 0 /\ "write" \in a.flags /\ "shared" \notin a.flags
        /\ mm' = [mm EXCEPT !.areas = (@ \ {a}) \cup
                    {[a EXCEPT !.anon = IF near = {} THEN a.end ELSE (CHOOSE b \in near : TRUE).anon]}]
        /\ UNCHANGED <<topdown, call, calls>>

\* mprotect of pages of one area: charged for when they become private and
\* writable, merged, or else split off
Mprotect(a, start, end, prot) ==
    LET plain == (a.flags \ {"read", "write"}) \cup prot
        charged == IF "write" \in prot /\ plain \cap {"shared", "account"} = {} THEN end - start ELSE 0
        flags == IF charged = 0 THEN plain ELSE plain \cup {"account"}
        new == [a EXCEPT !.start = start, !.end = end, !.flags = flags, !.pgoff = @ + (start - a.start)]
        prevs == IF start > a.start THEN {a}
                 ELSE IF Below(mm.areas, start) = {} THEN {} ELSE {Last(Below(mm.areas, start))}
        merged == VmaMerge(mm.areas, prevs, new)
        kept == {[a EXCEPT !.end = start], [a EXCEPT !.start = end, !.pgoff = @ + (end - a.start)]}
        split == (mm.areas \ {a}) \cup {new} \cup {b \in kept : Size(b) > 0}
        m(as) == Charge(Charge([mm EXCEPT !.areas = as, !.committed = @ + charged], a.flags, start - end), flags, end - start)
        refused == \/ mm.committed + charged > CommitLimit
                   \/ IsData(flags) /\ ~IsData(a.flags) /\ ~MayExpand(mm, flags, end - start)
        full == merged = {} /\ Cardinality(split) > MaxMapCount /\ split # mm.areas
    IN  /\ a.start <= start /\ start < end /\ end <= a.end /\ plain # a.flags
        /\ Calls([NoCall EXCEPT !.op = "mprotect", !.start = start, !.end = end, !.prot = Prot(prot)],
                 IF refused \/ full THEN {Fails(mm)}
                 ELSE {Ends(m(IF merged = {} THEN split ELSE CHOOSE as \in merged : TRUE))})

\* insert_vm_struct: the area stays apart from its neighbours
InsertVmStruct(m, new) ==
    LET charged == IF "account" \in new.flags THEN Size(new) ELSE 0
    IN  IF Overlapping(m.areas, new.start, new.end) # {} \/ m.committed + charged > CommitLimit THEN {Fails(m)}
        ELSE {Ends([m EXCEPT !.areas = @ \cup {new}, !.committed = @ + charged])}

\* the program's loader maps the vdso where there is room, outside every limit
InstallSpecialMapping(len) ==
    LET flags == {"read", "special"}
        new(at) == Area(at, at + len, flags, "vdso", 0)
        outs(at) == {IF out.ok THEN [out EXCEPT !.mm = Charge(@, flags, len)] ELSE out : out \in InsertVmStruct(mm, new(at))}
    IN  /\ calls = 0
        /\ \E at \in GetUnmappedArea(mm.areas, 0, len) :
               Calls([NoCall EXCEPT !.op = "mmap", !.start = at, !.end = at + len, !.prot = "ro", !.file = "vdso"],
                     outs(at) \cup (IF MayFail THEN {Fails(mm)} ELSE {}))

\* exit_mmap, when the last user of the memory has gone: there is no call after it
ExitMmap ==
    /\ mm.areas # {} /\ calls' = MaxCalls
    /\ mm' = [Detach(mm, mm.areas) EXCEPT !.total = 0, !.data = 0, !.locked = 0]
    /\ call' = [NoCall EXCEPT !.op = "munmap", !.end = Top]
    /\ UNCHANGED topdown

Pages == 0 .. Top - 1
Heap == Area(2, 3, {"read", "write", "account"}, "none", 2)
Stack == [Area(Top - 1, Top, {"read", "write", "account", "stack"}, "none", Top - 1) EXCEPT !.anon = Top]

Init ==
    /\ mm = [areas |-> {Heap, Stack}, total |-> 2, data |-> 1, locked |-> 0, committed |-> 2,
             startBrk |-> 2, brk |-> 3]
    /\ topdown \in BOOLEAN /\ call = NoCall /\ calls = 0

Prots == {{}, {"read"}, {"read", "write"}}
Next ==
    \/ \E at \in Places, len \in Lengths :
        \/ Munmap(at, len)
        \/ \E noreplace \in BOOLEAN : Mmap(at, len, {"read", "write"}, "none", 0, TRUE, noreplace)
        \/ VmBrk(at, len)
        \/ \E pgoff \in {0, 1} :
            \/ \E file \in Files : Mmap(at, len, {"read", "shared"}, file, pgoff, TRUE, FALSE)
            \/ RemapFilePages(at, len, pgoff)
        \/ \E a \in mm.areas, prot \in Prots : Mprotect(a, at, at + len, prot)
    \/ \E len \in Lengths : InstallSpecialMapping(len)
    \/ \E hint \in {0} \cup {a.end : a \in {First(S) : S \in {mm.areas} \ {{}}}}, len \in Lengths :
        \/ \E prot \in {{}, {"read", "write"}} : Mmap(hint, len, prot, "none", 0, FALSE, FALSE)
        \/ Mmap(hint, len, {"read", "write", "locked"}, "none", 0, FALSE, FALSE)
        \/ \E file \in Files : Mmap(hint, len, {"read", "write"}, file, 0, FALSE, FALSE)
    \/ \E brk \in Pages : ShrinkBrk(brk) \/ GrowBrk(brk) \/ ExpandStack(brk)
    \/ \E a \in mm.areas : Fault(a)
    \/ ExitMmap

Spec == Init /\ [][Next]_vars

----
(* Properties *)

At(p) == {a \in mm.areas : a.start <= p /\ p < a.end}
PageOf(p) ==
    LET here == At(p)
        a == First(here)
    IN  IF here = {} THEN [prot |-> "none", file |-> "none", off |-> -1]
        ELSE [prot |-> Prot(a.flags), file |-> a.file, off |-> IF a.file = "none" THEN 0 ELSE a.pgoff + (p - a.start)]

\* Merging, splitting and moving boundaries never show: every page is mapped as
\* the calls said, also after a call that failed half-way.
Space == INSTANCE AddressSpace WITH pages <- [p \in Pages |-> PageOf(p)]
MapsAsAsked == Space!Spec

\* The areas are disjoint, private memory keeps its place in its area,
\* the number of areas stays within the limit and the one that mmap may add
\* above it, and the counts of total, data, locked and charged pages are those
\* of the areas.
SumOf(S) == FoldSet(LAMBDA a, n : n + Size(a), 0, S)
AreasCounted ==
    /\ \A a \in mm.areas : a.start < a.end /\ Overlapping(mm.areas, a.start, a.end) = {a}
    /\ \A a \in mm.areas : a.file = "none" => a.pgoff = a.start
    /\ mm.total = SumOf(mm.areas)
    /\ mm.data = SumOf({a \in mm.areas : IsData(a.flags)})
    /\ mm.locked = SumOf({a \in mm.areas : "locked" \in a.flags})
    /\ Cardinality(mm.areas) <= MaxMapCount + 1
    /\ ~DriverFails => mm.committed = SumOf({a \in mm.areas : "account" \in a.flags})

\* What was charged for is what areas account for.
CommittedIsMapped == mm.committed = SumOf({a \in mm.areas : "account" \in a.flags})

\* A place for len pages, clear of every stack's gap, is found whenever there
\* is one, and is such a place.
Clear(at, len) ==
    \A p \in at .. at + len - 1 : At(p) = {} /\ \A a \in mm.areas : ~(StartGap(a) <= p /\ p < a.start)
SearchFindsRoom ==
    \A len \in Lengths :
        LET low == IF topdown THEN Max({1, MinAddr}) ELSE Base
            high == IF topdown THEN Base ELSE Top
            found == Search(mm.areas, len)
        IN  /\ \A at \in found : Clear(at, len) /\ at + len <= Top
            /\ (\E at \in low .. high - len : Clear(at, len)) => found # {}

\* The areas are what the counters say, and the search finds the room between them
\* (mmap.c 675-985, 1973-2146).
AreasSafe == AreasCounted /\ SearchFindsRoom

\* No call that lets the kernel choose, no break and no growth of a stack puts
\* accessible memory into the gap below a stack.
Exposed == {p \in Pages : /\ \E a \in At(p) : Prot(a.flags) # "no" /\ "stack" \notin a.flags
                          /\ \E a \in mm.areas : StartGap(a) <= p /\ p < a.start}
GapKept == [][call'.chosen /\ call'.op = "mmap" /\ calls' # calls => Exposed' \subseteq Exposed]_vars

\* Merging and splitting never show, and what the kernel places by itself stays
\* out of the gap below a stack.
AreasKept == MapsAsAsked /\ GapKept
====
