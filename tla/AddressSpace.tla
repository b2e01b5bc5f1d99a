---- MODULE AddressSpace ----
(***************************************************************************)
(* What a process is promised of its address space: every page is mapped   *)
(* the way the last successful call that named it said, and a call changes *)
(* no page it does not name.  A call that fails changes nothing, but for a *)
(* mapping at a fixed place, which may already have removed what was there.*)
(***************************************************************************)
EXTENDS Integers

CONSTANT Pages  \* the page numbers

VARIABLES pages,  \* what is mapped at each page
          call    \* the last call and how it ended

\* no mapping
Nothing == [prot |-> "none", file |-> "none", off |-> -1]

Range(first, end) == {p \in Pages : first <= p /\ p < end}
Set(where, what) == [p \in Pages |-> IF p \in where THEN what[p] ELSE pages[p]]
Removed(where) == [p \in Pages |-> IF p \in where THEN Nothing ELSE pages[p]]

\* a mapping of a file starts at its page pgoff; memory of no file has no place
Mapped(c) == [p \in Pages |-> [prot |-> c.prot, file |-> c.file,
                               off |-> IF c.file = "none" THEN 0 ELSE c.pgoff + (p - c.start)]]

MapPages(c) ==
    /\ c.op = "mmap"
    /\ \/ c.ok /\ pages' = Set(Range(c.start, c.end), Mapped(c))
       \/ ~c.ok /\ pages' \in {pages, IF c.fixed THEN Removed(Range(c.start, c.end)) ELSE pages}
UnmapPages(c) ==
    /\ c.op = "munmap"
    /\ pages' = IF c.ok THEN Removed(Range(c.start, c.end)) ELSE pages
ProtectPages(c) ==
    /\ c.op = "mprotect"
    /\ pages' = IF c.ok THEN [p \in Pages |-> IF p \in Range(c.start, c.end) THEN [pages[p] EXCEPT !.prot = c.prot]
                                              ELSE pages[p]]
                ELSE pages

Next == MapPages(call') \/ UnmapPages(call') \/ ProtectPages(call')

Spec == [][Next]_<<pages, call>>
====
