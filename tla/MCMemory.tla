------------------------------ MODULE MCMemory ------------------------------
(***************************************************************************)
(* Two processes; two bytes to a page, two pages to a table, three tables  *)
(* for user memory; any one call of kalloc() in a system call may fail.    *)
(***************************************************************************)
EXTENDS Memory

CONSTANTS p1, p2

MCProc == {p1, p2}
\* Segments of which the file has all bytes, and programs of them: a small one; one
\* with two segments, the second partly zeroes; the same cut short; one whose header
\* contradicts itself; one that does not begin on a page; and one whose second
\* segment ends beyond the last address.
Seg(a, mem, file) == [vaddr |-> a, memsz |-> mem, filesz |-> file, held |-> file]
MCImage ==
  { <<Seg(0, 1, 1)>>,
    <<Seg(0, 2, 2), Seg(2, 2, 1)>>,
    <<Seg(0, 2, 2), [Seg(2, 2, 1) EXCEPT !.held = 0]>>,
    <<Seg(0, 1, 2)>>,
    <<Seg(1, 2, 2)>>,
    <<Seg(0, 2, 2), Seg(8, 17, 1)>> }

MCGrow == {1, 5, -1, -6}
MCFails == {{}} \cup {{i} : i \in 1..9}

\* Which page is where makes no difference as long as none is in two places.
Shape ==
  <<Cardinality(free), Cardinality(lost), halted, loading, state, sz,
    [q \in Proc |-> <<kstack[q] /= 0, space[q].pgdir /= 0, Cardinality(space[q].ktabs), space[q].user,
                      {d \in Pde : space[q].tabs[d] /= 0}, {v \in Vpn : space[q].page[v] /= 0}>>]>>

=============================================================================
