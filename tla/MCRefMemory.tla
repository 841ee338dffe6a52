----------------------------- MODULE MCRefMemory -----------------------------
(***************************************************************************)
(* Instances of RefMemory for TLC: four pages of two words, of which 0 and *)
(* 1 are io_words, 2 is RAM and holds the root table, and 3 lies outside   *)
(* of the memory, as the quarters of the code's address space do.          *)
(***************************************************************************)
EXTENDS RefMemory

MCRamPages == {2}
MCIoPages == {0, 1}

RWX == {PTE_V, PTE_R, PTE_W, PTE_X}
Used == {PTE_A, PTE_D}
Page(n) == (IF n % 2 = 1 THEN {10} ELSE {}) \cup (IF n >= 2 THEN {11} ELSE {})

Pointer(n) == {PTE_V} \cup Page(n)
UserLeaf(n) == RWX \cup Used \cup {PTE_U} \cup Page(n)
SystemLeaf(n) == RWX \cup Used \cup Page(n)
Clean(pte) == pte \ {PTE_D}
ReadOnly(pte) == pte \ {PTE_W}

\* A memory with this root table, table in page 1, and two words of data.
Image(root, table) ==
  [a \in {a \in Addrs : InMemory(a)} |->
     CASE a[1] = 2 -> root[a[2] + 1]
       [] a[1] = 1 -> table[a[2] + 1]
       [] OTHER    -> {}]

\* The tables out of user code's reach; in its reach by a superpage, with a
\* page outside of the memory; and with an entry that is writable but not
\* readable.
MCMemories ==
  {Image(<<Pointer(1), SystemLeaf(0)>>, <<UserLeaf(0), ReadOnly(UserLeaf(1))>>),
   Image(<<Pointer(1), UserLeaf(0)>>, <<UserLeaf(0), Clean(UserLeaf(3))>>),
   Image(<<UserLeaf(0) \ {PTE_R}, Pointer(1)>>, <<UserLeaf(0), UserLeaf(0) \ {PTE_A}>>)}

Mode(p) == [privilege |-> p, sum |-> FALSE, mxr |-> FALSE, mprv |-> FALSE,
            mpp |-> 0, paging |-> TRUE, root |-> 2]

\* User code, the kernel with and without access to user pages, and M code
\* with and without MPRV.
MCContexts == {Mode(0), [Mode(0) EXCEPT !.mprv = TRUE], Mode(1),
               [Mode(1) EXCEPT !.sum = TRUE, !.mxr = TRUE], Mode(3),
               [Mode(3) EXCEPT !.mprv = TRUE]}

\* Stored, it maps page 0 for all, by a page number of which a bit is lost;
\* its low byte alone opens a page; added or exclusive-ored to an entry it
\* makes an invalid one.
MCOperands == {UserLeaf(0) \cup {12}}

\* A byte store to the flags, and a word store.
MCStrobes == {0 .. 7, BitIndices}
=============================================================================
