----------------------------- MODULE CacheAges ------------------------------
(***************************************************************************)
(* Cache with an observer that knows nothing of lines or ways: since when  *)
(* the replacement policy has to count the age of each block.              *)
(***************************************************************************)
EXTENDS Cache

VARIABLE since

agevars == <<vars, since>>

AgesInit == Init /\ since = [b \in Blocks |-> 0]

Arrived == {b \in Blocks : ~contains(cache, b) /\ contains(cache', b)}

Asked == {b \in Blocks : contains(cache, b) /\ \E pf \in BOOLEAN : Request(b, pf)}

\* LRU counts from the last use, FIFO from the arrival.
Renewed == IF Policy = "LRU" THEN Arrived \cup Asked ELSE Arrived

AgesNext ==
  /\ Next
  /\ since' = [b \in Blocks |-> IF b \in Renewed THEN cycle ELSE since[b]]

AgesSpec == AgesInit /\ [][AgesNext]_agevars

\* When a block is evicted, no block that stays in its set is older, by last
\* touch under LRU and by arrival under FIFO (choose_victim, on_cache_hit).
EvictsOldest ==
  [][\A b, c \in Blocks :
       /\ contains(cache, b) /\ ~contains(cache', b)
       /\ contains(cache, c) /\ contains(cache', c) /\ Index(b) = Index(c)
       => since[b] <= since[c]]_agevars
=============================================================================
