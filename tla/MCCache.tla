------------------------------ MODULE MCCache -------------------------------
(***************************************************************************)
(* Cache and its observer for TLC under either policy.  The module's own   *)
(* Policy is LRU; FIFO is an instance beside it.                           *)
(***************************************************************************)
EXTENDS CacheAges

VARIABLE policy

mcvars == <<agevars, policy>>

FIFO == INSTANCE CacheAges WITH Policy <- "FIFO"

MCInit == AgesInit /\ policy \in {"LRU", "FIFO"}

MCNext ==
  /\ \/ policy = "LRU" /\ AgesNext
     \/ policy = "FIFO" /\ FIFO!AgesNext
  /\ UNCHANGED policy

MCSpec == MCInit /\ [][MCNext]_mcvars

-----------------------------------------------------------------------------
\* Three blocks compete for the two ways of the only set.
MCBlocks == {0, 1, 2}
=============================================================================
