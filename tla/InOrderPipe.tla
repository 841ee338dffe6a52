---------------------------- MODULE InOrderPipe -----------------------------
(***************************************************************************)
(* What the pipeline promises about program order, whatever happens inside *)
(* it: instructions enter numbered 0, 1, 2, ..., leave in the order they   *)
(* entered, and at most Capacity of them are inside.  Once the trace has   *)
(* ended none enters but the one that was held back at the door, if any.   *)
(***************************************************************************)
EXTENDS Integers, Sequences

CONSTANT Capacity

VARIABLES inside,   \* numbers of the instructions in the pipeline, oldest first
          next,     \* number of the next instruction
          ended,    \* the trace has ended
          held      \* the next instruction is out of the trace and not yet inside

pipeVars == <<inside, next, ended, held>>

PipeInit == inside = <<>> /\ next = 0 /\ ended = FALSE /\ held = FALSE

Hold == /\ ~ended /\ ~held
        /\ held' = TRUE
        /\ UNCHANGED <<inside, next, ended>>

Enter == /\ ended => held
         /\ Len(inside) < Capacity
         /\ inside' = Append(inside, next)
         /\ next' = next + 1
         /\ held' = FALSE
         /\ UNCHANGED ended

Leave == /\ inside # <<>>
         /\ inside' = Tail(inside)
         /\ UNCHANGED <<next, ended, held>>

End == /\ ~ended
       /\ ended' = TRUE
       /\ UNCHANGED <<inside, next, held>>

PipeNext == Hold \/ Enter \/ Leave \/ End

PipeSpec == PipeInit /\ [][PipeNext]_pipeVars
=============================================================================
