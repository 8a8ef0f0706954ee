------------------------------ MODULE TaskSlot ------------------------------
(***************************************************************************)
(* What ControlledRunner promises about the blocks it is given ("only one  *)
(* will run"): blocks run one at a time, each at most once, and a block    *)
(* that was given up never runs.                                           *)
(***************************************************************************)

CONSTANT Calls      \* calls of a runner, one block each

VARIABLES running,  \* the blocks that run
          fresh     \* the blocks that may still run

vars == <<running, fresh>>

Init == running = {} /\ fresh = Calls

Begin(c) == running = {} /\ running' = {c} /\ fresh' = fresh \ {c}

Finish == running' = {} /\ fresh' = fresh

GiveUp(c) == running' = running /\ fresh' = fresh \ {c}

Next == (\E c \in fresh : Begin(c) \/ GiveUp(c)) \/ Finish

Spec == Init /\ [][Next]_vars
=============================================================================
