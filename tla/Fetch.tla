------------------------------- MODULE Fetch -------------------------------
(***************************************************************************)
(* A REST request of the frontend whose answer replaces what a store       *)
(* holds.  Between the moment the server makes the answer and the moment   *)
(* the store applies it, gateway events and the user may change the store; *)
(* such an answer is stale, and the code applies it all the same.          *)
(***************************************************************************)
Idle        == [step |-> "idle", page |-> {}, stale |-> FALSE]
Asked       == [step |-> "asked", page |-> {}, stale |-> FALSE]
Answered(p) == [step |-> "answered", page |-> p, stale |-> FALSE]
Aged(f)     == IF f.step = "answered" THEN [f EXCEPT !.stale = TRUE] ELSE f
AllAged(fs) == [i \in DOMAIN fs |-> Aged(fs[i])]
Slot(P)     == [step : {"idle", "asked", "answered"}, page : P, stale : BOOLEAN]
==============================================================================
