-------------------------- MODULE MCFrontendStores --------------------------
(* Instances of FrontendStores for TLC.  Requests are interchangeable, and so *)
(* are emojis and the others who react.                                      *)
EXTENDS FrontendStores, TLC

Symmetry ==
  Permutations(Requests) \cup Permutations(Emojis) \cup Permutations(People \ {Me})

\* What follows once `unsure' is set is left out: it stays set, and MineIsRight
\* says nothing then.
ChipIsSure == focus = "chip" => ~unsure
==============================================================================
