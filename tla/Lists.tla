------------------------------- MODULE Lists -------------------------------
(***************************************************************************)
(* sort and filter of lists.  SortSeq and SelectSeq do the same, but are   *)
(* built into the tools, so that no proof can look inside them.            *)
(***************************************************************************)
EXTENDS Naturals, Sequences, FiniteSets

\* The numbers of S, the least first.
Ascending(S) ==
  CHOOSE s \in [1..Cardinality(S) -> S] : \A i, j \in DOMAIN s : i < j => s[i] < s[j]

\* The greatest first.
Descending(S) == LET up == Ascending(S)
                 IN  [i \in DOMAIN up |-> up[(Cardinality(S) + 1) - i]]

\* What S has of the list s, in the order of s.
Kept(s, S) == LET at == Ascending({i \in DOMAIN s : s[i] \in S})
              IN  [k \in DOMAIN at |-> s[at[k]]]
==============================================================================
