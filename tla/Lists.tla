-------------------------------- MODULE Lists --------------------------------
(***************************************************************************)
(* Python lists as sequences: membership, and the list a loop leaves when  *)
(* it appends some elements to a new list and passes over the others.      *)
(* SelectSeq of Sequences says the second, but by recursion over the       *)
(* sequence, from which the provers derive nothing; Pick says the same by  *)
(* the rank of a position among the chosen ones.                           *)
(***************************************************************************)
EXTENDS Naturals, Sequences, FiniteSets

\* Python's "in": the members of a list.
Members(list) == {list[i] : i \in DOMAIN list}

\* How many of the positions S are not behind i.
Rank(S, i) == Cardinality({j \in S : j <= i})

\* The elements of a list at the positions S, in the order of the list.
Pick(list, S) ==
    [k \in 1..Cardinality(S) |-> list[CHOOSE i \in S : Rank(S, i) = k]]

\* list(dict.fromkeys(list)): the first occurrence of each member.
Distinct(list) ==
    Pick(list, {i \in DOMAIN list : \A j \in 1..(i - 1) : list[j] # list[i]})
=============================================================================
