---------------------------- MODULE MCTargetHost ----------------------------
(***************************************************************************)
(* Keys and stages files for TLC: every list of at most three different    *)
(* names, of which one is the user's, two are stages and one begins with a *)
(* capital letter.                                                         *)
(***************************************************************************)
EXTENDS TargetHost

MCLifecycle == {"lc:dev", "lc:eol"}
MCCapital == {"Ops"}
MCIgnored == {"# lc:eol", ""}
MCStageFiles == {NoFile, {"", "# lc:eol"}, {"# lc:eol", "lc:dev"}}

PrincipalLists ==
    {list \in UNION {[1..n -> {"rocky"} \cup MCLifecycle \cup MCCapital] :
                        n \in 0..3} :
        \A i, j \in DOMAIN list : list[i] = list[j] => i = j}

MCKeys ==
    {[isCert |-> TRUE, readable |-> TRUE, principals |-> list] :
        list \in PrincipalLists}
    \cup {[isCert |-> FALSE, readable |-> TRUE, principals |-> <<>>],
          [isCert |-> TRUE, readable |-> FALSE, principals |-> <<"rocky">>]}
=============================================================================
