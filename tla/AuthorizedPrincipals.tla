------------------------ MODULE AuthorizedPrincipals ------------------------
(***************************************************************************)
(* scripts/authorized_principals_command.sh: which logins the command that *)
(* sshd runs for a key lets through.  It only reads, so it is an operator. *)
(*                                                                         *)
(* A principal, and a line of the stages file, is a name; the sets below   *)
(* say what the script's patterns find in it.                              *)
(***************************************************************************)
EXTENDS Naturals, Sequences, FiniteSets

CONSTANTS
    Lifecycle,      \* the names that match lc:*
    Capital,        \* principals that begin with a capital letter
    Ignored,        \* lines that are blank or begin with #
    NoFile          \* allowed_lifecycle_stages does not exist

ASSUME NameAssumption == Lifecycle \cap (Ignored \cup Capital) = {}

\* Position of the first capital principal, or one past the end.
FirstCapital(list) ==
    CHOOSE i \in 1..(Len(list) + 1) :
        /\ i <= Len(list) => list[i] \in Capital
        /\ \A j \in 1..(i - 1) : list[j] \notin Capital

(***************************************************************************)
(* PRINCIPALS: the sed range over the output of "ssh-keygen -L" is meant   *)
(* to end at the next heading, but ends at any line that begins with a     *)
(* capital letter.                                                         *)
(***************************************************************************)
Listed(key) == SubSeq(key.principals, 1, FirstCapital(key.principals) - 1)

Names(list) == {list[i] : i \in DOMAIN list}

\* The broker signs each principal once.
IsNameList(list) ==
    /\ list \in Seq(Names(list))
    /\ \A i, j \in DOMAIN list : list[i] = list[j] => i = j

Stages(list) == {i \in DOMAIN list : list[i] \in Lifecycle}

\* Mutant: the last lc:* principal counts, however many there are.
Admits_LastStage(user, key, file) ==
    /\ key.isCert /\ key.readable
    /\ user \in Names(Listed(key))
    /\ file # NoFile
    /\ \E i \in Stages(Listed(key)) : Listed(key)[i] \in file \ Ignored

\* The command prints the user's name; otherwise it prints nothing.
Admits(user, key, file) ==
    /\ key.isCert /\ key.readable
    /\ user \in Names(Listed(key))
    /\ file # NoFile
    /\ Cardinality(Stages(Listed(key))) = 1
    /\ \E i \in Stages(Listed(key)) : Listed(key)[i] \in file \ Ignored

(***************************************************************************)
(* G-02 of docs/specification.md, with the stages the target allows.       *)
(***************************************************************************)
MayLogIn(user, key, file) ==
    /\ key.isCert /\ key.readable
    /\ user \in Names(key.principals)
    /\ file # NoFile
    /\ \E stage \in Lifecycle \cap file :
          Names(key.principals) \cap Lifecycle = {stage}

\* The names the command does not come to see: a capital one and what follows.
Hidden(key) ==
    {key.principals[j] : j \in FirstCapital(key.principals)..Len(key.principals)}

(***************************************************************************)
(* What can be said of the command's decision.  It lets a key log in only  *)
(* with its user among the principals and an allowed stage.  It is not     *)
(* G-02's decision: it lets in a key of two stages, against                *)
(* docs/specification.md:159, if a capital name hides the one, and refuses *)
(* a key of one if a capital name hides that or the user; but in no other  *)
(* case does it depart from G-02.                                          *)
(***************************************************************************)
DecidesRightly(user, key, file) ==
    /\ Admits(user, key, file) =>
          /\ user \in Names(key.principals)
          /\ Names(key.principals) \cap Lifecycle \cap file # {}
    /\ Admits(user, key, file) /\ ~MayLogIn(user, key, file) =>
          Hidden(key) \cap Lifecycle # {}
    /\ MayLogIn(user, key, file) /\ ~Admits(user, key, file) =>
          Hidden(key) \cap (Lifecycle \cup {user}) # {}
=============================================================================
