------------------------- MODULE IdempotentIssuance -------------------------
(***************************************************************************)
(* What the broker promises about POST /v1/sign/user and /v1/sign/host     *)
(* (docs/specification.md:314-315): requests with the same parameters are  *)
(* handled idempotently.  For each request key at most one certificate is  *)
(* ever issued, it was made for that key and for no other, and every       *)
(* answer to the key carries it.                                           *)
(***************************************************************************)
CONSTANTS
    Keys,       \* request keys: one per distinct set of request parameters
    CertsFor,   \* [Keys -> SUBSET Certificate]: certificates that suit a key
    None        \* "no certificate issued yet"

VARIABLES
    issued,     \* [Keys -> certificate or None]
    answers     \* the set of <<key, certificate>> pairs callers have received

vars == <<issued, answers>>

Init ==
    /\ issued = [k \in Keys |-> None]
    /\ answers = {}

(***************************************************************************)
(* A certificate that was issued for no key yet becomes the one of k.      *)
(***************************************************************************)
Issue(k) ==
    /\ issued[k] = None
    /\ \E c \in CertsFor[k] :
          /\ \A other \in Keys : issued[other] # c
          /\ issued' = [issued EXCEPT ![k] = c]
    /\ UNCHANGED answers

(***************************************************************************)
(* A caller that asked for k receives the certificate of k.                *)
(***************************************************************************)
Answer(k) ==
    /\ issued[k] # None
    /\ answers' = answers \cup {<<k, issued[k]>>}
    /\ UNCHANGED issued

Next == \E k \in Keys : Issue(k) \/ Answer(k)

Spec == Init /\ [][Next]_vars
=============================================================================
