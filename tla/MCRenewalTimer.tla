--------------------------- MODULE MCRenewalTimer ---------------------------
(***************************************************************************)
(* RenewalTimer with the numbers of the repository, in minutes.            *)
(***************************************************************************)
EXTENDS RenewalTimer

\* PROFILE_TTLS: development, the two productions, field_operation,
\* claims_warranty and end_of_life.
ProfileTtls == {720, 240, 480, 120, 60}
EndOfLife == {60}
Production == {240}

Expired == -1
LongExpired == -500
=============================================================================
