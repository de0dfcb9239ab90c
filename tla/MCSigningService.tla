-------------------------- MODULE MCSigningService --------------------------
(***************************************************************************)
(* Small instances of SigningService for TLC.  Threads and callers are     *)
(* interchangeable, so safety runs may reduce by their permutations.       *)
(***************************************************************************)
EXTENDS SigningService, TLC

Interchangeable == Permutations(Workers) \cup Permutations(Callers)

\* No step but RotateAway reads the log, and the properties read only its
\* lines with result=ok.
WhatMatters ==
    <<pc, req, cert, store, {e \in audit : e.result = "ok"}, gaps, delivered, minted>>
=============================================================================
