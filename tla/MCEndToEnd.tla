----------------------------- MODULE MCEndToEnd -----------------------------
(***************************************************************************)
(* A small instance of EndToEnd for TLC: the timer and one terminal, two   *)
(* threads, a tick as long as a certificate is valid.                      *)
(***************************************************************************)
EXTENDS EndToEnd, TLC

\* The threads of the pool are interchangeable.
Interchangeable == Permutations(Workers)

\* No step but RotateAway reads what has been delivered or logged, and the
\* properties read only the lines with result=ok.
WhatMatters ==
    <<locals, files, kills, stage, req, cert, store, minted, left, gaps,
      {e \in audit : e.result = "ok"}>>

\* For the same reason whatever follows a lost line also follows when the line
\* is kept, and there the properties ask for more.
LogComplete == ~gaps
=============================================================================
