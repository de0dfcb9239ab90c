--------------------------- MODULE MCClientTrust ---------------------------
(***************************************************************************)
(* Bundles for TLC: one that can be imported, and one that is refused when *)
(* its key pair is already on disk.  They differ in key pair, CA and       *)
(* patterns.                                                               *)
(***************************************************************************)
EXTENDS ClientTrust

MCBundles ==
    {[id |-> "plant", withCa |-> TRUE, sshValid |-> TRUE,
      host_patterns |-> <<"*.plant", "*.field">>],
     [id |-> "field", withCa |-> FALSE, sshValid |-> FALSE,
      host_patterns |-> <<"*.old">>]}
=============================================================================
