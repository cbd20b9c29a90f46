----------------------------- MODULE MCStartup -----------------------------
(* Small instances of Startup for TLC. *)
EXTENDS Startup, TLC

CONSTANTS issuer, server, k0, k1, l1, l2

MCModules == {"database", "inference"}
MCSymmetry == Permutations({l1, l2})
=============================================================================
