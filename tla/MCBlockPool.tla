---------------------------- MODULE MCBlockPool -----------------------------
(***************************************************************************)
(* Requests whose block hashes share a prefix, and a pool that cannot hold *)
(* all of them without sharing.                                            *)
(***************************************************************************)
EXTENDS BlockPool, TLC

CONSTANTS r1, r2, r3

\* r1 and r2 share their first block, r3 is a prefix of r1.
SharedHashes == (r1 :> <<"h1", "h2", "h3">>) @@ (r2 :> <<"h1", "g2">>) @@ (r3 :> <<"h1", "h2">>)
=============================================================================
