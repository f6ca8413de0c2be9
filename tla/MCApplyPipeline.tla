-------------------------- MODULE MCApplyPipeline --------------------------
(* Instances of ApplyPipeline for TLC. *)
EXTENDS ApplyPipeline, TLC

CONSTANTS t1, t2, c1

MCTables   == {t1, t2}
MCContents == {c1}
Symm       == Permutations(MCTables)

Budget(crash, nft, kill, db) ==
    [k \in FaultKinds |-> CASE k = "crash" -> crash [] k = "nft" -> nft
                            [] k = "kill" -> kill   [] k = "db" -> db]
\* One failure of each kind, anywhere.
AnyFault == Budget(1, 1, 0, 1)
=============================================================================
