------------------------------- MODULE MCBans -------------------------------
(* Instances of Bans: one table that declares the ban set when it exists,  *)
(* and one source.                                                         *)
EXTENDS Bans

CONSTANTS t1, s1, guard

OneTable   == {t1}
OneSource  == {s1}
MCContents == {guard}

Budget(crash, nft, kill, db) ==
    [k \in FaultKinds |-> CASE k = "crash" -> crash [] k = "nft" -> nft
                            [] k = "kill" -> kill   [] k = "db" -> db]
CrashNft == Budget(1, 1, 0, 0)
NoFault  == Budget(0, 0, 0, 0)
=============================================================================
