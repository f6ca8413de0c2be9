----------------------------- MODULE MCListSync -----------------------------
(* Instances of ListSync: one table that refers to the list, one possible  *)
(* entry, one caller.                                                      *)
EXTENDS ListSync

CONSTANTS t1, x1, a1

OneTable  == {t1}
OneCidr   == {x1}
OneCaller == {a1}
MCContents == {S : S \in SUBSET Cidrs}

NoFault == [k \in FaultKinds |-> 0]
=============================================================================
