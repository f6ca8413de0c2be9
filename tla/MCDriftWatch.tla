---------------------------- MODULE MCDriftWatch ----------------------------
(* Instances of DriftWatch: one table, one possible entry, and one caller  *)
(* that pushes or none.                                                    *)
EXTENDS DriftWatch

CONSTANTS t1, x1, a1

OneTable  == {t1}
OneCidr   == {x1}
OneCaller == {a1}
NoCaller  == {}
MCContents == {S : S \in SUBSET Cidrs}

AnyFault == [k \in FaultKinds |-> 1]
NoFault  == [k \in FaultKinds |-> 0]
=============================================================================
