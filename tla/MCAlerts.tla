------------------------------ MODULE MCAlerts ------------------------------
(* An instance of Alerts: two sources that may be banned, one service that *)
(* may be exposed, one destination, which the operator may make a webhook  *)
(* or an email, and three turns of the world.                              *)
EXTENDS Alerts

CONSTANTS s1, s2, v1, d1

MCSources == {s1, s2}
MCServices == {v1}
MCDests == {d1}
MCTypes == {"webhook", "email"}
MCFilters == {{"nft.down"}}
MCFaults == [event |-> 1, world |-> 3]
=============================================================================
