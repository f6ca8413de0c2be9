--------------------------- MODULE MCAddressLists ---------------------------
(* Instances of AddressLists: a country and a host name, over eight         *)
(* addresses of which the first and the last are not listable.              *)
EXTENDS AddressLists, TLC

CONSTANTS country, hostname, r1, r2, loop

MCSources   == {country, hostname}
MCHostnames == {hostname}
TwoRequests == {r1, r2}

\* Nested three deep, with the default route; one address that is not listable.
MCAnswers == country :> {<<<<6, 1>>, <<0, 8>>, <<4, 4>>, <<4, 2>>, <<2, 1>>>>}
          @@ hostname :> {<<<<7, 1>>, <<1, 1>>>>}

\* One inside the other.
MCByHand == {<<4, 4>>, <<6, 1>>}
MCNames  == {"blacklist", "office"}
=============================================================================
