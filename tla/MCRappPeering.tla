---------------------------- MODULE MCRappPeering ----------------------------
(***************************************************************************)
(* RappPeering for TLC: a search among two endpoints that reach one        *)
(* custodian and one that reaches another, with a limit the reopenings     *)
(* meet; a record with limits a short clock meets; a session with frames   *)
(* enough for a data message or ping of each side in flight and the closes *)
(* crossing them.                                                          *)
(***************************************************************************)
EXTENDS RappPeering

ThreeEndpoints == {"ble", "stream", "other"}
TwoOffers == {"phone", "tablet"}
Reaches == [e \in ThreeEndpoints |-> IF e = "other" THEN "tablet" ELSE "phone"]
AllReasons == {"pairing_revoked", "service_withdrawn"}
==============================================================================
