--------------------------- MODULE MCConnectivity ---------------------------
(* Two networks and a store of one: adding both meets the full list.       *)
EXTENDS Connectivity

MCState == {"AVAILABLE", "BUSY", "WIFI_ERROR"}
=============================================================================
