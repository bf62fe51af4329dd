--------------------------- MODULE MCGeocoderQueue ---------------------------
(* Small instances of GeocoderQueue for TLC. *)
EXTENDS GeocoderQueue, TLC
=============================================================================
