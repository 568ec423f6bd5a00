------------------------------- MODULE MCGeoIP -------------------------------
(* Small instances of GeoIP for TLC.                                       *)
EXTENDS GeoIP

CONSTANTS w1, w2, a
=============================================================================
