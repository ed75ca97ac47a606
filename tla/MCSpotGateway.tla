--------------------------- MODULE MCSpotGateway ---------------------------
(* The instance of SpotGateway TLC checks: one order a previous run left open  *)
(* and one request of this run, so that connect(), the REST reply and the      *)
(* reports of two orders interleave on the one stream.                         *)
EXTENDS SpotGateway

CONSTANTS r1, l1
============================================================================
