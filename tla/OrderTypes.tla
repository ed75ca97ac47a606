---------------------------- MODULE OrderTypes ----------------------------
(* The order vocabulary shared by every component: core/types.hpp and the     *)
(* status mapping of the Binance gateways.                                   *)
EXTENDS Naturals

Status ==
  {"SUBMITTING", "NOTTRADED", "PARTTRADED", "ALLTRADED", "CANCELLED", "REJECTED"}

ActiveStatus == {"SUBMITTING", "NOTTRADED", "PARTTRADED"}

IsActive(order) == order.status \in ActiveStatus

\* Mutant: FILLED is missing from the table.
StatusFromBinanceNoFilled(name) ==
  CASE name = "PARTIALLY_FILLED" -> "PARTTRADED"
    [] name = "CANCELED"         -> "CANCELLED"
    [] name = "EXPIRED"          -> "CANCELLED"
    [] name = "REJECTED"         -> "REJECTED"
    [] OTHER                     -> "NOTTRADED"

\* status_from_binance: an unknown name maps to NOTTRADED.
StatusFromBinance(name) ==
  CASE name = "NEW"              -> "NOTTRADED"
    [] name = "PARTIALLY_FILLED" -> "PARTTRADED"
    [] name = "FILLED"           -> "ALLTRADED"
    [] name = "CANCELED"         -> "CANCELLED"
    [] name = "EXPIRED"          -> "CANCELLED"
    [] name = "REJECTED"         -> "REJECTED"
    [] OTHER                     -> "NOTTRADED"
===========================================================================
