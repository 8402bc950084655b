--------------------------- MODULE MCInfluxTarget ---------------------------
(***************************************************************************)
(* An instance of InfluxTarget.  avahi reports a service once per protocol *)
(* and interface: an InfluxDB service seen via IPv4 and IPv6, next to a    *)
(* web service.                                                            *)
(***************************************************************************)
EXTENDS InfluxTarget

CONSTANTS flux, web, HttpType

FluxAndWeb ==
  [name : {flux}, type : {FluxType}, via : {"ip4", "ip6"}]
    \cup {[name |-> web, type |-> HttpType, via |-> "ip4"]}

BothFamilies == [name : {flux}, type : {FluxType}, via : {"ip4", "ip6"}]
=============================================================================
