----------------------------- MODULE ServiceScan ----------------------------
(***************************************************************************)
(* The mDNS scan: avahi tells the scan thread that services appear and     *)
(* disappear (mDnsScanCallbacks.c), the thread keeps a list of them in the *)
(* node struct and copies the InfluxDB service it finds into the InfluxDB  *)
(* configuration (mDnsScanUpdateList.c).  add_service and remove_service   *)
(* hold node.lock from beginning to end, so each is one action.            *)
(***************************************************************************)
EXTENDS Naturals, FiniteSets

CONSTANTS Instances,    \* what avahi browses: [name, type, via], once for
                        \* every protocol and interface it is seen on
          Addrs,        \* the addresses a service may resolve to
          Loopback,     \* 127.0.0.1 or ::1, in Addrs
          Ports,
          FluxType,     \* node.config.influxDB.mDNSserviceType
          DefaultPort,  \* the port node_init sets, 8086
          Configured,   \* the addresses the configuration file may give
          None,         \* an address that is not set
          VersionModulus,  \* cfgVersion is an unsigned counter of this range
          BumpsPerCycle,   \* bound: version changes between two log cycles
          MaxResolvers     \* bound: pending resolvers of one instance

ASSUME AddrsAssumption == Loopback \in Addrs /\ None \notin Addrs
ASSUME VersionAssumption ==
  /\ VersionModulus \in Nat \ {0, 1}
  /\ BumpsPerCycle \in 1..(VersionModulus - 1)
ASSUME ConfiguredAssumption == DefaultPort \in Ports /\ Configured \subseteq Addrs \cup {None}
ASSUME ResolversAssumption == MaxResolvers \in Nat \ {0}

ASSUME NamesAssumption == \A s \in Instances : s.name # None

VARIABLES
  browsed,    \* the instances avahi has reported NEW and not REMOVE
  resolvers,  \* resolvers[s]: how many resolvers of s are pending
  list,       \* node.config.network.mDNSserviceList
  info,       \* node.config.influxDB.serviceInfo
  hostOf,     \* what its string pointers point to: nothing, a node of the
              \* list, or a node that was freed
  cfgVersion, \* node.config.influxDB.cfgVersion
  bumps       \* history: how far it is ahead of the last log cycle

avahi == <<browsed, resolvers>>
nodeVars == <<list, info, hostOf, cfgVersion, bumps>>
scanVars == <<avahi, nodeVars>>

Names == {s.name : s \in Instances}
Types == {s.type : s \in Instances}
Answers == [addr : Addrs, port : Ports]
Entries == [name : Names, type : Types, port : Ports,
            ip4 : Addrs \cup {None}, ip6 : Addrs \cup {None}]

ScanTypeOK ==
  /\ browsed \subseteq Instances
  /\ resolvers \in [Instances -> 0..MaxResolvers]
  /\ list \subseteq Entries
  /\ info \in [name : Names \cup {None}, port : Ports,
               ip4 : Addrs \cup {None}, ip6 : Addrs \cup {None}]
  /\ hostOf \in {"nothing", "listed", "freed"}
  /\ cfgVersion \in 0..(VersionModulus - 1)
  /\ bumps \in 0..BumpsPerCycle

(* node_init and config_process_file.  cfgVersion is 1, one ahead of a     *)
(* handle that was never made.                                             *)
ScanInit ==
  /\ browsed = {}
  /\ resolvers = [s \in Instances |-> 0]
  /\ list = {}
  /\ info \in [name : {None}, port : {DefaultPort}, ip4 : Configured, ip6 : {None}]
  /\ hostOf = "nothing"
  /\ cfgVersion = 1 % VersionModulus
  /\ bumps = 1

-----------------------------------------------------------------------------
(* The node struct, under node.lock.                                       *)

BumpVersionUnwrapped ==
  /\ bumps < BumpsPerCycle
  /\ cfgVersion' = cfgVersion + 1
  /\ bumps' = bumps + 1

BumpVersion ==
  /\ bumps < BumpsPerCycle
  /\ cfgVersion' = (cfgVersion + 1) % VersionModulus
  /\ bumps' = bumps + 1

(* With useServiceScan; without it the scan leaves info alone.             *)
IsFlux(type) == type = FluxType

(* serviceInfo is copied whole, string pointers included.                  *)
CopyToInflux(e) ==
  /\ info' = [name |-> e.name, port |-> e.port, ip4 |-> e.ip4, ip6 |-> e.ip6]
  /\ hostOf' = "listed"
  /\ BumpVersion

Found(name) == {e \in list : e.name = name}

(* The entry add_service leaves: a known name gets the new address and     *)
(* keeps the rest, port included.                                          *)
Updated(s, family, answer) ==
  IF Found(s.name) # {}
  THEN LET e == CHOOSE e \in Found(s.name) : TRUE
       IN  [e EXCEPT !.ip4 = IF family = "ip4" THEN answer.addr ELSE @,
                     !.ip6 = IF family = "ip6" THEN answer.addr ELSE @]
  ELSE [name |-> s.name, type |-> s.type, port |-> answer.port,
        ip4 |-> IF family = "ip4" THEN answer.addr ELSE None,
        ip6 |-> IF family = "ip6" THEN answer.addr ELSE None]

AddServiceNoBump(s, family, answer) ==
  IF answer.addr = Loopback
  THEN UNCHANGED nodeVars
  ELSE LET e == Updated(s, family, answer) IN
       /\ list' = (list \ Found(s.name)) \cup {e}
       /\ IF IsFlux(s.type)
          THEN /\ info' = [name |-> e.name, port |-> e.port, ip4 |-> e.ip4, ip6 |-> e.ip6]
               /\ hostOf' = "listed"
               /\ IF Found(s.name) # {} THEN BumpVersion ELSE UNCHANGED <<cfgVersion, bumps>>
          ELSE UNCHANGED <<info, hostOf, cfgVersion, bumps>>

AddServiceDuplicates(s, family, answer) ==
  IF answer.addr = Loopback
  THEN UNCHANGED nodeVars
  ELSE LET e == Updated(s, family, answer) IN
       /\ list' = list \cup {e}
       /\ IF IsFlux(s.type) THEN CopyToInflux(e)
                            ELSE UNCHANGED <<info, hostOf, cfgVersion, bumps>>

AddService(s, family, answer) ==
  IF answer.addr = Loopback
  THEN UNCHANGED nodeVars
  ELSE LET e == Updated(s, family, answer) IN
       /\ list' = (list \ Found(s.name)) \cup {e}
       /\ IF IsFlux(s.type) THEN CopyToInflux(e)
                            ELSE UNCHANGED <<info, hostOf, cfgVersion, bumps>>

RemoveServiceKeepsAddress(s) ==
  /\ list' = list \ Found(s.name)
  /\ UNCHANGED info
  /\ hostOf' = IF Found(s.name) # {} /\ info.name = s.name /\ hostOf = "listed"
               THEN "freed" ELSE hostOf
  /\ UNCHANGED <<cfgVersion, bumps>>

(* Removal is by name; the addresses are cleared, the version stays.       *)
RemoveService(s) ==
  /\ list' = list \ Found(s.name)
  /\ info' = IF Found(s.name) # {} /\ IsFlux(s.type)
             THEN [info EXCEPT !.ip4 = None, !.ip6 = None] ELSE info
  /\ hostOf' = IF Found(s.name) # {} /\ info.name = s.name /\ hostOf = "listed"
               THEN "freed" ELSE hostOf
  /\ UNCHANGED <<cfgVersion, bumps>>

-----------------------------------------------------------------------------
(* The callbacks.  Services come and go, and avahi (external) reports it   *)
(* when it likes.                                                          *)

(* AVAHI_BROWSER_NEW starts a resolver, which nobody stops.                *)
BrowserNew(s) ==
  /\ s \notin browsed /\ resolvers[s] < MaxResolvers
  /\ browsed' = browsed \cup {s}
  /\ resolvers' = [resolvers EXCEPT ![s] = @ + 1]
  /\ UNCHANGED nodeVars

(* AVAHI_RESOLVER_FOUND, or a failure, which only frees the resolver.  The *)
(* answer may come when the service is gone again, and its address may be  *)
(* of either family, whatever protocol it came by (AVAHI_PROTO_UNSPEC).    *)
Resolve(s) ==
  /\ resolvers[s] > 0
  /\ resolvers' = [resolvers EXCEPT ![s] = @ - 1]
  /\ \/ \E family \in {"ip4", "ip6"}, answer \in Answers : AddService(s, family, answer)
     \/ UNCHANGED nodeVars
  /\ UNCHANGED browsed

(* AVAHI_BROWSER_REMOVE                                                    *)
BrowserRemove(s) ==
  /\ s \in browsed
  /\ browsed' = browsed \ {s}
  /\ RemoveService(s)
  /\ UNCHANGED resolvers

ScanNext ==
  \E s \in Instances :
    BrowserNew(s) \/ Resolve(s) \/ BrowserRemove(s)

-----------------------------------------------------------------------------
(* The list holds a name once: remove_service and the status page rely on  *)
(* finding a service by its name (mDnsScanUpdateList.c:32-38).             *)
ListNamesUnique == \A d \in list, e \in list : d.name = e.name => d = e

(* The list knows a service by its name alone, though mDNS names are       *)
(* unique only within a type: the entry of a name that another type uses   *)
(* too may be taken away by a removal that leaves the InfluxDB address.    *)
OnlyFlux(name) == \A s \in Instances : s.name = name => IsFlux(s.type)

(* While the InfluxDB configuration has the address of a service, and no   *)
(* service of another type has its name, the node its name and host        *)
(* strings point into is still in the list: a status page that shows an    *)
(* InfluxDB address found by the scan does not show the host from freed    *)
(* memory (mDnsScanUpdateList.c:66, 100, 118-121).                         *)
AddressOfListedService ==
  /\ info.name # None /\ OnlyFlux(info.name)
  /\ info.ip4 # None \/ info.ip6 # None
  => hostOf = "listed" /\ \E e \in list : e.name = info.name
=============================================================================
