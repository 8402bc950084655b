------------------------- MODULE InfluxTargetProofs -------------------------
(***************************************************************************)
(* Proofs about InfluxTarget, for any services, addresses and range of     *)
(* cfgVersion.  Linked follows the copied string pointers and Counted the  *)
(* version: as long as it goes less than once around within a cycle, equal *)
(* versions mean that nothing has changed.  Followed says that since the   *)
(* last change the configuration can only have lost its address.           *)
(***************************************************************************)
EXTENDS InfluxTarget, TLAPS

(* What the string pointers of the InfluxDB configuration point to.        *)
Linked ==
  /\ info.name = None => hostOf = "nothing"
  /\ info.name # None =>
       \/ hostOf = "listed" /\ \E e \in list : e.name = info.name
       \/ hostOf = "freed" /\ (OnlyFlux(info.name) => info.ip4 = None /\ info.ip6 = None)

Counted ==
  /\ cfgVersion = curl.version + bumps \/ cfgVersion = (curl.version + bumps) - VersionModulus
  /\ Target = lastBump \/ Target = None

Followed ==
  /\ bumps = 0 /\ curl.ready => curl.handle /\ curl.target = lastBump
  /\ curl.ready => LogToInflux

-----------------------------------------------------------------------------
(* Types.                                                                  *)

LEMMA VersionWraps ==
  ASSUME NEW v \in 0..(VersionModulus - 1)
  PROVE  (v + 1) % VersionModulus = IF v + 1 = VersionModulus THEN 0 ELSE v + 1
<1>1. CASE v + 1 < VersionModulus
  BY <1>1, VersionAssumption
<1>2. CASE v + 1 = VersionModulus
  BY <1>2, VersionAssumption
<1> QED BY <1>1, <1>2, VersionAssumption

LEMMA BumpTypes ==
  ASSUME ScanTypeOK, BumpVersion
  PROVE  /\ cfgVersion' \in 0..(VersionModulus - 1) /\ bumps' \in 0..BumpsPerCycle
         /\ cfgVersion' = IF cfgVersion + 1 = VersionModulus THEN 0 ELSE cfgVersion + 1
         /\ bumps' = bumps + 1 /\ cfgVersion' # cfgVersion
<1>1. cfgVersion' = IF cfgVersion + 1 = VersionModulus THEN 0 ELSE cfgVersion + 1
  BY VersionWraps DEF ScanTypeOK, BumpVersion
<1>2. bumps \in 0..BumpsPerCycle /\ bumps < BumpsPerCycle /\ bumps' = bumps + 1
  BY DEF ScanTypeOK, BumpVersion
<1> QED BY <1>1, <1>2, VersionAssumption DEF ScanTypeOK

LEMMA UpdatedType ==
  ASSUME ScanTypeOK, NEW s \in Instances, NEW family \in {"ip4", "ip6"}, NEW answer \in Answers
  PROVE  Updated(s, family, answer) \in Entries /\ Updated(s, family, answer).name = s.name
<1>1. s.name \in Names /\ s.type \in Types
  BY DEF Names, Types
<1>2. answer.addr \in Addrs /\ answer.port \in Ports
  BY DEF Answers
<1>3. CASE Found(s.name) # {}
  <2>1. PICK e \in Found(s.name) : e = CHOOSE d \in Found(s.name) : TRUE
    BY <1>3
  <2>2. e \in Entries /\ e.name = s.name
    BY <2>1 DEF Found, ScanTypeOK
  <2>3. Updated(s, family, answer) =
          [e EXCEPT !.ip4 = IF family = "ip4" THEN answer.addr ELSE @,
                    !.ip6 = IF family = "ip6" THEN answer.addr ELSE @]
    BY <1>3, <2>1 DEF Updated
  <2> QED BY <1>2, <2>2, <2>3 DEF Entries
<1>4. CASE Found(s.name) = {}
  BY <1>1, <1>2, <1>4 DEF Updated, Entries
<1> QED BY <1>3, <1>4

(* What add_service does, in one of three ways.                            *)
LEMMA AddServiceCases ==
  ASSUME NEW s \in Instances, NEW family, NEW answer, AddService(s, family, answer)
  PROVE  \/ UNCHANGED nodeVars
         \/ /\ list' = (list \ Found(s.name)) \cup {Updated(s, family, answer)}
            /\ \/ IsFlux(s.type) /\ CopyToInflux(Updated(s, family, answer))
               \/ ~IsFlux(s.type) /\ UNCHANGED <<info, hostOf, cfgVersion, bumps>>
BY DEF AddService

LEMMA ScanTypes == ASSUME ScanTypeOK, ScanNext PROVE ScanTypeOK'
<1>1. PICK s \in Instances : BrowserNew(s) \/ Resolve(s) \/ BrowserRemove(s)
  BY DEF ScanNext
<1>2. CASE BrowserNew(s)
  <2>1. browsed' \subseteq Instances /\ resolvers' \in [Instances -> 0..MaxResolvers]
    BY <1>2, ResolversAssumption DEF BrowserNew, ScanTypeOK
  <2> QED BY <1>2, <2>1 DEF BrowserNew, ScanTypeOK, nodeVars
<1>3. CASE BrowserRemove(s)
  BY <1>3 DEF BrowserRemove, RemoveService, ScanTypeOK
<1>4. CASE Resolve(s)
  <2>1. browsed' \subseteq Instances /\ resolvers' \in [Instances -> 0..MaxResolvers]
    BY <1>4, ResolversAssumption DEF Resolve, ScanTypeOK
  <2>2. CASE UNCHANGED nodeVars
    BY <2>1, <2>2 DEF ScanTypeOK, nodeVars
  <2>3. ASSUME NEW family \in {"ip4", "ip6"}, NEW answer \in Answers,
               AddService(s, family, answer)
        PROVE  ScanTypeOK'
    <3> DEFINE e == Updated(s, family, answer)
    <3>1. e \in Entries
      BY UpdatedType
    <3> HIDE DEF e
    <3>2. CASE list' = (list \ Found(s.name)) \cup {e} /\ CopyToInflux(e)
      <4>1. list' \subseteq Entries
        BY <3>1, <3>2 DEF ScanTypeOK
      <4>2. info' \in [name : Names \cup {None}, port : Ports,
                       ip4 : Addrs \cup {None}, ip6 : Addrs \cup {None}]
            /\ hostOf' = "listed"
        BY <3>1, <3>2 DEF CopyToInflux, Entries
      <4>3. cfgVersion' \in 0..(VersionModulus - 1) /\ bumps' \in 0..BumpsPerCycle
        BY <3>2, BumpTypes DEF CopyToInflux
      <4> QED BY <2>1, <4>1, <4>2, <4>3 DEF ScanTypeOK
    <3>3. CASE list' = (list \ Found(s.name)) \cup {e}
               /\ UNCHANGED <<info, hostOf, cfgVersion, bumps>>
      BY <2>1, <3>1, <3>3 DEF ScanTypeOK
    <3> QED BY <2>2, <2>3, <3>2, <3>3, AddServiceCases DEF e
  <2> QED BY <1>4, <2>2, <2>3 DEF Resolve
<1> QED BY <1>1, <1>2, <1>3, <1>4

LEMMA TargetType == TypeOK => Target \in Targets
BY DEF TypeOK, ScanTypeOK, Target, TargetOf, Targets

LEMMA TypesNext == ASSUME TypeOK, [Next]_vars PROVE TypeOK'
<1>1. CASE UpdateCurl
  <2>1. ScanTypeOK'
    BY <1>1, VersionAssumption DEF UpdateCurl, TypeOK, ScanTypeOK, avahi
  <2>2. /\ curl.version \in 0..(VersionModulus - 1) /\ curl.handle \in BOOLEAN
        /\ curl.ready \in BOOLEAN /\ curl.target \in Targets
        /\ cfgVersion \in 0..(VersionModulus - 1) /\ Target \in Targets
    BY TargetType DEF TypeOK, ScanTypeOK
  <2>3. /\ curl' \in [version : 0..(VersionModulus - 1), handle : BOOLEAN,
                      ready : BOOLEAN, target : Targets]
        /\ initFailed' \in BOOLEAN
    <3>1. CASE curl.version = cfgVersion
      BY <1>1, <3>1 DEF UpdateCurl, TypeOK
    <3>2. CASE NewHandle
      BY <2>2, <3>2 DEF NewHandle, TypeOK
    <3> QED BY <1>1, <3>1, <3>2 DEF UpdateCurl
  <2> QED BY <1>1, <2>1, <2>3 DEF UpdateCurl, TypeOK
<1>2. CASE HttpTest
  <2>1. ScanTypeOK'
    BY <1>2, BumpTypes DEF HttpTest, TypeOK, ScanTypeOK, avahi
  <2>2. fresh' \in BOOLEAN
    BY <1>2 DEF HttpTest, TypeOK
  <2>3. lastBump' \in Targets
    BY <1>2 DEF HttpTest, TypeOK, ScanTypeOK, TargetOf, Targets
  <2> QED BY <1>2, <2>1, <2>2, <2>3 DEF HttpTest, TypeOK
<1>3. CASE Scan
  <2>1. ScanTypeOK'
    BY <1>3, ScanTypes DEF Scan, TypeOK
  <2>2. lastBump' \in Targets
    BY <1>3, <2>1 DEF Scan, TypeOK, ScanTypeOK, TargetOf, Targets
  <2> QED BY <1>3, <2>1, <2>2 DEF Scan, TypeOK
<1>4. CASE UNCHANGED vars
  BY <1>4 DEF vars, scanVars, avahi, nodeVars, TypeOK, ScanTypeOK
<1> QED BY <1>1, <1>2, <1>3, <1>4 DEF Next

LEMMA TypesInit == Init => TypeOK
<1> SUFFICES ASSUME Init PROVE TypeOK
  OBVIOUS
<1>1. 1 % VersionModulus = 1
  BY VersionAssumption
<1>2. ScanTypeOK
  BY <1>1, VersionAssumption, ConfiguredAssumption, ResolversAssumption
     DEF Init, ScanInit, ScanTypeOK
<1>3. lastBump \in Targets
  BY <1>2 DEF Init, Target, TargetOf, Targets, ScanTypeOK
<1>4. None \in Targets /\ 0 \in 0..(VersionModulus - 1)
  BY VersionAssumption DEF Targets
<1> QED BY <1>2, <1>3, <1>4 DEF Init, TypeOK

(* The type invariant; cfgVersion stays in its 16 bits.                    *)
THEOREM TypeCorrect == Spec => []TypeOK
BY TypesInit, TypesNext, PTL DEF Spec

-----------------------------------------------------------------------------
(* The list and the pointers into it.                                      *)

ScanInv == ScanTypeOK /\ ListNamesUnique /\ Linked

LEMMA ScanInvInit == Init => ScanInv
<1> SUFFICES ASSUME Init PROVE ScanInv
  OBVIOUS
<1>1. ScanTypeOK
  BY TypesInit DEF TypeOK
<1> QED BY <1>1 DEF Init, ScanInit, ScanInv, ListNamesUnique, Linked

LEMMA AddServiceInv ==
  ASSUME ScanInv, NEW s \in Instances, NEW family \in {"ip4", "ip6"}, NEW answer \in Answers,
         AddService(s, family, answer)
  PROVE  ListNamesUnique' /\ Linked'
<1> DEFINE e == Updated(s, family, answer)
<1>1. e \in Entries /\ e.name = s.name
  BY UpdatedType DEF ScanInv
<1>2. s.name # None
  BY NamesAssumption
<1> HIDE DEF e
<1>3. CASE UNCHANGED nodeVars
  BY <1>3 DEF ScanInv, ListNamesUnique, Linked, nodeVars
<1>4. CASE list' = (list \ Found(s.name)) \cup {e}
  <2>1. ListNamesUnique'
    BY <1>1, <1>4 DEF ScanInv, ListNamesUnique, Found
  <2>2. CASE IsFlux(s.type) /\ CopyToInflux(e)
    <3>1. info'.name = s.name /\ hostOf' = "listed"
      BY <1>1, <2>2 DEF CopyToInflux
    <3> QED BY <1>1, <1>2, <1>4, <2>1, <2>2, <3>1 DEF Linked
  <2>3. CASE UNCHANGED <<info, hostOf>>
    <3>1. ASSUME NEW d \in list, d.name = info.name
          PROVE  \E f \in list' : f.name = info.name
      BY <1>1, <1>4, <3>1 DEF Found
    <3> QED BY <2>1, <2>3, <3>1 DEF ScanInv, Linked
  <2> QED BY <1>4, <2>2, <2>3, AddServiceCases, <1>3 DEF e
<1> QED BY <1>3, <1>4, AddServiceCases DEF e

LEMMA RemoveServiceInv ==
  ASSUME ScanInv, NEW s \in Instances, RemoveService(s)
  PROVE  ListNamesUnique' /\ Linked'
<1>1. ListNamesUnique'
  BY DEF RemoveService, ScanInv, ListNamesUnique
<1>2. info'.name = info.name
  BY DEF RemoveService, ScanInv, ScanTypeOK
<1>3. CASE info.name = None
  <2>1. s.name # None
    BY NamesAssumption
  <2> QED BY <1>1, <1>2, <1>3, <2>1 DEF RemoveService, ScanInv, Linked
<1>4. CASE info.name # None /\ s.name = info.name /\ hostOf = "listed"
  <2>1. Found(s.name) # {} /\ (OnlyFlux(info.name) => IsFlux(s.type))
    BY <1>4 DEF ScanInv, Linked, Found, OnlyFlux
  <2>2. hostOf' = "freed" /\ (OnlyFlux(info.name) => info'.ip4 = None /\ info'.ip6 = None)
    BY <1>4, <2>1 DEF RemoveService, ScanInv, ScanTypeOK
  <2> QED BY <1>1, <1>2, <1>4, <2>2 DEF ScanInv, Linked
<1>5. CASE info.name # None /\ hostOf = "freed"
  <2>1. hostOf' = "freed" /\ (OnlyFlux(info.name) => info'.ip4 = None /\ info'.ip6 = None)
    BY <1>5 DEF RemoveService, ScanInv, ScanTypeOK, Linked
  <2> QED BY <1>1, <1>2, <1>5, <2>1 DEF ScanInv, Linked
<1>6. CASE info.name # None /\ s.name # info.name /\ hostOf = "listed"
  <2>1. hostOf' = "listed" /\ \E e \in list' : e.name = info.name
    BY <1>6 DEF RemoveService, ScanInv, Linked, Found
  <2> QED BY <1>1, <1>2, <1>6, <2>1 DEF ScanInv, Linked
<1> QED BY <1>3, <1>4, <1>5, <1>6 DEF ScanInv, Linked

LEMMA ScanInvNext == ASSUME TypeOK, ScanInv, [Next]_vars PROVE ScanInv'
<1>1. ScanTypeOK'
  BY TypesNext DEF TypeOK
<1>2. CASE UNCHANGED <<list, info, hostOf>>
  BY <1>1, <1>2 DEF ScanInv, ListNamesUnique, Linked
<1>3. ASSUME NEW s \in Instances, RemoveService(s) PROVE ScanInv'
  BY <1>1, <1>3, RemoveServiceInv DEF ScanInv
<1>4. ASSUME NEW s \in Instances, Resolve(s) PROVE ScanInv'
  BY <1>1, <1>2, <1>4, AddServiceInv DEF ScanInv, Resolve, nodeVars
<1> QED BY <1>2, <1>3, <1>4
        DEF Next, UpdateCurl, HttpTest, Scan, ScanNext, BrowserNew, BrowserRemove,
            vars, scanVars, nodeVars

LEMMA ScanAlways == Spec => [](TypeOK /\ ScanInv)
BY TypesInit, TypesNext, ScanInvInit, ScanInvNext, PTL DEF Spec

(* The list holds a name once (mDnsScanUpdateList.c:32-38).                *)
THEOREM ListNamesUniqueAlways == Spec => []ListNamesUnique
<1>1. ScanInv => ListNamesUnique
  BY DEF ScanInv
<1> QED BY ScanAlways, <1>1, PTL

(* An InfluxDB address found by the scan comes with strings of a node that *)
(* is still in the list (mDnsScanUpdateList.c:66, 100, 118-121).           *)
THEOREM AddressOfListedServiceAlways == Spec => []AddressOfListedService
<1>1. ScanInv => AddressOfListedService
  BY DEF ScanInv, Linked, AddressOfListedService
<1> QED BY ScanAlways, <1>1, PTL

-----------------------------------------------------------------------------
(* The handle and the version.                                             *)

LEMMA CountedInit == Init => Counted /\ Followed
<1>1. 1 % VersionModulus = 1
  BY VersionAssumption
<1> QED BY <1>1, VersionAssumption DEF Init, ScanInit, Counted, Followed

(* Every change of the version remembers the target.                       *)
LEMMA BumpCounted ==
  ASSUME TypeOK, Counted, Followed, BumpVersion, curl' = curl, lastBump' = Target'
  PROVE  Counted' /\ Followed'
<1>1. /\ cfgVersion \in 0..(VersionModulus - 1) /\ bumps \in 0..BumpsPerCycle
      /\ curl.version \in 0..(VersionModulus - 1)
  BY DEF TypeOK, ScanTypeOK
<1>2. /\ cfgVersion' = IF cfgVersion + 1 = VersionModulus THEN 0 ELSE cfgVersion + 1
      /\ bumps' = bumps + 1 /\ bumps' <= BumpsPerCycle
  BY BumpTypes DEF TypeOK
<1>3. \/ cfgVersion' = curl.version + bumps'
      \/ cfgVersion' = (curl.version + bumps') - VersionModulus
  BY <1>1, <1>2, VersionAssumption DEF Counted
<1> QED BY <1>1, <1>2, <1>3 DEF Counted, Followed

LEMMA CountedNext ==
  ASSUME TypeOK, Counted, Followed, [Next]_vars
  PROVE  Counted' /\ Followed'
<1>1. /\ cfgVersion \in 0..(VersionModulus - 1) /\ bumps \in 0..BumpsPerCycle
      /\ curl.version \in 0..(VersionModulus - 1)
  BY DEF TypeOK, ScanTypeOK
<1>2. CASE UNCHANGED <<info, fresh, cfgVersion, bumps, curl, lastBump>>
  BY <1>2 DEF Counted, Followed, Target
<1>3. CASE UpdateCurl
  <2>1. bumps' = 0 /\ cfgVersion' = cfgVersion /\ lastBump' = lastBump /\ Target' = Target
    BY <1>3 DEF UpdateCurl, Target
  <2>2. CASE curl.version = cfgVersion
    <3>1. bumps = 0 /\ curl' = curl
      BY <1>1, <1>3, <2>2, VersionAssumption DEF Counted, UpdateCurl
    <3> QED BY <1>1, <2>1, <2>2, <3>1 DEF Counted, Followed
  <2>3. CASE NewHandle
    <3>1. /\ curl'.version = cfgVersion
          /\ curl'.ready => LogToInflux /\ curl'.handle /\ curl'.target = lastBump
      BY <2>3 DEF NewHandle, TypeOK, Counted, Followed
    <3> QED BY <1>1, <2>1, <3>1 DEF Counted, Followed
  <2> QED BY <1>3, <2>2, <2>3 DEF UpdateCurl
<1>4. CASE HttpTest
  <2>1. BumpVersion /\ curl' = curl /\ lastBump' = Target'
    BY <1>4 DEF HttpTest, Target
  <2> QED BY <2>1, BumpCounted
<1>5. CASE Scan
  <2>1. UNCHANGED <<fresh, curl>>
    BY <1>5 DEF Scan
  <2>2. CASE BumpVersion
    <3>1. lastBump' = Target'
      BY <1>5, <2>1, <2>2, BumpTypes DEF Scan, Target, TypeOK
    <3> QED BY <2>1, <2>2, <3>1, BumpCounted
  <2>3. CASE /\ UNCHANGED <<cfgVersion, bumps>>
             /\ info' = info \/ (info'.ip4 = None /\ info'.ip6 = None)
    <3>1. lastBump' = lastBump
      BY <1>5, <2>3 DEF Scan
    <3>2. Target' = Target \/ Target' = None
      BY <2>1, <2>3 DEF Target, TargetOf
    <3> QED BY <2>1, <2>3, <3>1, <3>2 DEF Counted, Followed
  <2> DEFINE Cleared == info'.ip4 = None /\ info'.ip6 = None
             Kept == UNCHANGED <<cfgVersion, bumps>> /\ (info' = info \/ Cleared)
  <2>4. BumpVersion \/ Kept
    <3>1. PICK s \in Instances : BrowserNew(s) \/ Resolve(s) \/ BrowserRemove(s)
      BY <1>5 DEF Scan, ScanNext
    <3>2. ASSUME UNCHANGED nodeVars PROVE Kept
      BY <3>2 DEF nodeVars
    <3>3. ASSUME BrowserRemove(s) PROVE Kept
      BY <3>3 DEF BrowserRemove, RemoveService, TypeOK, ScanTypeOK
    <3>4. ASSUME NEW family, NEW answer, AddService(s, family, answer)
          PROVE  BumpVersion \/ UNCHANGED <<info, cfgVersion, bumps>>
      BY <3>4 DEF AddService, CopyToInflux, nodeVars
    <3> QED BY <3>1, <3>2, <3>3, <3>4 DEF BrowserNew, Resolve
  <2> QED BY <2>2, <2>3, <2>4
<1> QED BY <1>2, <1>3, <1>4, <1>5 DEF Next, vars, scanVars, nodeVars

(* A handle with the current version posts to the target the configuration *)
(* had when the version last changed (logInfluxCurl.c:28), as long as the  *)
(* version goes less than once around between two cycles.                  *)
THEOREM CurlMatchesLastChangeAlways == Spec => []CurlMatchesLastChange
<1>1. TypeOK /\ Counted /\ Followed => CurlMatchesLastChange
  <2> SUFFICES ASSUME TypeOK, Counted, Followed, curl.version = cfgVersion, curl.ready
               PROVE  curl.handle /\ curl.target = lastBump
    BY DEF CurlMatchesLastChange
  <2>1. /\ cfgVersion \in 0..(VersionModulus - 1) /\ bumps \in 0..BumpsPerCycle
        /\ curl.version \in 0..(VersionModulus - 1)
    BY DEF TypeOK, ScanTypeOK
  <2>2. bumps = 0
    BY <2>1, VersionAssumption DEF Counted
  <2> QED BY <2>2 DEF Followed
<1> QED BY TypesInit, TypesNext, CountedInit, CountedNext, <1>1, PTL DEF Spec
=============================================================================
