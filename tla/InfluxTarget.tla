---------------------------- MODULE InfluxTarget ----------------------------
(***************************************************************************)
(* Where the log thread posts to.  The InfluxDB configuration is changed   *)
(* by the mDNS scan (ServiceScan) and by a request for /test               *)
(* (httpHandleTest.c); the log thread notices by comparing cfgVersion with *)
(* the version of its curl handle, at the start of every cycle             *)
(* (logInfluxCurl.c), and posts with that handle whatever happens to the   *)
(* configuration meanwhile.  All of them hold node.lock.                   *)
(***************************************************************************)
EXTENDS ServiceScan

CONSTANTS LogToInflux,   \* node.config.logValuesToInflux
          InitMayFail    \* curl_easy_init may return NULL

ASSUME CurlAssumption == LogToInflux \in BOOLEAN /\ InitMayFail \in BOOLEAN

VARIABLES
  fresh,      \* node.config.influxDB.freshConnect; forbidReuse goes with it
  curl,       \* InfluxCurl: [version, handle, ready, target]
  initFailed, \* history: the last call of curl_easy_init returned NULL
  lastBump    \* history: the target of the configuration at the last
              \* change of cfgVersion

vars == <<scanVars, fresh, curl, initFailed, lastBump>>

(* The settings a handle is made from, or None if they do not name an      *)
(* address; there always is a port.  IPv4 is preferred.                    *)
TargetOf(i, fr) ==
  IF i.ip4 = None /\ i.ip6 = None THEN None
  ELSE [addr |-> IF i.ip4 # None THEN i.ip4 ELSE i.ip6, port |-> i.port, fresh |-> fr]

Target == TargetOf(info, fresh)

Targets == [addr : Addrs, port : Ports, fresh : BOOLEAN] \cup {None}

TypeOK ==
  /\ ScanTypeOK
  /\ fresh \in BOOLEAN
  /\ curl \in [version : 0..(VersionModulus - 1), handle : BOOLEAN,
               ready : BOOLEAN, target : Targets]
  /\ initFailed \in BOOLEAN
  /\ lastBump \in Targets

(* influxCurl is zeroed, so version 0 differs from the configuration's 1.  *)
Init ==
  /\ ScanInit
  /\ fresh \in BOOLEAN
  /\ curl = [version |-> 0, handle |-> FALSE, ready |-> FALSE, target |-> None]
  /\ initFailed = FALSE
  /\ lastBump = Target

-----------------------------------------------------------------------------
(* log_update_influx_curl with a new version; without logToInflux the      *)
(* handle goes, and ready stays what it was.                               *)
NewHandle ==
  LET fresher == [curl EXCEPT !.version = cfgVersion]
      made == [fresher EXCEPT !.handle = TRUE, !.ready = TRUE, !.target = Target]
  IN  IF ~LogToInflux
      THEN curl' = [fresher EXCEPT !.handle = FALSE] /\ UNCHANGED initFailed
      ELSE \/ /\ InitMayFail
              /\ curl' = [fresher EXCEPT !.handle = FALSE, !.ready = FALSE]
              /\ initFailed' = TRUE
           \/ /\ curl' = IF Target # None THEN made
                         ELSE [fresher EXCEPT !.handle = TRUE, !.ready = FALSE]
              /\ initFailed' = FALSE

UpdateCurlKeepsReady ==
  /\ curl' = IF curl.version = cfgVersion THEN curl
             ELSE [curl EXCEPT !.version = cfgVersion, !.handle = TRUE, !.ready = TRUE]
  /\ bumps' = 0
  /\ UNCHANGED <<avahi, list, info, hostOf, cfgVersion, fresh, initFailed, lastBump>>

(* Then the log thread peeks, posts, writes and sleeps (module LogValues). *)
UpdateCurl ==
  /\ IF curl.version = cfgVersion THEN UNCHANGED <<curl, initFailed>> ELSE NewHandle
  /\ bumps' = 0
  /\ UNCHANGED <<avahi, list, info, hostOf, cfgVersion, fresh, lastBump>>

(* A request for /test                                                     *)
HttpTest ==
  /\ fresh' = ~fresh
  /\ BumpVersion
  /\ lastBump' = TargetOf(info, ~fresh)
  /\ UNCHANGED <<avahi, list, info, hostOf, curl, initFailed>>

Scan ==
  /\ ScanNext
  /\ lastBump' = IF cfgVersion' # cfgVersion THEN TargetOf(info', fresh) ELSE lastBump
  /\ UNCHANGED <<fresh, curl, initFailed>>

Next == UpdateCurl \/ HttpTest \/ Scan

(* The log thread of a running service goes round its loop.  It gets both  *)
(* mutexes: a service is found by a scan thread that is past the returns   *)
(* that leak one.  Nothing is assumed of the network or of the callers of  *)
(* /test.                                                                  *)
Spec == Init /\ [][Next]_vars /\ WF_vars(UpdateCurl)

-----------------------------------------------------------------------------
(* A handle that has the current version posts to the target the           *)
(* configuration had when the version last changed (logInfluxCurl.c:28).   *)
CurlMatchesLastChange ==
  curl.version = cfgVersion /\ curl.ready => curl.handle /\ curl.target = lastBump

(* An InfluxDB service the scan has found is posted to within a cycle,     *)
(* unless it is removed again first or no handle can be made               *)
(* (mDnsScanUpdateList.c:65-68, 99-102).                                   *)
FoundIsUsed ==
  \A t \in Targets \ {None} :
    Target = t ~> (curl.ready /\ curl.target = t) \/ Target # t \/ initFailed

(* A change of the configuration reaches the curl handle: it does not go   *)
(* on posting to a target the configuration no longer has (the comment     *)
(* logInfluxCurl.c:24-25 says that the function is called when the         *)
(* configuration changes and updates the URL based on the new settings).   *)
ConfigReachesCurl ==
  curl.ready /\ curl.target # Target ~> ~curl.ready \/ curl.target = Target
=============================================================================
