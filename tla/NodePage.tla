------------------------------ MODULE NodePage ------------------------------
(***************************************************************************)
(* The JSON the web pages show of the node.  node_init registers a pointer *)
(* under a dotted key in a hash map (nodeMap.c); a page is built from the  *)
(* entries whose key starts with a prefix, one after the other as the      *)
(* buckets hold them (utilsBuildJsonFromMap.c).  A key is the sequence of  *)
(* its segments, a JSON object the function from the paths below it to     *)
(* what is there.                                                          *)
(***************************************************************************)
EXTENDS NodeConfig, Sequences

CONSTANTS
  Object,    \* the value of a path that leads to an object
  Reading,   \* a value of the sensors, or the list of services
  Table,     \* node_map: a set of [key, type, setting]
  Splits     \* segments a prefix may end within: [whole, head, tail]

Segments == STRING

ASSUME TableAssumption ==
  \A e \in Table :
    /\ e.key \in Seq(Segments)
    /\ \/ e.type = "number" /\ e.setting \in Numbers
       \/ e.type = "flag" /\ e.setting \in Flags
       \/ e.type = "text" /\ e.setting \in Texts \cup Addresses
       \/ e.type = "other"

-----------------------------------------------------------------------------
(* The keys node_init registers.                                           *)

Under(first, names) == {<<first, n>> : n \in names}

ConfigKeys ==
  {<<n>> : n \in {"id", "verbose", "clusterId", "servePath", "logValues",
                  "configFile", "i2cBusPath", "dataFolderName", "logValuesToFile",
                  "logMilliseconds", "logValuesToInflux", "logValuesFileClearSeconds"}}
    \cup Under("tmpfs", {"use", "sizeMB"})
    \cup Under("influxDB", {"org", "host", "port", "https", "token", "username",
                 "password", "dbVersion", "precision", "dbOrBucket", "cfgVersion",
                 "ip4address", "ip6address", "forbidReuse", "freshConnect",
                 "totalTimeoutMs", "mDNSserviceType", "useServiceScan",
                 "connectTimeoutMs", "postIntervalSeconds"})
    \cup Under("network", {"mDNS", "mqPublish", "httpPort", "mDNSserviceList",
                 "httpmDNSserviceType", "mqBrokermDNSserviceType"})

SensorKeys ==
  {<<"accel", u, a>> : u \in {"raw", "ms2", "g"}, a \in {"x", "y", "z"}}
    \cup {<<"gyro", u, a>> : u \in {"raw", "dps"}, a \in {"x", "y", "z"}}
    \cup Under("euler", {"roll", "pitch", "yaw"})

NodeKeys ==
  {<<"node", "config">> \o k : k \in ConfigKeys} \cup {<<"sensor", "mpu">> \o k : k \in SensorKeys}

-----------------------------------------------------------------------------
(* The paths of the objects a path leads through.                          *)
Above(path) == {SubSeq(path, 1, i) : i \in 1..(Len(path) - 1)}

PrefixFree(keys) == \A k \in keys, l \in keys : k \notin Above(l)

ASSUME KeysAssumption == PrefixFree(NodeKeys) /\ \A e \in Table : e.key \in NodeKeys

(* strncmp: the prefix may end within a segment.  What follows it, without *)
(* a dot, is the path below the page; there is none if the key does not    *)
(* start with the prefix.                                                  *)
Stripped(key, prefix) ==
  LET n == Len(prefix)
      rest == SubSeq(key, n + 1, Len(key))
  IN  IF n = 0 \/ n > Len(key) \/ SubSeq(key, 1, n - 1) # SubSeq(prefix, 1, n - 1)
      THEN {}
      ELSE {rest : x \in {key[n]} \cap {prefix[n]}}
             \cup {<<s.tail>> \o rest : s \in {t \in Splits : t.whole = key[n] /\ t.head = prefix[n]}}

(* get_or_create_object on every object the path leads through, then the   *)
(* leaf: what lies below it, if it was an object, is gone.  A NULL string  *)
(* or an address 0 sets no leaf, nor does an empty path.                   *)
AddPathAnew(page, path, value) ==
  LET kept == {p \in DOMAIN page : Above(path) \cap (Above(p) \cup {p}) = {}}
      leaf == IF path = <<>> \/ value = Unset THEN {} ELSE {path}
  IN  [p \in kept \cup Above(path) \cup leaf |->
         IF p \in leaf THEN value ELSE IF p \in Above(path) THEN Object ELSE page[p]]

AddPath(page, path, value) ==
  LET leaf == IF path = <<>> \/ value = Unset THEN {} ELSE {path}
      kept == {p \in DOMAIN page : leaf \cap Above(p) = {}}
  IN  [p \in kept \cup Above(path) \cup leaf |->
         IF p \in leaf THEN value ELSE IF p \in Above(path) THEN Object ELSE page[p]]

EmptyPage == [p \in {} |-> Object]

(* What the pointer of an entry shows.                                     *)
Shown(config, e) ==
  CASE e.type = "number" -> config.number[e.setting]
    [] e.type = "flag"   -> config.flag[e.setting]
    [] e.type = "text"   -> config.text[e.setting]
    [] e.type = "other"  -> Reading

(* One turn of the loop over the entries.                                  *)
AddEntry(page, config, e, prefix) ==
  IF Stripped(e.key, prefix) = {} THEN page
  ELSE AddPath(page, CHOOSE path \in Stripped(e.key, prefix) : TRUE, Shown(config, e))

-----------------------------------------------------------------------------
(* What the page for a prefix has to be once the given entries are added:  *)
(* one leaf for every entry that has a value, in the objects on the way.   *)
PageOf(entries, config, prefix) ==
  LET Paths(e) == Stripped(e.key, prefix) \ {<<>>}
      Leaves == UNION {Paths(e) : e \in {d \in entries : Shown(config, d) # Unset}}
      Objects == UNION {Above(path) : path \in UNION {Paths(e) : e \in entries}}
  IN  [p \in Leaves \cup Objects |->
         IF p \in Leaves THEN Shown(config, CHOOSE e \in entries : p \in Paths(e)) ELSE Object]
=============================================================================
