---------------------------- MODULE MCHttpServe -----------------------------
(***************************************************************************)
(* An instance of HttpServe: six settings, four configuration files that   *)
(* give none, one or all of them, and five registered keys of different    *)
(* depth and with common parents.                                          *)
(***************************************************************************)
EXTENDS HttpServe

CONSTANTS uuid, org1, addr1

MCWidth ==
  [s \in {"httpPort", "postIntervalSeconds", "dbVersion"} |->
     IF s = "dbVersion" THEN "uint8" ELSE "uint16"]

MCDefault ==
  [number |-> [s \in {"httpPort", "postIntervalSeconds", "dbVersion"} |->
                 CASE s = "httpPort" -> 80 [] s = "postIntervalSeconds" -> 2 [] s = "dbVersion" -> 1],
   flag |-> [s \in {"https"} |-> FALSE],
   text |-> [s \in {"id", "org", "ip4address"} |-> IF s = "id" THEN uuid ELSE Unset]]

Nothing ==
  [number |-> [s \in DOMAIN MCWidth |-> Absent], flag |-> [s \in {"https"} |-> Absent],
   text |-> [s \in {"id", "org", "ip4address"} |-> Absent]]

(* Every setter meets values it takes, narrows to another number, narrows  *)
(* to 0 or passes over.                                                    *)
File(port, seconds, version, id, org, address) ==
  [number |-> [s \in DOMAIN MCWidth |->
                 CASE s = "httpPort" -> port [] s = "postIntervalSeconds" -> seconds
                   [] s = "dbVersion" -> version],
   flag |-> [s \in {"https"} |-> TRUE],
   text |-> [s \in {"id", "org", "ip4address"} |->
               CASE s = "id" -> id [] s = "org" -> org [] s = "ip4address" -> address]]

MCFiles ==
  {Nothing, [Nothing EXCEPT !.number["httpPort"] = 79],
   File(65536 + 80, -1, 256, Empty, org1, addr1),
   File(0, 65536, -1, org1, Empty, org1)}

Number(s) == [key |-> <<"node", "config", "network", s>>, type |-> "number", setting |-> s]
Text(s) == [key |-> <<"node", "config", "influxDB", s>>, type |-> "text", setting |-> s]
Sensor(path) == [key |-> <<"sensor", "mpu">> \o path, type |-> "other", setting |-> "mpu"]

MCTable ==
  {Number("httpPort"), Text("org"), Sensor(<<"accel", "g", "x">>),
   Sensor(<<"accel", "g", "y">>), Sensor(<<"gyro", "dps", "x">>)}

MCSplits == {[whole |-> "gyro", head |-> "g", tail |-> "yro"]}

MCQueries ==
  {<<"sensor">>, <<"sensor", "mpu", "accel">>, <<"sensor", "mpu", "g">>,
   <<"sensor", "mpu", "gyro", "dps", "x">>}

MCFileTexts == {[length |-> 40, count |-> c] : c \in 0..2}
=============================================================================
