----------------------------- MODULE HttpServe ------------------------------
(***************************************************************************)
(* The http thread (httpServeThread.c): with the configuration read, it    *)
(* starts libmicrohttpd's daemon, publishes the service (MdnsPublish) and, *)
(* when the program is to stop, takes both down.  In between the daemon's  *)
(* own thread answers one request after the other (httpRouteRequest.c),    *)
(* with a page built from the node map (NodePage) or a text rendered from  *)
(* a template (utilsStrReplace.c).                                         *)
(***************************************************************************)
EXTENDS MdnsPublish, NodePage

CONSTANTS
  Queries,        \* the prefixes ?sensor= may make, "sensor" for none
  SizeModulus,    \* size_t is an unsigned integer of this range
  TemplateLength, \* of the error page, with its two placeholders
  FileTexts,      \* bound: [length, count] of the files that may be read
  MessageLengths  \* bound: of the error messages, in 0..255

StatusPrefix == <<"node", "config">>
MinPort == 80

(* The lengths of the placeholders and of what replaces them.              *)
TestVar == [placeholder |-> 13, replacement |-> 16]
StatusCode == [placeholder |-> 15, replacement |-> 3]
ErrorMsg(length) == [placeholder |-> 13, replacement |-> length]

ASSUME HttpPortAssumption == "httpPort" \in Numbers /\ "postIntervalSeconds" \in Numbers
ASSUME QueriesAssumption == \A q \in Queries : q \in Seq(Segments) /\ q # <<>> /\ q[1] = "sensor"
ASSUME LengthsAssumption ==
  /\ MessageLengths \subseteq 0..255
  /\ TemplateLength \in Nat /\ TemplateLength >= 28
  /\ SizeModulus \in Nat /\ SizeModulus > TemplateLength + 255
  /\ \A t \in FileTexts :
       /\ t.length \in Nat /\ t.count \in Nat /\ t.count * 13 <= t.length
       /\ t.length + t.count * 3 < SizeModulus - 1

(* The keys of the map do not meet below a prefix: no two lead to the same *)
(* place, or one through the place of the other.                           *)
ASSUME PathsAssumption ==
  \A start \in Queries \cup {StatusPrefix}, d \in Table, e \in Table :
    \A p \in Stripped(d.key, start), q \in Stripped(e.key, start) :
      /\ p \in Seq(Segments)
      /\ d = e => p = q
      /\ d # e /\ p # <<>> => p # q /\ p \notin Above(q)

VARIABLES
  config,    \* node.config; constant once the threads run, see ConfigProcessed
  stage,     \* where the http thread is, outside of MdnsPublish
  daemon,    \* libmicrohttpd's daemon: "none", "up" or "stopped"
  mhd,       \* what its thread does: "idle", "walk" the map or "answer"
  prefix,    \* the walk's prefix,
  todo,      \* the entries it has not come to
  page,      \* and the JSON object it has built
  rendered   \* the calls of str_replace: [allocated, written]

publishVars == vars
walkVars == <<prefix, todo, page>>
requestVars == <<mhd, walkVars, rendered>>
httpVars == <<publishVars, config, stage, daemon, requestVars>>

HttpTypeOK ==
  /\ TypeOK
  /\ config \in {ConfigProcessed(f) : f \in Files}
  /\ stage \in {"start", "daemon", "publish", "off"}
  /\ daemon \in (CASE stage \in {"start", "daemon"} -> {"none"}
                   [] stage = "publish" -> {"up"}
                   [] stage = "off" -> {"none", "stopped"})
  /\ mhd \in (IF daemon = "up" THEN {"idle", "walk", "answer"} ELSE {"idle"})
  /\ prefix \in Queries \cup {StatusPrefix, <<>>}
  /\ todo \subseteq Table
  /\ Len(rendered) <= 2

HttpInit ==
  /\ Init
  /\ \E f \in Files : config = ConfigProcessed(f)
  /\ stage = "start" /\ daemon = "none"
  /\ mhd = "idle" /\ prefix = <<>> /\ todo = {} /\ page = EmptyPage /\ rendered = <<>>

-----------------------------------------------------------------------------
(* http_serve_thread                                                       *)

ReadConfig ==
  /\ stage = "start"
  /\ stage' = IF config.number["httpPort"] < MinPort THEN "off" ELSE "daemon"
  /\ UNCHANGED <<publishVars, config, daemon, requestVars>>

(* The port may be taken.                                                  *)
StartDaemon ==
  /\ stage = "daemon"
  /\ \/ stage' = "publish" /\ daemon' = "up"
     \/ stage' = "off" /\ UNCHANGED daemon
  /\ UNCHANGED <<publishVars, config, requestVars>>

(* mdns_publish_service, the wait for running to be cleared, and           *)
(* stop_mdns_service; whether publishing has failed makes no difference.   *)
PublishStep ==
  /\ stage = "publish"
  /\ Publish \/ Callback \/ Stop
  /\ UNCHANGED <<config, stage, daemon, requestVars>>

StopDaemonFirst ==
  /\ stage = "publish" /\ pc = "serving" /\ mhd = "idle"
  /\ daemon' = "stopped"
  /\ UNCHANGED <<publishVars, config, stage, requestVars>>

(* MHD_stop_daemon waits for the request in progress.                      *)
StopDaemon ==
  /\ stage = "publish" /\ pc = "done" /\ mhd = "idle"
  /\ stage' = "off" /\ daemon' = "stopped"
  /\ UNCHANGED <<publishVars, config, requestVars>>

-----------------------------------------------------------------------------
(* http_route_request, in the daemon's thread.                             *)

(* str_replace: count * (replacement_len - placeholder_len) is computed in *)
(* size_t, where the difference wraps if the replacement is the shorter.   *)
StrReplaceInt(length, count, by) ==
  [allocated |-> (length + count * (IF by.replacement < by.placeholder
                                    THEN 0 ELSE by.replacement - by.placeholder)) + 1,
   written |-> length + count * (by.replacement - by.placeholder) + 1]

StrReplace(length, count, by) ==
  [allocated |-> ((length + count * ((by.replacement - by.placeholder) % SizeModulus))
                    % SizeModulus) + 1,
   written |-> length + count * (by.replacement - by.placeholder) + 1]

(* http_queue_error_response: str_replace_pairs over the template, whose   *)
(* length the first call changes.                                          *)
ErrorPage(length) ==
  LET first == StrReplace(TemplateLength, 1, StatusCode)
  IN  <<first, StrReplace(first.written - 1, 1, ErrorMsg(length))>>

Receive == daemon = "up" /\ mhd = "idle"

(* http_handle_status and http_handle_sensors lock node.lock, under which  *)
(* the configuration does not change.                                      *)
ServeMap ==
  /\ Receive
  /\ mhd' = "walk" /\ prefix' \in Queries \cup {StatusPrefix}
  /\ todo' = Table /\ page' = EmptyPage
  /\ UNCHANGED <<publishVars, config, stage, daemon, rendered>>

(* The buckets hold the entries in an order the hash decides: any order.   *)
WalkEntry ==
  /\ mhd = "walk"
  /\ \E e \in todo :
       /\ todo' = todo \ {e}
       /\ page' = AddEntry(page, config, e, prefix)
  /\ UNCHANGED <<publishVars, config, stage, daemon, mhd, prefix, rendered>>

(* http_handle_File: the file is read and its variable replaced; if it     *)
(* cannot be read, and for a path nobody knows, there is an error page.    *)
ServeText ==
  /\ Receive
  /\ mhd' = "answer"
  /\ \/ \E t \in FileTexts : rendered' = <<StrReplace(t.length, t.count, TestVar)>>
     \/ \E length \in MessageLengths : rendered' = ErrorPage(length)
  /\ UNCHANGED <<publishVars, config, stage, daemon, walkVars>>

(* /test, whose work InfluxTarget has, and /api paths nobody knows: a      *)
(* fixed text.                                                             *)
ServeFixed ==
  /\ Receive
  /\ mhd' = "answer"
  /\ UNCHANGED <<publishVars, config, stage, daemon, walkVars, rendered>>

(* The response is queued; MHD sends it and frees it.                      *)
Respond ==
  /\ mhd = "answer" \/ (mhd = "walk" /\ todo = {})
  /\ mhd' = "idle" /\ prefix' = <<>> /\ page' = EmptyPage /\ rendered' = <<>>
  /\ UNCHANGED <<publishVars, config, stage, daemon, todo>>

Request == ServeMap \/ WalkEntry \/ ServeText \/ ServeFixed \/ Respond

-----------------------------------------------------------------------------
Off == stage = "off" /\ UNCHANGED httpVars

HttpNext == ReadConfig \/ StartDaemon \/ PublishStep \/ StopDaemon \/ Request \/ Off

HttpSpec == HttpInit /\ [][HttpNext]_httpVars

-----------------------------------------------------------------------------
(* Properties.                                                             *)

(* A node that other nodes find answers: while avahi announces the service *)
(* the daemon runs (httpServeThread.c:45-54, 76-77).                       *)
AnnouncedIsServed ==
  group = "live" /\ groupState = "established" => daemon = "up"

(* log_values_thread's number of slots (logValuesThread.c:41), which       *)
(* LogBuffer assumes to be positive.                                       *)
RingSize == (config.number["postIntervalSeconds"] * 1000) \div 10

(* Whatever the file holds, the threads find settings they can work with:  *)
(* no number is 0, the ring has slots, and a string that has a default is  *)
(* neither NULL nor empty (configHelpers.c:8-35).                          *)
SettingsUsable ==
  /\ \A s \in Numbers : config.number[s] > 0
  /\ RingSize > 0
  /\ \A s \in Texts : Default.text[s] # Unset => config.text[s] \notin {Unset, Empty}

(* A page has one leaf for every registered key below its prefix that has  *)
(* a value, at the key's path, whatever order the hash puts the entries in *)
(* (utilsBuildJsonFromMap.c:59-129, httpHandleSensors.c:36-42).            *)
PageShowsAll == mhd = "walk" /\ todo = {} => page = PageOf(Table, config, prefix)

(* A rendered text fills the memory allocated for it to the last byte,     *)
(* although the difference of the lengths wraps when a placeholder is      *)
(* longer than its value (utilsStrReplace.c:18-19, 34).                    *)
RenderedFits == \A i \in DOMAIN rendered : rendered[i].allocated = rendered[i].written
=============================================================================
