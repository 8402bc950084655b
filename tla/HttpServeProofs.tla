--------------------------- MODULE HttpServeProofs --------------------------
(***************************************************************************)
(* Proofs about HttpServe, for any configuration file, node map and        *)
(* failing calls.  PublishInv describes avahi's objects from the call that *)
(* failed; the http thread takes MdnsPublish's own steps, so that what     *)
(* holds of MdnsPublish holds here (Publishes).  WalkInv says of every     *)
(* turn of the loop over the node map what the page holds so far.          *)
(***************************************************************************)
EXTENDS HttpServe, SequenceTheorems, TLAPS

-----------------------------------------------------------------------------
(* Publishing.                                                             *)

Publishing == {"poll", "client", "group", "add", "commit", "start", "return"}

(* Nothing fails before the thread serves; nothing is freed unless by the  *)
(* calls the premise of CleanupOnlyLive names; avahi's thread runs between *)
(* its start and its end.                                                  *)
PublishInv ==
  /\ TypeOK
  /\ pc \in Publishing => failed = "none"
  /\ pc \in {"client", "group", "add", "commit", "start", "return"} => avahiPoll = "live"
  /\ pc \in {"group", "add", "commit", "start", "return"} => client = "live"
  /\ pc \in {"add", "commit", "start", "return"} => group = "live"
  /\ failed \notin {"client", "group", "add"} =>
       "freed" \notin {avahiPoll, client, group} /\ "avahi" \notin misused
  /\ polling => /\ pc \in {"return", "serving", "stopPoll"}
                /\ avahiPoll = "live" /\ client = "live" /\ group = "live"

LEMMA PublishInit == Init => PublishInv
<1>1. ASSUME Init PROVE TypeOK
  <2>1. changes \in 0..MaxChanges
    BY <1>1, MaxChangesAssumption DEF Init
  <2>2. failed \in MayFail \cup {"none"}
    BY <1>1 DEF Init
  <2>3. polling \in BOOLEAN /\ misused \subseteq {"avahi", "pid", "frame"}
    BY <1>1 DEF Init
  <2> QED BY <1>1, <2>1, <2>2, <2>3 DEF Init, TypeOK
<1> QED BY <1>1 DEF Init, PublishInv

LEMMA PublishNext == ASSUME PublishInv, [Next]_vars PROVE PublishInv'
<1> USE MayFailAssumption, MaxChangesAssumption
    DEF PublishInv, TypeOK, Pointers, Publishing, Succeeds, Fails, statics,
        callbackVars, MisusedIf
<1>1. CASE NewPoll
  BY <1>1 DEF NewPoll
<1>2. CASE NewClient
  BY <1>2 DEF NewClient
<1>3. CASE NewGroup
  BY <1>3 DEF NewGroup
<1>4. CASE AddToGroup
  BY <1>4 DEF AddToGroup
<1>5. CASE Commit
  BY <1>5 DEF Commit
<1>6. CASE StartPoll
  BY <1>6 DEF StartPoll
<1>7. CASE Return
  BY <1>7 DEF Return
<1>8. CASE EntryGroupCallback
  <2>1. groupState' \in {"uncommitted", "registering", "established", "collision", "failure"}
    BY <1>8 DEF EntryGroupCallback, Following
  <2>2. changes' \in 0..MaxChanges
    BY <1>8 DEF EntryGroupCallback
  <2>3. UNCHANGED <<pc, avahiPoll, client, group, polling, failed>>
    BY <1>8 DEF EntryGroupCallback
  <2>4. /\ pid' \in {"live", "freed"}
        /\ misused' \in {misused, misused \cup {"pid"}}
    <3>1. CASE groupState' \in Reported
      BY <1>8, <3>1 DEF EntryGroupCallback
    <3>2. CASE groupState' \notin Reported
      BY <1>8, <3>2 DEF EntryGroupCallback
    <3> QED BY <3>1, <3>2
  <2> QED BY <2>1, <2>2, <2>3, <2>4
<1>9. CASE ClientCallback
  <2>1. changes' \in 0..MaxChanges
    BY <1>9 DEF ClientCallback
  <2> QED BY <1>9, <2>1 DEF ClientCallback
<1>10. CASE BeginStop
  BY <1>10 DEF BeginStop
<1>11. CASE StopPoll
  BY <1>11 DEF StopPoll
<1>12. CASE FreeGroup
  BY <1>12 DEF FreeGroup
<1>13. CASE FreeClient
  BY <1>13 DEF FreeClient
<1>14. CASE FreePoll
  BY <1>14 DEF FreePoll
<1>15. CASE UNCHANGED vars
  BY <1>15 DEF vars
<1> QED BY <1>1, <1>2, <1>3, <1>4, <1>5, <1>6, <1>7, <1>8, <1>9, <1>10, <1>11,
           <1>12, <1>13, <1>14, <1>15 DEF Next, Publish, Callback, Stop, Done

LEMMA PublishStepIsStep == [HttpNext]_httpVars => [Next]_vars
BY DEF HttpNext, httpVars, publishVars, ReadConfig, StartDaemon, PublishStep, StopDaemon,
       Request, ServeMap, WalkEntry, ServeText, ServeFixed, Respond, Off, Next

(* HttpServe is built from MdnsPublish's initial state and actions: what   *)
(* is proved of Spec carries over.                                         *)
LEMMA Publishes == HttpSpec => Spec
<1>1. HttpInit => Init
  BY DEF HttpInit
<1> QED BY <1>1, PublishStepIsStep, PTL DEF HttpSpec, Spec

LEMMA PublishAlways == HttpSpec => []PublishInv
BY PublishInit, PublishNext, Publishes, PTL DEF Spec

(* avahi's thread runs only while the objects its callbacks work on exist  *)
(* (mDnsPublishService.c:97, 105-119).                                     *)
THEOREM PollsLiveObjectsAlways == HttpSpec => []PollsLiveObjects
<1>1. PublishInv => PollsLiveObjects
  BY DEF PublishInv, PollsLiveObjects
<1> QED BY PublishAlways, <1>1, PTL

(* The cleanup works on live objects unless the failure that ended the     *)
(* publishing had freed them (mDnsPublishService.c:13, 105-119).           *)
THEOREM CleanupOnlyLiveAlways == HttpSpec => []CleanupOnlyLive
<1>1. PublishInv => CleanupOnlyLive
  BY DEF PublishInv, CleanupOnlyLive
<1> QED BY PublishAlways, <1>1, PTL

-----------------------------------------------------------------------------
(* The types, with where the http thread is outside of the publishing.     *)

HttpInv ==
  /\ HttpTypeOK
  /\ stage \in {"start", "daemon"} => pc = "poll"
  /\ stage = "off" => pc \in {"poll", "done"}
  /\ mhd = "walk" => prefix \in Queries \cup {StatusPrefix}

LEMMA HttpInvInit == HttpInit => HttpInv
<1>1. Init => TypeOK
  BY PublishInit DEF PublishInv
<1>2. ASSUME HttpInit PROVE HttpTypeOK
  <2>1. todo \subseteq Table /\ Len(rendered) <= 2
    BY <1>2 DEF HttpInit
  <2>2. /\ config \in {ConfigProcessed(f) : f \in Files}
        /\ prefix \in Queries \cup {StatusPrefix, <<>>}
    BY <1>2 DEF HttpInit
  <2>3. stage = "start" /\ daemon = "none" /\ mhd = "idle"
    BY <1>2 DEF HttpInit
  <2> QED BY <1>1, <1>2, <2>1, <2>2, <2>3 DEF HttpInit, HttpTypeOK
<1> QED BY <1>2 DEF HttpInit, HttpInv, Init

LEMMA HttpInvNext ==
  ASSUME HttpInv, PublishInv', [HttpNext]_httpVars PROVE HttpInv'
<1>1. TypeOK'
  BY DEF PublishInv
<1> USE <1>1 DEF HttpInv, HttpTypeOK, requestVars, walkVars, publishVars, vars
<1>2. CASE ReadConfig
  BY <1>2 DEF ReadConfig
<1>3. CASE StartDaemon
  BY <1>3 DEF StartDaemon
<1>4. CASE PublishStep
  BY <1>4 DEF PublishStep
<1>5. CASE StopDaemon
  BY <1>5 DEF StopDaemon
<1>6. CASE ServeMap
  BY <1>6 DEF ServeMap, Receive
<1>7. CASE WalkEntry
  BY <1>7 DEF WalkEntry
<1>8. CASE ServeText
  <2>1. Len(rendered') <= 2
    <3>1. \A x, y : Len(<<x>>) <= 2 /\ Len(<<x, y>>) <= 2
      OBVIOUS
    <3>2. CASE \E t \in FileTexts : rendered' = <<StrReplace(t.length, t.count, TestVar)>>
      BY <3>1, <3>2
    <3>3. CASE \E length \in MessageLengths : rendered' = ErrorPage(length)
      BY <3>1, <3>3 DEF ErrorPage
    <3> QED BY <1>8, <3>2, <3>3 DEF ServeText
  <2> QED BY <1>8, <2>1 DEF ServeText, Receive
<1>9. CASE ServeFixed
  BY <1>9 DEF ServeFixed, Receive
<1>10. CASE Respond
  BY <1>10 DEF Respond
<1>11. CASE UNCHANGED httpVars
  BY <1>11 DEF httpVars
<1> QED BY <1>2, <1>3, <1>4, <1>5, <1>6, <1>7, <1>8, <1>9, <1>10, <1>11
        DEF HttpNext, Request, Off

LEMMA HttpInvAlways == HttpSpec => []HttpInv
BY HttpInvInit, HttpInvNext, PublishAlways, PTL DEF HttpSpec

(* The http thread, the daemon and its requests keep to their types.       *)
THEOREM HttpTypeCorrect == HttpSpec => []HttpTypeOK
<1>1. HttpInv => HttpTypeOK
  BY DEF HttpInv
<1> QED BY HttpInvAlways, <1>1, PTL

(* While avahi announces the service, the daemon runs                      *)
(* (httpServeThread.c:45-54, 76-77).                                       *)
THEOREM AnnouncedIsServedAlways == HttpSpec => []AnnouncedIsServed
<1>1. HttpInv => AnnouncedIsServed
  BY DEF HttpInv, HttpTypeOK, TypeOK, AnnouncedIsServed
<1> QED BY HttpInvAlways, <1>1, PTL

-----------------------------------------------------------------------------
(* The configuration.                                                      *)

LEMMA DefaultsUsable ==
  /\ \A s \in Numbers : Default.number[s] \in Nat /\ Default.number[s] > 0
  /\ \A s \in Texts : Default.text[s] \in Strings \cup Ip4 \cup {Unset}
BY DefaultAssumption DEF Configs

(* The setters test what they store, not what the file gives.              *)
LEMMA SetNumberPositive ==
  ASSUME NEW s \in Numbers, NEW new \in Int \cup {Absent}
  PROVE  SetNumber(s, new) \in Nat /\ SetNumber(s, new) > 0
<1>1. CASE SetNumber(s, new) = Default.number[s]
  BY <1>1, DefaultsUsable
<1>2. CASE SetNumber(s, new) # Default.number[s]
  <2>1. /\ new \in Int /\ new % Modulus[Width[s]] > 0
        /\ SetNumber(s, new) = new % Modulus[Width[s]]
    BY <1>2 DEF SetNumber
  <2>2. Modulus[Width[s]] \in {256, 65536}
    BY WidthAssumption DEF Modulus
  <2> QED BY <2>1, <2>2
<1> QED BY <1>1, <1>2

LEMMA SetTextUsable ==
  ASSUME NEW s \in Texts, NEW new, Default.text[s] # Unset
  PROVE  SetText(s, new) \notin {Unset, Empty}
BY DefaultsUsable, TextsAssumption DEF SetText

LEMMA ProcessedUsable ==
  ASSUME NEW f \in Files, config = ConfigProcessed(f)
  PROVE  SettingsUsable
<1>1. \A s \in Numbers : f.number[s] \in Int \cup {Absent}
  BY FilesAssumption DEF Configs
<1>2. \A s \in Numbers : config.number[s] \in Nat /\ config.number[s] > 0
  BY <1>1, SetNumberPositive DEF ConfigProcessed
<1>3. RingSize > 0
  BY <1>2, HttpPortAssumption DEF RingSize
<1>4. \A s \in Texts : config.text[s] = SetText(s, f.text[s])
  BY DEF ConfigProcessed
<1>5. \A s \in Texts : Default.text[s] # Unset => config.text[s] \notin {Unset, Empty}
  BY <1>4, SetTextUsable
<1> QED BY <1>2, <1>3, <1>5 DEF SettingsUsable

(* Whatever the configuration file holds, the settings of the threads can  *)
(* be worked with: no number is 0, the ring has slots, and a string with a *)
(* default is neither NULL nor empty (configHelpers.c:8-35).               *)
THEOREM SettingsUsableAlways == HttpSpec => []SettingsUsable
<1>1. HttpInv => SettingsUsable
  BY ProcessedUsable DEF HttpInv, HttpTypeOK
<1> QED BY HttpInvAlways, <1>1, PTL

-----------------------------------------------------------------------------
(* str_replace.                                                            *)

LEMMA Wraps ==
  ASSUME NEW m \in Nat, NEW x \in Int, 0 <= x, x < m
  PROVE  x % m = x /\ (x + m) % m = x
OBVIOUS

LEMMA WrapsBelow ==
  ASSUME NEW m \in Nat, NEW x \in Int, x < 0, 0 <= x + m
  PROVE  x % m = x + m
OBVIOUS

(* Where the counted occurrences are in the text and the result is in the  *)
(* range of size_t, the wrapped sum is the length of the result.           *)
Fits(call) == call.allocated = call.written

LEMMA LongerFits ==
  ASSUME NEW t \in FileTexts
  PROVE  Fits(StrReplace(t.length, t.count, TestVar))
<1>1. t.length \in Nat /\ t.count \in Nat /\ SizeModulus \in Nat /\ 3 < SizeModulus
      /\ t.length + t.count * 3 < SizeModulus
  BY LengthsAssumption
<1>2. (16 - 13) % SizeModulus = 3
  BY <1>1, Wraps
<1>3. (t.length + t.count * 3) % SizeModulus = t.length + t.count * 3
  <2> DEFINE x == t.length + t.count * 3
  <2>1. x \in Int /\ 0 <= x /\ x < SizeModulus
    BY <1>1
  <2> QED BY <1>1, <2>1, Wraps
<1> QED BY <1>2, <1>3 DEF Fits, StrReplace, TestVar

(* One occurrence, whose replacement may be the shorter.                   *)
LEMMA OneFits ==
  ASSUME NEW length \in Nat, NEW by, by.replacement \in Nat, by.placeholder \in Nat,
         by.placeholder <= length, by.placeholder < SizeModulus,
         by.replacement < SizeModulus, length + by.replacement < SizeModulus
  PROVE  Fits(StrReplace(length, 1, by))
<1> DEFINE d == by.replacement - by.placeholder
<1>1. SizeModulus \in Nat /\ d \in Int /\ length + d \in Nat /\ length + d < SizeModulus
  BY LengthsAssumption
<1>2. (length + 1 * (d % SizeModulus)) % SizeModulus = length + d
  <2>1. CASE d >= 0
    <3>1. d % SizeModulus = d
      BY <1>1, <2>1, Wraps
    <3> QED BY <1>1, <3>1, Wraps
  <2>2. CASE d < 0
    <3>1. d % SizeModulus = d + SizeModulus
      BY <1>1, <2>2, WrapsBelow
    <3>2. ((length + d) + SizeModulus) % SizeModulus = length + d
      BY <1>1, Wraps
    <3> QED BY <1>1, <3>1, <3>2
  <2> QED BY <1>1, <2>1, <2>2
<1> QED BY <1>1, <1>2 DEF Fits, StrReplace

LEMMA ErrorPageFits ==
  ASSUME NEW length \in MessageLengths
  PROVE  Fits(ErrorPage(length)[1]) /\ Fits(ErrorPage(length)[2])
<1>1. length \in 0..255 /\ TemplateLength \in Nat /\ TemplateLength >= 28
      /\ SizeModulus \in Nat /\ SizeModulus > TemplateLength + 255
  BY LengthsAssumption
<1> DEFINE first == StrReplace(TemplateLength, 1, StatusCode)
           second == StrReplace(first.written - 1, 1, ErrorMsg(length))
<1>2. Fits(first)
  BY <1>1, OneFits DEF StatusCode
<1>3. first.written - 1 = TemplateLength - 12
  BY <1>1 DEF StrReplace, StatusCode
<1>4. Fits(second)
  <2> DEFINE l == TemplateLength - 12
  <2>1. l \in Nat /\ 13 <= l /\ l + length < SizeModulus
    BY <1>1
  <2>2. Fits(StrReplace(l, 1, ErrorMsg(length)))
    BY <1>1, <2>1, OneFits DEF ErrorMsg
  <2> QED BY <1>3, <2>2
<1>5. ErrorPage(length) = <<first, second>>
  BY DEF ErrorPage
<1> QED BY <1>2, <1>4, <1>5

(* A rendered text fills the memory allocated for it to the last byte      *)
(* (utilsStrReplace.c:18-19, 34).                                          *)
THEOREM RenderedFitsAlways == HttpSpec => []RenderedFits
<1>1. HttpInit => RenderedFits
  BY DEF HttpInit, RenderedFits
<1>2. ASSUME RenderedFits, [HttpNext]_httpVars PROVE RenderedFits'
  <2>1. CASE ServeText
    <3>1. CASE \E t \in FileTexts : rendered' = <<StrReplace(t.length, t.count, TestVar)>>
      BY <3>1, LongerFits DEF Fits, RenderedFits
    <3>2. CASE \E length \in MessageLengths : rendered' = ErrorPage(length)
      <4>1. PICK length \in MessageLengths : rendered' = ErrorPage(length)
        BY <3>2
      <4>2. DOMAIN ErrorPage(length) = {1, 2}
        BY DEF ErrorPage
      <4> QED BY <4>1, <4>2, ErrorPageFits DEF Fits, RenderedFits
    <3> QED BY <2>1, <3>1, <3>2 DEF ServeText
  <2>2. CASE Respond
    BY <2>2 DEF Respond, RenderedFits
  <2>3. CASE UNCHANGED rendered
    BY <1>2, <2>3 DEF RenderedFits
  <2> QED BY <1>2, <2>1, <2>2, <2>3
          DEF HttpNext, Request, ReadConfig, StartDaemon, PublishStep, StopDaemon,
              ServeMap, WalkEntry, ServeFixed, Off, httpVars, requestVars
<1> QED BY <1>1, <1>2, PTL DEF HttpSpec

-----------------------------------------------------------------------------
(* The page.                                                               *)

Starts == Queries \cup {StatusPrefix}

(* The parts of PageOf.                                                    *)
PathsTo(e, start) == Stripped(e.key, start) \ {<<>>}
Leaves(S, c, start) == UNION {PathsTo(e, start) : e \in {d \in S : Shown(c, d) # Unset}}
Objects(S, start) == UNION {Above(q) : q \in UNION {PathsTo(e, start) : e \in S}}
Owner(S, p, start) == CHOOSE e \in S : p \in PathsTo(e, start)

LEMMA PageOfParts ==
  ASSUME NEW S, NEW c, NEW start
  PROVE  PageOf(S, c, start) =
           [p \in Leaves(S, c, start) \cup Objects(S, start) |->
              IF p \in Leaves(S, c, start) THEN Shown(c, Owner(S, p, start)) ELSE Object]
BY DEF PageOf, PathsTo, Leaves, Objects, Owner

LEMMA AboveAbove ==
  ASSUME NEW r \in Seq(Segments), NEW q \in Above(r), NEW p \in Above(q)
  PROVE  p \in Above(r)
<1>1. PICK i \in 1..(Len(r) - 1) : q = SubSeq(r, 1, i)
  BY DEF Above
<1>2. Len(r) \in Nat /\ i \in Int /\ Len(q) = i
  BY <1>1
<1>3. PICK j \in 1..(Len(q) - 1) : p = SubSeq(q, 1, j)
  BY DEF Above
<1>4. p = SubSeq(r, 1, j)
  <2>1. i \in 1..Len(r) /\ 1 \in 1..Len(r) /\ 1 \in 1..(i - 1 + 1) /\ j \in 1..(i - 1 + 1)
    BY <1>1, <1>2, <1>3
  <2>2. SubSeq(SubSeq(r, 1, i), 1, j) = SubSeq(r, 1 + 1 - 1, 1 + j - 1)
    BY <2>1, SubSeqOfSubSeq
  <2> QED BY <1>1, <1>3, <2>1, <2>2
<1>5. j \in 1..(Len(r) - 1)
  BY <1>1, <1>2, <1>3
<1> QED BY <1>4, <1>5 DEF Above

LEMMA PathsApart ==
  ASSUME NEW start \in Starts, NEW d \in Table, NEW e \in Table,
         NEW p \in PathsTo(d, start), NEW q \in PathsTo(e, start)
  PROVE  /\ p \in Seq(Segments)
         /\ d = e => p = q
         /\ d # e => p # q
         /\ p \notin Above(q)
<1>1. d # e => p # q /\ p \notin Above(q)
  BY PathsAssumption DEF PathsTo, Starts
<1>2. p \in Seq(Segments) /\ q \in Seq(Segments)
  BY PathsAssumption DEF PathsTo, Starts
<1>3. d = e => p = q
  BY PathsAssumption DEF PathsTo, Starts
<1>4. p \notin Above(p)
  <2> SUFFICES ASSUME p \in Above(p) PROVE FALSE
    OBVIOUS
  <2>1. PICK i \in 1..(Len(p) - 1) : p = SubSeq(p, 1, i)
    BY DEF Above
  <2>2. Len(p) \in Nat /\ Len(SubSeq(p, 1, i)) = i
    BY <1>2, <2>1
  <2> QED BY <2>1, <2>2
<1> QED BY <1>1, <1>2, <1>3, <1>4

LEMMA OwnerIs ==
  ASSUME NEW start \in Starts, NEW S \in SUBSET Table, NEW d \in S,
         NEW p \in PathsTo(d, start)
  PROVE  Owner(S, p, start) = d
<1>1. \A e \in S : p \in PathsTo(e, start) => e = d
  BY PathsApart
<1> QED BY <1>1 DEF Owner

(* An entry adds its leaf and the objects on the way, and destroys nothing *)
(* the entries before it have added.                                       *)
LEMMA AddEntryToPage ==
  ASSUME NEW start \in Starts, NEW c, NEW S \in SUBSET Table,
         NEW e \in Table, e \notin S
  PROVE  AddEntry(PageOf(S, c, start), c, e, start) = PageOf(S \cup {e}, c, start)
<1> DEFINE T == S \cup {e}
           old == PageOf(S, c, start)
<1>1. T \in SUBSET Table
  OBVIOUS
<1>2. /\ \A p \in Leaves(S, c, start) : \E d \in S : p \in PathsTo(d, start) /\ Shown(c, d) # Unset
      /\ \A p \in Objects(S, start) : \E d \in S : \E q \in PathsTo(d, start) : p \in Above(q)
  BY DEF Leaves, Objects
<1>3. \A p \in Leaves(S, c, start) : Owner(T, p, start) = Owner(S, p, start)
  BY <1>1, <1>2, OwnerIs
<1>4. DOMAIN old = Leaves(S, c, start) \cup Objects(S, start)
  BY PageOfParts
<1>5. CASE Stripped(e.key, start) = {}
  <2>1. PathsTo(e, start) = {}
    BY <1>5 DEF PathsTo
  <2>2. Leaves(T, c, start) = Leaves(S, c, start) /\ Objects(T, start) = Objects(S, start)
    BY <2>1 DEF Leaves, Objects
  <2>3. PageOf(T, c, start) = old
    BY <1>3, <2>2, PageOfParts
  <2> QED BY <1>5, <2>3 DEF AddEntry
<1>6. CASE Stripped(e.key, start) # {}
  <2> DEFINE path == CHOOSE q \in Stripped(e.key, start) : TRUE
             value == Shown(c, e)
             leaf == IF path = <<>> \/ value = Unset THEN {} ELSE {path}
  <2>1. Stripped(e.key, start) = {path}
    BY <1>6, PathsAssumption DEF Starts
  <2>2. PathsTo(e, start) = {path} \ {<<>>}
    BY <2>1 DEF PathsTo
  <2> HIDE DEF path
  <2>3. Above(<<>>) = {}
    BY DEF Above
  <2>4. /\ Leaves(T, c, start) = Leaves(S, c, start) \cup leaf
        /\ Objects(T, start) = Objects(S, start) \cup Above(path)
    <3>1. Leaves(T, c, start) = Leaves(S, c, start) \cup leaf
      BY <2>2 DEF Leaves
    <3>2. Objects(T, start) = Objects(S, start) \cup UNION {Above(q) : q \in PathsTo(e, start)}
      BY DEF Objects
    <3>3. UNION {Above(q) : q \in PathsTo(e, start)} = Above(path)
      BY <2>2, <2>3
    <3> QED BY <3>1, <3>2, <3>3
  <2>5. \A p \in leaf : p \in PathsTo(e, start) /\ p = path
    BY <2>2
  <2>6. ASSUME NEW p \in DOMAIN old PROVE leaf \cap Above(p) = {}
    <3> SUFFICES ASSUME path \in leaf, path \in Above(p) PROVE FALSE
      BY <2>5
    <3>1. CASE p \in Leaves(S, c, start)
      BY <1>2, <2>5, <3>1, PathsApart
    <3>2. CASE p \in Objects(S, start)
      <4>1. PICK d \in S : \E q \in PathsTo(d, start) : p \in Above(q)
        BY <1>2, <3>2
      <4> PICK q \in PathsTo(d, start) : p \in Above(q)
        BY <4>1
      <4>2. q \in Seq(Segments)
        BY PathsApart
      <4>3. path \in Above(q)
        BY <4>2, AboveAbove
      <4> QED BY <2>5, <4>3, PathsApart
    <3> QED BY <1>4, <2>6, <3>1, <3>2
  <2>7. {p \in DOMAIN old : leaf \cap Above(p) = {}} = DOMAIN old
    BY <2>6
  <2>8. AddPath(old, path, value) =
          [p \in DOMAIN old \cup Above(path) \cup leaf |->
             IF p \in leaf THEN value ELSE IF p \in Above(path) THEN Object ELSE old[p]]
    BY <2>7 DEF AddPath
  <2>9. DOMAIN old \cup Above(path) \cup leaf = Leaves(T, c, start) \cup Objects(T, start)
    BY <1>4, <2>4
  <2>10. ASSUME NEW p \in Leaves(T, c, start) \cup Objects(T, start)
         PROVE  (IF p \in leaf THEN value ELSE IF p \in Above(path) THEN Object ELSE old[p])
                = (IF p \in Leaves(T, c, start) THEN Shown(c, Owner(T, p, start)) ELSE Object)
    <3>1. CASE p \in leaf
      <4>1. Owner(T, p, start) = e
        BY <1>1, <2>5, <3>1, OwnerIs
      <4> QED BY <2>4, <3>1, <4>1
    <3>2. CASE p \notin leaf /\ p \in Above(path)
      <4>1. path # <<>>
        BY <2>3, <3>2
      <4>2. p \notin Leaves(S, c, start)
        BY <1>2, <2>2, <3>2, <4>1, PathsApart
      <4> QED BY <2>4, <3>2, <4>2
    <3>3. CASE p \notin leaf /\ p \notin Above(path)
      <4>1. p \in DOMAIN old /\ (p \in Leaves(T, c, start) <=> p \in Leaves(S, c, start))
        BY <1>4, <2>4, <2>9, <3>3
      <4>2. old[p] = IF p \in Leaves(S, c, start) THEN Shown(c, Owner(S, p, start)) ELSE Object
        BY <1>4, <4>1, PageOfParts
      <4> QED BY <1>3, <3>3, <4>1, <4>2
    <3> QED BY <3>1, <3>2, <3>3
  <2>11. AddPath(old, path, value) = PageOf(T, c, start)
    BY <2>8, <2>9, <2>10, PageOfParts
  <2>12. AddEntry(old, c, e, start) = AddPath(old, path, value)
    BY <1>6 DEF AddEntry, path
  <2> QED BY <2>11, <2>12
<1> QED BY <1>5, <1>6

WalkInv ==
  mhd = "walk" => /\ prefix \in Starts /\ todo \subseteq Table
                  /\ page = PageOf(Table \ todo, config, prefix)

LEMMA WalkNext == ASSUME WalkInv, [HttpNext]_httpVars PROVE WalkInv'
<1>1. CASE ServeMap
  <2>1. PageOf({}, config, prefix') = EmptyPage
    <3>1. Leaves({}, config, prefix') = {} /\ Objects({}, prefix') = {}
      BY DEF Leaves, Objects
    <3> QED BY <3>1, PageOfParts DEF EmptyPage
  <2>2. Table \ todo' = {} /\ prefix' \in Starts /\ config' = config /\ page' = EmptyPage
    BY <1>1 DEF ServeMap, Starts
  <2> QED BY <1>1, <2>1, <2>2 DEF ServeMap, WalkInv
<1>2. CASE WalkEntry
  <2>1. PICK e \in todo : /\ todo' = todo \ {e}
                          /\ page' = AddEntry(page, config, e, prefix)
    BY <1>2 DEF WalkEntry
  <2>2. /\ UNCHANGED <<mhd, prefix, config>> /\ prefix \in Starts /\ todo \subseteq Table
        /\ page = PageOf(Table \ todo, config, prefix)
    BY <1>2 DEF WalkEntry, WalkInv
  <2>3. Table \ todo' = (Table \ todo) \cup {e}
    BY <2>1, <2>2
  <2>4. page' = PageOf(Table \ todo', config, prefix)
    BY <2>1, <2>2, <2>3, AddEntryToPage
  <2> QED BY <2>1, <2>2, <2>4 DEF WalkInv
<1>3. CASE ServeText \/ ServeFixed \/ Respond
  BY <1>3 DEF ServeText, ServeFixed, Respond, WalkInv
<1>4. CASE UNCHANGED <<config, mhd, walkVars>>
  BY <1>4 DEF WalkInv, walkVars
<1> QED BY <1>1, <1>2, <1>3, <1>4
        DEF HttpNext, Request, ReadConfig, StartDaemon, PublishStep, StopDaemon, Off,
            httpVars, requestVars

(* A page has one leaf for every registered key below its prefix that has  *)
(* a value, whatever order the hash puts the entries in                    *)
(* (utilsBuildJsonFromMap.c:59-129, httpHandleSensors.c:36-42).            *)
THEOREM PageShowsAllAlways == HttpSpec => []PageShowsAll
<1>1. HttpInit => WalkInv
  BY DEF HttpInit, WalkInv
<1>2. WalkInv => PageShowsAll
  <2>1. Table \ {} = Table
    OBVIOUS
  <2> QED BY <2>1 DEF WalkInv, PageShowsAll
<1> QED BY <1>1, <1>2, WalkNext, PTL DEF HttpSpec
=============================================================================
