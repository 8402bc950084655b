----------------------------- MODULE NodeConfig -----------------------------
(***************************************************************************)
(* The configuration of the node: the defaults of node_init, overridden by *)
(* what the configuration file gives (configProcessFile.c), through        *)
(* setters that pass over what they cannot use (configHelpers.c).  It is   *)
(* set before the threads are made.                                        *)
(***************************************************************************)
EXTENDS Integers

CONSTANTS
  Width,     \* Width[s]: "uint8" or "uint16", for every setting that is a number
  Flags,     \* the settings that are booleans
  Texts,     \* the settings that are strings
  Addresses, \* the settings that are IPv4 addresses
  Default,   \* what node_init sets: [number, flag, text]
  Files,     \* the configuration files considered, of the same shape
  Strings, Ip4,  \* what a string may hold that is no, or an, IPv4 address
  Empty,     \* the empty string
  Unset,     \* a NULL pointer, or the address 0
  Absent     \* what a file does not give, or gives in another JSON type

Numbers == DOMAIN Width

(* A file that cannot be loaded, or whose section is not an object, gives  *)
(* none of the settings in question.                                       *)
Configs(numbers, flags, texts) ==
  [number : [Numbers -> numbers], flag : [Flags -> flags],
   text : [Texts \cup Addresses -> texts]]

ASSUME WidthAssumption == \A s \in Numbers : Width[s] \in {"uint8", "uint16"}
ASSUME TextsAssumption ==
  /\ Texts \cap Addresses = {} /\ Strings \cap Ip4 = {}
  /\ {Empty, Unset, Absent} \cap (Strings \cup Ip4) = {} /\ Empty # Unset
ASSUME DefaultAssumption ==
  /\ Default \in Configs(Nat \ {0}, BOOLEAN, Strings \cup Ip4 \cup {Unset})
  /\ \A s \in Numbers : Default.number[s] < 256
ASSUME FilesAssumption ==
  Files \subseteq Configs(Int \cup {Absent}, BOOLEAN \cup {Absent},
                          Strings \cup Ip4 \cup {Empty, Absent})

-----------------------------------------------------------------------------
Modulus == [uint8 |-> 256, uint16 |-> 65536]

(* The wide value is what is tested.                                       *)
SetNumberTestsWide(s, new) ==
  IF new # Absent /\ new > 0 THEN new % Modulus[Width[s]] ELSE Default.number[s]

(* set_uint8, set_uint16: the value is narrowed first, then tested.        *)
SetNumber(s, new) ==
  IF new # Absent /\ new % Modulus[Width[s]] > 0 THEN new % Modulus[Width[s]]
                                                 ELSE Default.number[s]

(* set_boolean                                                             *)
SetFlag(s, new) == IF new = Absent THEN Default.flag[s] ELSE new

(* set_string_nullable and set_ip4                                         *)
SetText(s, new) ==
  IF new \in (IF s \in Addresses THEN Ip4 ELSE Strings \cup Ip4)
  THEN new ELSE Default.text[s]

ConfigProcessed(file) ==
  [number |-> [s \in Numbers |-> SetNumber(s, file.number[s])],
   flag   |-> [s \in Flags |-> SetFlag(s, file.flag[s])],
   text   |-> [s \in Texts \cup Addresses |-> SetText(s, file.text[s])]]
=============================================================================
