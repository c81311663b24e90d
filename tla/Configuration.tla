--------------------------- MODULE Configuration ----------------------------
(***************************************************************************)
(* Partial updates of the configuration (src/src/core/config.cpp), which    *)
(* come from the file and from PUT /api/config: every field that the patch  *)
(* names is converted, and what cannot be converted leaves the field alone. *)
(*                                                                          *)
(* Abstractions.  The sections are one record, of the fields whose          *)
(* conversions differ: a name for all the strings, a level for the          *)
(* temperatures, one port for the two.  A level is a number.                *)
(***************************************************************************)
EXTENDS Integers, FiniteSets, TLC

CONSTANTS Ports,      \* 2^16: a port is a uint16_t
          IntSpace    \* 2^32: device and cpuThreads are of type int

ASSUME WidthsAssumption == Ports \in Nat \ {0, 1} /\ IntSpace \in Nat /\ IntSpace >= 2 * Ports

(* A JSON value of a patch: null, a truth value as 0 or 1, a string that may *)
(* spell a number, or a number.                                             *)
Null         == [kind |-> "null"]
Truth(b)     == [kind |-> "bool", number |-> IF b THEN 1 ELSE 0]
Text(s)      == [kind |-> "string", text |-> s]
Digits(n)    == [kind |-> "digits", number |-> n]
Number(n)    == [kind |-> "number", number |-> n]

(* asInt(), asNumber() and asString(), each with its fallback.              *)
AsInt(value, fallback) == IF value.kind \in {"number", "digits", "bool"} THEN value.number ELSE fallback
AsString(value, fallback) ==
    CASE value.kind = "string" -> value.text
      [] value.kind = "digits" -> ToString(value.number)
      [] OTHER                 -> fallback

(* static_cast<int>(): the low 32 bits, in two's complement.                *)
CastToInt(n) ==
    LET low == n % IntSpace
    IN  IF low < IntSpace \div 2 THEN low ELSE low - IntSpace

(* Wrong form: the number is cut to 16 bits.                                *)
ToPortCut(value, fallback) ==
    IF value.kind = "null" THEN fallback ELSE AsInt(value, fallback) % Ports

(* toPort()                                                                 *)
ToPort(value, fallback) ==
    LET v == AsInt(value, fallback)
    IN  IF value.kind = "null" \/ v <= 0 \/ v >= Ports THEN fallback ELSE v

(* applyPartialJson(); a patch is a function of the fields that it names.   *)
Converted(field, value, old) ==
    CASE field = "device"     -> CastToInt(AsInt(value, old))
      [] field = "cpuThreads" -> LET threads == AsInt(value, old)
                                 IN  IF threads < 0 THEN 0 ELSE CastToInt(threads)
      [] field = "port"       -> ToPort(value, old)
      [] field = "level"      -> AsInt(value, old)
      [] OTHER                -> AsString(value, old)

ApplyPartialJson(config, patch) ==
    [field \in DOMAIN config |->
       IF field \in DOMAIN patch THEN Converted(field, patch[field], config[field])
       ELSE config[field]]

(* loadFromString(): on top of the defaults.                                *)
Defaults == [device |-> 0, cpuThreads |-> 1, port |-> 1, level |-> 3,
             name |-> "", password |-> "x", root |-> ""]

(* toJson(false): what leaves the process.                                  *)
ToJson(config) ==
    [device      |-> Number(config.device),
     cpuThreads  |-> Number(config.cpuThreads),
     port        |-> Number(config.port),
     level       |-> Number(config.level),
     name        |-> Text(config.name),
     passwordSet |-> Truth(config.password # "")]

-----------------------------------------------------------------------------
(* What a client writes back of what it has read, with one field changed.   *)
WithField(json, field, value) ==
    [f \in DOMAIN json \cup {field} |-> IF f = field THEN value ELSE json[f]]

(* A client that reads the configuration and writes it back, with one field *)
(* changed, changes that field alone: neither the password, which it never  *)
(* saw, nor the root; a port stays one that can be connected to, whatever   *)
(* the patches say.                                                         *)
EditsOneField(patch, field, value) ==
    LET config == ApplyPartialJson(Defaults, patch)
        edited == ApplyPartialJson(config, WithField(ToJson(config), field, value))
    IN  /\ ApplyPartialJson(config, ToJson(config)) = config
        /\ \A other \in DOMAIN config \ {field} : edited[other] = config[other]
        /\ edited.port \in 1 .. Ports - 1
=============================================================================
