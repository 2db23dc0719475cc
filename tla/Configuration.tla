--------------------------- MODULE Configuration ---------------------------
(***************************************************************************)
(* Where a kernel's configuration comes from (eden/config): sources are    *)
(* loaded and merged in order of precedence, and the result is read        *)
(* against the schema, which refuses what is missing, mistyped or          *)
(* contradictory.  Of the schema this module keeps what decides how the    *)
(* kernel is wired: the switches, the providers and the devices.           *)
(*                                                                         *)
(* A raw value is a scalar, a list or a table of raw values; a scalar is   *)
(* the text it is read from.                                               *)
(***************************************************************************)
EXTENDS Naturals, Sequences, SequencesExt

Scalar(v) == [scalar |-> v]
List(s) == [list |-> s]
Table(f) == [table |-> f]
Empty == Table(<<>>)
Error == [error |-> "ConfigurationError"]

IsScalar(v) == DOMAIN v = {"scalar"}
IsList(v) == DOMAIN v = {"list"}
IsTable(v) == DOMAIN v = {"table"}

With(t, key, v) ==
  Table([k \in DOMAIN t.table \union {key} |-> IF k = key THEN v ELSE t.table[k]])

-----------------------------------------------------------------------------
(* Sources *)

Absent == [absent |-> "no such file"]
Malformed == [malformed |-> "not TOML"]

\* A TOML file that may be absent unless it is required, and may be malformed.
LoadFile(file, required) ==
  CASE file = Absent    -> IF required THEN Error ELSE Empty
    [] file = Malformed -> Error
    [] OTHER            -> file

\* The variables of the environment, each a path of parts with its value.  A part
\* is a key, written in capitals or not: the path it stands for is in lower case.
\* They come sorted by name, where capitals precede the separator and the
\* separator small letters.
SortsBefore(u, v) ==
  \/ Len(u.parts) < Len(v.parts) /\ SubSeq(v.parts, 1, Len(u.parts)) = u.parts
  \/ \E i \in DOMAIN u.parts \intersect DOMAIN v.parts :
       /\ SubSeq(u.parts, 1, i - 1) = SubSeq(v.parts, 1, i - 1)
       /\ u.parts[i].key = v.parts[i].key
       /\ u.parts[i].capitals /\ ~v.parts[i].capitals

Sorted(environ) == \A i, j \in DOMAIN environ : i < j => ~SortsBefore(environ[j], environ[i])

Path(variable) == [i \in DOMAIN variable.parts |-> variable.parts[i].key]

\* A scalar on the way is an error; what stands at the end of it is replaced.
RECURSIVE Assign(_, _, _)
Assign(target, path, value) ==
  LET part == Head(path)
      held == IF part \in DOMAIN target.table THEN target.table[part] ELSE Empty
      nested == IF IsTable(held) THEN Assign(held, Tail(path), value) ELSE Error
  IN IF Len(path) = 1 THEN With(target, part, Scalar(value))
     ELSE IF nested = Error THEN Error ELSE With(target, part, nested)

LoadEnvironment(environ) ==
  LET Assigned(target, variable) ==
        IF target = Error THEN Error ELSE Assign(target, Path(variable), variable.value)
  IN FoldLeft(Assigned, Empty, environ)

\* Tables are merged key by key; anything else is replaced as a whole.
RECURSIVE DeepMerge(_, _)
DeepMerge(base, overlay) ==
  Table([k \in DOMAIN base.table \union DOMAIN overlay.table |->
           IF k \notin DOMAIN overlay.table THEN base.table[k]
           ELSE IF /\ k \in DOMAIN base.table
                   /\ IsTable(base.table[k]) /\ IsTable(overlay.table[k])
                THEN DeepMerge(base.table[k], overlay.table[k])
                ELSE overlay.table[k]])

\* The first source that fails to load fails the whole.
Merged(fragments) ==
  LET Overlaid(merged, fragment) ==
        IF Error \in {merged, fragment} THEN Error ELSE DeepMerge(merged, fragment)
  IN FoldLeft(Overlaid, Empty, fragments)

\* load_config: the file, over it the environment, over that the overrides.
LoadConfig(file, required, environ, overrides) ==
  Merged(<<LoadFile(file, required), LoadEnvironment(environ), overrides>>)

-----------------------------------------------------------------------------
(* Reading *)

TrueTokens == {"1", "true", "yes", "on", "y"}
FalseTokens == {"0", "false", "no", "off", "n"}

Has(t, key) == key \in DOMAIN t
Text(t, key, default) == IF Has(t, key) THEN t[key].scalar ELSE default
Flag(t, key, default) == Text(t, key, default) \in TrueTokens
Section(t, key) == IF Has(t, key) THEN t[key].table ELSE <<>>
Entries(t, key) == IF Has(t, key) THEN t[key].list ELSE <<>>

TextOK(t, key) == Has(t, key) => IsScalar(t[key])
FlagOK(t, key) == Has(t, key) => IsScalar(t[key]) /\ t[key].scalar \in TrueTokens \union FalseTokens
SectionOK(t, key) == Has(t, key) => IsTable(t[key])
EntriesOK(t, key) == Has(t, key) => IsList(t[key]) /\ \A i \in DOMAIN t[key].list : IsTable(t[key].list[i])

Distinct(entries) ==
  \A i, j \in DOMAIN entries : entries[i].table["name"] = entries[j].table["name"] => i = j

ProviderKinds == {"openai_compatible", "anthropic", "gemini", "mock", "custom"}
DeviceKinds == {"simulated", "http", "custom"}

\* An entry of the provider catalogue.
ProviderOK(p) ==
  /\ Has(p, "name") /\ Has(p, "kind")
  /\ \A key \in {"name", "kind", "base_url", "implementation"} : TextOK(p, key)
  /\ FlagOK(p, "enabled")
  /\ p["name"].scalar # "" /\ p["kind"].scalar \in ProviderKinds
  /\ p["kind"].scalar \notin {"mock", "custom"} => Text(p, "base_url", "") # ""
  /\ p["kind"].scalar = "custom" => Text(p, "implementation", "") # ""

Provider(p) ==
  [name |-> p["name"].scalar, kind |-> p["kind"].scalar, enabled |-> Flag(p, "enabled", "yes"),
   plugin |-> Text(p, "implementation", "")]

GatewayOK(gateway) ==
  /\ EntriesOK(gateway, "providers")
  /\ \A i \in DOMAIN Entries(gateway, "providers") :
       ProviderOK(Entries(gateway, "providers")[i].table)
  /\ Distinct(Entries(gateway, "providers"))

\* An entry of the fleet.
DeviceOK(d) ==
  /\ Has(d, "name")
  /\ \A key \in {"name", "kind", "endpoint", "implementation", "max_commands_per_minute"} :
       TextOK(d, key)
  /\ FlagOK(d, "enabled") /\ FlagOK(d, "connect_on_start")
  /\ d["name"].scalar # "" /\ Text(d, "kind", "simulated") \in DeviceKinds
  /\ Text(d, "kind", "simulated") = "http" => Text(d, "endpoint", "") # ""
  /\ Text(d, "kind", "simulated") = "custom" => Text(d, "implementation", "") # ""

Device(d) ==
  [name |-> d["name"].scalar, kind |-> Text(d, "kind", "simulated"),
   enabled |-> Flag(d, "enabled", "yes"), plugin |-> Text(d, "implementation", ""),
   limited |-> Text(d, "max_commands_per_minute", "600") # "0",
   connect_on_start |-> Flag(d, "connect_on_start", "yes")]

HardwareOK(hardware) ==
  /\ FlagOK(hardware, "read_only")
  /\ EntriesOK(hardware, "devices")
  /\ \A i \in DOMAIN Entries(hardware, "devices") :
       DeviceOK(Entries(hardware, "devices")[i].table)
  /\ Distinct(Entries(hardware, "devices"))

\* The subsystems that are off unless the configuration turns them on.
OnByDefault == [memory |-> "yes", agents |-> "yes", execution |-> "yes",
                hardware |-> "no", automation |-> "no"]

\* Whether build_config accepts what was merged, and what it makes of it.
Accepted(raw) ==
  /\ raw # Error
  /\ \A s \in DOMAIN OnByDefault \union {"gateway"} : SectionOK(raw.table, s)
  /\ \A s \in DOMAIN OnByDefault : FlagOK(Section(raw.table, s), "enabled")
  /\ GatewayOK(Section(raw.table, "gateway"))
  /\ HardwareOK(Section(raw.table, "hardware"))

BuildConfig(raw) ==
  LET gateway == Section(raw.table, "gateway")
      hardware == Section(raw.table, "hardware")
      providers == Entries(gateway, "providers")
      devices == Entries(hardware, "devices") IN
  [enabled |-> {s \in DOMAIN OnByDefault : Flag(Section(raw.table, s), "enabled", OnByDefault[s])},
   providers |-> [i \in DOMAIN providers |-> Provider(providers[i].table)],
   devices |-> [i \in DOMAIN devices |-> Device(devices[i].table)],
   read_only |-> Flag(hardware, "read_only", "no")]
=============================================================================
