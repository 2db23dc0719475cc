----------------------------- MODULE MCKernel -----------------------------
(* Instance of Kernel for TLC: a device with a driver of its own, behind a  *)
(* limiter of one command per unit of time, a network device without a      *)
(* limit, and two tasks of which one uses both.  What is enabled, the       *)
(* devices and the transport come from a file and an environment, read by   *)
(* Configuration and wired by Wiring; the assumptions are checks of those   *)
(* two modules on small inputs.                                             *)
EXTENDS Kernel, Wiring, Configuration, TLC

CONSTANTS t1, t2

Settings(f) == Table([k \in DOMAIN f |-> Scalar(f[k])])

File ==
  Table([gateway |-> Table([providers |-> List(<<
           Settings([name |-> "claude", kind |-> "anthropic", base_url |-> "api"])>>)]),
         hardware |-> Table([enabled |-> Scalar("no"), devices |-> List(<<
           Settings([name |-> "servo", kind |-> "http", endpoint |-> "url",
                     max_commands_per_minute |-> "0"]),
           Settings([name |-> "spare", enabled |-> "no"]),
           Settings([name |-> "lamp", kind |-> "custom", implementation |-> "ok",
                     max_commands_per_minute |-> "1"])>>)]),
         agents |-> Settings([enabled |-> "no"])])

Variable(keys, value) ==
  [parts |-> [i \in DOMAIN keys |-> [key |-> keys[i], capitals |-> TRUE]], value |-> value]

Environ == << Variable(<<"hardware", "enabled">>, "on"), Variable(<<"memory", "enabled">>, "off") >>

Loaded == BuildConfig(LoadConfig(File, TRUE, Environ, Empty))

\* What Wiring needs to know of a configuration.
Wired(loaded) ==
  [enabled |-> loaded.enabled, supplied |-> {}, transport |-> FALSE,
   providers |-> Range(loaded.providers), devices |-> Range(loaded.devices)]

Fleet == SelectSeq(Loaded.devices, LAMBDA d : d.enabled)
Names(P(_)) == {Fleet[i].name : i \in {j \in DOMAIN Fleet : P(Fleet[j])}}
KindTable == [n \in Names(LAMBDA d : TRUE) |-> (CHOOSE d \in Range(Fleet) : d.name = n).kind]
Transport == TransportMade(Wired(Loaded))
NamesInOrder == [i \in DOMAIN Fleet |-> Fleet[i].name]
Eagerly == Names(LAMBDA d : d.connect_on_start)
Quota == Names(LAMBDA d : d.limited)
Everything == DOMAIN KindTable
Switches == {"gateway"} \union Loaded.enabled
ReadTable == t1 :> {} @@ t2 :> {"lamp"}
CommandTable == t1 :> {"lamp"} @@ t2 :> {"lamp", "servo"}
ReadOnlyFlag == Loaded.read_only

MCDevices == Everything
MCDeclared == NamesInOrder
MCKind == KindTable
MCHasTransport == Transport
MCConnectOnStart == Eagerly
MCLimited == Quota
MCReadOnly == ReadOnlyFlag
MCTasks == {t1, t2}
MCEnabled == Switches
MCReads == ReadTable
MCCommands == CommandTable

-----------------------------------------------------------------------------
(* Checks of Wiring *)

Plugins == {"ok", "unimportable", "bad_signature", "raises"}
Declarations(kinds) == {[kind |-> k, enabled |-> TRUE, plugin |-> "ok"] : k \in kinds}
Custom(plugin) == [kind |-> "custom", enabled |-> TRUE, plugin |-> plugin]

\* Everything a host may have bound, or not.
Overridable == {"HealthTracker", "GatewayClient", "DeviceManager", "ExecutionEngine",
                "AutomationScheduler"}

Configs ==
  [enabled : SUBSET Subsystem, supplied : SUBSET Overridable, transport : BOOLEAN,
   providers : {Declarations({"mock"}), Declarations({"mock", "gemini"})},
   devices : {Declarations({"simulated", "http"})}]

\* The order start goes through, for a configuration.
StartOrder(cfg) == SelectSeq(AllComponents, LAMBDA c : c \in cfg.enabled \union {"gateway"})

\* Whatever is enabled and whatever the host overrides, every component can be
\* built: no binding is missing and no dependency is circular.
ASSUME EveryConfigurationResolves ==
  \A cfg \in Configs : \A i \in DOMAIN StartOrder(cfg) :
    Resolve(cfg, KeyOf[StartOrder(cfg)[i]]) = "built"

\* "the only ordering that guarantees a component's dependencies still exist
\* while it is releasing its own resources" (kernel.py:7): whatever a component
\* was built from, or resolves when it runs, is started before it and stopped
\* after it.
ASSUME StartOrderFollowsNeeds ==
  \A cfg \in Configs :
    LET order == StartOrder(cfg) IN
    \A i \in DOMAIN order :
      LET key == KeyOf[order[i]]
          used == (Builds(cfg, key) \ {key}) \union NeedsLater(cfg, key) IN
      \A k \in used : \A j \in DOMAIN order : KeyOf[order[j]] = k => j < i

\* A rule's task or action finds its subsystem whenever it was given a runner.
ASSUME RunnersResolve ==
  \A cfg \in Configs : \A k \in NeedsLater(cfg, "AutomationScheduler") :
    Resolve(cfg, k) = "built"

\* An accessor never hands out a subsystem that is disabled, and always one
\* that is enabled.
ASSUME AccessFollowsSwitches ==
  \A cfg \in Configs, c \in DOMAIN KeyOf :
    Access(cfg, TRUE, c) = "built" <=> c \in cfg.enabled \union {"gateway"}

\* Only providers have a transport made for them: with mock providers alone
\* every HTTP device is left out of the fleet.
ASSUME DevicesNeedANetworkProvider ==
  \A cfg \in Configs :
    (\E d \in LiveDevices(cfg) : d.kind = "http")
      <=> cfg.transport \/ Declarations({"mock", "gemini"}) = cfg.providers

\* A plugin provider whose constructor has the wrong signature is left out,
\* but a plugin driver of that kind fails the boot, although
\* build_device_manager promises what "the gateway" does "with a bad provider".
ASSUME WrongSignatureStopsOnlyDrivers ==
  \A plugin \in Plugins :
    LET cfg == [enabled |-> {"hardware"}, supplied |-> {}, transport |-> FALSE,
                providers |-> {Custom(plugin)}, devices |-> {Custom(plugin)}] IN
    /\ Resolve(cfg, "GatewayClient") = "built" <=> plugin # "raises"
    /\ Resolve(cfg, "DeviceManager") = "built" <=> plugin \in {"ok", "unimportable"}
    /\ Custom(plugin) \in LiveProviders(cfg) <=> plugin = "ok"

-----------------------------------------------------------------------------
(* Checks of Configuration *)

Tables(values) == {Table(f) : f \in UNION {[keys -> values] : keys \in SUBSET {"a", "b"}}}
Fragments(v) == Tables({Scalar(v)} \union Tables({Scalar(v)}))

Inner(t) == {k \in DOMAIN t.table : IsTable(t.table[k])}
LeafPaths(t) ==
  {<<k>> : k \in DOMAIN t.table \ Inner(t)}
    \union UNION {{<<k, l>> : l \in DOMAIN t.table[k].table} : k \in Inner(t)}
Leaf(t, p) == IF Len(p) = 1 THEN t.table[p[1]].scalar ELSE t.table[p[1]].table[p[2]].scalar
Settled(t) == {<<p, Leaf(t, p)>> : p \in LeafPaths(t)}

\* Nothing at p or on the way to it, in this fragment.
Silent(t, p) == p \notin LeafPaths(t) /\ <<p[1]>> \notin LeafPaths(t) /\ (Len(p) = 1 => p[1] \notin Inner(t))

\* However three sources nest, a setting is that of the last source to set it,
\* unless a later one puts a plain value over its table or a table in its place.
ASSUME LastWordCounts ==
  \A first \in Fragments("1"), second \in Fragments("2"), third \in Fragments("3") :
    Settled(Merged(<<first, second, third>>)) =
      {leaf \in Settled(first) : Silent(second, leaf[1]) /\ Silent(third, leaf[1])}
        \union {leaf \in Settled(second) : Silent(third, leaf[1])}
        \union Settled(third)

Part(capitals) == [key : {"a", "b"}, capitals : capitals]
Variables(capitals) ==
  [parts : {<<p>> : p \in Part(capitals)} \union {<<p, q>> : p, q \in Part(capitals)},
   value : {"1"}]
Environments(capitals) ==
  {environ \in {<<u, v>> : u, v \in Variables(capitals)} :
     environ[1] # environ[2] /\ Sorted(environ)}
Collide(u, v) == \E short, long \in {Path(u), Path(v)} : Len(short) < Len(long) /\ short[1] = long[1]

\* Of two variables in capitals one of which names a branch of the other, the
\* kernel hears (sources.py:142, "If a variable name collides with a nested
\* branch"): the shorter name is read first.
ASSUME CapitalsCollide ==
  \A environ \in Environments({TRUE}) :
    LoadEnvironment(environ) = Error <=> Collide(environ[1], environ[2])

\* But a shorter name in small letters is read last, and silently takes the
\* place of the branch.
ASSUME SmallLettersReplace ==
  \E environ \in Environments({TRUE, FALSE}) :
    /\ Collide(environ[1], environ[2])
    /\ LoadEnvironment(environ) # Error
    /\ Cardinality(Settled(LoadEnvironment(environ))) = 1

\* The environment cannot reach into a list: a variable below the providers or
\* the devices does not alter an entry, it makes the configuration invalid.
ASSUME ListsAreReplacedWhole ==
  \A section \in {<<"gateway", "providers">>, <<"hardware", "devices">>},
     rest \in {<<>>, <<"0">>, <<"0", "enabled">>} :
    LET raw == LoadConfig(File, TRUE, <<Variable(section \o rest, "no")>>, Empty) IN
    raw # Error /\ ~Accepted(raw)

\* What is accepted names each device and each provider once, whatever is laid
\* over the file, and the fleet then meets FleetAssumption.
ASSUME AcceptedIsSound ==
  \A name \in {"servo", "lamp", "", "pump"}, kind \in DeviceKinds, endpoint \in {"", "url"} :
    LET added == Settings([name |-> name, kind |-> kind, endpoint |-> endpoint])
        devices == File.table["hardware"].table["devices"].list
        overrides == Table([hardware |-> Table([devices |-> List(Append(devices, added))])])
        raw == LoadConfig(File, TRUE, <<>>, overrides) IN
    Accepted(raw) <=> name = "pump" /\ (kind = "http" => endpoint # "") /\ kind # "custom"

\* The file of this instance is accepted with its environment, and without the
\* environment the devices stay off.
ASSUME FileIsAccepted ==
  /\ Accepted(LoadConfig(File, TRUE, Environ, Empty))
  /\ Loaded.enabled = {"hardware", "execution"}
  /\ BuildConfig(LoadConfig(File, TRUE, <<>>, Empty)).enabled = {"execution", "memory"}
  /\ ~Accepted(LoadConfig(Absent, TRUE, Environ, Empty))
  /\ BuildConfig(LoadConfig(Absent, FALSE, <<>>, Empty)).enabled = {"agents", "execution", "memory"}
=============================================================================
