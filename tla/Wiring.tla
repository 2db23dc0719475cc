------------------------------- MODULE Wiring -------------------------------
(***************************************************************************)
(* The composition root: the bindings EdenKernel registers                 *)
(* (eden/core/kernel.py), what the factory of each resolves, and how the   *)
(* container builds them (eden/core/container.py).  Resolving is           *)
(* synchronous and happens at the beginning of a boot, which Kernel takes  *)
(* as one step, and in the accessors and runners of a kernel that is up.   *)
(*                                                                         *)
(* A configuration says which subsystems are enabled, which bindings the   *)
(* host made before, whether it handed over a transport, and what          *)
(* providers and devices are declared.  Of those only their kind counts,   *)
(* and how constructing a plugin of kind "custom" ends: `plugin` is "ok",  *)
(* "unimportable", "bad_signature" (a TypeError) or "raises".              *)
(***************************************************************************)
EXTENDS Naturals, Sequences

Subsystem == {"memory", "hardware", "execution", "agents", "automation"}

\* The binding of each component of the kernel.
KeyOf ==
  [gateway |-> "GatewayClient", memory |-> "MemoryManager", hardware |-> "DeviceManager",
   execution |-> "ExecutionEngine", agents |-> "AgentOrchestrator",
   automation |-> "AutomationScheduler"]

CoreKeys == {"EdenConfig", "SecretResolver", "HealthTracker", "ProviderFactory",
             "OmniRouter", "GatewayClient"}

\* What is registered when a boot resolves its components: the host's own
\* bindings, which are never overridden, and those of what is enabled.
Bindings(cfg) == cfg.supplied \union CoreKeys \union {KeyOf[c] : c \in cfg.enabled}

\* What a factory resolves while it builds; the host's own resolve nothing here.
Needs(cfg, key) ==
  LET agents == {"GatewayClient"} \union {KeyOf[c] : c \in cfg.enabled \cap {"memory", "execution"}}
      engine == IF "hardware" \in cfg.enabled THEN {"DeviceManager"} ELSE {}
  IN CASE key \in cfg.supplied       -> {}
       [] key \notin cfg.supplied    ->
            CASE key = "OmniRouter"        -> {"HealthTracker"}
              [] key = "GatewayClient"     -> {"ProviderFactory", "OmniRouter", "HealthTracker"}
              [] key = "MemoryManager"     -> {"GatewayClient"}
              [] key = "ExecutionEngine"   -> engine
              [] key = "AgentOrchestrator" -> agents
              [] OTHER                     -> {}

\* What the scheduler's runners resolve when a rule runs: they are handed the
\* kernel's container, not the subsystems.
NeedsLater(cfg, key) ==
  IF key = "AutomationScheduler" /\ key \notin cfg.supplied
  THEN {KeyOf[c] : c \in cfg.enabled \cap {"agents", "execution"}}
  ELSE {}

-----------------------------------------------------------------------------
(* Providers, devices and the transport they share *)

NetworkKinds == {"openai_compatible", "anthropic", "gemini"}

\* Whether _resolve_transport has a transport to give: the host's, or one made
\* because an enabled provider, not a device, needs the network.
TransportMade(cfg) ==
  cfg.transport \/ \E p \in cfg.providers : p.enabled /\ p.kind \in NetworkKinds

\* create_all: a provider that cannot be built is left out; any error that is
\* neither of the configuration nor of the plugin loader leaves create_all.
LiveProviders(cfg) ==
  {p \in cfg.providers : /\ p.enabled
                         /\ p.kind \in NetworkKinds => TransportMade(cfg)
                         /\ p.kind = "custom" => p.plugin = "ok"}
ProvidersRaise(cfg) == \E p \in cfg.providers : p.enabled /\ p.kind = "custom" /\ p.plugin = "raises"

\* build_device_manager does the same for devices, but does not turn a
\* constructor of the wrong signature into a PluginLoadError.
LiveDevices(cfg) ==
  {d \in cfg.devices : /\ d.enabled
                       /\ d.kind = "http" => TransportMade(cfg)
                       /\ d.kind = "custom" => d.plugin = "ok"}
DevicesRaise(cfg) ==
  \E d \in cfg.devices : d.enabled /\ d.kind = "custom" /\ d.plugin \in {"bad_signature", "raises"}

FactoryRaises(cfg, key) ==
  /\ key \notin cfg.supplied
  /\ \/ key = "GatewayClient" /\ ProvidersRaise(cfg)
     \/ key = "DeviceManager" /\ DevicesRaise(cfg)

-----------------------------------------------------------------------------
(* Resolving *)

\* The outcome of resolve for the last key of a chain, the rest of which is
\* being resolved already.  Singletons that were built before answer at once;
\* building them again would end in the same way.
Resolution(cfg) ==
  LET outcome[chain \in Seq(STRING)] ==
        LET key == chain[Len(chain)] IN
        IF key \notin Bindings(cfg) THEN "missing"
        ELSE IF \E i \in 1 .. Len(chain) - 1 : chain[i] = key THEN "circular"
        ELSE IF \E k \in Needs(cfg, key) : outcome[Append(chain, k)] # "built" THEN "unresolved"
        ELSE IF FactoryRaises(cfg, key) THEN "raised"
        ELSE "built"
  IN outcome

Resolve(cfg, key) == Resolution(cfg)[<<key>>]

\* Everything that resolving a key that can be built builds, itself included.
Builds(cfg, key) ==
  LET closure[k \in STRING] == {k} \union UNION {closure[n] : n \in Needs(cfg, k)} IN
  closure[key]

\* An accessor of the kernel: what is disabled is refused, even when the host
\* supplied it; the gateway is always enabled.
Access(cfg, started, c) ==
  IF ~started THEN "not started"
  ELSE IF c \in Subsystem \ cfg.enabled THEN "disabled"
  ELSE Resolve(cfg, KeyOf[c])
=============================================================================
