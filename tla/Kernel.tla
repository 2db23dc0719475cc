------------------------------- MODULE Kernel -------------------------------
(***************************************************************************)
(* EdenKernel's boot and shutdown (eden/core/kernel.py), composed with the *)
(* device fleet whose manager it starts and stops                          *)
(* (eden/hardware/manager.py).                                             *)
(*                                                                         *)
(* start brings the enabled components up in their fixed order; when one   *)
(* of them raises, those already started are stopped in reverse and the    *)
(* error is passed on.  stop stops them all in reverse and closes the      *)
(* transport.  Only two of the components' own starts can take time or     *)
(* fail: the fleet connects its devices one by one, and the execution      *)
(* engine makes its workspace directory.  The others set a flag.           *)
(*                                                                         *)
(* The tasks of DeviceFleet come through the kernel's accessors, which     *)
(* answer as long as _started is set, that is until the end of stop; those *)
(* that are under way when stop begins go on during it and after it.       *)
(***************************************************************************)
EXTENDS DeviceFleet, FiniteSets, SequencesExt

CONSTANT Enabled    \* the components enabled in the configuration

AllComponents == <<"gateway", "memory", "hardware", "execution", "agents", "automation">>

ASSUME KernelAssumption ==
  /\ Enabled \subseteq ToSet(AllComponents)
  /\ "gateway" \in Enabled

\* Faulty variant: the switches in the configuration are not looked at.
Always(c) == TRUE

IsEnabled(c) == c \in Enabled

\* A component the configuration may switch off.
Switched(c) == IF IsEnabled(c) THEN <<c>> ELSE <<>>

Components ==
  <<"gateway">> \o Switched("memory") \o Switched("hardware") \o Switched("execution")
    \o Switched("agents") \o Switched("automation")

VARIABLES
  phase,      \* "down", "starting", "undoing" a failed start, "up", "stopping"
  step,       \* how far start or stop has come in Components
  up,         \* the components whose own _started is set
  cursor,     \* the device DeviceManager's loop is at, 0 outside of it
  awaiting,   \* whether that loop awaits the driver
  transport   \* the shared HTTP transport: "none", "open", "closed"

(* History, read by the properties only. *)
VARIABLE
  spoilt      \* the component the last start broke off in, if it did not succeed

kernelVars == <<phase, step, up, cursor, awaiting, transport, spoilt>>
vars == <<fleetVars, kernelVars>>

Nowhere == "nowhere"

\* Faulty variant: the components are stopped in the order they were started in.
InStartOrder == Components[Len(Components) + 1 - step]

Current == Components[step]
\* The component stop is at: the same sequence, walked backwards.
StopsNow == Components[step]
Here == DeviceOrder[cursor]

-----------------------------------------------------------------------------
(* start *)

\* start of a kernel that is not started: the bindings are made, and with them
\* the transport, unless an earlier start made it.
Start ==
  /\ phase = "down"
  /\ phase' = "starting"
  /\ step' = 1
  /\ transport' = IF transport = "none" /\ HasTransport THEN "open" ELSE transport
  /\ spoilt' = Nowhere
  /\ UNCHANGED <<fleetVars, up, cursor, awaiting>>

Starting(c) == phase = "starting" /\ step <= Len(Components) /\ Current = c /\ cursor = 0

\* The start of a component that sets its flag and logs; it does nothing when
\* the flag is set.
StartComponent(c) ==
  /\ Starting(c)
  /\ c # "hardware"
  /\ up' = up \union {c}
  /\ step' = step + 1
  /\ UNCHANGED <<fleetVars, phase, cursor, awaiting, transport, spoilt>>

\* DeviceManager.start: the flag is set first, then the devices are connected.
StartHardware ==
  /\ Starting("hardware")
  /\ IF "hardware" \in up
     THEN step' = step + 1 /\ UNCHANGED <<up, cursor>>
     ELSE cursor' = 1 /\ up' = up \union {"hardware"} /\ UNCHANGED step
  /\ UNCHANGED <<fleetVars, phase, awaiting, transport, spoilt>>

Connecting == phase = "starting" /\ cursor \in 1 .. Len(DeviceOrder)

SkipDevice ==
  /\ Connecting /\ ~awaiting
  /\ Here \notin ConnectOnStart \/ ConnectIsNoOp(Here)
  /\ cursor' = cursor + 1
  /\ UNCHANGED <<fleetVars, phase, step, up, awaiting, transport, spoilt>>

ConnectDevice ==
  /\ Connecting /\ ~awaiting
  /\ Here \in ConnectOnStart /\ ~ConnectIsNoOp(Here)
  /\ ConnectBegins(Here)
  /\ awaiting' = TRUE
  /\ UNCHANGED <<phase, step, up, cursor, transport, spoilt>>

\* Faulty variant: the error passes on and what was started stays up.
LeavesThemUp == phase' = "down" /\ step' = 0

\* start breaks off at this component: those before it are stopped.
BreaksOff == phase' = "undoing" /\ step' = step - 1

\* The driver's open ends.  The loop goes on after an error of the hardware
\* family; any other error leaves start, and with it the kernel's.
DeviceAnswers(outcome) ==
  /\ Connecting /\ awaiting
  /\ MayAnswer(Here, outcome)
  /\ DeviceKind[Here] = "http" /\ transport = "closed" => outcome = "other_error"
  /\ ConnectEnds(Here, outcome)
  /\ awaiting' = FALSE
  /\ IF outcome = "other_error"
     THEN BreaksOff /\ spoilt' = "hardware" /\ cursor' = 0
     ELSE cursor' = cursor + 1 /\ UNCHANGED <<phase, step, spoilt>>
  /\ UNCHANGED <<up, transport>>

FleetConnected ==
  /\ phase = "starting" /\ cursor = Len(DeviceOrder) + 1 /\ ~awaiting
  /\ cursor' = 0 /\ step' = step + 1
  /\ UNCHANGED <<fleetVars, phase, up, awaiting, transport, spoilt>>

\* The workspace directory cannot be made.
ExecutionFails ==
  /\ Starting("execution") /\ "execution" \notin up
  /\ BreaksOff
  /\ spoilt' = "execution"
  /\ UNCHANGED <<fleetVars, up, cursor, awaiting, transport>>

\* The boot is cancelled while a device is being opened: no `except Exception`
\* runs, and nothing is stopped.
BootInterrupted ==
  /\ Connecting /\ awaiting
  /\ phase' = "down" /\ step' = 0 /\ cursor' = 0 /\ awaiting' = FALSE
  /\ spoilt' = "interrupted"
  /\ crossed' = crossed \union {Here}
  /\ UNCHANGED <<bucketVars, job, state, link, up, transport>>

Started ==
  /\ phase = "starting" /\ cursor = 0 /\ step = Len(Components) + 1
  /\ phase' = "up" /\ step' = 0
  /\ UNCHANGED <<fleetVars, up, cursor, awaiting, transport, spoilt>>

-----------------------------------------------------------------------------
(* stop, and the undoing of a failed start *)

Stop ==
  /\ phase = "up"
  /\ phase' = "stopping" /\ step' = Len(Components)
  /\ UNCHANGED <<fleetVars, up, cursor, awaiting, transport, spoilt>>

Stopping == phase \in {"stopping", "undoing"} /\ step >= 1

StopComponent ==
  /\ Stopping /\ cursor = 0
  /\ StopsNow # "hardware"
  /\ up' = up \ {StopsNow}
  /\ step' = step - 1
  /\ UNCHANGED <<fleetVars, phase, cursor, awaiting, transport, spoilt>>

StopHardware ==
  /\ Stopping /\ cursor = 0
  /\ StopsNow = "hardware"
  /\ IF "hardware" \in up
     THEN cursor' = 1 /\ up' = up \ {"hardware"} /\ UNCHANGED step
     ELSE step' = step - 1 /\ UNCHANGED <<up, cursor>>
  /\ UNCHANGED <<fleetVars, phase, awaiting, transport, spoilt>>

Disconnecting == Stopping /\ cursor \in 1 .. Len(DeviceOrder)

DisconnectDevice ==
  /\ Disconnecting /\ ~awaiting
  /\ CASE DisconnectIsNoOp(Here) ->
            cursor' = cursor + 1 /\ UNCHANGED <<fleetVars, awaiting>>
       [] ~DisconnectIsNoOp(Here) /\ CloseSuspends(Here) ->
            awaiting' = TRUE /\ UNCHANGED <<fleetVars, cursor>>
       [] OTHER ->
            cursor' = cursor + 1 /\ DisconnectEnds(Here) /\ UNCHANGED awaiting
  /\ UNCHANGED <<phase, step, up, transport, spoilt>>

\* The driver's close ends, well or badly.
DeviceCloses ==
  /\ Disconnecting /\ awaiting
  /\ DisconnectEnds(Here)
  /\ cursor' = cursor + 1 /\ awaiting' = FALSE
  /\ UNCHANGED <<phase, step, up, transport, spoilt>>

FleetDisconnected ==
  /\ Stopping /\ cursor = Len(DeviceOrder) + 1 /\ ~awaiting
  /\ cursor' = 0 /\ step' = step - 1
  /\ UNCHANGED <<fleetVars, phase, up, awaiting, transport, spoilt>>

\* Only stop closes the transport.
Stopped ==
  /\ phase \in {"stopping", "undoing"} /\ step = 0
  /\ phase' = "down"
  /\ transport' = IF phase = "stopping" /\ transport = "open" THEN "closed" ELSE transport
  /\ UNCHANGED <<fleetVars, step, up, cursor, awaiting, spoilt>>

-----------------------------------------------------------------------------

Init ==
  /\ FleetInit
  /\ phase = "down" /\ step = 0 /\ cursor = 0
  /\ up = {}
  /\ awaiting = FALSE
  /\ transport = "none"
  /\ spoilt = Nowhere

Boot ==
  \/ \E c \in ToSet(AllComponents) : StartComponent(c)
  \/ StartHardware \/ SkipDevice \/ ConnectDevice \/ FleetConnected \/ ExecutionFails
  \/ Started

Shutdown ==
  \/ StopComponent \/ StopHardware \/ DisconnectDevice \/ FleetDisconnected
  \/ Stopped

\* What a driver does when its turn comes: answer the manager.
Drivers == DeviceCloses \/ \E outcome \in Outcome : DeviceAnswers(outcome)

\* The callers of the fleet reach it through the accessors, which raise when it is
\* disabled.
Arrives(t) == phase \in {"up", "stopping"} /\ IsEnabled("hardware") /\ Calls(t)

Next ==
  \/ Start \/ Stop \/ BootInterrupted
  \/ Boot \/ Shutdown \/ Drivers
  \/ \E t \in Tasks : (Arrives(t) \/ Serves(t) \/ Abandon(t)) /\ UNCHANGED kernelVars
  \/ ClockTicks /\ UNCHANGED kernelVars

Spec == Init /\ [][Next]_vars

\* What is under way goes on: the loop runs ready coroutines, the driver's open,
\* read and write are awaited under a budget, a sleep ends, and a driver's close
\* is taken to end (nothing in the code bounds it).  Nobody has to start, stop,
\* call or cancel anything.  Each subscript is all that its actions can change.
FairSpec ==
  /\ Spec
  /\ WF_kernelVars(Boot \/ Shutdown \/ Drivers)
  /\ \A t \in Tasks : WF_fleetVars(UNCHANGED kernelVars /\ Serves(t))
  /\ WF_bucketVars(UNCHANGED kernelVars /\ ClockTicks)

-----------------------------------------------------------------------------
(* Properties *)

KernelTypeOK ==
  /\ tokens \in [Buckets -> 0 .. Capacity] /\ age \in [Buckets -> 0 .. Capacity]
  /\ nap \in [Buckets -> BOOLEAN]
  /\ state \in [Devices -> DeviceState] /\ link \in [Devices -> BOOLEAN]
  /\ job \in [Tasks -> [at : Place, device : Devices \union {NoDevice},
                        previous : DeviceState]]
  /\ crossed \subseteq Devices
  /\ phase \in {"down", "starting", "undoing", "up", "stopping"}
  /\ step \in 0 .. Len(Components) + 1 /\ up \subseteq Enabled
  /\ cursor \in 0 .. Len(DeviceOrder) + 1 /\ awaiting \in BOOLEAN
  /\ transport \in {"none", "open", "closed"}
  /\ spoilt \in {Nowhere, "hardware", "execution", "interrupted"}

\* However its refills are put off, the limiter is the bucket that earns as time
\* passes, and every write to a device that has one takes a permit out of it.
Paced ==
  /\ Eager!Spec
  /\ [][\A t \in Tasks :
          /\ job[t].at # "writing" /\ job'[t].at = "writing"
          /\ job'[t].device \in Buckets
          => Eager!Take(job'[t].device)]_vars

\* As long as no operation has crossed a write, a device's word of state is
\* true: ready means its connection is open, disconnected that it is not, busy
\* that exactly one write is under way, connecting that the manager is at it.
StateTellsTruth ==
  \A d \in Devices \ crossed :
    /\ Ready(d) => link[d]
    /\ state[d] = "disconnected" => ~link[d]
    /\ state[d] = "busy" <=> Cardinality(Writing(d)) = 1
    /\ state[d] = "connecting" => awaiting /\ Here = d

\* After a stop nothing is left up: no component, no connection and no transport.
\* Nor after a start that broke off, the transport excepted, unless it broke off
\* in the fleet itself or was cancelled.
NothingDangles ==
  phase = "down" /\ spoilt \notin {"hardware", "interrupted"} =>
    /\ up = {}
    /\ \A d \in Devices \ crossed : ~link[d]
    /\ spoilt = Nowhere => transport # "open"

\* A component is stopped only after everything that was started after it, but
\* for the component whose own start broke off.
DependantsFirst ==
  [][\A i, j \in 1 .. Len(Components) :
       i < j /\ Components[i] \in up \ up' => Components[j] \notin up \ {spoilt}]_vars

\* What is under way ends: a boot or a shutdown, and the call of every task,
\* which neither the limiter's queue nor a device leaves waiting for ever.
Settles ==
  /\ phase \in {"starting", "undoing", "stopping"} ~> phase \in {"up", "down"}
  /\ \A t \in Tasks : job[t].at # "idle" ~> job[t].at = "idle"
=============================================================================
