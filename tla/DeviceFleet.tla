---------------------------- MODULE DeviceFleet ----------------------------
(***************************************************************************)
(* The devices and the tasks that use them (eden/hardware/device.py and    *)
(* the handler and read paths of eden/hardware/manager.py), on one event   *)
(* loop.                                                                   *)
(*                                                                         *)
(* BaseDevice keeps one word of state and no lock.  Every operation checks *)
(* it once, awaits, and then writes it: read and send await the driver     *)
(* under a budget, send first awaits the device's rate limiter, connect    *)
(* and disconnect await the driver's open and close.  A task is what       *)
(* ExecutionEngine runs for a device command (prepare reads the channel    *)
(* back, execute sends) or a caller of read; the engine's own budget may   *)
(* cancel it at any of these awaits.                                       *)
(*                                                                         *)
(* What a channel's value is, and which values are within limits, is left  *)
(* to the guard that a task may always be refused before it sends.         *)
(***************************************************************************)
EXTENDS TokenBucket

CONSTANTS
  Devices,         \* the devices; those without a limiter have no quota of commands
  Declared,        \* the enabled devices, in the order of the configuration
  DeviceKind,      \* the driver of each
  HasTransport,    \* whether the kernel has an HTTP transport to hand them
  ConnectOnStart,  \* the devices with connect_on_start
  ReadOnly,        \* hardware.read_only
  Reads,           \* bounds of the model: the devices each task reads and
  Commands,        \*   those it sends commands to
  NoDevice         \* what a task without a device works on

Tasks == Callers

ASSUME FleetAssumption ==
  /\ Declared \in Seq(Devices)
  /\ DeviceKind \in [Devices -> {"simulated", "http", "custom"}]
  /\ HasTransport \in BOOLEAN /\ ReadOnly \in BOOLEAN
  /\ ConnectOnStart \subseteq Devices /\ Buckets \subseteq Devices
  /\ Reads \in [Tasks -> SUBSET Devices] /\ Commands \in [Tasks -> SUBSET Devices]
  /\ NoDevice \notin Devices

DeviceState == {"disconnected", "connecting", "ready", "busy", "faulted"}

VARIABLES
  state,      \* _state of each device
  link,       \* whether the driver's connection is open (outside the program's own state)
  job         \* of each task: where it is, the device it works on, and the
              \*   state its send found and will restore

(* History, read by the properties only. *)
VARIABLE
  crossed     \* the devices whose state one operation wrote while a write of
              \*   another was under way, or whose write was cancelled

deviceVars == <<state, link, crossed>>
fleetVars == <<bucketVars, job, deviceVars>>

Place == {"idle", "reading", "preparing", "prepared", "waiting", "writing"}

Idle == [at |-> "idle", device |-> NoDevice, previous |-> "ready"]

-----------------------------------------------------------------------------
(* Construction *)

\* build_device refuses an HTTP device when no transport was supplied, and
\* build_device_manager logs that and goes on without the device.
Constructible(d) == DeviceKind[d] = "http" => HasTransport

\* The fleet, one declaration after another.
DeviceOrder ==
  LET built[n \in 0 .. Len(Declared)] ==
        IF n = 0 THEN <<>>
        ELSE IF Constructible(Declared[n]) THEN Append(built[n - 1], Declared[n])
        ELSE built[n - 1]
  IN built[Len(Declared)]

FleetInit ==
  /\ BucketInit
  /\ state = [d \in Devices |-> "disconnected"]
  /\ link = [d \in Devices |-> FALSE]
  /\ job = [t \in Tasks |-> Idle]
  /\ crossed = {}

-----------------------------------------------------------------------------
(* Helpers *)

Writing(d) == {t \in Tasks : job[t].at = "writing" /\ job[t].device = d}

\* The devices whose state is written under somebody else's feet.
CrossedBy(d, doers) == IF Writing(d) \ doers # {} THEN {d} ELSE {}

Ready(d) == state[d] = "ready"

\* The outcomes of an await on the driver: done, an error of the hardware family
\* (running out of the device's budget is one) or any other error, such as the
\* transport's.  A simulated device never fails, and never suspends its caller.
Outcome == {"done", "hardware_error", "other_error"}

MayAnswer(d, outcome) == DeviceKind[d] = "simulated" => outcome = "done"

\* A task takes up a device, goes on to its next place, or is done.
TakesUp(t, place, d) ==
  job' = [job EXCEPT ![t] = [at |-> place, device |-> d, previous |-> "ready"]]
Goes(t, place) == job' = [job EXCEPT ![t].at = place]
Leaves(t) == job' = [job EXCEPT ![t] = Idle]

-----------------------------------------------------------------------------
(* Reading *)

\* read of a ready device; read_all is one of these after another, and any
\* other device refuses without a change of state.
Read(t, d) ==
  /\ job[t].at = "idle"
  /\ Ready(d)
  /\ TakesUp(t, "reading", d)
  /\ UNCHANGED <<bucketVars, deviceVars>>

\* DeviceCommandHandler.prepare reads the channel back; a device that refuses
\* leaves the command without a way to undo it, and prepared all the same.
Prepare(t, d) ==
  /\ job[t].at = "idle"
  /\ TakesUp(t, IF Ready(d) THEN "preparing" ELSE "prepared", d)
  /\ UNCHANGED <<bucketVars, deviceVars>>

\* The driver answers.  An error faults the device whatever it has become
\* meanwhile; prepare survives an error of the hardware family.
ReadEnds(t, outcome) ==
  LET d == job[t].device IN
  /\ job[t].at \in {"reading", "preparing"}
  /\ MayAnswer(d, outcome)
  /\ IF job[t].at = "preparing" /\ outcome # "other_error"
     THEN Goes(t, "prepared") ELSE Leaves(t)
  /\ state' = [state EXCEPT ![d] = IF outcome = "done" THEN @ ELSE "faulted"]
  /\ crossed' = IF outcome = "done" THEN crossed ELSE crossed \union CrossedBy(d, {t})
  /\ UNCHANGED <<bucketVars, link>>

-----------------------------------------------------------------------------
(* Sending *)

\* Refused before the handler runs, by read-only mode, by the device's state or
\* by its limits.
Refused(t) ==
  /\ job[t].at = "prepared"
  /\ Leaves(t)
  /\ UNCHANGED <<bucketVars, deviceVars>>

\* Faulty variant: the state to return to is assumed.
AssumesReady(t) == "ready"

\* What send will put back, read after the wait for the limiter.
Before(t) == state[job[t].device]

\* send marks the device busy and hands the value to the driver.
BeginWrite(t) ==
  LET d == job[t].device IN
  /\ job' = [job EXCEPT ![t] = [at |-> "writing", device |-> d, previous |-> Before(t)]]
  /\ state' = [state EXCEPT ![d] = "busy"]
  /\ crossed' = crossed \union CrossedBy(d, {t})
  /\ UNCHANGED link

\* send of a permitted command: the checks, and the limiter.
Send(t) ==
  LET d == job[t].device IN
  /\ job[t].at = "prepared"
  /\ ~ReadOnly /\ Ready(d)
  /\ \/ /\ IF d \in Buckets THEN AdmitAtOnce(d) ELSE UNCHANGED bucketVars
        /\ BeginWrite(t)
     \/ /\ d \in Buckets
        /\ Arrive(d, t)
        /\ Goes(t, "waiting")
        /\ UNCHANGED deviceVars

Granted(t) ==
  /\ job[t].at = "waiting"
  /\ Grant(job[t].device, t)
  /\ BeginWrite(t)

KeepsWaiting(t) ==
  /\ job[t].at = "waiting"
  /\ Sleep(job[t].device, t)
  /\ UNCHANGED <<job, deviceVars>>

\* The driver answers, and send restores the state it found, or faults.
WriteEnds(t, outcome) ==
  LET d == job[t].device IN
  /\ job[t].at = "writing"
  /\ MayAnswer(d, outcome)
  /\ Leaves(t)
  /\ state' = [state EXCEPT ![d] = IF outcome = "done" THEN job[t].previous ELSE "faulted"]
  /\ crossed' = crossed \union CrossedBy(d, {t})
  /\ UNCHANGED <<bucketVars, link>>

\* The task is cancelled while it awaits.  Cancellation is not an Exception, so
\* no handler of the device runs: a write leaves the device busy.
Abandon(t) ==
  LET d == job[t].device IN
  /\ job[t].at \in {"reading", "preparing", "prepared", "waiting", "writing"}
  /\ Leaves(t)
  /\ IF job[t].at = "waiting" THEN GiveUp(d, t) ELSE UNCHANGED bucketVars
  /\ crossed' = IF job[t].at = "writing" THEN crossed \union {d} ELSE crossed
  /\ UNCHANGED <<state, link>>

-----------------------------------------------------------------------------
(* connect and disconnect, called by DeviceManager *)

\* connect returns at once for a ready or a busy device.
ConnectIsNoOp(d) == state[d] \in {"ready", "busy"}

ConnectBegins(d) ==
  /\ state' = [state EXCEPT ![d] = "connecting"]
  /\ crossed' = crossed \union CrossedBy(d, {})
  /\ UNCHANGED <<bucketVars, job, link>>

\* The driver's open ends.  A device opened while nobody writes to it is again
\* what its state says it is.
ConnectEnds(d, outcome) ==
  /\ state' = [state EXCEPT ![d] = IF outcome = "done" THEN "ready" ELSE "faulted"]
  /\ link' = [link EXCEPT ![d] = outcome = "done"]
  /\ crossed' = IF Writing(d) # {} THEN crossed \union {d} ELSE crossed \ {d}
  /\ UNCHANGED <<bucketVars, job>>

\* disconnect awaits the driver's close, which it lets fail.  The close of the
\* drivers that come with the system has nothing to wait for.
DisconnectIsNoOp(d) == state[d] = "disconnected"

CloseSuspends(d) == DeviceKind[d] = "custom"

DisconnectEnds(d) ==
  /\ state' = [state EXCEPT ![d] = "disconnected"]
  /\ link' = [link EXCEPT ![d] = FALSE]
  /\ crossed' = crossed \union CrossedBy(d, {})
  /\ UNCHANGED <<bucketVars, job>>

-----------------------------------------------------------------------------

\* A task enters the fleet.
Calls(t) ==
  \/ \E d \in Reads[t] : Read(t, d)
  \/ \E d \in Commands[t] : Prepare(t, d)

\* A task that is in it goes on.
Serves(t) ==
  \/ Refused(t) \/ Send(t) \/ Granted(t) \/ KeepsWaiting(t)
  \/ \E outcome \in Outcome : ReadEnds(t, outcome) \/ WriteEnds(t, outcome)

ClockTicks == TimePasses /\ UNCHANGED <<job, deviceVars>>
=============================================================================
