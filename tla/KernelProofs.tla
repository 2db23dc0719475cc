---------------------------- MODULE KernelProofs ----------------------------
(***************************************************************************)
(* Proofs about Kernel and the fleet it starts and stops, for any devices, *)
(* drivers, limiters, tasks and configuration: the limiter implements the  *)
(* bucket that earns as time passes, a device's word of state is true      *)
(* until an operation crosses a write, components are stopped in the       *)
(* reverse of the order they were started in, and a stop leaves nothing    *)
(* behind.                                                                 *)
(***************************************************************************)
EXTENDS Kernel, FiniteSetTheorems, WellFoundedInduction, TLAPS

Job == [at : Place, device : Devices \union {NoDevice}, previous : DeviceState]

\* The part of KernelTypeOK that is about the fleet, and that a task which is
\* under way has a device.
FleetTypeOK ==
  /\ tokens \in [Buckets -> 0 .. Capacity] /\ age \in [Buckets -> 0 .. Capacity]
  /\ state \in [Devices -> DeviceState] /\ link \in [Devices -> BOOLEAN]
  /\ job \in [Tasks -> Job]
  /\ \A t \in Tasks : job[t].at # "idle" => job[t].device \in Devices
  /\ awaiting \in BOOLEAN

-----------------------------------------------------------------------------
(* The limiter *)

LEMMA RefilledType ==
  ASSUME tokens \in [Buckets -> 0 .. Capacity], age \in [Buckets -> 0 .. Capacity],
         NEW b \in Buckets
  PROVE  /\ Refilled(b) \in 0 .. Capacity
         /\ age[b] = 0 => Refilled(b) = tokens[b]
BY CapacityAssumption DEF Refilled, Smaller

\* A caller that finds a token takes a permit out of the eager bucket.
LEMMA SpendTakes ==
  ASSUME tokens \in [Buckets -> 0 .. Capacity], age \in [Buckets -> 0 .. Capacity],
         NEW b \in Buckets, Spend(b)
  PROVE  /\ Eager!Take(b)
         /\ tokens' \in [Buckets -> 0 .. Capacity] /\ age' \in [Buckets -> 0 .. Capacity]
<1>1. Refilled(b) \in 1 .. Capacity
  BY RefilledType, CapacityAssumption DEF Spend
<1>2. /\ tokens' = [tokens EXCEPT ![b] = Refilled(b) - 1]
      /\ age' = [age EXCEPT ![b] = 0]
  BY DEF Spend, Marker
<1>3. tokens' \in [Buckets -> 0 .. Capacity] /\ age' \in [Buckets -> 0 .. Capacity]
  BY <1>1, <1>2, CapacityAssumption
<1>4. Refilled(b)' = Refilled(b) - 1
  BY <1>1, <1>2, CapacityAssumption DEF Refilled, Smaller
<1>5. \A a \in Buckets \ {b} : Refilled(a)' = Refilled(a)
  BY <1>2 DEF Refilled, Smaller
<1> HIDE DEF Refilled
<1>6. [a \in Buckets |-> Refilled(a)]'
        = [[a \in Buckets |-> Refilled(a)] EXCEPT ![b] = @ - 1]
  BY <1>4, <1>5
<1> QED
  BY <1>1, <1>3, <1>6, CapacityAssumption DEF Eager!Take

\* A caller that finds none changes what is stored, not what is there.
LEMMA FindNoneKeeps ==
  ASSUME tokens \in [Buckets -> 0 .. Capacity], age \in [Buckets -> 0 .. Capacity],
         NEW b, FindNone(b)
  PROVE  /\ UNCHANGED [a \in Buckets |-> Refilled(a)]
         /\ tokens' \in [Buckets -> 0 .. Capacity] /\ age' \in [Buckets -> 0 .. Capacity]
<1>1. /\ tokens' = [tokens EXCEPT ![b] = Refilled(b)]
      /\ age' = [age EXCEPT ![b] = 0]
  BY DEF FindNone, Marker
<1>2. \A a \in Buckets : Refilled(a)' = Refilled(a)
  <2> TAKE a \in Buckets
  <2>1. CASE a = b
    BY <1>1, <2>1, RefilledType, CapacityAssumption DEF Refilled, Smaller
  <2>2. CASE a # b
    BY <1>1, <2>2 DEF Refilled, Smaller
  <2> QED
    BY <2>1, <2>2
<1>3. b \in Buckets => Refilled(b) \in 0 .. Capacity
  BY RefilledType
<1> HIDE DEF Refilled
<1>4. tokens' \in [Buckets -> 0 .. Capacity] /\ age' \in [Buckets -> 0 .. Capacity]
  <2>1. CASE b \in Buckets
    BY <1>1, <1>3, <2>1, CapacityAssumption
  <2>2. CASE b \notin Buckets
    BY <1>1, <2>2
  <2> QED
    BY <2>1, <2>2
<1> QED
  BY <1>2, <1>4

\* A unit of time earns a permit in every bucket that is not full.
LEMMA TimeEarns ==
  ASSUME tokens \in [Buckets -> 0 .. Capacity], age \in [Buckets -> 0 .. Capacity],
         TimePasses
  PROVE  /\ Eager!Earn
         /\ tokens' \in [Buckets -> 0 .. Capacity] /\ age' \in [Buckets -> 0 .. Capacity]
<1>1. /\ tokens' = tokens
      /\ age' = [b \in Buckets |-> Smaller(Capacity, age[b] + 1)]
  BY DEF TimePasses
<1>2. \A b \in Buckets : Smaller(Capacity, age[b] + 1) \in 0 .. Capacity
  BY CapacityAssumption DEF Smaller
<1>3. \A b \in Buckets : Refilled(b)' = Eager!Lesser(Capacity, Refilled(b) + 1)
  BY <1>1, CapacityAssumption DEF Refilled, Smaller, Eager!Lesser
<1>4. age' \in [Buckets -> 0 .. Capacity]
  BY <1>1, <1>2
<1> HIDE DEF Refilled
<1>5. Eager!Earn
  BY <1>3 DEF Eager!Earn
<1> QED
  BY <1>1, <1>4, <1>5


-----------------------------------------------------------------------------
(* The inductive invariant *)

WritesTo(t, d) == job[t].at = "writing" /\ job[t].device = d

\* What a state of d claims is so.
Tells(d, w) ==
  /\ w = "ready" => link[d]
  /\ w = "disconnected" => ~link[d]
  /\ w = "connecting" => awaiting /\ Here = d

\* The state claims no more than is so, at most one task writes, the state is busy
\* exactly meanwhile, and what that task will restore claims no more either.
Steady(d) ==
  /\ Tells(d, state[d])
  /\ state[d] = "busy" <=> \E t \in Tasks : WritesTo(t, d)
  /\ \A t \in Tasks : WritesTo(t, d) =>
       /\ job[t].previous # "busy" /\ Tells(d, job[t].previous)
       /\ \A u \in Tasks : WritesTo(u, d) => u = t

IInv ==
  /\ FleetTypeOK
  /\ awaiting => cursor # 0
  /\ \A d \in Devices \ crossed : Steady(d)

LEMMA InitInvariant == Init => IInv
<1> SUFFICES ASSUME Init PROVE IInv
  OBVIOUS
<1> USE DEF Init, FleetInit, BucketInit
<1>1. Idle \in Job /\ Idle.at = "idle"
  BY DEF Idle, Job, Place, DeviceState
<1>2. FleetTypeOK
  <2>1. tokens \in [Buckets -> 0 .. Capacity] /\ age \in [Buckets -> 0 .. Capacity]
    BY CapacityAssumption
  <2>2. state \in [Devices -> DeviceState] /\ link \in [Devices -> BOOLEAN]
    BY DEF DeviceState
  <2>3. job \in [Tasks -> Job] /\ \A t \in Tasks : job[t].at = "idle"
    BY <1>1
  <2> QED
    BY <2>1, <2>2, <2>3 DEF FleetTypeOK
<1>3. ASSUME NEW d \in Devices PROVE Steady(d)
  BY <1>1 DEF Steady, Tells, WritesTo
<1> QED
  BY <1>2, <1>3 DEF IInv

\* What a task's next place leaves of the other tasks.
LEMMA JobStep ==
  ASSUME job \in [Tasks -> Job], NEW t \in Tasks, NEW j \in Job,
         job' = [job EXCEPT ![t] = j]
  PROVE  /\ job' \in [Tasks -> Job] /\ job'[t] = j
         /\ \A u \in Tasks \ {t} : job'[u] = job[u]
OBVIOUS

LEMMA GoesStep ==
  ASSUME job \in [Tasks -> Job], NEW t \in Tasks, NEW p \in Place, Goes(t, p)
  PROVE  /\ job' \in [Tasks -> Job]
         /\ job'[t].at = p /\ job'[t].device = job[t].device
         /\ \A u \in Tasks \ {t} : job'[u] = job[u]
<1> DEFINE j == [at |-> p, device |-> job[t].device, previous |-> job[t].previous]
<1>1. j \in Job
  BY DEF Job
<1>2. [job[t] EXCEPT !.at = p] = j
  BY DEF Job
<1>3. job' = [job EXCEPT ![t] = j]
  BY <1>2 DEF Goes
<1> QED
  BY <1>1, <1>3, JobStep

LEMMA LeavesStep ==
  ASSUME job \in [Tasks -> Job], NEW t \in Tasks, Leaves(t)
  PROVE  /\ job' \in [Tasks -> Job] /\ job'[t].at = "idle"
         /\ \A u \in Tasks \ {t} : job'[u] = job[u]
<1>1. Idle \in Job /\ Idle.at = "idle"
  BY DEF Idle, Job, Place, DeviceState
<1> QED
  BY <1>1, JobStep DEF Leaves

\* A write to a device that nobody else has begun is all there is.
LEMMA Uncrossed ==
  ASSUME NEW d, NEW t, NEW S, d \notin S \union CrossedBy(d, {t})
  PROVE  d \notin S /\ \A u \in Tasks : WritesTo(u, d) => u = t
BY DEF CrossedBy, Writing, WritesTo

-----------------------------------------------------------------------------
(* Each kind of step *)

\* A step of the manager that touches no device, and loses none it awaits.
Quiet ==
  /\ UNCHANGED fleetVars
  /\ awaiting' \in BOOLEAN /\ (awaiting' => cursor' # 0)
  /\ awaiting => awaiting' /\ cursor' = cursor

LEMMA QuietKeeps ==
  ASSUME IInv, Quiet
  PROVE  IInv'
<1> USE DEF Quiet, fleetVars, bucketVars, deviceVars
<1>1. FleetTypeOK'
  BY DEF IInv, FleetTypeOK
<1>2. ASSUME NEW d \in Devices \ crossed' PROVE Steady(d)'
  BY <1>2 DEF IInv, Steady, Tells, WritesTo, Here
<1> QED
  BY <1>1, <1>2 DEF IInv

\* A step that changes nothing but the buckets.
LEMMA BucketStepKeeps ==
  ASSUME IInv, UNCHANGED <<job, deviceVars, kernelVars>>,
         tokens' \in [Buckets -> 0 .. Capacity], age' \in [Buckets -> 0 .. Capacity]
  PROVE  IInv'
<1> USE DEF deviceVars, kernelVars
<1>1. FleetTypeOK'
  BY DEF IInv, FleetTypeOK
<1>2. ASSUME NEW d \in Devices \ crossed' PROVE Steady(d)'
  BY <1>2 DEF IInv, Steady, Tells, WritesTo, Here
<1> QED
  BY <1>1, <1>2 DEF IInv

\* A task that goes from a place to another, neither of them a write.
LEMMA PlaceKeeps ==
  ASSUME IInv, UNCHANGED <<deviceVars, kernelVars>>,
         tokens' \in [Buckets -> 0 .. Capacity], age' \in [Buckets -> 0 .. Capacity],
         NEW t \in Tasks, job' \in [Tasks -> Job],
         \A u \in Tasks \ {t} : job'[u] = job[u],
         job[t].at # "writing", job'[t].at # "writing",
         job'[t].at # "idle" => job'[t].device \in Devices
  PROVE  IInv'
<1> USE DEF deviceVars, kernelVars
<1>1. FleetTypeOK'
  BY DEF IInv, FleetTypeOK
<1>2. ASSUME NEW d \in Devices \ crossed' PROVE Steady(d)'
  <2>1. Steady(d) /\ \A u \in Tasks : WritesTo(u, d)' <=> WritesTo(u, d)
    BY <1>2 DEF IInv, WritesTo
  <2>2. \A u \in Tasks : WritesTo(u, d) => job'[u] = job[u]
    BY DEF WritesTo
  <2>3. \A w : Tells(d, w)' <=> Tells(d, w)
    BY DEF Tells, Here
  <2> QED
    BY <2>1, <2>2, <2>3 DEF Steady
<1> QED
  BY <1>1, <1>2 DEF IInv

LEMMA BeginWriteKeeps ==
  ASSUME IInv, NEW t \in Tasks, job[t].at \notin {"idle", "writing"}, BeginWrite(t),
         tokens' \in [Buckets -> 0 .. Capacity], age' \in [Buckets -> 0 .. Capacity],
         UNCHANGED kernelVars
  PROVE  IInv'
<1>0. PICK d \in Devices : d = job[t].device
  BY DEF IInv, FleetTypeOK
<1> DEFINE j == [at |-> "writing", device |-> d, previous |-> state[d]]
<1> USE DEF kernelVars
<1>1. j \in Job
  BY DEF IInv, FleetTypeOK, Job, Place
<1>2. /\ job' = [job EXCEPT ![t] = j] /\ state' = [state EXCEPT ![d] = "busy"]
      /\ crossed' = crossed \union CrossedBy(d, {t}) /\ link' = link
  BY <1>0 DEF BeginWrite, Before
<1>3. /\ job' \in [Tasks -> Job] /\ job'[t] = j
      /\ \A u \in Tasks \ {t} : job'[u] = job[u]
  BY <1>1, <1>2, JobStep DEF IInv, FleetTypeOK
<1>4. FleetTypeOK'
  BY <1>1, <1>2, <1>3 DEF IInv, FleetTypeOK, DeviceState
<1>5. ASSUME NEW x \in Devices \ crossed' PROVE Steady(x)'
  <2>1. Steady(x) /\ x \notin crossed
    BY <1>2, <1>5 DEF IInv
  <2>2. \A w : Tells(x, w)' <=> Tells(x, w)
    BY <1>2 DEF Tells, Here
  <2>3. CASE x = d
    <3>1. \A u \in Tasks : ~WritesTo(u, d)
      <4>1. \A u \in Tasks : WritesTo(u, d) => u = t
        BY <1>2, <1>5, <2>3, Uncrossed
      <4>2. ~WritesTo(t, d)
        BY DEF WritesTo
      <4> QED
        BY <4>1, <4>2
    <3>2. \A u \in Tasks : WritesTo(u, d)' <=> u = t
      BY <1>3, <3>1 DEF WritesTo
    <3>3. state[d] # "busy" /\ Tells(d, state[d])
      BY <2>1, <2>3, <3>1 DEF Steady
    <3>4. state'[d] = "busy" /\ job'[t].previous = state[d]
      BY <1>1, <1>2, <1>3 DEF IInv, FleetTypeOK
    <3>5. Tells(d, "busy")'
      BY DEF Tells
    <3> QED
      BY <2>2, <2>3, <3>2, <3>3, <3>4, <3>5 DEF Steady
  <2>4. CASE x # d
    <3>1. \A u \in Tasks : WritesTo(u, x)' <=> WritesTo(u, x)
      BY <1>3, <2>4 DEF WritesTo
    <3>2. \A u \in Tasks : WritesTo(u, x) => job'[u] = job[u]
      BY <1>3 DEF WritesTo
    <3>3. state'[x] = state[x]
      BY <1>2, <2>4 DEF IInv, FleetTypeOK
    <3> QED
      BY <2>1, <2>2, <3>1, <3>2, <3>3 DEF Steady
  <2> QED
    BY <2>3, <2>4
<1> QED
  BY <1>4, <1>5 DEF IInv

\* A read or a write ends, and leaves the device in a state.
LEMMA AnswerKeeps ==
  ASSUME IInv, NEW t \in Tasks, job[t].at # "idle",
         NEW w \in DeviceState,
         job' \in [Tasks -> Job], job'[t].at \in {"idle", "prepared"},
         job'[t].at # "idle" => job'[t].device = job[t].device,
         \A u \in Tasks \ {t} : job'[u] = job[u],
         state' = [state EXCEPT ![job[t].device] = w],
         crossed' = crossed \union CrossedBy(job[t].device, {t}),
         job[t].device \notin crossed' => w # "busy" /\ Tells(job[t].device, w),
         UNCHANGED <<bucketVars, link, kernelVars>>
  PROVE  IInv'
<1>0. PICK d \in Devices : d = job[t].device
  BY DEF IInv, FleetTypeOK
<1> USE DEF bucketVars, kernelVars
<1>1. FleetTypeOK'
  BY DEF IInv, FleetTypeOK
<1>2. ASSUME NEW x \in Devices \ crossed' PROVE Steady(x)'
  <2>1. Steady(x) /\ x \notin crossed
    BY <1>2 DEF IInv
  <2>2. \A v : Tells(x, v)' <=> Tells(x, v)
    BY DEF Tells, Here
  <2>3. CASE x = d
    <3>1. \A u \in Tasks : ~WritesTo(u, d)'
      <4>1. \A u \in Tasks : WritesTo(u, d) => u = t
        <5>1. d \notin crossed \union CrossedBy(d, {t})
          BY <1>0, <1>2, <2>3
        <5> QED
          BY <5>1, Uncrossed
      <4>2. ~WritesTo(t, d)'
        BY DEF WritesTo
      <4> QED
        BY <4>1, <4>2 DEF WritesTo
    <3>2. state'[d] = w
      BY <1>0, <1>2, <2>3 DEF IInv, FleetTypeOK
    <3> QED
      BY <1>0, <1>2, <2>2, <2>3, <3>1, <3>2 DEF Steady
  <2>4. CASE x # d
    <3>1. \A u \in Tasks : WritesTo(u, x)' <=> WritesTo(u, x)
      BY <1>0, <2>4 DEF WritesTo
    <3>2. \A u \in Tasks : WritesTo(u, x) => job'[u] = job[u]
      BY <1>0, <2>4 DEF WritesTo
    <3>3. state'[x] = state[x]
      BY <1>0, <2>4 DEF IInv, FleetTypeOK
    <3> QED
      BY <2>1, <2>2, <3>1, <3>2, <3>3 DEF Steady
  <2> QED
    BY <2>3, <2>4
<1> QED
  BY <1>1, <1>2 DEF IInv

LEMMA ReadEndsKeeps ==
  ASSUME IInv, NEW t \in Tasks, NEW outcome \in Outcome, ReadEnds(t, outcome),
         UNCHANGED kernelVars
  PROVE  IInv'
<1> USE DEF bucketVars
<1> DEFINE d == job[t].device
<1>1. /\ job[t].at \in {"reading", "preparing"} /\ UNCHANGED <<bucketVars, link>>
      /\ tokens' \in [Buckets -> 0 .. Capacity] /\ age' \in [Buckets -> 0 .. Capacity]
  BY DEF ReadEnds, IInv, FleetTypeOK
<1>2. /\ job' \in [Tasks -> Job] /\ job'[t].at \in {"idle", "prepared"}
      /\ job'[t].at # "idle" => job'[t].device = d
      /\ \A u \in Tasks \ {t} : job'[u] = job[u]
  <2>1. Goes(t, "prepared") \/ Leaves(t)
    BY DEF ReadEnds
  <2>2. "prepared" \in Place
    BY DEF Place
  <2> QED
    BY <2>1, <2>2, GoesStep, LeavesStep DEF IInv, FleetTypeOK
<1>3. CASE outcome = "done"
  <2>1. UNCHANGED deviceVars
    BY <1>3 DEF ReadEnds, deviceVars, IInv, FleetTypeOK
  <2> QED
    BY <1>1, <1>2, <2>1, PlaceKeeps DEF IInv, FleetTypeOK
<1>4. CASE outcome # "done"
  <2>1. /\ state' = [state EXCEPT ![d] = "faulted"]
        /\ crossed' = crossed \union CrossedBy(d, {t})
    BY <1>4 DEF ReadEnds
  <2>2. "faulted" \in DeviceState /\ Tells(d, "faulted")
    BY DEF DeviceState, Tells
  <2> HIDE DEF d
  <2> QED
    BY <1>1, <1>2, <2>1, <2>2, AnswerKeeps DEF d
<1> QED
  BY <1>3, <1>4

LEMMA WriteEndsKeeps ==
  ASSUME IInv, NEW t \in Tasks, NEW outcome \in Outcome, WriteEnds(t, outcome),
         UNCHANGED kernelVars
  PROVE  IInv'
<1> DEFINE d == job[t].device
           w == IF outcome = "done" THEN job[t].previous ELSE "faulted"
<1>1. /\ job[t].at = "writing" /\ UNCHANGED <<bucketVars, link>>
      /\ state' = [state EXCEPT ![d] = w] /\ crossed' = crossed \union CrossedBy(d, {t})
      /\ Leaves(t)
  BY DEF WriteEnds
<1>2. /\ job' \in [Tasks -> Job] /\ job'[t].at = "idle"
      /\ \A u \in Tasks \ {t} : job'[u] = job[u]
  BY <1>1, LeavesStep DEF IInv, FleetTypeOK
<1>3. w \in DeviceState
  BY DEF IInv, FleetTypeOK, Job, DeviceState
<1>4. ASSUME d \notin crossed' PROVE w # "busy" /\ Tells(d, w)
  <2>1. Steady(d) /\ WritesTo(t, d)
    BY <1>1, <1>4 DEF IInv, FleetTypeOK, WritesTo
  <2> QED
    BY <2>1 DEF Steady, Tells
<1> HIDE DEF w, d
<1> QED
  BY <1>1, <1>2, <1>3, <1>4, AnswerKeeps DEF d

LEMMA AbandonKeeps ==
  ASSUME IInv, NEW t \in Tasks, Abandon(t), UNCHANGED kernelVars
  PROVE  IInv'
<1> DEFINE d == job[t].device
<1>1. /\ Leaves(t) /\ UNCHANGED <<state, link>> /\ UNCHANGED <<tokens, age>>
      /\ crossed' = IF job[t].at = "writing" THEN crossed \union {d} ELSE crossed
  BY DEF Abandon, GiveUp, bucketVars
<1>2. /\ job' \in [Tasks -> Job] /\ job'[t].at = "idle"
      /\ \A u \in Tasks \ {t} : job'[u] = job[u]
  BY <1>1, LeavesStep DEF IInv, FleetTypeOK
<1>3. CASE job[t].at # "writing"
  BY <1>1, <1>2, <1>3, PlaceKeeps DEF IInv, FleetTypeOK, deviceVars
<1>4. CASE job[t].at = "writing"
  <2> USE DEF kernelVars
  <2>1. FleetTypeOK'
    BY <1>1, <1>2 DEF IInv, FleetTypeOK
  <2>2. ASSUME NEW x \in Devices \ crossed' PROVE Steady(x)'
    <3>1. Steady(x) /\ x # d
      BY <1>1, <1>4, <2>2 DEF IInv
    <3>2. \A w : Tells(x, w)' <=> Tells(x, w)
      BY <1>1 DEF Tells, Here
    <3>3. \A u \in Tasks : WritesTo(u, x)' <=> WritesTo(u, x)
      BY <1>2, <3>1 DEF WritesTo
    <3>4. \A u \in Tasks : WritesTo(u, x) => job'[u] = job[u]
      BY <1>2, <3>1 DEF WritesTo
    <3> QED
      BY <1>1, <3>1, <3>2, <3>3, <3>4 DEF Steady
  <2> QED
    BY <2>1, <2>2 DEF IInv
<1> QED
  BY <1>3, <1>4

\* A task takes up a device and does not write to it yet.
LEMMA TakesUpKeeps ==
  ASSUME IInv, NEW t \in Tasks, NEW d \in Devices, NEW p \in Place \ {"idle", "writing"},
         job[t].at = "idle", TakesUp(t, p, d), UNCHANGED <<bucketVars, deviceVars, kernelVars>>
  PROVE  IInv'
<1> DEFINE j == [at |-> p, device |-> d, previous |-> "ready"]
<1>1. j \in Job
  BY DEF Job, DeviceState
<1>2. /\ job' \in [Tasks -> Job] /\ job'[t] = j
      /\ \A u \in Tasks \ {t} : job'[u] = job[u]
  BY <1>1, JobStep DEF TakesUp, IInv, FleetTypeOK
<1> QED
  BY <1>2, PlaceKeeps DEF IInv, FleetTypeOK, bucketVars

-----------------------------------------------------------------------------
(* The manager's steps on the device it is at *)

LEMMA ConnectBeginsKeeps ==
  ASSUME IInv, ConnectBegins(Here), ~awaiting, awaiting' = TRUE,
         cursor # 0, UNCHANGED cursor
  PROVE  IInv'
<1> USE DEF ConnectBegins, bucketVars
<1>1. FleetTypeOK'
  BY DEF IInv, FleetTypeOK, DeviceState
<1>2. ASSUME NEW x \in Devices \ crossed' PROVE Steady(x)'
  <2>1. Steady(x) /\ Here' = Here
    BY <1>2 DEF IInv, Here
  <2>2. \A t \in Tasks : WritesTo(t, x)' <=> WritesTo(t, x)
    BY DEF WritesTo
  <2>3. \A w : Tells(x, w) => Tells(x, w)'
    BY <2>1 DEF Tells
  <2>4. CASE x = Here
    <3>1. \A t \in Tasks : ~WritesTo(t, x)
      BY <1>2, <2>4 DEF CrossedBy, Writing, WritesTo, Tasks, IInv, FleetTypeOK
    <3>2. state'[x] = "connecting"
      BY <2>4 DEF IInv, FleetTypeOK
    <3> QED
      BY <2>1, <2>2, <2>4, <3>1, <3>2 DEF Steady, Tells
  <2>5. CASE x # Here
    <3>1. state'[x] = state[x]
      BY <2>5 DEF IInv, FleetTypeOK
    <3> QED
      BY <2>1, <2>2, <2>3, <3>1 DEF Steady
  <2> QED
    BY <2>4, <2>5
<1> QED
  BY <1>1, <1>2 DEF IInv

\* The driver's open or close ends: nothing is awaited any more, and a device that
\* nobody writes to is left in a state that is so.
LEMMA DriverEndsKeeps ==
  ASSUME IInv, NEW w \in {"ready", "disconnected", "faulted"}, NEW open \in BOOLEAN,
         state' = [state EXCEPT ![Here] = w], link' = [link EXCEPT ![Here] = open],
         w = "ready" => open, w = "disconnected" => ~open,
         Writing(Here) # {} => Here \in crossed',
         \A x \in Devices \ {Here} : x \in crossed => x \in crossed',
         UNCHANGED <<bucketVars, job>>, awaiting' = FALSE
  PROVE  IInv'
<1> USE DEF bucketVars
<1>1. FleetTypeOK'
  BY DEF IInv, FleetTypeOK, DeviceState
<1>2. ASSUME NEW x \in Devices \ crossed' PROVE Steady(x)'
  <2>1. \A t \in Tasks : WritesTo(t, x)' <=> WritesTo(t, x)
    BY DEF WritesTo
  <2>2. CASE x = Here
    <3>1. \A t \in Tasks : ~WritesTo(t, x)
      BY <1>2, <2>2 DEF Writing, WritesTo
    <3>2. state'[x] = w /\ link'[x] = open
      BY <2>2 DEF IInv, FleetTypeOK
    <3> QED
      BY <2>1, <3>1, <3>2 DEF Steady, Tells
  <2>3. CASE x # Here
    <3>1. Steady(x)
      BY <1>2, <2>3 DEF IInv
    <3>2. state'[x] = state[x] /\ link'[x] = link[x]
      BY <2>3 DEF IInv, FleetTypeOK
    <3>3. \A v : Tells(x, v) => Tells(x, v)'
      BY <2>3, <3>2 DEF Tells
    <3> QED
      BY <2>1, <3>1, <3>2, <3>3 DEF Steady
  <2> QED
    BY <2>2, <2>3
<1> QED
  BY <1>1, <1>2 DEF IInv

-----------------------------------------------------------------------------
(* The next-state relation *)

LEMMA SendKeeps ==
  ASSUME IInv, NEW t \in Tasks, Send(t), UNCHANGED kernelVars
  PROVE  IInv'
<1> DEFINE d == job[t].device
<1>1. job[t].at = "prepared" /\ d \in Devices
  BY DEF Send, IInv, FleetTypeOK
<1>2. CASE /\ IF d \in Buckets THEN AdmitAtOnce(d) ELSE UNCHANGED bucketVars
           /\ BeginWrite(t)
  <2>1. tokens' \in [Buckets -> 0 .. Capacity] /\ age' \in [Buckets -> 0 .. Capacity]
    BY <1>2, SpendTakes DEF AdmitAtOnce, bucketVars, IInv, FleetTypeOK
  <2> QED
    BY <1>1, <1>2, <2>1, BeginWriteKeeps
<1>3. CASE d \in Buckets /\ Arrive(d, t) /\ Goes(t, "waiting") /\ UNCHANGED deviceVars
  <2>1. tokens' \in [Buckets -> 0 .. Capacity] /\ age' \in [Buckets -> 0 .. Capacity]
    BY <1>3, FindNoneKeeps DEF Arrive, IInv, FleetTypeOK
  <2>2. "waiting" \in Place
    BY DEF Place
  <2>3. /\ job' \in [Tasks -> Job] /\ job'[t].at = "waiting" /\ job'[t].device = d
        /\ \A u \in Tasks \ {t} : job'[u] = job[u]
    BY <1>3, <2>2, GoesStep DEF IInv, FleetTypeOK
  <2> QED
    BY <1>1, <1>3, <2>1, <2>3, PlaceKeeps
<1> QED
  BY <1>2, <1>3 DEF Send

LEMMA GrantedKeeps ==
  ASSUME IInv, NEW t \in Tasks, Granted(t), UNCHANGED kernelVars
  PROVE  IInv'
<1> DEFINE d == job[t].device
<1>1. job[t].at = "waiting" /\ Spend(d) /\ BeginWrite(t)
  BY DEF Granted, Grant
<1>2. tokens' \in [Buckets -> 0 .. Capacity] /\ age' \in [Buckets -> 0 .. Capacity]
  <2>1. CASE d \in Buckets
    BY <1>1, <2>1, SpendTakes DEF IInv, FleetTypeOK
  <2>2. CASE d \notin Buckets
    BY <1>1, <2>2 DEF Spend, IInv, FleetTypeOK
  <2> QED
    BY <2>1, <2>2
<1> QED
  BY <1>1, <1>2, BeginWriteKeeps

LEMMA TaskKeeps ==
  ASSUME IInv, NEW t \in Tasks, Arrives(t) \/ Serves(t) \/ Abandon(t), UNCHANGED kernelVars
  PROVE  IInv'
<1>0. ASSUME NEW d \in Devices, Read(t, d) \/ Prepare(t, d) PROVE IInv'
  <2>1. /\ {"reading", "preparing", "prepared"} \subseteq Place \ {"idle", "writing"}
        /\ job[t].at = "idle" /\ UNCHANGED <<bucketVars, deviceVars>>
    BY <1>0 DEF Place, Read, Prepare
  <2>2. \E p \in {"reading", "preparing", "prepared"} : TakesUp(t, p, d)
    BY <1>0 DEF Read, Prepare
  <2> QED
    BY <2>1, <2>2, TakesUpKeeps
<1>1. CASE Arrives(t)
  <2>1. PICK d \in Reads[t] \union Commands[t] : Read(t, d) \/ Prepare(t, d)
    BY <1>1 DEF Arrives, Calls
  <2>2. d \in Devices
    BY <2>1, FleetAssumption
  <2> QED
    BY <1>0, <2>1, <2>2
<1>2. CASE Abandon(t)
  BY <1>2, AbandonKeeps
<1>3. CASE Refused(t)
  <2>1. /\ job' \in [Tasks -> Job] /\ job'[t].at = "idle" /\ job[t].at = "prepared"
        /\ \A u \in Tasks \ {t} : job'[u] = job[u]
        /\ UNCHANGED <<tokens, age, deviceVars>>
    BY <1>3, LeavesStep DEF Refused, IInv, FleetTypeOK, bucketVars
  <2> QED
    BY <2>1, PlaceKeeps DEF IInv, FleetTypeOK
<1>4. CASE KeepsWaiting(t)
  <2>1. tokens' \in [Buckets -> 0 .. Capacity] /\ age' \in [Buckets -> 0 .. Capacity]
    BY <1>4, FindNoneKeeps DEF KeepsWaiting, Sleep, IInv, FleetTypeOK
  <2> QED
    BY <1>4, <2>1, BucketStepKeeps DEF KeepsWaiting
<1> QED
  BY <1>1, <1>2, <1>3, <1>4, SendKeeps, GrantedKeeps, ReadEndsKeeps, WriteEndsKeeps
     DEF Serves

\* The manager's steps that touch no device.
LEMMA ManagerIsQuiet ==
  ASSUME IInv,
         \/ Start \/ Stop \/ Started \/ Stopped \/ ExecutionFails
         \/ \E c \in ToSet(AllComponents) : StartComponent(c)
         \/ StopComponent \/ StartHardware \/ StopHardware \/ SkipDevice
         \/ FleetConnected \/ FleetDisconnected
         \/ DisconnectDevice /\ UNCHANGED fleetVars
  PROVE  Quiet
<1>1. awaiting \in BOOLEAN /\ (awaiting => cursor # 0)
  BY DEF IInv, FleetTypeOK
<1>2. CASE \/ Start \/ Stop \/ Started \/ Stopped \/ ExecutionFails
           \/ (\E c \in ToSet(AllComponents) : StartComponent(c)) \/ StopComponent
  BY <1>1, <1>2 DEF Quiet, Start, Stop, Started, Stopped, ExecutionFails, StartComponent,
     StopComponent
<1>3. CASE StartHardware \/ StopHardware
  BY <1>1, <1>3 DEF Quiet, StartHardware, StopHardware, Starting
<1>4. CASE SkipDevice \/ FleetConnected \/ FleetDisconnected
  BY <1>1, <1>4 DEF Quiet, SkipDevice, FleetConnected, FleetDisconnected
<1>5. CASE DisconnectDevice /\ UNCHANGED fleetVars
  <2>1. ~awaiting /\ cursor \in 1 .. Len(DeviceOrder)
    BY <1>5 DEF DisconnectDevice, Disconnecting
  <2>2. (awaiting' = TRUE /\ cursor' = cursor) \/ awaiting' = awaiting
    BY <1>5 DEF DisconnectDevice
  <2>3. cursor # 0
    BY <2>1
  <2>4. CASE awaiting' = TRUE /\ cursor' = cursor
    BY <1>5, <2>1, <2>3, <2>4 DEF Quiet
  <2>5. CASE awaiting' = awaiting
    <3>1. awaiting' = FALSE
      BY <1>1, <2>1, <2>5
    <3> QED
      BY <1>5, <2>1, <3>1 DEF Quiet
  <2> QED
    BY <2>2, <2>4, <2>5
<1> QED
  BY <1>2, <1>3, <1>4, <1>5

LEMMA ManagerKeeps ==
  ASSUME IInv, Start \/ Stop \/ BootInterrupted \/ Boot \/ Shutdown \/ Drivers
  PROVE  IInv'
<1>1. CASE ConnectDevice
  <2>1. cursor # 0
    BY <1>1 DEF ConnectDevice, Connecting
  <2> QED
    BY <1>1, <2>1, ConnectBeginsKeeps DEF ConnectDevice
<1>2. ASSUME NEW outcome \in Outcome, DeviceAnswers(outcome) PROVE IInv'
  <2>1. /\ ConnectEnds(Here, outcome) /\ awaiting' = FALSE
    BY <1>2 DEF DeviceAnswers
  <2> DEFINE w == IF outcome = "done" THEN "ready" ELSE "faulted"
             open == outcome = "done"
  <2>2. /\ w \in {"ready", "disconnected", "faulted"} /\ open \in BOOLEAN
        /\ (w = "ready" => open) /\ (w = "disconnected" => ~open)
    OBVIOUS
  <2>3. /\ state' = [state EXCEPT ![Here] = w] /\ link' = [link EXCEPT ![Here] = open]
        /\ UNCHANGED <<bucketVars, job>>
        /\ Writing(Here) # {} => Here \in crossed'
        /\ \A x \in Devices \ {Here} : x \in crossed => x \in crossed'
    BY <2>1 DEF ConnectEnds
  <2> HIDE DEF w, open
  <2> QED
    BY <2>1, <2>2, <2>3, DriverEndsKeeps
<1>3. ASSUME DisconnectEnds(Here), awaiting' = FALSE PROVE IInv'
  <2>1. Writing(Here) # {} => Here \in crossed'
    BY <1>3 DEF DisconnectEnds, CrossedBy
  <2> QED
    BY <1>3, <2>1, DriverEndsKeeps DEF DisconnectEnds
<1>4. CASE DeviceCloses
  BY <1>3, <1>4 DEF DeviceCloses
<1>5. CASE DisconnectDevice
  <2>1. CASE UNCHANGED fleetVars
    BY <1>5, <2>1, ManagerIsQuiet, QuietKeeps
  <2>2. CASE DisconnectEnds(Here) /\ UNCHANGED awaiting
    BY <1>3, <1>5, <2>2 DEF DisconnectDevice, IInv, FleetTypeOK
  <2> QED
    BY <1>5, <2>1, <2>2 DEF DisconnectDevice
<1>6. CASE BootInterrupted
  <2> USE DEF BootInterrupted, bucketVars
  <2>1. FleetTypeOK'
    BY <1>6 DEF IInv, FleetTypeOK
  <2>2. ASSUME NEW x \in Devices \ crossed' PROVE Steady(x)'
    <3>1. Steady(x) /\ x # Here
      BY <1>6, <2>2 DEF IInv
    <3>2. \A w : Tells(x, w) => Tells(x, w)'
      BY <1>6, <3>1 DEF Tells
    <3> QED
      BY <1>6, <3>1, <3>2 DEF Steady, WritesTo
  <2> QED
    BY <1>6, <2>1, <2>2 DEF IInv
<1> QED
  BY <1>1, <1>2, <1>4, <1>5, <1>6, ManagerIsQuiet, QuietKeeps DEF Boot, Shutdown, Drivers

LEMMA NextKeeps ==
  ASSUME IInv, [Next]_vars
  PROVE  IInv'
<1>1. CASE Start \/ Stop \/ BootInterrupted \/ Boot \/ Shutdown \/ Drivers
  BY <1>1, ManagerKeeps
<1>2. CASE \E t \in Tasks : (Arrives(t) \/ Serves(t) \/ Abandon(t)) /\ UNCHANGED kernelVars
  BY <1>2, TaskKeeps
<1>3. CASE ClockTicks /\ UNCHANGED kernelVars
  BY <1>3, TimeEarns, BucketStepKeeps DEF ClockTicks, IInv, FleetTypeOK
<1>4. CASE UNCHANGED vars
  BY <1>4, QuietKeeps DEF Quiet, vars, kernelVars, IInv, FleetTypeOK
<1> QED
  BY <1>1, <1>2, <1>3, <1>4 DEF Next

\* The invariant the theorems rest on.
THEOREM Invariant == Spec => []IInv
BY InitInvariant, NextKeeps, PTL DEF Spec

LEMMA WordIsTrue == IInv => StateTellsTruth
<1> SUFFICES ASSUME IInv, NEW d \in Devices \ crossed
             PROVE  /\ Ready(d) => link[d]
                    /\ state[d] = "disconnected" => ~link[d]
                    /\ state[d] = "busy" <=> Cardinality(Writing(d)) = 1
                    /\ state[d] = "connecting" => awaiting /\ Here = d
  BY DEF StateTellsTruth
<1>1. Steady(d)
  BY DEF IInv
<1>2. Writing(d) = {t \in Tasks : WritesTo(t, d)}
  BY DEF Writing, WritesTo
<1>3. CASE Writing(d) = {}
  BY <1>1, <1>2, <1>3, FS_EmptySet DEF Steady, Tells, Ready
<1>4. CASE Writing(d) # {}
  <2>1. PICK t \in Tasks : Writing(d) = {t}
    BY <1>1, <1>2, <1>4 DEF Steady
  <2>2. Cardinality(Writing(d)) = 1
    BY <2>1, FS_Singleton
  <2> QED
    BY <1>1, <1>2, <1>4, <2>2 DEF Steady, Tells, Ready
<1> QED
  BY <1>3, <1>4

\* As long as no operation has crossed a write, a device's word of state is true
\* (BaseDevice's _state), whatever the boot, the shutdown, the tasks and the
\* drivers do in between.
THEOREM WordOfStateIsTrue == Spec => []StateTellsTruth
BY WordIsTrue, Invariant, PTL

-----------------------------------------------------------------------------
(* The fleet and the components, in the order they are gone through *)

NatLess == {ss \in Nat \X Nat : ss[1] < ss[2]}

LEMMA LeastNumber ==
  ASSUME NEW T, T \subseteq Nat, T # {}
  PROVE  \E n \in T : \A m \in T : n <= m
<1>1. PICK x \in T : \A y \in T : <<y, x>> \notin NatLess
  <2>1. IsWellFoundedOn(NatLess, Nat)
    BY NatLessThanWellFounded DEF OpToRel, NatLess
  <2> QED
    BY <2>1, WFMin
<1>2. ASSUME NEW y \in T PROVE x <= y
  <2>1. <<y, x>> \in Nat \X Nat /\ ~(y < x)
    BY <1>1 DEF NatLess
  <2> QED
    BY <2>1
<1> QED
  BY <1>2

\* Induction over the numbers, on the set of those a fact holds of.
LEMMA SetInduction ==
  ASSUME NEW T, 0 \in T, \A n \in Nat : n \in T => n + 1 \in T
  PROVE  Nat \subseteq T
<1> SUFFICES ASSUME Nat \ T # {} PROVE FALSE
  OBVIOUS
<1>1. PICK n \in Nat \ T : \A m \in Nat \ T : n <= m
  BY LeastNumber
<1>2. n # 0 /\ n - 1 \in Nat /\ ~(n <= n - 1) /\ (n - 1) + 1 = n
  BY <1>1
<1> QED
  BY <1>1, <1>2

\* What build_device_manager has built of the first n declarations.
Builds(built, n) ==
  built = [m \in 0 .. n |->
             IF m = 0 THEN <<>>
             ELSE IF Constructible(Declared[m]) THEN Append(built[m - 1], Declared[m])
             ELSE built[m - 1]]

LEMMA SomethingIsBuilt == \A n \in Nat : \E built : Builds(built, n)
<1> DEFINE T == {n \in Nat : \E built : Builds(built, n)}
<1>1. 0 \in T
  <2> DEFINE none == [m \in 0 .. 0 |-> <<>>]
  <2>1. Builds(none, 0)
    BY DEF Builds
  <2> QED
    BY <2>1
<1>2. ASSUME NEW n \in Nat, n \in T PROVE n + 1 \in T
  <2>1. PICK built : Builds(built, n)
    BY <1>2
  <2> DEFINE next == IF Constructible(Declared[n + 1]) THEN Append(built[n], Declared[n + 1])
                     ELSE built[n]
             more == [m \in 0 .. n + 1 |-> IF m = n + 1 THEN next ELSE built[m]]
  <2>2. \A m \in 0 .. n : built[m] =
            IF m = 0 THEN <<>>
            ELSE IF Constructible(Declared[m]) THEN Append(built[m - 1], Declared[m])
            ELSE built[m - 1]
    BY <2>1 DEF Builds
  <2>3. ASSUME NEW m \in 0 .. n + 1
        PROVE  more[m] = IF m = 0 THEN <<>>
                         ELSE IF Constructible(Declared[m]) THEN Append(more[m - 1], Declared[m])
                         ELSE more[m - 1]
    <3>1. CASE m = n + 1
      <4>1. m # 0 /\ m - 1 = n /\ more[m - 1] = built[n]
        BY <3>1
      <4> QED
        BY <3>1, <4>1
    <3>2. CASE m # n + 1
      <4>1. m \in 0 .. n /\ more[m] = built[m]
        BY <3>2
      <4>2. m # 0 => m - 1 \in 0 .. n + 1 /\ m - 1 # n + 1 /\ more[m - 1] = built[m - 1]
        BY <4>1
      <4> QED
        BY <2>2, <4>1, <4>2
    <3> QED
      BY <3>1, <3>2
  <2> HIDE DEF next
  <2>4. Builds(more, n + 1)
    BY <2>3 DEF Builds
  <2> QED
    BY <2>4
<1>3. Nat \subseteq T
  <2> HIDE DEF T
  <2> QED
    BY <1>1, <1>2, SetInduction
<1> QED
  BY <1>3

\* The fleet is a sequence of the devices (build_device_manager).
LEMMA DeviceOrderType == DeviceOrder \in Seq(Devices)
<1> DEFINE built == CHOOSE f : Builds(f, Len(Declared))
<1>0. Declared \in Seq(Devices) /\ Len(Declared) \in Nat
  BY FleetAssumption
<1>1. DeviceOrder = built[Len(Declared)]
  BY DEF DeviceOrder, Builds
<1>2. Builds(built, Len(Declared))
  BY <1>0, SomethingIsBuilt
<1> HIDE DEF built
<1> DEFINE T == {n \in Nat : n <= Len(Declared) => built[n] \in Seq(Devices)}
<1>3. 0 \in T
  <2>1. built[0] = <<>>
    BY <1>0, <1>2 DEF Builds
  <2>2. <<>> \in Seq(Devices)
    OBVIOUS
  <2> QED
    BY <2>1, <2>2
<1>4. ASSUME NEW n \in Nat, n \in T PROVE n + 1 \in T
  <2> SUFFICES ASSUME n + 1 <= Len(Declared) PROVE built[n + 1] \in Seq(Devices)
    OBVIOUS
  <2>1. n + 1 \in 0 .. Len(Declared) /\ n + 1 # 0 /\ (n + 1) - 1 = n
    BY <1>0
  <2>2. built[n + 1] = IF Constructible(Declared[n + 1]) THEN Append(built[n], Declared[n + 1])
                       ELSE built[n]
    BY <1>2, <2>1 DEF Builds
  <2>3. built[n] \in Seq(Devices) /\ Declared[n + 1] \in Devices
    BY <1>0, <1>4, <2>1
  <2> QED
    BY <2>2, <2>3
<1>5. Nat \subseteq T
  <2> HIDE DEF T
  <2> QED
    BY <1>3, <1>4, SetInduction
<1> QED
  BY <1>0, <1>1, <1>5

RankOf == [gateway |-> 1, memory |-> 2, hardware |-> 3, execution |-> 4, agents |-> 5,
           automation |-> 6]

\* s holds enabled components of rank r at most, by rank.
Ascends(s, r) ==
  /\ s \in Seq(Enabled)
  /\ \A i \in 1 .. Len(s) : s[i] \in DOMAIN RankOf /\ RankOf[s[i]] <= r
  /\ \A i, j \in 1 .. Len(s) : i < j => RankOf[s[i]] < RankOf[s[j]]

LEMMA SwitchedAscends ==
  ASSUME NEW s, NEW r \in Nat, Ascends(s, r), NEW c \in DOMAIN RankOf, RankOf[c] = r + 1
  PROVE  /\ Ascends(s \o Switched(c), r + 1)
         /\ \A e : (\E i \in 1 .. Len(s) : s[i] = e) =>
                     \E i \in 1 .. Len(s \o Switched(c)) : (s \o Switched(c))[i] = e
         /\ c \in Enabled => \E i \in 1 .. Len(s \o Switched(c)) : (s \o Switched(c))[i] = c
<1>0. s \in Seq(Enabled) /\ \A i \in 1 .. Len(s) : RankOf[s[i]] \in Nat
  BY DEF Ascends, RankOf
<1>1. CASE c \in Enabled
  <2> DEFINE t == s \o <<c>>
  <2>1. /\ s \o Switched(c) = t /\ t \in Seq(Enabled) /\ Len(t) = Len(s) + 1
        /\ \A i \in 1 .. Len(s) : t[i] = s[i]
        /\ t[Len(s) + 1] = c
    BY <1>0, <1>1 DEF Switched, IsEnabled
  <2> HIDE DEF t
  <2>2. \A i \in 1 .. Len(t) : i \in 1 .. Len(s) \/ i = Len(s) + 1
    BY <1>0, <2>1
  <2>3. \A i \in 1 .. Len(t) : t[i] \in DOMAIN RankOf /\ RankOf[t[i]] <= r + 1
    BY <1>0, <2>1, <2>2 DEF Ascends
  <2>4. ASSUME NEW i \in 1 .. Len(t), NEW j \in 1 .. Len(t), i < j
        PROVE  RankOf[t[i]] < RankOf[t[j]]
    <3>1. i \in 1 .. Len(s) /\ RankOf[s[i]] <= r
      BY <1>0, <2>1, <2>2, <2>4 DEF Ascends
    <3>2. CASE j = Len(s) + 1
      BY <1>0, <2>1, <3>1, <3>2
    <3>3. CASE j \in 1 .. Len(s)
      BY <2>1, <2>4, <3>1, <3>3 DEF Ascends
    <3> QED
      BY <2>2, <3>2, <3>3
  <2>5. Ascends(t, r + 1)
    BY <2>1, <2>3, <2>4 DEF Ascends
  <2>6. Len(s) + 1 \in 1 .. Len(t) /\ \A i \in 1 .. Len(s) : i \in 1 .. Len(t)
    BY <1>0, <2>1
  <2> QED
    BY <2>1, <2>5, <2>6
<1>2. CASE c \notin Enabled
  <2>1. s \o Switched(c) = s
    BY <1>0, <1>2 DEF Switched, IsEnabled
  <2>2. \A i \in 1 .. Len(s) : RankOf[s[i]] <= r + 1
    BY <1>0 DEF Ascends
  <2> QED
    BY <1>2, <2>1, <2>2 DEF Ascends
<1> QED
  BY <1>1, <1>2

\* start goes through the enabled components, each once, the fleet before the
\* execution engine.
LEMMA ComponentsOrder ==
  /\ Components \in Seq(Enabled)
  /\ \A c \in Enabled : \E i \in 1 .. Len(Components) : Components[i] = c
  /\ \A i, j \in 1 .. Len(Components) : Components[i] = Components[j] => i = j
  /\ \A i, j \in 1 .. Len(Components) :
       Components[i] = "hardware" /\ Components[j] = "execution" => i < j
<1> DEFINE s1 == <<"gateway">>
           s2 == s1 \o Switched("memory")
           s3 == s2 \o Switched("hardware")
           s4 == s3 \o Switched("execution")
           s5 == s4 \o Switched("agents")
           s6 == s5 \o Switched("automation")
           Lists(s, e) == \E i \in 1 .. Len(s) : s[i] = e
<1>0. /\ Enabled \subseteq DOMAIN RankOf /\ "gateway" \in Enabled
      /\ DOMAIN RankOf = {"gateway", "memory", "hardware", "execution", "agents", "automation"}
  BY KernelAssumption DEF RankOf, AllComponents, ToSet
<1>1. Ascends(s1, 1) /\ Lists(s1, "gateway")
  BY <1>0 DEF Ascends, RankOf
<1> HIDE DEF s1
<1>2. /\ Ascends(s2, 2) /\ ("memory" \in Enabled => Lists(s2, "memory"))
      /\ \A e : Lists(s1, e) => Lists(s2, e)
  BY <1>0, <1>1, SwitchedAscends DEF RankOf
<1> HIDE DEF s2
<1>3. /\ Ascends(s3, 3) /\ ("hardware" \in Enabled => Lists(s3, "hardware"))
      /\ \A e : Lists(s2, e) => Lists(s3, e)
  BY <1>0, <1>2, SwitchedAscends DEF RankOf
<1> HIDE DEF s3
<1>4. /\ Ascends(s4, 4) /\ ("execution" \in Enabled => Lists(s4, "execution"))
      /\ \A e : Lists(s3, e) => Lists(s4, e)
  BY <1>0, <1>3, SwitchedAscends DEF RankOf
<1> HIDE DEF s4
<1>5. /\ Ascends(s5, 5) /\ ("agents" \in Enabled => Lists(s5, "agents"))
      /\ \A e : Lists(s4, e) => Lists(s5, e)
  BY <1>0, <1>4, SwitchedAscends DEF RankOf
<1> HIDE DEF s5
<1>6. /\ Ascends(s6, 6) /\ ("automation" \in Enabled => Lists(s6, "automation"))
      /\ \A e : Lists(s5, e) => Lists(s6, e)
  BY <1>0, <1>5, SwitchedAscends DEF RankOf
<1>7. Components = s6
  BY DEF Components, s5, s4, s3, s2, s1
<1> HIDE DEF s6
<1>8. Ascends(Components, 6)
  BY <1>6, <1>7
<1>9. \A c \in Enabled : Lists(Components, c)
  <2> HIDE DEF Lists
  <2> QED
    BY <1>0, <1>1, <1>2, <1>3, <1>4, <1>5, <1>6, <1>7
<1>10. /\ Components \in Seq(Enabled)
       /\ \A i \in 1 .. Len(Components) : RankOf[Components[i]] \in Nat
       /\ \A i, j \in 1 .. Len(Components) : i < j => RankOf[Components[i]] < RankOf[Components[j]]
  BY <1>8 DEF Ascends, RankOf
<1>11. ASSUME NEW i \in 1 .. Len(Components), NEW j \in 1 .. Len(Components),
              Components[i] = Components[j], i # j
       PROVE  FALSE
  <2>1. i < j \/ j < i
    BY <1>10, <1>11
  <2> QED
    BY <1>10, <1>11, <2>1
<1>12. ASSUME NEW i \in 1 .. Len(Components), NEW j \in 1 .. Len(Components),
              Components[i] = "hardware", Components[j] = "execution", ~(i < j)
       PROVE  FALSE
  <2>1. j < i \/ i = j
    BY <1>10, <1>12
  <2>2. RankOf["hardware"] = 3 /\ RankOf["execution"] = 4
    BY DEF RankOf
  <2> QED
    BY <1>10, <1>12, <2>1, <2>2
<1> QED
  BY <1>9, <1>10, <1>11, <1>12

-----------------------------------------------------------------------------
(* Where the boot and the shutdown are *)

Places == 1 .. Len(Components)
Going == phase \in {"stopping", "undoing"}

\* The parts of KernelTypeOK that are not in FleetTypeOK.
KernelTypes ==
  /\ nap \in [Buckets -> BOOLEAN]
  /\ crossed \subseteq Devices
  /\ phase \in {"down", "starting", "undoing", "up", "stopping"}
  /\ step \in 0 .. Len(Components) + 1 /\ up \subseteq Enabled
  /\ cursor \in 0 .. Len(DeviceOrder) + 1
  /\ transport \in {"none", "open", "closed"}
  /\ spoilt \in {Nowhere, "hardware", "execution", "interrupted"}

\* Where step is in each phase, and that a loop over the devices runs only when it
\* is at the fleet, whose flag is set before the first loop and cleared before the
\* second.
Placed ==
  /\ phase \in {"down", "up"} => step = 0 /\ cursor = 0
  /\ phase = "starting" => step >= 1
  /\ Going => step <= Len(Components)
  /\ cursor # 0 => /\ step \in Places /\ Components[step] = "hardware"
                   /\ phase = "starting" <=> "hardware" \in up

\* What a start that did not succeed has left behind it.
Spoilt ==
  /\ phase \in {"starting", "up", "stopping"} => spoilt = Nowhere
  /\ phase = "undoing" => spoilt \in {"hardware", "execution"}
  /\ phase = "undoing" /\ spoilt = "hardware" =>
       \A j \in Places : Components[j] = "hardware" => step < j
  /\ spoilt = "execution" => "execution" \notin up
  /\ phase = "down" /\ spoilt = Nowhere => transport # "open"

\* A component that is up although start has not come to it, or stop has passed
\* it, is the fleet or precedes it, and the fleet is up: nothing else can be left.
LeftOver(j) ==
  /\ "hardware" \in up
  /\ \A h \in Places : Components[h] = "hardware" => j <= h

Raised ==
  \A j \in Places : Components[j] \in up =>
    /\ phase = "down" => spoilt \in {"hardware", "interrupted"} /\ LeftOver(j)
    /\ phase = "starting" /\ cursor = 0 /\ j >= step => LeftOver(j)
    /\ phase = "starting" /\ cursor # 0 => j <= step
    /\ Going /\ Components[j] # spoilt => j <= step

\* The loop of stop has still to come to d.
Ahead(d) == Going /\ \E i \in 1 .. Len(DeviceOrder) : cursor # 0 /\ cursor <= i /\ DeviceOrder[i] = d

\* A connection is one of the fleet's, and is open only while the fleet is up or
\* about to close it.
Linked ==
  \A d \in Devices : link[d] =>
    /\ \E i \in 1 .. Len(DeviceOrder) : DeviceOrder[i] = d
    /\ d \in crossed \/ "hardware" \in up \/ Ahead(d)

Orderly == KernelTypes /\ Placed /\ Spoilt /\ Raised /\ Linked

\* What the steps below use of the components.
LEMMA ComponentFacts ==
  /\ Len(Components) \in Nat
  /\ \A i \in Places : Components[i] \in Enabled
  /\ \A c \in Enabled : \E i \in Places : Components[i] = c
  /\ \A i, j \in Places : Components[i] = Components[j] => i = j
  /\ \A i, j \in Places : Components[i] = "hardware" /\ Components[j] = "execution" => i < j
  /\ "hardware" \in Enabled => \E h \in Places : Components[h] = "hardware"
  /\ Nowhere \notin Enabled /\ "interrupted" \notin Enabled
<1>1. Nowhere \notin Enabled /\ "interrupted" \notin Enabled
  BY KernelAssumption DEF AllComponents, ToSet, Nowhere
<1> QED
  BY <1>1, ComponentsOrder DEF Places

\* What the steps below use of the fleet.
LEMMA FleetLengths ==
  /\ Len(DeviceOrder) \in Nat
  /\ \A i \in 1 .. Len(DeviceOrder) : DeviceOrder[i] \in Devices
BY DeviceOrderType

\* A step that moves neither the kernel nor a connection, and takes no device out
\* of the crossed ones, disturbs nothing.
LEMMA AsideKeeps ==
  ASSUME Orderly, UNCHANGED <<kernelVars, link>>,
         crossed \subseteq crossed', crossed' \subseteq Devices,
         nap' \in [Buckets -> BOOLEAN]
  PROVE  Orderly'
<1> USE DEF kernelVars, Orderly
<1>1. KernelTypes'
  BY DEF KernelTypes
<1>2. Placed' /\ Spoilt'
  BY DEF Placed, Spoilt, Going, Places
<1>3. Raised'
  BY DEF Raised, LeftOver, Going, Places
<1>4. Linked'
  BY DEF Linked, Ahead, Going
<1> QED
  BY <1>1, <1>2, <1>3, <1>4

LEMMA InitOrderly == Init => Orderly
<1> SUFFICES ASSUME Init PROVE Orderly
  OBVIOUS
<1> USE DEF Init, FleetInit, BucketInit
<1>1. KernelTypes
  BY ComponentFacts, FleetLengths DEF KernelTypes
<1>2. Placed /\ Spoilt
  BY DEF Placed, Spoilt, Going, Nowhere
<1>3. Raised /\ Linked
  BY DEF Raised, Linked
<1> QED
  BY <1>1, <1>2, <1>3 DEF Orderly

LEMMA TaskIsAside ==
  ASSUME IInv, Orderly, NEW t \in Tasks, Arrives(t) \/ Serves(t) \/ Abandon(t)
  PROVE  /\ UNCHANGED link
         /\ crossed \subseteq crossed' /\ crossed' \subseteq Devices
         /\ nap' \in [Buckets -> BOOLEAN]
<1>0. crossed \subseteq Devices /\ nap \in [Buckets -> BOOLEAN]
  BY DEF Orderly, KernelTypes
<1>d. job[t].at # "idle" => job[t].device \in Devices
  BY DEF IInv, FleetTypeOK
<1>b. ASSUME NEW d \in Devices, NEW doers PROVE CrossedBy(d, doers) \subseteq Devices
  BY DEF CrossedBy
<1>1. CASE Arrives(t)
  BY <1>0, <1>1 DEF Arrives, Calls, Read, Prepare, deviceVars, bucketVars
<1>2. CASE Abandon(t)
  <2>1. CASE job[t].at = "waiting"
    BY <1>0, <1>2, <2>1 DEF Abandon, GiveUp
  <2>2. CASE job[t].at # "waiting"
    BY <1>0, <1>2, <1>d, <2>2 DEF Abandon, bucketVars
  <2> QED
    BY <2>1, <2>2
<1>3. CASE Refused(t)
  BY <1>0, <1>3 DEF Refused, deviceVars, bucketVars
<1>4. ASSUME BeginWrite(t), job[t].at # "idle"
      PROVE  UNCHANGED link /\ crossed \subseteq crossed' /\ crossed' \subseteq Devices
  BY <1>0, <1>4, <1>b, <1>d DEF BeginWrite
<1>5. CASE Send(t)
  <2>0. job[t].at # "idle"
    BY <1>5 DEF Send
  <2>1. CASE /\ IF job[t].device \in Buckets THEN AdmitAtOnce(job[t].device)
                ELSE UNCHANGED bucketVars
             /\ BeginWrite(t)
    BY <1>0, <1>4, <2>0, <2>1 DEF AdmitAtOnce, bucketVars
  <2>2. CASE Arrive(job[t].device, t) /\ UNCHANGED deviceVars
    BY <1>0, <2>2 DEF Arrive, deviceVars
  <2> QED
    BY <1>5, <2>1, <2>2 DEF Send
<1>6. CASE Granted(t)
  BY <1>0, <1>4, <1>6 DEF Granted, Grant
<1>7. CASE KeepsWaiting(t)
  BY <1>0, <1>7 DEF KeepsWaiting, Sleep, deviceVars
<1>8. ASSUME NEW outcome \in Outcome, ReadEnds(t, outcome) \/ WriteEnds(t, outcome)
      PROVE  /\ UNCHANGED <<link, nap>>
             /\ crossed \subseteq crossed' /\ crossed' \subseteq Devices
  <2>1. job[t].at # "idle"
    BY <1>8 DEF ReadEnds, WriteEnds
  <2> QED
    BY <1>0, <1>8, <1>b, <1>d, <2>1 DEF ReadEnds, WriteEnds, bucketVars
<1> QED
  BY <1>0, <1>1, <1>2, <1>3, <1>5, <1>6, <1>7, <1>8 DEF Serves

\* A step of the kernel that leaves the fleet, the spoilt start and the transport
\* alone only has to keep the places and what is up in order.
LEMMA FleetAside ==
  ASSUME Orderly, UNCHANGED fleetVars, KernelTypes', Placed', Spoilt', Raised',
         \A d \in Devices \ crossed : link[d] =>
           ("hardware" \in up' \/ Ahead(d)')
  PROVE  Orderly'
<1>1. Linked'
  BY DEF Linked, Orderly, fleetVars, deviceVars
<1> QED
  BY <1>1 DEF Orderly

LEMMA StartOrderly ==
  ASSUME Orderly, Start \/ Started \/ Stop
  PROVE  Orderly'
<1>0. KernelTypes /\ Placed /\ Spoilt /\ Raised /\ Linked
  BY DEF Orderly
<1>a. Len(Components) \in Nat
  BY ComponentFacts
<1>1. CASE Start
  <2> USE <1>1 DEF Start
  <2>1. KernelTypes'
    BY <1>0, <1>a DEF KernelTypes, fleetVars, deviceVars, bucketVars
  <2>2. Placed' /\ Spoilt'
    BY <1>0, <1>a DEF Placed, Spoilt, Going, Nowhere, KernelTypes
  <2>3. Raised'
    BY <1>0, <1>a DEF Raised, LeftOver, Going, Placed
  <2>4. \A d \in Devices \ crossed : link[d] => "hardware" \in up'
    BY <1>0 DEF Linked, Ahead, Going
  <2> QED
    BY <2>1, <2>2, <2>3, <2>4, FleetAside
<1>2. CASE Started
  <2> USE <1>2 DEF Started
  <2>1. KernelTypes'
    BY <1>0, <1>a DEF KernelTypes, fleetVars, deviceVars, bucketVars
  <2>2. Placed' /\ Spoilt'
    BY <1>0, <1>a DEF Placed, Spoilt, Going, Nowhere, KernelTypes
  <2>3. Raised'
    BY <1>0, <1>a DEF Raised, LeftOver, Going, Placed
  <2>4. \A d \in Devices \ crossed : link[d] => "hardware" \in up'
    BY <1>0 DEF Linked, Ahead, Going
  <2> QED
    BY <2>1, <2>2, <2>3, <2>4, FleetAside
<1>3. CASE Stop
  <2> USE <1>3 DEF Stop
  <2>1. KernelTypes'
    BY <1>0, <1>a DEF KernelTypes, fleetVars, deviceVars, bucketVars
  <2>2. Placed' /\ Spoilt'
    BY <1>0, <1>a DEF Placed, Spoilt, Going, Nowhere, KernelTypes
  <2>3. Raised'
    BY <1>0, <1>a DEF Raised, LeftOver, Going, Placed, Places
  <2>4. \A d \in Devices \ crossed : link[d] => "hardware" \in up'
    BY <1>0 DEF Linked, Ahead, Going
  <2> QED
    BY <2>1, <2>2, <2>3, <2>4, FleetAside
<1> QED
  BY <1>1, <1>2, <1>3

LEMMA StartComponentOrderly ==
  ASSUME Orderly, NEW c, StartComponent(c) \/ (StartHardware /\ c = "hardware")
  PROVE  Orderly'
<1>0. KernelTypes /\ Placed /\ Spoilt /\ Raised /\ Linked
  BY DEF Orderly
<1>a. /\ Len(Components) \in Nat /\ Len(DeviceOrder) \in Nat
      /\ \A i, j \in Places : Components[i] = Components[j] => i = j
  BY ComponentFacts, FleetLengths
<1>1. /\ phase = "starting" /\ phase' = "starting" /\ cursor = 0 /\ step \in Places
      /\ Components[step] = c /\ c \in Enabled
      /\ UNCHANGED <<fleetVars, awaiting, transport, spoilt>> /\ spoilt = Nowhere
  BY <1>0, <1>a, ComponentFacts DEF StartComponent, StartHardware, Starting, Current, Places,
     Placed, Spoilt, KernelTypes
<1>2. up' = up \union {c}
  BY DEF StartComponent, StartHardware
<1>3. \/ step' = step + 1 /\ cursor' = 0
      \/ step' = step /\ cursor' = 1 /\ c = "hardware" /\ "hardware" \notin up
  BY <1>1 DEF StartComponent, StartHardware
<1>4. KernelTypes'
  BY <1>0, <1>1, <1>2, <1>3, <1>a DEF KernelTypes, fleetVars, deviceVars, bucketVars, Places
<1>5. Placed' /\ Spoilt'
  BY <1>0, <1>1, <1>2, <1>3, <1>a DEF Placed, Spoilt, Going, Nowhere, KernelTypes, Places
<1>6. ASSUME NEW j \in Places, Components[j] \in up',
             step' = step + 1 /\ cursor' = 0, j >= step + 1
      PROVE  LeftOver(j)'
  <2>1. Components[j] \in up
    BY <1>1, <1>2, <1>6, <1>a DEF Places
  <2>2. LeftOver(j)
    BY <1>0, <1>1, <1>6, <2>1 DEF Raised, Places
  <2> QED
    BY <1>2, <2>2 DEF LeftOver
<1>7. ASSUME NEW j \in Places, Components[j] \in up',
             step' = step /\ cursor' = 1 /\ "hardware" \notin up
      PROVE  j <= step
  BY <1>0, <1>1, <1>2, <1>7, <1>a DEF Raised, Places, LeftOver
<1>8. Raised'
  BY <1>1, <1>3, <1>6, <1>7 DEF Raised, Going
<1>9. \A d \in Devices \ crossed : link[d] => "hardware" \in up'
  BY <1>0, <1>1, <1>2 DEF Linked, Ahead, Going
<1> QED
  BY <1>1, <1>4, <1>5, <1>8, <1>9, FleetAside

LEMMA ExecutionFailsOrderly ==
  ASSUME Orderly, ExecutionFails
  PROVE  Orderly'
<1>0. KernelTypes /\ Placed /\ Spoilt /\ Raised /\ Linked
  BY DEF Orderly
<1>a. Len(Components) \in Nat
  BY ComponentFacts
<1>1. /\ phase = "starting" /\ phase' = "undoing" /\ cursor = 0 /\ cursor' = 0
      /\ step \in Places /\ Components[step] = "execution" /\ "execution" \notin up
      /\ step' = step - 1 /\ spoilt' = "execution" /\ up' = up
      /\ UNCHANGED <<fleetVars, awaiting, transport>>
  BY <1>0, <1>a DEF ExecutionFails, Starting, Current, Places, BreaksOff, Placed, KernelTypes
<1>2. KernelTypes'
  BY <1>0, <1>1, <1>a DEF KernelTypes, fleetVars, deviceVars, bucketVars, Places
<1>3. Placed' /\ Spoilt'
  BY <1>0, <1>1, <1>a DEF Placed, Spoilt, Going, Nowhere, KernelTypes, Places
<1>4. ASSUME NEW j \in Places, Components[j] \in up PROVE j <= step - 1
  <2> SUFFICES ASSUME j >= step PROVE FALSE
    BY <1>1, <1>a DEF Places
  <2>1. LeftOver(j) /\ "hardware" \in Enabled
    BY <1>0, <1>1, <1>4 DEF Raised, LeftOver, KernelTypes
  <2>2. PICK h \in Places : Components[h] = "hardware" /\ h < step
    BY <1>1, <2>1, ComponentFacts
  <2> QED
    BY <1>1, <1>a, <2>1, <2>2 DEF Places, LeftOver
<1>5. Raised'
  BY <1>1, <1>4 DEF Raised, Going
<1>6. \A d \in Devices \ crossed : link[d] => "hardware" \in up'
  BY <1>0, <1>1 DEF Linked, Ahead, Going
<1> QED
  BY <1>1, <1>2, <1>3, <1>5, <1>6, FleetAside

\* A turn of a loop over the devices moves the kernel no further.
LEMMA LoopTurn ==
  ASSUME Orderly, UNCHANGED <<phase, step, up, transport, spoilt, nap>>,
         cursor # 0, cursor' \in 1 .. Len(DeviceOrder) + 1, crossed' \subseteq Devices
  PROVE  KernelTypes' /\ Placed' /\ Spoilt' /\ Raised'
<1>0. Len(DeviceOrder) \in Nat
  BY FleetLengths
<1> USE DEF Orderly
<1>1. KernelTypes'
  BY <1>0 DEF KernelTypes
<1>2. Placed'
  BY <1>0 DEF Placed, Going, Places
<1>3. Spoilt'
  BY DEF Spoilt, Places
<1>4. Raised'
  BY <1>0 DEF Raised, LeftOver, Going, Places
<1> QED
  BY <1>1, <1>2, <1>3, <1>4

LEMMA ConnectingOrderly ==
  ASSUME IInv, Orderly, SkipDevice \/ ConnectDevice \/ FleetConnected
  PROVE  Orderly'
<1>0. KernelTypes /\ Placed /\ Spoilt /\ Raised /\ Linked
  BY DEF Orderly
<1>a. Len(Components) \in Nat /\ Len(DeviceOrder) \in Nat
  BY ComponentFacts, FleetLengths
<1>1. phase = "starting" /\ cursor \in 1 .. Len(DeviceOrder) + 1 /\ "hardware" \in up
  BY <1>0, <1>a DEF SkipDevice, ConnectDevice, FleetConnected, Connecting, Placed
<1>2. CASE SkipDevice
  <2>1. /\ cursor' \in 1 .. Len(DeviceOrder) + 1
        /\ UNCHANGED <<fleetVars, phase, step, up, transport, spoilt>>
    BY <1>2, <1>a DEF SkipDevice, Connecting
  <2>2. KernelTypes' /\ Placed' /\ Spoilt' /\ Raised'
    BY <1>0, <1>1, <2>1, LoopTurn DEF fleetVars, deviceVars, bucketVars, KernelTypes
  <2> QED
    BY <1>1, <2>1, <2>2, FleetAside
<1>3. CASE ConnectDevice
  <2>0. Here \in Devices
    BY <1>3, FleetLengths DEF ConnectDevice, Connecting, Here
  <2>1. /\ UNCHANGED <<phase, step, up, cursor, transport, spoilt, link, nap>>
        /\ crossed' = crossed \union CrossedBy(Here, {})
    BY <1>3 DEF ConnectDevice, ConnectBegins, bucketVars
  <2>2. crossed \subseteq crossed' /\ crossed' \subseteq Devices
    BY <1>0, <2>0, <2>1 DEF CrossedBy, KernelTypes
  <2>3. KernelTypes' /\ Placed' /\ Spoilt' /\ Raised'
    BY <1>1, <2>1, <2>2, LoopTurn
  <2>4. Linked'
    BY <1>0, <1>1, <2>1, <2>2 DEF Linked
  <2> QED
    BY <2>3, <2>4 DEF Orderly
<1>4. CASE FleetConnected
  <2>1. /\ UNCHANGED <<fleetVars, phase, up, transport, spoilt>>
        /\ step \in Places /\ step' = step + 1 /\ cursor' = 0
        /\ cursor # 0
    BY <1>0, <1>1, <1>4, <1>a DEF FleetConnected, Placed
  <2>2. KernelTypes'
    BY <1>0, <1>a, <2>1 DEF KernelTypes, fleetVars, deviceVars, bucketVars, Places
  <2>3. Placed' /\ Spoilt'
    BY <1>0, <1>1, <1>a, <2>1 DEF Placed, Spoilt, Going, Nowhere, KernelTypes, Places
  <2>4. Raised'
    BY <1>0, <1>1, <1>a, <2>1 DEF Raised, Going, Places
  <2> QED
    BY <1>1, <2>1, <2>2, <2>3, <2>4, FleetAside
<1> QED
  BY <1>2, <1>3, <1>4

LEMMA AnswersOrderly ==
  ASSUME IInv, Orderly, NEW outcome \in Outcome, DeviceAnswers(outcome)
  PROVE  Orderly'
<1>0. KernelTypes /\ Placed /\ Spoilt /\ Raised /\ Linked
  BY DEF Orderly
<1>a. /\ Len(Components) \in Nat /\ Len(DeviceOrder) \in Nat
      /\ \A i, j \in Places : Components[i] = Components[j] => i = j
  BY ComponentFacts, FleetLengths
<1>1. /\ phase = "starting" /\ cursor \in 1 .. Len(DeviceOrder) /\ "hardware" \in up
      /\ step \in Places /\ Components[step] = "hardware"
      /\ Here \in Devices /\ Here = DeviceOrder[cursor]
  BY <1>0, <1>a, FleetLengths DEF DeviceAnswers, Connecting, Placed, Here
<1>2. /\ link' = [link EXCEPT ![Here] = outcome = "done"]
      /\ crossed \subseteq crossed' \union {Here} /\ crossed' \subseteq Devices
      /\ UNCHANGED <<nap, up, transport>>
  BY <1>0, <1>1 DEF DeviceAnswers, ConnectEnds, bucketVars, KernelTypes
<1>3. Linked'
  <2> SUFFICES ASSUME NEW d \in Devices, link'[d]
               PROVE  /\ \E i \in 1 .. Len(DeviceOrder) : DeviceOrder[i] = d
                      /\ "hardware" \in up'
    BY DEF Linked
  <2>1. d # Here => link[d]
    BY <1>2 DEF IInv, FleetTypeOK
  <2> QED
    BY <1>0, <1>1, <1>2, <2>1 DEF Linked
<1>4. CASE outcome = "other_error"
  <2>1. /\ phase' = "undoing" /\ step' = step - 1 /\ spoilt' = "hardware" /\ cursor' = 0
        /\ up' = up
    BY <1>4 DEF DeviceAnswers, BreaksOff
  <2>2. KernelTypes'
    BY <1>0, <1>1, <1>2, <1>a, <2>1 DEF KernelTypes, Places
  <2>3. Placed'
    BY <1>1, <1>a, <2>1 DEF Placed, Going, Places
  <2>4. Spoilt'
    BY <1>1, <1>a, <2>1 DEF Spoilt, Places
  <2>5. Raised'
    BY <1>0, <1>1, <1>a, <2>1 DEF Raised, Going, Places
  <2> QED
    BY <1>3, <2>2, <2>3, <2>4, <2>5 DEF Orderly
<1>5. CASE outcome # "other_error"
  <2>1. /\ UNCHANGED <<phase, step, up, transport, spoilt, nap>>
        /\ cursor' \in 1 .. Len(DeviceOrder) + 1 /\ cursor # 0
    BY <1>1, <1>2, <1>5, <1>a DEF DeviceAnswers
  <2>2. KernelTypes' /\ Placed' /\ Spoilt' /\ Raised'
    BY <1>2, <2>1, LoopTurn
  <2> QED
    BY <1>3, <2>2 DEF Orderly
<1> QED
  BY <1>4, <1>5

LEMMA InterruptedOrderly ==
  ASSUME Orderly, BootInterrupted
  PROVE  Orderly'
<1>0. KernelTypes /\ Placed /\ Spoilt /\ Raised /\ Linked
  BY DEF Orderly
<1>a. /\ Len(Components) \in Nat /\ Len(DeviceOrder) \in Nat
      /\ \A i, j \in Places : Components[i] = Components[j] => i = j
  BY ComponentFacts, FleetLengths
<1>1. /\ phase = "starting" /\ cursor # 0 /\ "hardware" \in up
      /\ step \in Places /\ Components[step] = "hardware" /\ Here \in Devices
  BY <1>0, <1>a, FleetLengths DEF BootInterrupted, Connecting, Placed, Here
<1>2. /\ phase' = "down" /\ step' = 0 /\ cursor' = 0 /\ spoilt' = "interrupted"
      /\ crossed \subseteq crossed' /\ crossed' \subseteq Devices
      /\ UNCHANGED <<nap, link, up, transport>>
  BY <1>0, <1>1 DEF BootInterrupted, bucketVars, KernelTypes
<1>3. KernelTypes'
  BY <1>0, <1>2, <1>a DEF KernelTypes
<1>4. Placed' /\ Spoilt'
  BY <1>2 DEF Placed, Spoilt, Going, Nowhere
<1>5. Raised'
  BY <1>0, <1>1, <1>2, <1>a DEF Raised, LeftOver, Going
<1>6. Linked'
  BY <1>0, <1>1, <1>2 DEF Linked
<1> QED
  BY <1>3, <1>4, <1>5, <1>6 DEF Orderly

\* stop comes to a component, and the component is down or the fleet goes to be
\* disconnected.
LEMMA StopComponentOrderly ==
  ASSUME Orderly, StopComponent \/ StopHardware
  PROVE  Orderly'
<1>0. KernelTypes /\ Placed /\ Spoilt /\ Raised /\ Linked
  BY DEF Orderly
<1>a. /\ Len(Components) \in Nat /\ Len(DeviceOrder) \in Nat
      /\ \A i, j \in Places : Components[i] = Components[j] => i = j
      /\ \A i \in Places : Components[i] \in Enabled
  BY ComponentFacts, FleetLengths
<1> DEFINE c == Components[step]
<1>1. /\ Going /\ phase' = phase /\ cursor = 0 /\ step \in Places
      /\ UNCHANGED <<fleetVars, awaiting, transport, spoilt>>
  BY <1>0, <1>a DEF StopComponent, StopHardware, Stopping, Going, Placed, Places, KernelTypes
<1>2. up' = up \ {c}
  BY DEF StopComponent, StopHardware, StopsNow
<1>3. \/ step' = step - 1 /\ cursor' = 0 /\ (c = "hardware" => "hardware" \notin up)
      \/ step' = step /\ cursor' = 1 /\ c = "hardware"
  BY <1>1 DEF StopComponent, StopHardware, StopsNow
<1>c. c \in Enabled
  BY <1>1, <1>a
<1> HIDE DEF c
<1>4. KernelTypes'
  BY <1>0, <1>1, <1>2, <1>3, <1>a DEF KernelTypes, fleetVars, deviceVars, bucketVars, Places
<1>5. Placed'
  BY <1>0, <1>1, <1>2, <1>3, <1>a DEF Placed, Going, Places, c
<1>6. Spoilt'
  BY <1>0, <1>1, <1>2, <1>3, <1>a DEF Spoilt, Going, Places
<1>7. ASSUME NEW j \in Places, Components[j] \in up', Components[j] # spoilt
      PROVE  j <= step' /\ j <= step - 1
  <2>1. j <= step
    BY <1>0, <1>1, <1>2, <1>7 DEF Raised, Going
  <2>2. j # step
    BY <1>2, <1>7 DEF c
  <2> QED
    BY <1>1, <1>3, <1>a, <2>1, <2>2 DEF Places
<1>8. Raised'
  BY <1>1, <1>7 DEF Raised, Going
<1>9. ASSUME NEW d \in Devices \ crossed, link[d]
      PROVE  "hardware" \in up' \/ Ahead(d)'
  <2>1. "hardware" \in up
    BY <1>0, <1>1, <1>9 DEF Linked, Ahead
  <2>2. CASE c # "hardware"
    BY <1>2, <2>1, <2>2
  <2>3. CASE c = "hardware"
    <3>1. cursor' = 1
      BY <1>3, <2>1, <2>3
    <3>2. PICK i \in 1 .. Len(DeviceOrder) : DeviceOrder[i] = d
      BY <1>0, <1>9 DEF Linked
    <3>3. cursor' <= i /\ cursor' # 0 /\ Going'
      BY <1>1, <1>a, <3>1 DEF Going
    <3> QED
      BY <3>2, <3>3 DEF Ahead
  <2> QED
    BY <2>2, <2>3
<1> QED
  BY <1>1, <1>4, <1>5, <1>6, <1>8, <1>9, FleetAside

LEMMA DisconnectingOrderly ==
  ASSUME IInv, Orderly, DisconnectDevice \/ DeviceCloses
  PROVE  Orderly'
<1>0. KernelTypes /\ Placed /\ Spoilt /\ Raised /\ Linked
  BY DEF Orderly
<1>a. Len(DeviceOrder) \in Nat
  BY FleetLengths
<1>1. /\ Going /\ cursor \in 1 .. Len(DeviceOrder) /\ "hardware" \notin up
      /\ Here = DeviceOrder[cursor] /\ Here \in Devices
  BY <1>0, <1>a, FleetLengths DEF DisconnectDevice, DeviceCloses, Disconnecting, Stopping, Going,
     Placed, Here
<1>2. UNCHANGED <<phase, step, up, transport, spoilt, nap>> /\ cursor' \in {cursor, cursor + 1}
  BY DEF DisconnectDevice, DeviceCloses, DisconnectEnds, fleetVars, bucketVars
<1>3. crossed \subseteq crossed' /\ crossed' \subseteq Devices
  BY <1>0, <1>1 DEF DisconnectDevice, DeviceCloses, DisconnectEnds, CrossedBy, fleetVars,
     deviceVars, KernelTypes
<1>4. \A d \in Devices : link'[d] => link[d]
  BY DEF DisconnectDevice, DeviceCloses, DisconnectEnds, fleetVars, deviceVars, IInv, FleetTypeOK
<1>5. cursor' = cursor + 1 => ~link'[Here] \/ Here \in crossed
  <2>1. CASE DisconnectEnds(Here)
    BY <1>1, <2>1 DEF DisconnectEnds, IInv, FleetTypeOK
  <2>2. CASE DisconnectIsNoOp(Here) /\ UNCHANGED fleetVars
    <3>1. Here \notin crossed => ~link[Here]
      BY <1>1, <2>2, WordIsTrue DEF DisconnectIsNoOp, StateTellsTruth
    <3> QED
      BY <2>2, <3>1 DEF fleetVars, deviceVars
  <2>3. CASE cursor' = cursor
    BY <1>1, <1>a, <2>3
  <2> QED
    BY <2>1, <2>2, <2>3 DEF DisconnectDevice, DeviceCloses
<1>6. KernelTypes' /\ Placed' /\ Spoilt' /\ Raised'
  BY <1>1, <1>2, <1>3, <1>a, LoopTurn
<1>7. ASSUME NEW d \in Devices \ crossed', link'[d]
      PROVE  Ahead(d)'
  <2>1. link[d] /\ d \notin crossed
    BY <1>3, <1>4, <1>7
  <2>2. PICK i \in 1 .. Len(DeviceOrder) : cursor <= i /\ DeviceOrder[i] = d
    BY <1>0, <1>1, <2>1 DEF Linked, Ahead
  <2>3. cursor' <= i /\ cursor' # 0
    <3>1. CASE cursor' = cursor
      BY <1>1, <1>a, <2>2, <3>1
    <3>2. CASE cursor' = cursor + 1
      <4>1. i # cursor
        BY <1>1, <1>5, <1>7, <2>1, <2>2, <3>2
      <4> QED
        BY <1>1, <1>a, <2>2, <3>2, <4>1
    <3> QED
      BY <1>2, <3>1, <3>2
  <2> QED
    BY <1>1, <1>2, <2>2, <2>3 DEF Ahead, Going
<1>8. Linked'
  BY <1>0, <1>4, <1>7 DEF Linked
<1> QED
  BY <1>6, <1>8 DEF Orderly

LEMMA FleetDisconnectedOrderly ==
  ASSUME Orderly, FleetDisconnected
  PROVE  Orderly'
<1>0. KernelTypes /\ Placed /\ Spoilt /\ Raised /\ Linked
  BY DEF Orderly
<1>a. Len(Components) \in Nat /\ Len(DeviceOrder) \in Nat
  BY ComponentFacts, FleetLengths
<1>1. /\ Going /\ phase' = phase /\ "hardware" \notin up /\ cursor = Len(DeviceOrder) + 1
      /\ step \in Places /\ Components[step] = "hardware" /\ step' = step - 1 /\ cursor' = 0
      /\ UNCHANGED <<fleetVars, up, transport, spoilt>>
  BY <1>0, <1>a DEF FleetDisconnected, Stopping, Going, Placed
<1>2. KernelTypes'
  BY <1>0, <1>1, <1>a DEF KernelTypes, fleetVars, deviceVars, bucketVars, Places
<1>3. Placed'
  BY <1>0, <1>1, <1>a DEF Placed, Going, Places
<1>4. Spoilt'
  BY <1>0, <1>1, <1>a DEF Spoilt, Going, Places
<1>5. ASSUME NEW j \in Places, Components[j] \in up, Components[j] # spoilt
      PROVE  j <= step - 1
  <2>1. j <= step /\ j # step
    BY <1>0, <1>1, <1>5 DEF Raised
  <2> QED
    BY <1>1, <1>a, <2>1 DEF Places
<1>6. Raised'
  BY <1>1, <1>5 DEF Raised, Going
<1>7. ASSUME NEW d \in Devices \ crossed, link[d] PROVE FALSE
  <2>1. PICK i \in 1 .. Len(DeviceOrder) : cursor <= i
    BY <1>0, <1>1, <1>7 DEF Linked, Ahead
  <2> QED
    BY <1>1, <1>a, <2>1
<1> QED
  BY <1>1, <1>2, <1>3, <1>4, <1>6, <1>7, FleetAside

LEMMA StoppedOrderly ==
  ASSUME Orderly, Stopped
  PROVE  Orderly'
<1>0. KernelTypes /\ Placed /\ Spoilt /\ Raised /\ Linked
  BY DEF Orderly
<1>a. /\ Len(Components) \in Nat
      /\ \A i, j \in Places : Components[i] = Components[j] => i = j
      /\ \A i \in Places : Components[i] \in Enabled
      /\ Nowhere \notin Enabled
  BY ComponentFacts
<1>1. /\ Going /\ phase' = "down" /\ step = 0 /\ step' = 0 /\ cursor = 0 /\ cursor' = 0
      /\ UNCHANGED <<fleetVars, up, spoilt>>
      /\ transport' = IF phase = "stopping" /\ transport = "open" THEN "closed" ELSE transport
  BY <1>0 DEF Stopped, Going, Placed, Places
<1>2. KernelTypes'
  BY <1>0, <1>1, <1>a DEF KernelTypes, fleetVars, deviceVars, bucketVars
<1>3. Placed'
  BY <1>1 DEF Placed, Going
<1>4. Spoilt'
  BY <1>0, <1>1 DEF Spoilt, Going, Nowhere
<1>5. ASSUME NEW j \in Places, Components[j] \in up
      PROVE  spoilt = "hardware" /\ Components[j] = "hardware"
  <2>1. Components[j] = spoilt
    BY <1>0, <1>1, <1>5, <1>a DEF Raised, Places
  <2>2. spoilt \in {Nowhere, "hardware", "execution"}
    BY <1>0, <1>1 DEF Spoilt, Going
  <2> QED
    BY <1>0, <1>5, <1>a, <2>1, <2>2 DEF Spoilt
<1>6. Raised'
  BY <1>1, <1>5, <1>a DEF Raised, LeftOver, Going, Places
<1>7. \A d \in Devices \ crossed : link[d] => "hardware" \in up'
  BY <1>0, <1>1 DEF Linked, Ahead
<1> QED
  BY <1>1, <1>2, <1>3, <1>4, <1>6, <1>7, FleetAside

LEMMA NextOrderly ==
  ASSUME IInv, Orderly, [Next]_vars
  PROVE  Orderly'
<1>1. CASE Start \/ Stop \/ BootInterrupted
  BY <1>1, StartOrderly, InterruptedOrderly
<1>2. CASE Boot
  BY <1>2, StartOrderly, StartComponentOrderly, ConnectingOrderly, ExecutionFailsOrderly DEF Boot
<1>3. CASE Shutdown
  BY <1>3, StopComponentOrderly, DisconnectingOrderly, FleetDisconnectedOrderly, StoppedOrderly
     DEF Shutdown
<1>4. CASE Drivers
  BY <1>4, DisconnectingOrderly, AnswersOrderly DEF Drivers
<1>5. ASSUME NEW t \in Tasks, Arrives(t) \/ Serves(t) \/ Abandon(t), UNCHANGED kernelVars
      PROVE  Orderly'
  BY <1>5, TaskIsAside, AsideKeeps
<1>6. CASE ClockTicks /\ UNCHANGED kernelVars
  BY <1>6, AsideKeeps DEF ClockTicks, TimePasses, deviceVars, Orderly, KernelTypes
<1>7. CASE UNCHANGED vars
  BY <1>7, AsideKeeps DEF vars, fleetVars, deviceVars, bucketVars, Orderly, KernelTypes
<1> QED
  BY <1>1, <1>2, <1>3, <1>4, <1>5, <1>6, <1>7 DEF Next

LEMMA OrderlyAlways == Spec => []Orderly
BY InitOrderly, NextOrderly, Invariant, PTL DEF Spec

\* Every variable of the kernel and of the fleet keeps its range, step and cursor
\* among them, whatever is enabled and declared.
THEOREM TypeCorrect == Spec => []KernelTypeOK
<1>1. IInv /\ Orderly => KernelTypeOK
  BY DEF IInv, FleetTypeOK, Job, Orderly, KernelTypes, KernelTypeOK
<1> QED
  BY <1>1, Invariant, OrderlyAlways, PTL

\* After a stop nothing is left up, no component, no connection and no transport,
\* whatever is enabled, whatever the drivers answer and whoever uses the devices
\* meanwhile; nor, but for the transport, after a start that broke off in another
\* component than the fleet (EdenKernel.start and stop).
THEOREM NothingIsLeft == Spec => []NothingDangles
<1>1. Orderly => NothingDangles
  <2> SUFFICES ASSUME Orderly, phase = "down", spoilt \notin {"hardware", "interrupted"}
               PROVE  /\ up = {}
                      /\ \A d \in Devices \ crossed : ~link[d]
                      /\ spoilt = Nowhere => transport # "open"
    BY DEF NothingDangles
  <2>1. up = {}
    <3>1. \A j \in Places : Components[j] \notin up
      BY DEF Orderly, Raised
    <3> QED
      BY <3>1, ComponentFacts DEF Orderly, KernelTypes
  <2>2. \A d \in Devices \ crossed : ~link[d]
    BY <2>1 DEF Orderly, Linked, Ahead, Going
  <2> QED
    BY <2>1, <2>2 DEF Orderly, Spoilt
<1> QED
  BY <1>1, OrderlyAlways, PTL

\* A component is stopped only after everything that was started after it, but for
\* the component whose own start broke off: "the only ordering that guarantees a
\* component's dependencies still exist" (kernel.py), for every configuration.
THEOREM StoppedInReverse == Spec => DependantsFirst
<1> DEFINE Reversed == \A i, j \in 1 .. Len(Components) :
             i < j /\ Components[i] \in up \ up' => Components[j] \notin up \ {spoilt}
<1>1. ASSUME IInv, Orderly, [Next]_vars PROVE Reversed
  <2>1. CASE StopComponent \/ StopHardware
    <3>1. Going /\ step >= 1 /\ (up' = up \/ up' = up \ {Components[step]})
      BY <2>1 DEF StopComponent, StopHardware, StopsNow, Stopping, Going
    <3>0. step \in Places
      BY <1>1, <3>1, ComponentFacts DEF Orderly, Placed, KernelTypes, Places
    <3> SUFFICES ASSUME NEW i \in Places, NEW j \in Places,
                        i < j, Components[i] \in up \ up', Components[j] \in up \ {spoilt}
                 PROVE  FALSE
      BY DEF Places
    <3>2. i = step
      BY <3>0, <3>1, ComponentFacts
    <3>3. j <= step
      <4>1. Raised /\ Components[j] \in up /\ Components[j] # spoilt
        BY <1>1 DEF Orderly
      <4> QED
        BY <3>1, <4>1 DEF Raised
    <3> QED
      BY <3>0, <3>2, <3>3, ComponentFacts DEF Places
  <2>2. CASE UNCHANGED up \/ up \subseteq up'
    BY <2>2
  <2>3. CASE Next /\ ~(StopComponent \/ StopHardware)
    <3>1. UNCHANGED up \/ up \subseteq up'
      BY <2>3 DEF Next, Boot, Shutdown, Drivers, Start, Stop, BootInterrupted, StartComponent,
         StartHardware, SkipDevice, ConnectDevice, FleetConnected, ExecutionFails, Started,
         DisconnectDevice, FleetDisconnected, Stopped, DeviceCloses, DeviceAnswers, kernelVars
    <3> QED
      BY <2>2, <3>1
  <2> QED
    BY <1>1, <2>1, <2>2, <2>3 DEF vars, kernelVars
<1>2. IInv /\ Orderly /\ [Next]_vars => [Reversed]_vars
  BY <1>1
<1> QED
  BY <1>2, Invariant, OrderlyAlways, PTL DEF Spec, DependantsFirst

-----------------------------------------------------------------------------
(* The refinement *)

Level == [b \in Buckets |-> Refilled(b)]

PacedStep ==
  /\ Eager!Next \/ UNCHANGED Level
  /\ \A t \in Tasks :
       /\ job[t].at # "writing" /\ job'[t].at = "writing"
       /\ job'[t].device \in Buckets
       => Eager!Take(job'[t].device)

LEMMA InitEager == Init => Eager!Init
BY CapacityAssumption DEF Init, FleetInit, BucketInit, Eager!Init, Refilled, Smaller

\* A step that begins no write need only leave the buckets in order.
LEMMA NoWriteIsPaced ==
  ASSUME Eager!Next \/ UNCHANGED Level,
         \A t \in Tasks : job'[t].at = "writing" => job[t].at = "writing"
  PROVE  PacedStep
BY DEF PacedStep

LEMMA IdleBuckets ==
  ASSUME UNCHANGED <<tokens, age>>
  PROVE  UNCHANGED Level
BY DEF Level, Refilled

LEMMA WriteIsPaced ==
  ASSUME IInv, NEW t \in Tasks, BeginWrite(t),
         job[t].device \in Buckets => Eager!Take(job[t].device),
         job[t].device \notin Buckets => UNCHANGED Level
  PROVE  PacedStep
<1>0. PICK d : d = job[t].device
  OBVIOUS
<1>1. job'[t].device = d /\ \A u \in Tasks \ {t} : job'[u] = job[u]
  BY <1>0 DEF BeginWrite, IInv, FleetTypeOK
<1>2. Eager!Next \/ UNCHANGED Level
  BY <1>0 DEF Eager!Next
<1> QED
  BY <1>0, <1>1, <1>2 DEF PacedStep

LEMMA TaskIsPaced ==
  ASSUME IInv, NEW t \in Tasks, Arrives(t) \/ Serves(t) \/ Abandon(t), UNCHANGED kernelVars
  PROVE  PacedStep
<1>0. /\ tokens \in [Buckets -> 0 .. Capacity] /\ age \in [Buckets -> 0 .. Capacity]
      /\ job \in [Tasks -> Job]
  BY DEF IInv, FleetTypeOK
<1>1. ASSUME NEW d, Read(t, d) \/ Prepare(t, d) PROVE PacedStep
  BY <1>0, <1>1, NoWriteIsPaced, IdleBuckets DEF Read, Prepare, TakesUp, bucketVars
<1>2. CASE Abandon(t)
  <2>1. UNCHANGED <<tokens, age>> /\ Leaves(t)
    BY <1>2 DEF Abandon, GiveUp, bucketVars
  <2> QED
    BY <1>0, <2>1, LeavesStep, NoWriteIsPaced, IdleBuckets
<1>3. CASE Refused(t)
  BY <1>0, <1>3, LeavesStep, NoWriteIsPaced, IdleBuckets DEF Refused, bucketVars
<1>4. ASSUME NEW outcome \in Outcome, ReadEnds(t, outcome) \/ WriteEnds(t, outcome)
      PROVE  PacedStep
  <2>1. UNCHANGED <<tokens, age>> /\ (Goes(t, "prepared") \/ Leaves(t))
    BY <1>4 DEF ReadEnds, WriteEnds, bucketVars
  <2>2. "prepared" \in Place
    BY DEF Place
  <2> QED
    BY <1>0, <2>1, <2>2, GoesStep, LeavesStep, NoWriteIsPaced, IdleBuckets
<1>5. CASE KeepsWaiting(t)
  BY <1>0, <1>5, FindNoneKeeps, NoWriteIsPaced DEF KeepsWaiting, Sleep, Level
<1>6. CASE Granted(t)
  <2>1. PICK d : d = job[t].device
    OBVIOUS
  <2>2. Spend(d) /\ BeginWrite(t)
    BY <1>6, <2>1 DEF Granted, Grant
  <2>3. d \in Buckets => Eager!Take(d)
    BY <1>0, <2>2, SpendTakes
  <2>4. d \notin Buckets => UNCHANGED <<tokens, age>>
    BY <1>0, <2>2 DEF Spend
  <2> QED
    BY <2>1, <2>2, <2>3, <2>4, WriteIsPaced, IdleBuckets
<1>7. CASE Send(t)
  <2>1. PICK d : d = job[t].device
    OBVIOUS
  <2>2. CASE /\ IF d \in Buckets THEN AdmitAtOnce(d) ELSE UNCHANGED bucketVars
             /\ BeginWrite(t)
    <3>1. d \in Buckets => Eager!Take(d)
      BY <1>0, <2>2, SpendTakes DEF AdmitAtOnce
    <3>2. d \notin Buckets => UNCHANGED <<tokens, age>>
      BY <2>2 DEF bucketVars
    <3> QED
      BY <2>1, <2>2, <3>1, <3>2, WriteIsPaced, IdleBuckets
  <2>3. CASE Arrive(d, t) /\ Goes(t, "waiting")
    <3>1. UNCHANGED Level
      BY <1>0, <2>3, FindNoneKeeps, IdleBuckets DEF Arrive, Level
    <3>2. "waiting" \in Place
      BY DEF Place
    <3> QED
      BY <1>0, <2>3, <3>1, <3>2, GoesStep, NoWriteIsPaced
  <2> QED
    BY <1>7, <2>1, <2>2, <2>3 DEF Send
<1> QED
  BY <1>1, <1>2, <1>3, <1>4, <1>5, <1>6, <1>7 DEF Arrives, Calls, Serves

LEMMA ManagerLeavesTheBuckets ==
  ASSUME Start \/ Stop \/ BootInterrupted \/ Boot \/ Shutdown \/ Drivers
  PROVE  UNCHANGED <<tokens, age, job>>
<1> USE DEF fleetVars, bucketVars
<1>1. CASE Start \/ Stop \/ BootInterrupted
  BY <1>1 DEF Start, Stop, BootInterrupted
<1>2. CASE Boot
  BY <1>2 DEF Boot, StartComponent, StartHardware, SkipDevice, ConnectDevice, ConnectBegins,
     FleetConnected, ExecutionFails, Started
<1>3. CASE Shutdown
  BY <1>3 DEF Shutdown, StopComponent, StopHardware, DisconnectDevice, DisconnectEnds,
     FleetDisconnected, Stopped
<1>4. CASE Drivers
  BY <1>4 DEF Drivers, DeviceCloses, DeviceAnswers, DisconnectEnds, ConnectEnds
<1> QED
  BY <1>1, <1>2, <1>3, <1>4

LEMMA NextIsPaced ==
  ASSUME IInv, [Next]_vars
  PROVE  PacedStep
<1>1. CASE Start \/ Stop \/ BootInterrupted \/ Boot \/ Shutdown \/ Drivers
  BY <1>1, ManagerLeavesTheBuckets, NoWriteIsPaced, IdleBuckets
<1>2. CASE \E t \in Tasks : (Arrives(t) \/ Serves(t) \/ Abandon(t)) /\ UNCHANGED kernelVars
  BY <1>2, TaskIsPaced
<1>3. CASE ClockTicks
  BY <1>3, TimeEarns, NoWriteIsPaced DEF ClockTicks, IInv, FleetTypeOK, Eager!Next
<1>4. CASE UNCHANGED vars
  BY <1>4, NoWriteIsPaced, IdleBuckets DEF vars, fleetVars, bucketVars
<1> QED
  BY <1>1, <1>2, <1>3, <1>4 DEF Next

\* However its refills are put off and whoever waits for it, TokenBucket is the
\* bucket that earns as time passes, and each write to a device that has one takes
\* a permit out of it (utils/ratelimit.py, device.send).
THEOREM LimiterImplementsBucket == Spec => Paced
<1>1. PacedStep => [Eager!Next]_Level
  BY DEF PacedStep
<1>2. PacedStep =>
        [\A t \in Tasks :
           /\ job[t].at # "writing" /\ job'[t].at = "writing"
           /\ job'[t].device \in Buckets
           => Eager!Take(job'[t].device)]_vars
  BY DEF PacedStep
<1> QED
  BY <1>1, <1>2, InitEager, NextIsPaced, Invariant, PTL DEF Spec, Paced, Eager!Spec, Level

=============================================================================
