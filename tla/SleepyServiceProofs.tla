------------------------- MODULE SleepyServiceProofs -------------------------
(***************************************************************************)
(* The controller and the proxy together keep the status contract, for any *)
(* components and dependencies, any number of requests and goroutines and  *)
(* a cache as old as it likes.                                             *)
(*                                                                         *)
(* The proofs of the parts are used as they stand: the invariant of the    *)
(* whole is the two invariants over the one object.  What is left to show  *)
(* is what each part's proof takes for granted of the other: a write of    *)
(* the controller leaves the request alone and makes the proxy's copies    *)
(* stale, and a write of the proxy puts back the state that is stored and  *)
(* makes the controller's copy stale.                                      *)
(***************************************************************************)
EXTENDS SleepyService, VersionLemmas

CP == INSTANCE ReconcilerProofs
        WITH pc <- cpc, fresh <- cfresh, writes <- 0, MaxWrites <- 0,
             faults <- 0, MaxFaults <- 0
PP == INSTANCE WakeProxyProofs
        WITH fresh <- pfresh, desired <- Current.desired, state <- Current.state,
             Debug <- FALSE, faults <- 0, MaxFaults <- 0

(***************************************************************************)
(* The parts by either name                                                *)
(***************************************************************************)
\* CP and PP rename the parts with their proofs as C and P rename the parts: what one
\* name stands for, the other does.
LEMMA SameObject ==
  /\ CP!Current = Current /\ C!Current = Current
  /\ C!Components = CP!Components
BY DEF Current, C!Current, CP!Current, Last, C!Last, CP!Last, C!Components, CP!Components

\* The steps of a pass ...
LEMMA SamePass ==
  /\ C!Begin => CP!Begin
  /\ C!Decide => CP!Decide
  /\ C!WriteStatus => CP!WriteStatus
BY DEF C!Begin, CP!Begin, C!Decide, CP!Decide, C!WriteStatus, CP!WriteStatus,
       C!Accepted, CP!Accepted, C!Return, CP!Return, C!GiveUp, CP!GiveUp,
       C!EmptyStatus, CP!EmptyStatus, C!Current, CP!Current, C!Last, CP!Last,
       C!WantsUp, CP!WantsUp, C!WantsDown, CP!WantsDown, C!Judged, CP!Judged,
       C!Observed, CP!Observed, C!Valid, CP!Valid, C!Levelled, CP!Levelled,
       C!LevelledOver, CP!LevelledOver, C!Components, CP!Components,
       C!Frontier, CP!Frontier, C!Reachable, CP!Reachable, C!Levels, CP!Levels

\* ... its visits to the components ...
LEMMA SameVisits ==
  ASSUME NEW c
  PROVE  /\ C!Check(c) => CP!Check(c)
         /\ C!ScaleUp(c) => CP!ScaleUp(c)
         /\ C!ScaleDown(c) => CP!ScaleDown(c)
BY DEF C!Check, CP!Check, C!Ready, CP!Ready, C!View, CP!View, C!Actual, CP!Actual,
       C!ViewIsActual, CP!ViewIsActual, C!Last, CP!Last, C!Put, CP!Put,
       C!GiveUp, CP!GiveUp, C!Return, CP!Return, C!EmptyStatus, CP!EmptyStatus,
       C!ScaleUp, CP!ScaleUp, C!ScaleDown, CP!ScaleDown

\* ... what goes on around it ...
LEMMA SameCluster ==
  /\ C!SyncService => CP!SyncService
  /\ C!Resync => CP!Resync
  /\ \A c : C!SyncComponent(c) => CP!SyncComponent(c)
  /\ \A c : C!PodsFollow(c) => CP!PodsFollow(c)
BY DEF C!SyncService, CP!SyncService, C!Resync, CP!Resync, C!SyncComponent, CP!SyncComponent, C!PodsFollow,
       CP!PodsFollow, C!pass, CP!pass, C!Actual, CP!Actual, C!Last, CP!Last, C!Put, CP!Put

\* ... and where both parts start.
LEMMA SameInit == C!Init /\ P!Init => CP!Init /\ PP!Init
BY DEF C!Init, CP!Init, C!EmptyStatus, CP!EmptyStatus, C!Components, CP!Components,
       P!Init, PP!Init, P!Processes, PP!Processes, P!Writers, PP!Writers, P!Sleepers,
       PP!Sleepers, P!None, PP!None

\* The steps of a wake goroutine ...
LEMMA SameWaker ==
  ASSUME NEW w
  PROVE  /\ P!WakerStep(w) => PP!WakerStep(w)
         /\ P!WakePut(w) => PP!WakePut(w)
         /\ P!Timeout(w) => PP!Timeout(w)
BY DEF P!WakerStep, PP!WakerStep, P!Enter, PP!Enter, P!Announce, PP!Announce,
       P!WakeGet, PP!WakeGet, P!WakePut, PP!WakePut, P!Poll, PP!Poll,
       P!Progress, PP!Progress, P!Ready, PP!Ready, P!Open, PP!Open,
       P!Opened, PP!Opened, P!WakeFails, PP!WakeFails, P!UpdateStatus, PP!UpdateStatus,
       P!Goto, PP!Goto, P!Get, PP!Get, P!Put, PP!Put, P!Stored, PP!Stored,
       P!Drop, PP!Drop, P!Exit, PP!Exit, P!None, PP!None, P!Fault, PP!Fault,
       P!status, PP!status, P!proxy, PP!proxy,
       P!Timeout, PP!Timeout, P!HasDeadline, PP!HasDeadline, P!Alive, PP!Alive,
       P!Opening, PP!Opening

\* ... of who puts the service to sleep ...
LEMMA SameSleeper ==
  ASSUME NEW s
  PROVE  /\ P!SleeperStep(s) => PP!SleeperStep(s)
         /\ P!SleepPut(s) => PP!SleepPut(s)
         /\ P!Tick(s) => PP!Tick(s)
BY DEF P!SleeperStep, PP!SleeperStep, P!SleepEnter, PP!SleepEnter,
       P!SetSleeping, PP!SetSleeping, P!SleepGet, PP!SleepGet, P!SleepPut, PP!SleepPut,
       P!Tick, PP!Tick, P!Opening, PP!Opening, P!Goto, PP!Goto, P!Get, PP!Get,
       P!Put, PP!Put, P!Stored, PP!Stored, P!Drop, PP!Drop, P!Fault, PP!Fault,
       P!status, PP!status, P!proxy, PP!proxy

\* ... and of a request.
LEMMA SameRequest ==
  ASSUME NEW r
  PROVE  /\ P!Release(r) => PP!Release(r)
         /\ P!GatewayTimeout(r) => PP!GatewayTimeout(r)
         /\ P!Served(r) => PP!Served(r)
         /\ P!CheckAndUpdate(r) => PP!CheckAndUpdate(r)
         /\ P!NoteActivity(r) => PP!NoteActivity(r)
         /\ P!Arrive(r) => PP!Arrive(r)
         /\ P!IdlePasses => PP!IdlePasses
BY DEF P!Release, PP!Release, P!GatewayTimeout, PP!GatewayTimeout, P!Served, PP!Served,
       P!CheckAndUpdate, PP!CheckAndUpdate, P!Adopted, PP!Adopted,
       P!NoteActivity, PP!NoteActivity, P!Arrive, PP!Arrive, P!Spawn, PP!Spawn,
       P!Goto, PP!Goto, P!IdlePasses, PP!IdlePasses,
       P!status, PP!status, P!proxy, PP!proxy

\* What the controller may scale is judged alike.
LEMMA SameScaling ==
  /\ C!Valid <=> CP!Valid
  /\ \A c : C!Actual(c) = CP!Actual(c) /\ C!Actual(c)' = CP!Actual(c)'
BY DEF C!Valid, CP!Valid, C!Levelled, CP!Levelled, C!LevelledOver, CP!LevelledOver,
       C!Components, CP!Components, C!Actual, CP!Actual, C!Last, CP!Last

\* The contract of each part is that of the whole.
LEMMA SameContract ==
  /\ CP!S!StatusInit => S!StatusInit
  /\ CP!S!StatusNext => S!StatusNext
  /\ PP!S!StatusNext => S!StatusNext
BY DEF Current, CP!Current, Last, CP!Last, S!StatusInit, CP!S!StatusInit, S!StatusNext,
    CP!S!StatusNext, PP!S!StatusNext,
    S!Request, CP!S!Request, PP!S!Request, S!FollowWake, CP!S!FollowWake, PP!S!FollowWake,
    S!FollowSleep, CP!S!FollowSleep, PP!S!FollowSleep, S!Unset, CP!S!Unset,
    S!Sleeping, CP!S!Sleeping, PP!S!Sleeping, S!Waking, CP!S!Waking, PP!S!Waking,
    S!Awake, CP!S!Awake, PP!S!Awake

(***************************************************************************)
(* What the parts' own proofs say here                                     *)
(***************************************************************************)
\* The controller keeps its invariant and follows the contract ...
LEMMA ControllerSteps ==
  ASSUME CP!Inv, CP!Next \/ UNCHANGED CP!vars
  PROVE  CP!Inv' /\ [CP!S!StatusNext]_(CP!S!svcVars)
BY CP!StepInv, CP!StepFollows, ComponentsAssumption, BoundsAssumption
DEF C!Kinds, CP!Kinds, CP!Components

\* ... and scales only in order and as requested ...
LEMMA ControllerScales ==
  ASSUME CP!Inv, CP!Next, NEW c \in CP!Components
  PROVE  /\ CP!Upped(c) => CP!Valid /\ DependsOn[c] \subseteq hs.ready
         /\ CP!Downed(c) => CP!Current.desired # "Awake" \/ ~cfresh
BY CP!OrderedStep, CP!AllowedStep, ComponentsAssumption, BoundsAssumption
DEF C!Kinds, CP!Kinds, CP!Components

\* ... a request does as well ...
LEMMA RequestSteps ==
  ASSUME CP!Inv, NEW d \in {"Sleeping", "Awake"}, CP!Requested(d)
  PROVE  CP!Inv' /\ CP!S!StatusNext
BY CP!RequestedStep, CP!RequestFollows, ComponentsAssumption, BoundsAssumption
DEF C!Kinds, CP!Kinds, CP!Components

\* ... and a write of the controller's own leaves the request as it is.
LEMMA ControllerWrites ==
  ASSUME CP!Inv, CP!WriteStatus, UNCHANGED svc => FALSE
  PROVE  CP!Current' = hs /\ hs.desired = CP!Current.desired
BY CP!WriteFollows, ComponentsAssumption, BoundsAssumption
DEF C!Kinds, CP!Kinds, CP!Components

\* The proxy's processes are told apart.
LEMMA ProxyNames ==
  /\ Requests \cap PP!Writers = {} /\ Wakers \cap PP!Sleepers = {}
  /\ PP!None \notin Wakers
  /\ P!Sleepers = PP!Sleepers
BY NamesAssumption
DEF P!Writers, PP!Writers, P!Sleepers, PP!Sleepers, P!None, PP!None

\* The proxy keeps its invariant and follows the contract ...
LEMMA ProxySteps ==
  ASSUME PP!Inv, PP!Next \/ UNCHANGED PP!vars
  PROVE  PP!Inv' /\ (PP!S!StatusNext \/ UNCHANGED PP!status)
<1>1. UNCHANGED PP!vars => UNCHANGED PP!status
  BY DEF PP!vars, PP!status
<1> QED
  BY <1>1, PP!StepInv, PP!QuietInv, ProxyNames

\* ... when it reads the status on behalf of a request ...
LEMMA ProxyReads ==
  ASSUME PP!Inv, NEW r \in Requests, P!Goto(r, "check"),
         saw' = [saw EXCEPT ![r] = Current.state],
         UNCHANGED <<svc, pstate, cancel, cancelled, pfresh, idle>>
  PROVE  PP!Inv'
<1>1. UNCHANGED <<Current.state, Current.desired>> /\ PP!RestOK /\ PP!RestOK'
  BY PP!Parts, ProxyNames DEF Current, PP!Inv, PP!RestOK
<1>2. Current.state \in PP!ReadStates /\ "check" \in PP!RequestLabels
  BY <1>1 DEF PP!RestOK, PP!RequestLabels
<1> QED
  BY <1>1, <1>2, PP!RequestReads, ProxyNames DEF P!Goto, PP!Goto, PP!status

\* ... and when the controller has written.
LEMMA ProxySeesWrite ==
  ASSUME PP!Inv, Current'.state \in PP!ReadStates, Current'.desired = Current.desired,
         pfresh' = {}, UNCHANGED proxy
  PROVE  PP!Inv'
BY PP!ControllerWrites, ProxyNames DEF proxy, PP!proxy

(***************************************************************************)
(* The whole                                                               *)
(***************************************************************************)
\* The invariants of the parts, of the one object they share.
Inv == CP!Inv /\ PP!Inv

\* What the controller does keeps the proxy's invariant too, as a write of the
\* controller's makes its copies stale.
LEMMA ControllerKeeps ==
  ASSUME Inv, CP!Next, UNCHANGED <<proxy, naps>>,
         pfresh' = (IF Writes THEN {} ELSE pfresh),
         Writes \/ Current' = Current,
         Current'.desired = Current.desired
  PROVE  Inv' /\ [S!StatusNext]_(S!svcVars)
<1>1. CP!Inv' /\ [S!StatusNext]_(S!svcVars)
  BY ControllerSteps, SameContract
  DEF Inv, S!svcVars, CP!S!svcVars, Current, CP!Current, Last, CP!Last
<1>2. PP!Inv'
  <2>1. CASE Writes
    <3>1. Current'.state \in PP!ReadStates
      <4>1. svc' \in Seq(CP!Status) /\ svc' # <<>>
        BY <1>1 DEF CP!Inv, CP!TypeOK
      <4>2. Current' \in CP!Status
        BY <4>1, LastType DEF Current
      <4> QED
        BY <4>2 DEF CP!Status, CP!States, PP!ReadStates, PP!ProxyStates
    <3> QED
      BY <2>1, <3>1, ProxySeesWrite DEF Inv
  <2>2. CASE ~Writes
    BY <2>2, ProxySteps DEF Inv, PP!vars, proxy
  <2> QED
    BY <2>1, <2>2
<1> QED
  BY <1>1, <1>2 DEF Inv

\* What the proxy does without writing is nothing to the controller.
LEMMA ProxyKeeps ==
  ASSUME Inv, UNCHANGED <<svc, cfresh, controller>>, PP!Next \/ UNCHANGED PP!vars
  PROVE  Inv' /\ UNCHANGED S!svcVars
<1>1. PP!Inv'
  BY ProxySteps DEF Inv
<1>2. CP!Inv'
  BY ControllerSteps DEF Inv, CP!vars, controller
<1> QED
  BY <1>1, <1>2 DEF Inv, S!svcVars, Current

\* What it writes is a request to the controller, and what it writes back besides is
\* what is stored.
LEMMA ProxyWriteKeeps ==
  ASSUME Inv, NEW p, NEW d \in {"Sleeping", "Awake"}, NEW ACTION A,
         ProxyWrites(p, d, A), PP!Next
  PROVE  Inv' /\ S!StatusNext
<1>1. PP!Inv'
  BY ProxySteps DEF Inv
<1>2. CP!Requested(d)
  BY SameObject DEF ProxyWrites, CP!Requested, controller
<1> QED
  BY <1>1, <1>2, RequestSteps, SameContract DEF Inv

\* Initially both invariants hold.
LEMMA InitInv == Init => Inv /\ S!StatusInit
BY SameInit, SameContract, CP!InitInv, CP!InitFollows, PP!InitInv, ProxyNames,
   ComponentsAssumption, BoundsAssumption
DEF Init, Inv, C!Kinds, CP!Kinds, CP!Components

\* A pass, a delivery, a resync or the cluster.
Controls ==
  \/ ControllerStep(Pass) \/ ControllerStep(C!SyncService) \/ ControllerStep(Resync)
  \/ \E c \in C!Components : ControllerStep(Cluster(c))

\* Each is a step of the controller's own specification.
LEMMA ControlsNext == Controls => CP!Next
<1>1. ControllerStep(Pass) => CP!Next
  BY SamePass, SameVisits, SameObject DEF ControllerStep, Pass, C!Work, CP!Next, CP!Work
<1>2. ControllerStep(C!SyncService) \/ ControllerStep(Resync) => CP!Next
  BY SameCluster DEF ControllerStep, Resync, CP!Next
<1>3. ASSUME NEW c \in C!Components, ControllerStep(Cluster(c)) PROVE CP!Next
  BY <1>3, SameCluster, SameObject DEF ControllerStep, Cluster, CP!Next
<1> QED
  BY <1>1, <1>2, <1>3 DEF Controls

\* Only a status write makes a version, and none of them changes the request.
LEMMA ControllerStepInv ==
  ASSUME Inv, Controls
  PROVE  Inv' /\ [S!StatusNext]_(S!svcVars)
<1>0. svc \in Seq(CP!Status) /\ svc # <<>> /\ Len(svc) \in Nat
  BY LenProperties DEF Inv, CP!Inv, CP!TypeOK
<1>1. /\ UNCHANGED <<proxy, naps>>
      /\ pfresh' = (IF Writes THEN {} ELSE pfresh)
  BY DEF Controls, ControllerStep
<1>2. CP!Next
  BY ControlsNext
<1>3. CASE C!WriteStatus /\ svc' # svc
  <2>1. CP!WriteStatus
    BY <1>3, SamePass
  <2>2. Current'.desired = Current.desired
    BY <1>3, <2>1, ControllerWrites DEF Inv, Current, CP!Current, Last, CP!Last
  <2>3. Writes
    <3>1. svc' = Append(svc, hs)
      BY <1>3 DEF C!WriteStatus
    <3> QED
      BY <1>0, <3>1, AppendProperties DEF Inv, CP!Inv, CP!TypeOK, Writes
  <2> QED
    BY <1>1, <1>2, <2>2, <2>3, ControllerKeeps
<1>4. CASE C!SyncService
  <2>1. Current' = Current
    BY <1>0, <1>4, SameCluster, LastOfTail DEF CP!SyncService, Current
  <2> QED
    BY <1>1, <1>2, <2>1, ControllerKeeps
<1>5. CASE UNCHANGED svc
  <2>1. Current' = Current
    BY <1>5 DEF Current
  <2> QED
    BY <1>1, <1>2, <2>1, ControllerKeeps
<1>6. UNCHANGED svc \/ C!WriteStatus \/ C!SyncService
  BY DEF Controls, ControllerStep, Pass, Resync, Cluster, C!Work, C!Begin, C!Decide,
         C!Check, C!ScaleUp, C!ScaleDown, C!SyncComponent, C!PodsFollow, C!Resync
<1> QED
  BY <1>3, <1>4, <1>5, <1>6

\* Every step keeps the invariant and is allowed by the contract.
LEMMA StepInv == Inv /\ [Next]_vars => Inv' /\ [S!StatusNext]_(S!svcVars)
<1> SUFFICES ASSUME Inv, [Next]_vars PROVE Inv' /\ [S!StatusNext]_(S!svcVars)
  OBVIOUS
<1>1. CASE Controls
  BY <1>1, ControllerStepInv
<1>2. ASSUME NEW w \in Wakers, WakerStep(w) \/ ProxyStep(P!Timeout(w))
      PROVE  Inv' /\ [S!StatusNext]_(S!svcVars)
  <2>1. PP!WakerStep(w) \/ PP!Timeout(w) => PP!Next
    BY DEF PP!Next
  <2>2. CASE ProxyWrites(w, "Awake", P!WakePut(w))
    <3>1. PP!Next
      BY <2>1, <2>2, SameWaker DEF ProxyWrites, PP!WakerStep
    <3> QED
      BY <2>2, <3>1, ProxyWriteKeeps
  <2>3. CASE \/ ProxyFails(w, P!WakePut(w)) \/ ProxyStep(P!WakerStep(w))
             \/ ProxyStep(P!Timeout(w)) \/ ProxyStep(pc[w] # "put" /\ P!WakerStep(w))
    <3>1. PP!Next /\ UNCHANGED <<svc, cfresh, controller>>
      BY <2>1, <2>3, SameWaker DEF ProxyFails, ProxyStep, PP!WakerStep
    <3> QED
      BY <3>1, ProxyKeeps
  <2> QED
    BY <1>2, <2>2, <2>3 DEF WakerStep, WakePut
<1>3. ASSUME NEW s \in P!Sleepers, SleeperStep(s) \/ ProxyStep(P!Tick(s))
      PROVE  Inv' /\ [S!StatusNext]_(S!svcVars)
  <2>1. PP!SleeperStep(s) \/ PP!Tick(s) => PP!Next
    BY ProxyNames DEF PP!Next
  <2>2. CASE ProxyWrites(s, "Sleeping", P!SleepPut(s))
    <3>1. PP!Next
      BY <2>1, <2>2, SameSleeper DEF ProxyWrites, PP!SleeperStep
    <3> QED
      BY <2>2, <3>1, ProxyWriteKeeps
  <2>3. CASE \/ ProxyFails(s, P!SleepPut(s)) \/ ProxyStep(P!Tick(s))
             \/ ProxyStep(pc[s] # "put" /\ P!SleeperStep(s))
    <3>1. PP!Next /\ UNCHANGED <<svc, cfresh, controller>>
      BY <2>1, <2>3, SameSleeper DEF ProxyFails, ProxyStep, PP!SleeperStep
    <3> QED
      BY <3>1, ProxyKeeps
  <2> QED
    BY <1>3, <2>2, <2>3 DEF SleeperStep, SleepPut
<1>4. ASSUME NEW r \in Requests, RequestStep(r) \/ Arrive(r)
      PROVE  Inv' /\ [S!StatusNext]_(S!svcVars)
  <2>1. UNCHANGED <<svc, cfresh, controller>>
    BY <1>4 DEF RequestStep, Arrive, ProxyStep
  <2>2. CASE \/ P!Release(r) \/ P!NoteActivity(r) \/ P!GatewayTimeout(r) \/ P!Served(r)
             \/ P!CheckAndUpdate(r) \/ P!Arrive(r)
    <3>1. PP!Next
      BY <2>2, SameRequest DEF PP!Next, PP!RequestStep
    <3> QED
      BY <2>1, <3>1, ProxyKeeps
  <2>3. CASE /\ P!Goto(r, "check") /\ saw' = [saw EXCEPT ![r] = Current.state]
             /\ UNCHANGED <<pstate, cancel, cancelled, pfresh, idle>>
    <3>1. PP!Inv'
      BY <2>1, <2>3, ProxyReads DEF Inv
    <3>2. CP!Inv'
      BY <2>1, ControllerSteps DEF Inv, CP!vars, controller
    <3> QED
      BY <2>1, <3>1, <3>2 DEF Inv, S!svcVars, Current
  <2> QED
    BY <1>4, <2>2, <2>3 DEF RequestStep, Arrive, ProxyStep, Answer, P!Goto
<1>5. CASE IdlePasses
  <2>1. PP!Next /\ UNCHANGED <<svc, cfresh, controller>>
    BY <1>5, SameRequest DEF IdlePasses, PP!Next
  <2> QED
    BY <2>1, ProxyKeeps
<1>6. CASE UNCHANGED vars
  <2>1. UNCHANGED PP!vars /\ UNCHANGED <<svc, cfresh, controller>>
    BY <1>6 DEF vars, PP!vars, proxy, controller, Current
  <2> QED
    BY <2>1, ProxyKeeps
<1> QED
  BY <1>1, <1>2, <1>3, <1>4, <1>5, <1>6 DEF Next, Controls

\* Every reachable state of the whole satisfies the invariants of both parts.
THEOREM Invariance == Spec => []Inv
<1>1. Inv /\ [Next]_vars => Inv'
  BY StepInv
<1> QED
  BY <1>1, InitInv, PTL DEF Spec

\* The controller and the proxy together, on one object, keep the promise each of
\* them keeps alone.
THEOREM KeepsContract == Spec => Contract
<1>1. Inv /\ [Next]_vars => [S!StatusNext]_(S!svcVars)
  BY StepInv
<1> QED
  BY <1>1, InitInv, Invariance, PTL DEF Spec, Contract, S!StatusSpec

\* What each part guarantees alone it guarantees over the other: no request of the proxy
\* is forgotten, Awake is only stored next to components found ready, and the proxy
\* only ever writes back the state that is stored.
THEOREM PartsHold ==
  Spec => [](/\ C!NoForgottenRequest /\ C!AwakeOnlyIfReady
             /\ \A p \in pfresh : saw[p] = Current.state)
<1>1. ASSUME Inv
      PROVE  /\ C!NoForgottenRequest /\ C!AwakeOnlyIfReady
             /\ \A p \in pfresh : saw[p] = Current.state
  <2>1. C!NoForgottenRequest /\ C!AwakeOnlyIfReady
    BY <1>1, SameObject
    DEF Inv, CP!Inv, C!NoForgottenRequest, CP!NoForgottenRequest, C!AwakeOnlyIfReady,
        CP!AwakeOnlyIfReady, C!Settled, CP!Settled
  <2>2. \A p \in pfresh : saw[p] = Current.state
    BY <1>1 DEF Inv, PP!Inv, PP!FreshHasSeen
  <2> QED
    BY <2>1, <2>2
<1> QED
  BY <1>1, Invariance, PTL

\* Only the controller and the cluster touch the components.
LEMMA WhoTouchesComponents ==
  ASSUME [Next]_vars
  PROVE  CP!Next \/ UNCHANGED comp
<1>1. CASE Controls
  BY <1>1, ControlsNext
<1>2. ASSUME NEW w \in Wakers, WakerStep(w) \/ ProxyStep(P!Timeout(w))
      PROVE  UNCHANGED comp
  BY <1>2 DEF WakerStep, WakePut, ProxyWrites, ProxyFails, ProxyStep, controller
<1>3. ASSUME NEW s \in P!Sleepers, SleeperStep(s) \/ ProxyStep(P!Tick(s))
      PROVE  UNCHANGED comp
  BY <1>3 DEF SleeperStep, SleepPut, ProxyWrites, ProxyFails, ProxyStep, controller
<1>4. ASSUME NEW r \in Requests, RequestStep(r) \/ Arrive(r)
      PROVE  UNCHANGED comp
  BY <1>4 DEF RequestStep, Arrive, ProxyStep, controller
<1>5. CASE IdlePasses \/ UNCHANGED vars
  BY <1>5 DEF IdlePasses, vars, controller
<1> QED
  BY <1>1, <1>2, <1>3, <1>4, <1>5 DEF Next, Controls

\* With a proxy that asks for both at any time, the controller still scales components
\* up in dependency order only, and down only if no newer request for Awake is stored
\* that it could have seen.
THEOREM ScalingHolds == Spec => C!DependencyOrder /\ C!NoSleepAgainstRequest
<1>1. ASSUME Inv, [Next]_vars, NEW c \in C!Components
      PROVE  /\ C!Upped(c) => C!Valid /\ DependsOn[c] \subseteq hs.ready
             /\ C!Downed(c) => Current.desired # "Awake" \/ ~cfresh
  <2>1. CASE CP!Next
    BY <1>1, <2>1, ControllerScales, SameScaling, SameObject
    DEF Inv, C!Upped, CP!Upped, C!Downed, CP!Downed
  <2>2. CASE UNCHANGED comp
    <3>1. C!Actual(c)' = C!Actual(c)
      BY <2>2 DEF C!Actual
    <3> QED
      BY <3>1 DEF C!Upped, C!Downed
  <2> QED
    BY <1>1, <2>1, <2>2, WhoTouchesComponents
<1>2. Inv /\ [Next]_vars =>
        /\ [\A c \in C!Components :
              C!Upped(c) => C!Valid /\ DependsOn[c] \subseteq hs.ready]_(C!vars)
        /\ [\A c \in C!Components :
              C!Downed(c) => C!Current.desired # "Awake" \/ ~cfresh]_(C!vars)
  BY <1>1, SameObject
<1> QED
  BY <1>2, Invariance, PTL DEF Spec, C!DependencyOrder, C!NoSleepAgainstRequest
=============================================================================
