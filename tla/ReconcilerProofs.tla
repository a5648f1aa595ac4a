-------------------------- MODULE ReconcilerProofs --------------------------
(***************************************************************************)
(* The safety of the reconcile loop for any number of components, any      *)
(* dependency graph and any bounds: type correctness, an inductive         *)
(* invariant that ties a pass's copy of the status to the status itself,   *)
(* and the properties that follow from it.                                 *)
(***************************************************************************)
EXTENDS Reconciler, VersionLemmas, DependencyLevelsProofs

(***************************************************************************)
(* The inductive invariant                                                 *)
(***************************************************************************)
\* What a pass may rely on about its copy of the status.  The copy still carries
\* the request, and until the switch the state, as long as it is fresh ...
CopyFollowsStatus ==
  /\ fresh => pc # "idle" /\ hs.desired = Current.desired
  /\ fresh /\ pc = "check" => hs.state = Current.state

\* ... and what the switch has put into it is a state the request allows.
Deciding == pc \in {"up", "down", "write"}

DecisionFollowsRequest ==
  Deciding =>
    /\ hs.state = "Waking" \/ Settled(hs)
    /\ hs.state = "Awake" => hs.ready = Components
    /\ fresh /\ hs.state = "Waking" => hs.desired = "Awake" \/ Current.state = "Waking"

\* A scaling phase only has components to visit that it may scale.
ScalingIsAllowed ==
  /\ pc = "down" => hs.desired # "Awake"
  /\ pc = "up" => Valid /\ \A c \in todo : DependsOn[c] \subseteq hs.ready

Inv ==
  /\ TypeOK /\ NoForgottenRequest /\ AwakeOnlyIfReady
  /\ CopyFollowsStatus /\ DecisionFollowsRequest /\ ScalingIsAllowed

(***************************************************************************)
(* Types                                                                   *)
(***************************************************************************)
\* What a pass reads, from the cache or live, is a status or a resource.
LEMMA ReadTypes ==
  ASSUME TypeOK
  PROVE  /\ Current \in Status /\ Head(svc) \in Status
         /\ \A c \in Components : /\ Actual(c) \in Resource
                                  /\ View(c) \in Resource
BY LastType DEF TypeOK, Current, Actual, View

\* A write of a resource is seen by whoever reads it live, at once.
LEMMA PutEffect ==
  ASSUME TypeOK, NEW c \in Components, NEW r \in Resource, Put(c, r)
  PROVE  /\ comp' \in [Components -> Seq(Resource)]
         /\ \A d \in Components : comp[d]' # <<>>
         /\ \A d \in Components : Actual(d)' = IF d = c THEN r ELSE Actual(d)
<1> DEFINE s == IF Kind[c] = "CNPGCluster" THEN <<r>> ELSE Append(comp[c], r)
<1>1. s \in Seq(Resource) /\ s # <<>> /\ Last(s) = r
  BY LastOfAppend, LastOfOne DEF TypeOK
<1>2. comp' = [comp EXCEPT ![c] = s]
  BY DEF Put
<1> HIDE DEF s
<1> QED
  BY <1>1, <1>2 DEF TypeOK, Actual

\* The watch delivers what was written and writes nothing itself.
LEMMA DeliverEffect ==
  ASSUME TypeOK, NEW c \in Components, SyncComponent(c)
  PROVE  /\ comp' \in [Components -> Seq(Resource)]
         /\ \A d \in Components : comp[d]' # <<>>
         /\ \A d \in Components : Actual(d)' = Actual(d)
<1>1. Tail(comp[c]) \in Seq(Resource) /\ Tail(comp[c]) # <<>>
      /\ Last(Tail(comp[c])) = Last(comp[c])
  BY LastOfTail DEF TypeOK, SyncComponent
<1>2. comp' = [comp EXCEPT ![c] = Tail(comp[c])]
  BY DEF SyncComponent
<1> QED
  BY <1>1, <1>2 DEF TypeOK, Actual

\* A relist after a crash keeps the last version of everything.
LEMMA RelistEffect ==
  ASSUME TypeOK, Crash
  PROVE  /\ svc' \in Seq(Status) /\ svc' # <<>> /\ Current' = Current
         /\ comp' \in [Components -> Seq(Resource)]
         /\ \A d \in Components : comp[d]' # <<>>
         /\ \A d \in Components : Actual(d)' = Actual(d)
<1>1. /\ <<Current>> \in Seq(Status) /\ <<Current>> # <<>> /\ Last(<<Current>>) = Current
      /\ svc' = <<Current>>
  BY ReadTypes, LastOfOne DEF Crash
<1>2. \A d \in Components : /\ <<Actual(d)>> \in Seq(Resource)
                            /\ <<Actual(d)>> # <<>> /\ Last(<<Actual(d)>>) = Actual(d)
  BY ReadTypes, LastOfOne
<1>3. comp' = [c \in Components |-> <<Actual(c)>>]
  BY DEF Crash
<1>4. Current' = Current
  BY <1>1 DEF Current
<1>5. \A d \in Components : comp'[d] = <<Actual(d)>>
  BY <1>3
<1>6. comp' \in [Components -> Seq(Resource)]
  BY <1>2, <1>3
<1>7. \A d \in Components : Actual(d)' = Last(comp'[d])
  BY DEF Actual
<1> QED
  BY <1>1, <1>2, <1>4, <1>5, <1>6, <1>7

\* A request by the proxy, from whichever side it is seen.
Requested(d) ==
  /\ svc' = Append(svc, [Current EXCEPT !.desired = d]) /\ fresh' = FALSE
  /\ UNCHANGED <<comp, queued, pc, hs, todo>>

\* It changes the request only, and the watch has it still to deliver.
LEMMA RequestEffect ==
  ASSUME TypeOK, NEW d \in {"Sleeping", "Awake"}, Requested(d),
         writes' \in Nat, faults' \in Nat
  PROVE  /\ TypeOK' /\ Len(svc') > 1
         /\ Current'.desired = d
         /\ Current'.state = Current.state /\ Current'.ready = Current.ready
<1>1. Current \in Status /\ svc \in Seq(Status) /\ svc # <<>>
  BY ReadTypes DEF TypeOK
<1>2. [Current EXCEPT !.desired = d] \in Status
  BY <1>1 DEF Status
<1>3. /\ svc' \in Seq(Status) /\ svc' # <<>> /\ Len(svc') > 1
      /\ Current' = [Current EXCEPT !.desired = d]
  BY <1>1, <1>2, LastOfAppend DEF Requested, Current
<1>4. TypeOK'
  BY <1>3 DEF Requested, TypeOK
<1> QED
  BY <1>1, <1>3, <1>4 DEF Status

\* The judgement changes the state only, to one that the readiness supports.
LEMMA JudgedStatus ==
  ASSUME TypeOK
  PROVE  /\ Judged \in Status
         /\ Judged.desired = hs.desired /\ Judged.ready = hs.ready
         /\ Judged.state = Observed(hs.state, hs.ready)
<1>1. Observed(hs.state, hs.ready) \in States
  BY DEF Observed, TypeOK, Status, States
<1> QED
  BY <1>1 DEF Judged, TypeOK, Status

\* Only components are ever scaled up.
LEMMA FrontierType == ASSUME NEW ready PROVE Frontier(ready) \subseteq Components
BY DEF Frontier, Reachable

\* The copy of a pass that is over is a status.
LEMMA EmptyStatusType == EmptyStatus \in Status
BY DEF EmptyStatus, Status, States

\* The end of a pass resets its variables to well-typed values.
LEMMA ReturnType ==
  ASSUME TypeOK, Return
  PROVE  /\ hs' \in Status /\ todo' \in SUBSET Components /\ fresh' \in BOOLEAN
         /\ pc' \in {"idle", "check", "up", "down", "write"}
BY EmptyStatusType DEF Return

\* The initial states are well typed.
LEMMA InitType == Init => TypeOK
<1> SUFFICES ASSUME Init PROVE TypeOK
  OBVIOUS
<1>1. EmptyStatus \in Status
  BY EmptyStatusType
<1>2. svc \in Seq(Status) /\ svc # <<>>
  BY <1>1, LastOfOne DEF Init
<1>3. /\ comp \in [Components -> Seq(Resource)]
      /\ \A c \in Components : comp[c] # <<>>
  <2> PICK up \in SUBSET Components :
        comp = [c \in Components |->
                  LET n == IF c \in up THEN Replicas[c] ELSE 0
                  IN  <<[replicas |-> n, pods |-> n]>>]
    BY DEF Init
  <2>1. ASSUME NEW c \in Components
        PROVE  /\ comp[c] \in Seq(Resource) /\ comp[c] # <<>>
    <3> DEFINE n == IF c \in up THEN Replicas[c] ELSE 0
    <3>1. n \in Nat
      BY ComponentsAssumption
    <3>2. comp[c] = <<[replicas |-> n, pods |-> n]>>
      OBVIOUS
    <3> HIDE DEF n
    <3>3. [replicas |-> n, pods |-> n] \in Resource
      BY <3>1 DEF Resource
    <3> QED
      BY <3>2, <3>3, LastOfOne
  <2> QED
    BY <2>1
<1> QED
  BY <1>1, <1>2, <1>3 DEF Init, TypeOK

\* Every step keeps the types.
LEMMA StepType == TypeOK /\ [Next]_vars => TypeOK'
<1> SUFFICES ASSUME TypeOK, [Next]_vars PROVE TypeOK'
  OBVIOUS
<1> USE ReadTypes
<1>1. CASE Begin
  BY <1>1 DEF Begin, TypeOK
<1>2. ASSUME NEW c \in Components, Check(c) PROVE TypeOK'
  <2>1. /\ [hs EXCEPT !.ready = @ \cup {c}] \in Status
        /\ [hs EXCEPT !.ready = @ \ {c}] \in Status
    BY DEF TypeOK, Status
  <2>2. \/ hs' = [hs EXCEPT !.ready = @ \cup {c}]
        \/ hs' = [hs EXCEPT !.ready = @ \ {c}]
    BY <1>2 DEF Check
  <2>3. faults' \in Nat
    BY <1>2 DEF Check, TypeOK
  <2> QED
    BY <1>2, <2>1, <2>2, <2>3 DEF Check, TypeOK
<1>3. CASE Decide
  <2>1. /\ Judged \in Status
        /\ [Judged EXCEPT !.state = "Waking"] \in Status
        /\ [Judged EXCEPT !.state = "Sleeping"] \in Status
    BY JudgedStatus DEF Status, States
  <2>2. \/ hs' \in {Judged, [Judged EXCEPT !.state = "Waking"],
                    [Judged EXCEPT !.state = "Sleeping"]}
        \/ hs' = EmptyStatus
    BY <1>3 DEF Decide, GiveUp, Return
  <2>3. todo' \in SUBSET Components
    BY <1>3, FrontierType DEF Decide, GiveUp, Return, TypeOK
  <2>4. /\ queued' \in BOOLEAN /\ fresh' \in BOOLEAN
        /\ pc' \in {"idle", "check", "up", "down", "write"}
    BY <1>3 DEF Decide, GiveUp, Return, TypeOK
  <2> QED
    BY <1>3, <2>1, <2>2, <2>3, <2>4, EmptyStatusType DEF Decide, TypeOK
<1>4. ASSUME NEW c \in Components, ScaleUp(c) PROVE TypeOK'
  <2>1. /\ comp' \in [Components -> Seq(Resource)]
        /\ \A d \in Components : comp[d]' # <<>>
    <3>1. CASE Put(c, [Actual(c) EXCEPT !.replicas = Replicas[c]])
      <4>1. [Actual(c) EXCEPT !.replicas = Replicas[c]] \in Resource
        BY ComponentsAssumption DEF Resource
      <4> QED
        BY <3>1, <4>1, PutEffect
    <3>2. CASE UNCHANGED comp
      BY <3>2 DEF TypeOK
    <3> QED
      BY <1>4, <3>1, <3>2 DEF ScaleUp
  <2>2. /\ hs' \in Status /\ todo' \in SUBSET Components /\ queued' \in BOOLEAN
        /\ fresh' \in BOOLEAN /\ pc' \in {"idle", "check", "up", "down", "write"}
    BY <1>4, ReturnType DEF ScaleUp, GiveUp, TypeOK
  <2> QED
    BY <1>4, <2>1, <2>2 DEF ScaleUp, TypeOK
<1>5. ASSUME NEW c \in Components, ScaleDown(c) PROVE TypeOK'
  <2>1. /\ comp' \in [Components -> Seq(Resource)]
        /\ \A d \in Components : comp[d]' # <<>>
    <3>1. CASE Put(c, [Actual(c) EXCEPT !.replicas = 0])
      <4>1. [Actual(c) EXCEPT !.replicas = 0] \in Resource
        BY DEF Resource
      <4> QED
        BY <3>1, <4>1, PutEffect
    <3>2. CASE UNCHANGED comp
      BY <3>2 DEF TypeOK
    <3> QED
      BY <1>5, <3>1, <3>2 DEF ScaleDown
  <2>2. /\ hs' \in Status /\ todo' \in SUBSET Components /\ queued' \in BOOLEAN
        /\ fresh' \in BOOLEAN /\ pc' \in {"idle", "check", "up", "down", "write"}
    BY <1>5, ReturnType DEF ScaleDown, GiveUp, TypeOK
  <2> QED
    BY <1>5, <2>1, <2>2 DEF ScaleDown, TypeOK
<1>6. CASE WriteStatus
  <2>1. svc' \in Seq(Status) /\ svc' # <<>>
    BY <1>6, LastOfAppend DEF WriteStatus, TypeOK
  <2>2. Return /\ queued' \in BOOLEAN
    BY <1>6 DEF WriteStatus, GiveUp, TypeOK
  <2> QED
    BY <1>6, <2>1, <2>2, ReturnType DEF WriteStatus, TypeOK
<1>7. CASE Fail
  <2>1. faults' \in Nat
    BY <1>7 DEF Fail, TypeOK
  <2> QED
    BY <1>7, <2>1, ReturnType DEF Fail, GiveUp, TypeOK
<1>8. CASE Crash
  <2>1. /\ svc' \in Seq(Status) /\ svc' # <<>>
        /\ comp' \in [Components -> Seq(Resource)]
        /\ \A d \in Components : comp[d]' # <<>>
    BY <1>8, RelistEffect
  <2>2. faults' \in Nat
    BY <1>8 DEF Crash, TypeOK
  <2> QED
    BY <1>8, <2>1, <2>2, ReturnType DEF Crash, GiveUp, TypeOK
<1>9. CASE SyncService
  <2>1. svc' \in Seq(Status) /\ svc' # <<>>
    BY <1>9, LastOfTail DEF SyncService, TypeOK
  <2> QED
    BY <1>9, <2>1 DEF SyncService, pass, TypeOK
<1>10. ASSUME NEW c \in Components, SyncComponent(c) PROVE TypeOK'
  <2>1. /\ comp' \in [Components -> Seq(Resource)]
        /\ \A d \in Components : comp[d]' # <<>>
    BY <1>10, DeliverEffect
  <2> QED
    BY <1>10, <2>1 DEF SyncComponent, pass, TypeOK
<1>11. CASE Resync
  BY <1>11 DEF Resync, pass, TypeOK
<1>12. ASSUME NEW d \in {"Sleeping", "Awake"}, ProxyWrites(d) PROVE TypeOK'
  <2>1. writes' \in Nat /\ faults' \in Nat
    BY <1>12 DEF ProxyWrites, TypeOK
  <2> QED
    BY <1>12, <2>1, RequestEffect DEF ProxyWrites, Requested
<1>13. ASSUME NEW c \in Components, PodsFollow(c) \/ PodFails(c) PROVE TypeOK'
  <2>1. /\ comp' \in [Components -> Seq(Resource)]
        /\ \A d \in Components : comp[d]' # <<>>
    <3>1. Actual(c) \in Resource
      OBVIOUS
    <3>2. CASE PodsFollow(c) /\ Actual(c).pods < Actual(c).replicas
      <4>1. Put(c, [Actual(c) EXCEPT !.pods = @ + 1])
        BY <3>1, <3>2 DEF PodsFollow, Resource
      <4>2. [Actual(c) EXCEPT !.pods = @ + 1] \in Resource
        BY <3>1 DEF Resource
      <4> QED
        BY <4>1, <4>2, PutEffect
    <3>3. CASE Put(c, [Actual(c) EXCEPT !.pods = @ - 1]) /\ Actual(c).pods > 0
      <4>1. [Actual(c) EXCEPT !.pods = @ - 1] \in Resource
        BY <3>1, <3>3 DEF Resource
      <4> QED
        BY <3>3, <4>1, PutEffect
    <3> QED
      BY <1>13, <3>1, <3>2, <3>3 DEF PodsFollow, PodFails, Resource
  <2> QED
    BY <1>13, <2>1 DEF PodsFollow, PodFails, pass, TypeOK
<1>14. CASE UNCHANGED vars
  BY <1>14 DEF vars, TypeOK
<1> QED
  BY <1>1, <1>2, <1>3, <1>4, <1>5, <1>6, <1>7, <1>8, <1>9, <1>10, <1>11, <1>12,
     <1>13, <1>14 DEF Next, Work

\* Every variable of the reconcile loop keeps its type.
THEOREM TypeCorrect == Spec => []TypeOK
BY InitType, StepType, PTL DEF Spec

(***************************************************************************)
(* Safety                                                                  *)
(***************************************************************************)
\* The dependencies of a component on the frontier are ready: they are on lower
\* levels.
LEMMA FrontierOrder ==
  ASSUME Valid, NEW ready, NEW c \in Frontier(ready)
  PROVE  DependsOn[c] \subseteq ready
<1>1. Levelled(Levels)
  BY DEF Valid, Levels
<1>2. c \in Components /\ \A d \in Components : Levels[d] < Levels[c] => d \in ready
  BY DEF Frontier, Reachable
<1>3. DependsOn[c] \subseteq Components
  BY <1>2, ComponentsAssumption
<1> QED
  BY <1>1, <1>2, <1>3 DEF Levelled, LevelledOver

\* A pass refuses to wake a service up exactly when its dependencies form a cycle.
THEOREM ValidIsAcyclic == Valid <=> ~Cyclic(Components, DependsOn)
<1>1. /\ IsFiniteSet(Components) /\ Cardinality(Components) = N
      /\ \A c \in Components : DependsOn[c] \subseteq Components
  <2>1. N \in Nat \ {0} /\ DependsOn \in [Components -> SUBSET Components]
    BY ComponentsAssumption
  <2>2. IsFiniteSet(1 .. N) /\ Cardinality(1 .. N) = N
    BY <2>1, CountFromOne
  <2> QED
    BY <2>1, <2>2 DEF Components
<1>2. LevelsOf(DependsOn, Components) # {} <=> ~Cyclic(Components, DependsOn)
  BY <1>1, LevelsExistOnce
<1>3. LevelsOf(DependsOn, Components) = {L \in [Components -> 0 .. N - 1] : Levelled(L)}
  BY <1>1 DEF LevelsOf, Levelled
<1> QED
  BY <1>2, <1>3 DEF Valid

\* As long as a component is missing, the frontier of a pass has one that is missing:
\* no wake-up is stuck between two levels, with nothing to scale and nothing to await.
THEOREM FrontierHasWork ==
  ASSUME Valid, NEW ready \in SUBSET Components, ready # Components
  PROVE  \E c \in Frontier(ready) : c \notin ready
<1>1. Levels \in [Components -> 0 .. N - 1]
  BY DEF Valid, Levels
<1>2. Levels \in [Components -> Nat]
  <2>1. 0 .. N - 1 \subseteq Nat
    BY ComponentsAssumption
  <2> QED
    BY <1>1, <2>1
<1>3. PICK c \in Components \ ready : \A d \in Components \ ready : Levels[c] =< Levels[d]
  <2>1. Components \ ready \in SUBSET Components /\ Components \ ready # {}
    OBVIOUS
  <2> QED
    BY <1>2, <2>1, LowestNode
<1>4. \A d \in Components : Levels[d] \in Nat
  BY <1>2
<1>5. c \in Reachable(ready)
  BY <1>3, <1>4 DEF Reachable
<1>6. \A d \in Reachable(ready) : Levels[d] =< Levels[c]
  BY <1>3, <1>4 DEF Reachable
<1> QED
  BY <1>3, <1>5, <1>6 DEF Frontier

\* A newly created SleepyService satisfies the invariant.
LEMMA InitInv == Init => Inv
<1> SUFFICES ASSUME Init PROVE Inv
  OBVIOUS
<1>1. TypeOK
  BY InitType
<1>2. Current = EmptyStatus
  BY LastOfOne, EmptyStatusType DEF Init, Current
<1>3. Current.state = ""
  BY <1>2 DEF EmptyStatus
<1> QED
  BY <1>1, <1>3
  DEF Init, Inv, NoForgottenRequest, AwakeOnlyIfReady, CopyFollowsStatus,
      DecisionFollowsRequest, ScalingIsAllowed, Deciding

\* A step that touches neither the status nor the pass, and only ever queues.
LEMMA QuietStep ==
  ASSUME Inv, TypeOK', UNCHANGED <<svc, pass>>, queued' = queued \/ queued' = TRUE
  PROVE  Inv'
<1>1. Current' = Current
  BY DEF Current
<1> QED
  BY <1>1
  DEF Inv, NoForgottenRequest, AwakeOnlyIfReady, CopyFollowsStatus, pass, Settled,
      DecisionFollowsRequest, ScalingIsAllowed, Deciding, Current

\* A pass that ends with an error.
LEMMA GiveUpStep ==
  ASSUME Inv, TypeOK', GiveUp, Current' = Current
  PROVE  Inv'
BY DEF Inv, NoForgottenRequest, AwakeOnlyIfReady, CopyFollowsStatus, GiveUp, Return,
       DecisionFollowsRequest, ScalingIsAllowed, Deciding

\* A visit to a component that leaves the pass in its phase.
LEMMA VisitStep ==
  ASSUME Inv, TypeOK', pc # "idle", UNCHANGED <<svc, queued, pc, hs, fresh>>,
         todo' \subseteq todo
  PROVE  Inv'
<1>1. Current' = Current
  BY DEF Current
<1> QED
  BY <1>1
  DEF Inv, NoForgottenRequest, AwakeOnlyIfReady, CopyFollowsStatus, Settled,
      DecisionFollowsRequest, ScalingIsAllowed, Deciding

\* A pass starts with the cached status: it is fresh when the cache is current.
LEMMA BeginStep == ASSUME Inv, TypeOK', Begin PROVE Inv'
<1>1. Current' = Current
  BY DEF Begin, Current
<1>2. fresh' => hs' = Current
  BY DEF Begin, Current, Inv, TypeOK, Last
<1> QED
  BY <1>1, <1>2
  DEF Begin, Inv, NoForgottenRequest, AwakeOnlyIfReady, CopyFollowsStatus,
      DecisionFollowsRequest, ScalingIsAllowed, Deciding

\* Judging a component touches the readiness in the copy only.
LEMMA CheckStep ==
  ASSUME Inv, TypeOK', NEW c \in Components, Check(c)
  PROVE  Inv'
<1>1. Current' = Current
  BY DEF Check, Current
<1>2. hs'.desired = hs.desired /\ hs'.state = hs.state
  BY DEF Check, Inv, TypeOK, Status
<1> QED
  BY <1>1, <1>2
  DEF Check, Inv, NoForgottenRequest, AwakeOnlyIfReady, CopyFollowsStatus,
      DecisionFollowsRequest, ScalingIsAllowed, Deciding

\* The switch puts into the copy what the request it carries allows.
LEMMA DecideStep == ASSUME Inv, TypeOK', Decide PROVE Inv'
<1>1. Current' = Current
  BY DEF Decide, Current
<1>2. hs \in Status /\ TypeOK
  BY DEF Inv, TypeOK
<1>3. /\ Judged \in Status
      /\ Judged.desired = hs.desired /\ Judged.ready = hs.ready
      /\ Judged.state = Observed(hs.state, hs.ready)
  BY <1>2, JudgedStatus
<1>4. pc = "check" /\ AwakeOnlyIfReady
      /\ (fresh => hs.desired = Current.desired /\ hs.state = Current.state)
  BY DEF Decide, Inv, CopyFollowsStatus
<1>5. CASE WantsUp(Judged) /\ Valid /\ pc' = "up"
  <2>1. todo' = Frontier(hs.ready) /\ fresh' = fresh
        /\ hs' = [Judged EXCEPT !.state = "Waking"]
    BY <1>5 DEF Decide, WantsDown, WantsUp
  <2>2. hs'.desired = hs.desired /\ hs'.ready = hs.ready /\ hs'.state = "Waking"
    BY <2>1, <1>3 DEF Status
  <2>3. \A c \in todo' : DependsOn[c] \subseteq hs'.ready
    BY <2>1, <2>2, <1>5, FrontierOrder
  <2>4. hs.desired = "Awake" \/ hs.state = "Waking"
    BY <1>3, <1>5 DEF WantsUp, Observed
  <2> QED
    BY <1>1, <1>4, <1>5, <2>1, <2>2, <2>3, <2>4
    DEF Inv, NoForgottenRequest, AwakeOnlyIfReady, CopyFollowsStatus,
        DecisionFollowsRequest, ScalingIsAllowed, Deciding
<1>6. CASE GiveUp
  BY <1>1, <1>6, GiveUpStep
<1>7. CASE WantsDown(Judged) /\ pc' = "down"
  <2>1. fresh' = fresh /\ hs' = [Judged EXCEPT !.state = "Sleeping"]
    BY <1>7 DEF Decide, WantsDown, WantsUp
  <2>2. hs'.desired = hs.desired /\ hs'.ready = hs.ready /\ hs'.state = "Sleeping"
    BY <2>1, <1>3 DEF Status
  <2>3. hs.desired # "Awake"
    BY <1>3, <1>7 DEF WantsDown
  <2> QED
    BY <1>1, <1>4, <1>7, <2>1, <2>2, <2>3
    DEF Inv, NoForgottenRequest, AwakeOnlyIfReady, CopyFollowsStatus, Settled,
        DecisionFollowsRequest, ScalingIsAllowed, Deciding
<1>8. CASE ~WantsUp(Judged) /\ ~WantsDown(Judged) /\ pc' = "write"
  <2>1. fresh' = fresh /\ hs' = Judged
    BY <1>8 DEF Decide
  <2>2. Judged.state \in {"Sleeping", "Waking", "Awake"}
    BY <1>2, <1>3 DEF Observed, Status, States
  <2>3. Settled(Judged)
    BY <1>8, <2>2 DEF WantsUp, WantsDown, Settled
  <2>4. Judged.state = "Awake" => Judged.ready = Components
    BY <1>3 DEF Observed
  <2>5. Judged.state # "Waking"
    BY <1>8 DEF WantsUp
  <2> QED
    BY <1>1, <1>3, <1>4, <1>8, <2>1, <2>3, <2>4, <2>5
    DEF Inv, NoForgottenRequest, AwakeOnlyIfReady, CopyFollowsStatus, Settled,
        DecisionFollowsRequest, ScalingIsAllowed, Deciding
<1> QED
  BY <1>5, <1>6, <1>7, <1>8 DEF Decide

\* An accepted write stores a decision that was taken on the last status.
LEMMA WriteStep == ASSUME Inv, TypeOK', WriteStatus PROVE Inv'
<1> USE DEF Inv
<1>1. svc \in Seq(Status) /\ svc # <<>> /\ hs \in Status
  BY DEF TypeOK
<1>2. CASE Accepted /\ Return
  <2>1. /\ Deciding /\ fresh /\ (hs.state = "Waking" \/ Settled(hs))
        /\ (hs.state = "Awake" => hs.ready = Components)
    BY <1>2 DEF WriteStatus, Accepted, Deciding, DecisionFollowsRequest
  <2>2. Current' = hs
    BY <1>1, <1>2, LastOfAppend DEF WriteStatus, GiveUp, Current
  <2>3. hs.state = "Waking" => queued'
    BY <1>2 DEF WriteStatus, GiveUp
  <2> QED
    BY <1>2, <2>1, <2>2, <2>3
    DEF Return, NoForgottenRequest, AwakeOnlyIfReady, CopyFollowsStatus, Settled,
        DecisionFollowsRequest, ScalingIsAllowed, Deciding
<1>3. CASE GiveUp /\ UNCHANGED svc
  BY <1>3, GiveUpStep DEF Current
<1> QED
  BY <1>2, <1>3 DEF WriteStatus

\* Delivering an event queues the object it is about.
LEMMA DeliverServiceStep == ASSUME Inv, TypeOK', SyncService PROVE Inv'
<1>1. Current' = Current
  BY LastOfTail DEF SyncService, Inv, TypeOK, Current
<1> QED
  BY <1>1
  DEF SyncService, pass, Inv, NoForgottenRequest, AwakeOnlyIfReady, CopyFollowsStatus,
      DecisionFollowsRequest, ScalingIsAllowed, Deciding, Settled

\* A write by the proxy takes the copy's freshness away.
LEMMA RequestedStep ==
  ASSUME Inv, NEW d \in {"Sleeping", "Awake"}, Requested(d),
         writes' \in Nat, faults' \in Nat
  PROVE  Inv'
<1>1. /\ TypeOK' /\ Len(svc') > 1
      /\ Current'.state = Current.state /\ Current'.ready = Current.ready
  BY RequestEffect DEF Inv
<1> QED
  BY <1>1
  DEF Requested, Inv, NoForgottenRequest, AwakeOnlyIfReady, CopyFollowsStatus,
      DecisionFollowsRequest, ScalingIsAllowed, Deciding, Settled

\* Every step keeps the inductive invariant.
LEMMA StepInv == Inv /\ [Next]_vars => Inv'
<1> SUFFICES ASSUME Inv, [Next]_vars PROVE Inv'
  OBVIOUS
<1>0. TypeOK /\ TypeOK'
  BY StepType DEF Inv
<1>1. ASSUME Begin \/ Decide \/ WriteStatus \/ SyncService PROVE Inv'
  BY <1>0, <1>1, BeginStep, DecideStep, WriteStep, DeliverServiceStep
<1>2. ASSUME NEW c \in Components, Check(c) PROVE Inv'
  BY <1>0, <1>2, CheckStep
<1>3. ASSUME NEW c \in Components, ScaleUp(c) \/ ScaleDown(c) PROVE Inv'
  <2>1. Current' = Current
    BY <1>3 DEF ScaleUp, ScaleDown, Current
  <2>2. CASE GiveUp
    BY <1>0, <2>1, <2>2, GiveUpStep
  <2>3. CASE UNCHANGED <<queued, pc, hs, fresh>> /\ todo' = todo \ {c}
    <3>1. pc # "idle" /\ UNCHANGED svc
      BY <1>3 DEF ScaleUp, ScaleDown
    <3> QED
      BY <1>0, <2>3, <3>1, VisitStep
  <2> QED
    BY <1>3, <2>2, <2>3 DEF ScaleUp, ScaleDown
<1>4. CASE Fail \/ Crash
  <2>1. Current' = Current
    BY <1>0, <1>4, RelistEffect DEF Fail, Current
  <2> QED
    BY <1>0, <1>4, <2>1, GiveUpStep DEF Fail, Crash
<1>5. ASSUME NEW c \in Components, SyncComponent(c) \/ PodsFollow(c) \/ PodFails(c)
      PROVE  Inv'
  BY <1>0, <1>5, QuietStep DEF SyncComponent, PodsFollow, PodFails
<1>6. CASE Resync \/ UNCHANGED vars
  BY <1>0, <1>6, QuietStep DEF Resync, vars, pass
<1>7. ASSUME NEW d \in {"Sleeping", "Awake"}, ProxyWrites(d) PROVE Inv'
  <2>1. writes' \in Nat /\ faults' \in Nat
    BY <1>0 DEF TypeOK
  <2> QED
    BY <1>7, <2>1, RequestedStep DEF ProxyWrites, Requested
<1> QED
  BY <1>1, <1>2, <1>3, <1>4, <1>5, <1>6, <1>7 DEF Next, Work

\* The inductive invariant holds in every reachable state of the reconcile loop.
THEOREM Invariance == Spec => []Inv
BY InitInv, StepInv, PTL DEF Spec

\* No request is ever lost between the status, the watch, the queue and the pass.
THEOREM NothingForgotten == Spec => []NoForgottenRequest
BY Invariance, PTL DEF Inv

\* The status never says Awake over a component it lists as not ready.
THEOREM AwakeIsBacked == Spec => []AwakeOnlyIfReady
BY Invariance, PTL DEF Inv

(***************************************************************************)
(* What a step may do to a component                                       *)
(***************************************************************************)
\* Only the scaling phases change a replica count.
LEMMA WhoScales ==
  ASSUME TypeOK, [Next]_vars, NEW c \in Components,
         Actual(c)'.replicas # Actual(c).replicas
  PROVE  \/ pc = "up" /\ c \in todo /\ Actual(c).replicas = 0
         \/ pc = "down" /\ c \in todo /\ Actual(c)'.replicas = 0
<1>1. \A d \in Components : Actual(d) \in Resource
  BY ReadTypes
<1>2. CASE UNCHANGED comp
  BY <1>2 DEF Actual
<1>3. ASSUME NEW d \in Components, ScaleUp(d), ~UNCHANGED comp
      PROVE  pc = "up" /\ c \in todo /\ Actual(c).replicas = 0
  <2>1. Put(d, [Actual(d) EXCEPT !.replicas = Replicas[d]])
    BY <1>3 DEF ScaleUp
  <2>2. [Actual(d) EXCEPT !.replicas = Replicas[d]] \in Resource
    BY <1>1, ComponentsAssumption DEF Resource
  <2>3. c = d
    BY <2>1, <2>2, PutEffect
  <2>4. View(d) = Actual(d) /\ View(d).replicas = 0
    BY <1>3 DEF ScaleUp, View, ViewIsActual, Actual, Last
  <2> QED
    BY <1>3, <2>3, <2>4 DEF ScaleUp
<1>4. ASSUME NEW d \in Components, ScaleDown(d), ~UNCHANGED comp
      PROVE  pc = "down" /\ c \in todo /\ Actual(c)'.replicas = 0
  <2>1. Put(d, [Actual(d) EXCEPT !.replicas = 0])
    BY <1>4 DEF ScaleDown
  <2>2. [Actual(d) EXCEPT !.replicas = 0] \in Resource
    BY <1>1 DEF Resource
  <2>3. c = d /\ Actual(c)' = [Actual(d) EXCEPT !.replicas = 0]
    BY <2>1, <2>2, PutEffect
  <2> QED
    BY <1>1, <1>4, <2>3 DEF ScaleDown, Resource
<1>5. ASSUME NEW d \in Components, PodsFollow(d) \/ PodFails(d) PROVE FALSE
  <2>0. Actual(d).pods \in Nat /\ Actual(d).replicas \in Nat
    BY <1>1 DEF Resource
  <2>1. PICK n \in Nat : Put(d, [Actual(d) EXCEPT !.pods = n])
    <3>1. CASE Put(d, [Actual(d) EXCEPT !.pods = @ + 1])
      BY <2>0, <3>1
    <3>2. CASE Put(d, [Actual(d) EXCEPT !.pods = @ - 1]) /\ Actual(d).pods > 0
      BY <2>0, <3>2
    <3> QED
      BY <1>5, <2>0, <3>1, <3>2 DEF PodsFollow, PodFails
  <2>2. [Actual(d) EXCEPT !.pods = n] \in Resource
    BY <1>1 DEF Resource
  <2>3. Actual(c)' = IF c = d THEN [Actual(d) EXCEPT !.pods = n] ELSE Actual(c)
    BY <2>1, <2>2, PutEffect
  <2> QED
    BY <1>1, <2>3 DEF Resource
<1>6. CASE Crash \/ \E d \in Components : SyncComponent(d)
  <2>1. Actual(c)' = Actual(c)
    BY <1>6, RelistEffect, DeliverEffect
  <2> QED
    BY <2>1
<1>7. \/ UNCHANGED comp \/ Crash
      \/ \E d \in Components : \/ ScaleUp(d) \/ ScaleDown(d) \/ PodsFollow(d)
                               \/ PodFails(d) \/ SyncComponent(d)
  BY DEF Next, Work, vars, Begin, Decide, WriteStatus, Check, Fail, SyncService,
         Resync, ProxyWrites
<1> QED
  BY <1>2, <1>3, <1>4, <1>5, <1>6, <1>7

\* A step that scales a component up is a visit to the frontier of a valid graph.
LEMMA OrderedStep ==
  ASSUME Inv, [Next]_vars, NEW c \in Components, Upped(c)
  PROVE  Valid /\ DependsOn[c] \subseteq hs.ready
<1>1. TypeOK /\ ScalingIsAllowed
  BY DEF Inv
<1>2. Actual(c)'.replicas # Actual(c).replicas
  BY DEF Upped
<1>3. CASE pc = "up" /\ c \in todo
  BY <1>1, <1>3 DEF ScalingIsAllowed
<1> QED
  BY <1>1, <1>2, <1>3, WhoScales DEF Upped

\* A step that scales a component down goes by a request that is stored, or was.
LEMMA AllowedStep ==
  ASSUME Inv, [Next]_vars, NEW c \in Components, Downed(c)
  PROVE  Current.desired # "Awake" \/ ~fresh
<1> SUFFICES ASSUME fresh PROVE Current.desired # "Awake"
  OBVIOUS
<1>1. TypeOK /\ ScalingIsAllowed /\ CopyFollowsStatus
  BY DEF Inv
<1>2. Actual(c)'.replicas # Actual(c).replicas
  BY DEF Downed
<1>3. CASE pc = "down"
  BY <1>1, <1>3 DEF ScalingIsAllowed, CopyFollowsStatus
<1>4. CASE pc = "up" /\ c \in todo /\ Actual(c).replicas = 0
  BY <1>2, <1>4 DEF Downed
<1> QED
  BY <1>1, <1>2, <1>3, <1>4, WhoScales

\* Components are scaled up in dependency order and never over a cycle.
THEOREM OrderedWake == Spec => DependencyOrder
<1>1. Inv /\ [Next]_vars =>
        [\A c \in Components : Upped(c) => Valid /\ DependsOn[c] \subseteq hs.ready]_vars
  BY OrderedStep
<1> QED
  BY <1>1, Invariance, PTL DEF Spec, DependencyOrder

\* No pass scales a component down against a request it could have seen.
THEOREM NoUnwantedSleep == Spec => NoSleepAgainstRequest
<1>1. Inv /\ [Next]_vars =>
        [\A c \in Components : Downed(c) => Current.desired # "Awake" \/ ~fresh]_vars
  BY AllowedStep
<1> QED
  BY <1>1, Invariance, PTL DEF Spec, NoSleepAgainstRequest

(***************************************************************************)
(* The contract of the status                                              *)
(***************************************************************************)
\* What a write puts into the status is what ServiceStatus lets it put there.
LEMMA WriteFollows ==
  ASSUME Inv, WriteStatus, UNCHANGED svc => FALSE
  PROVE  /\ Current' = hs /\ hs.desired = Current.desired
         /\ \/ hs.state = Current.state
            \/ hs.desired = "Awake" /\ hs.state \in {"Waking", "Awake"}
            \/ hs.desired # "Awake" /\ hs.state = "Sleeping"
<1>1. svc \in Seq(Status) /\ svc # <<>> /\ hs \in Status
  BY DEF Inv, TypeOK
<1>2. fresh /\ svc' = Append(svc, hs) /\ Deciding
  BY DEF WriteStatus, Accepted, Deciding
<1> QED
  BY <1>1, <1>2, LastOfAppend
  DEF Inv, CopyFollowsStatus, DecisionFollowsRequest, Settled, Current

\* The reconcile loop starts and goes on as the abstract specification allows.
LEMMA InitFollows == Init => S!StatusInit
<1> SUFFICES ASSUME Init PROVE S!StatusInit
  OBVIOUS
<1>1. Current = EmptyStatus
  BY LastOfOne, EmptyStatusType DEF Init, Current
<1> QED
  BY <1>1 DEF S!StatusInit, S!Unset, EmptyStatus

\* A request of the proxy changes the wish and leaves the state.
LEMMA RequestFollows ==
  ASSUME Inv, NEW d \in {"Sleeping", "Awake"}, Requested(d),
         writes' \in Nat, faults' \in Nat
  PROVE  S!StatusNext
<1>1. Current'.desired = d /\ Current'.state = Current.state
  BY RequestEffect DEF Inv
<1> QED
  BY <1>1 DEF S!StatusNext, S!Request, S!Awake, S!Sleeping

\* Every step of the reconcile loop is one of ServiceStatus, or a stutter.
LEMMA StepFollows == Inv /\ [Next]_vars => [S!StatusNext]_(S!svcVars)
<1> SUFFICES ASSUME Inv, [Next]_vars PROVE [S!StatusNext]_(S!svcVars)
  OBVIOUS
<1>1. TypeOK /\ TypeOK'
  BY StepType DEF Inv
<1>2. CASE Current' = Current
  BY <1>2 DEF S!svcVars
<1>3. CASE WriteStatus /\ svc' # svc
  BY <1>3, WriteFollows
  DEF S!StatusNext, S!FollowWake, S!FollowSleep, S!svcVars, S!Awake, S!Waking, S!Sleeping
<1>4. ASSUME NEW d \in {"Sleeping", "Awake"}, ProxyWrites(d)
      PROVE  S!StatusNext
  <2>1. writes' \in Nat /\ faults' \in Nat
    BY <1>1 DEF TypeOK
  <2> QED
    BY <1>4, <2>1, RequestFollows DEF ProxyWrites, Requested
<1>5. CASE Crash \/ SyncService
  <2>1. Current' = Current
    BY <1>1, <1>5, RelistEffect, LastOfTail DEF SyncService, TypeOK, Current
  <2> QED
    BY <2>1, <1>2
<1>6. CASE UNCHANGED svc
  BY <1>2, <1>6 DEF Current
<1>7. \/ UNCHANGED svc \/ WriteStatus \/ Crash \/ SyncService
      \/ \E d \in {"Sleeping", "Awake"} : ProxyWrites(d)
  BY DEF Next, Work, vars, pass, Begin, Decide, Check, ScaleUp, ScaleDown, Fail,
         Resync, SyncComponent, PodsFollow, PodFails
<1> QED
  BY <1>2, <1>3, <1>4, <1>5, <1>6, <1>7

\* The reconcile loop implements the abstract specification of the status.
THEOREM KeepsContract == Spec => Contract
<1> QED
  BY InitFollows, StepFollows, Invariance, PTL DEF Spec, Contract, S!StatusSpec
=============================================================================
