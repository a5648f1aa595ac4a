----------------------------- MODULE Reconciler -----------------------------
(***************************************************************************)
(* The controller's reconcile loop over one SleepyService                  *)
(* (internal/controller/sleepyservice_controller.go): one worker takes the *)
(* object from the work queue, judges every component, scales them in the  *)
(* direction the request asks for and writes the whole status back.        *)
(*                                                                         *)
(* Three things make it hard.  Deployments, StatefulSets and the           *)
(* SleepyService itself are read from an informer cache that trails the    *)
(* API server; every update carries the version that was read and fails    *)
(* when it is not the last one; and the wake proxy writes the same status. *)
(* An object is therefore the sequence of its versions from the one in the *)
(* cache (the head) to the one in the API server (the last element).       *)
(*                                                                         *)
(* Simplifications.  The finalizer, the proxy's own resources and deletion *)
(* are steps of a pass that only fail or succeed here.  Component messages *)
(* and timestamps are not kept: a status write that changes nothing else   *)
(* may or may not make a new version.  A resource is scaled by this        *)
(* controller only.                                                        *)
(*                                                                         *)
(* FrontierEarly, ObservedHibernating, ObservedSticky, WantsUpOnce,        *)
(* WantsDownAlways, WantsDownIfAsked and SwallowedError are bugs the code  *)
(* does not have; each is put in the place of the definition it mutates to *)
(* see that a property notices.                                            *)
(***************************************************************************)
EXTENDS Integers, Sequences, SequencesExt, DependencyLevels

CONSTANTS
  N,          \* number of components in spec.components
  DependsOn,  \* component -> the components it lists under dependsOn
  Kind,       \* component -> its resource type
  Replicas,   \* component -> replicas to wake it with (a cluster's instances)
  MaxLag,     \* bound: versions of one object a cache may trail by, plus one
  MaxFaults,  \* bound: failed calls, crashes and pod failures in a behaviour
  MaxWrites   \* bound: status writes by the proxy in a behaviour

Components == 1..N
Kinds == {"Deployment", "StatefulSet", "CNPGCluster"}

ASSUME ComponentsAssumption ==
  /\ N \in Nat \ {0}
  /\ DependsOn \in [Components -> SUBSET Components]
  /\ Kind \in [Components -> Kinds]
  /\ Replicas \in [Components -> Nat]

ASSUME BoundsAssumption ==
  MaxLag \in Nat \ {0, 1} /\ MaxFaults \in Nat /\ MaxWrites \in Nat

VARIABLES
  svc,      \* versions of the SleepyService's status
  comp,     \* component -> versions of its resource
  queued,   \* the object is in the work queue, or a timer will put it there
  pc,       \* what the worker does next
  hs,       \* the pass's own copy of the status
  fresh,    \* no other version was written since hs was read
  todo,     \* components the current phase of the pass has still to visit
  faults, writes

vars == <<svc, comp, queued, pc, hs, fresh, todo, faults, writes>>
pass == <<pc, hs, fresh, todo>>

States == {"", "Sleeping", "Waking", "Awake"}
Status == [desired : {"", "Sleeping", "Awake"}, state : States,
           ready : SUBSET Components]
Resource == [replicas : Nat, pods : Nat]

Current == Last(svc)
Actual(c) == Last(comp[c])

\* r.Get: typed objects come from the cache, the unstructured Cluster does not.
View(c) == IF Kind[c] = "CNPGCluster" THEN Actual(c) ELSE Head(comp[c])
ViewIsActual(c) == Kind[c] = "CNPGCluster" \/ Len(comp[c]) = 1

\* Only cached kinds keep the versions the cache has still to see.
Put(c, r) ==
  comp' = [comp EXCEPT ![c] = IF Kind[c] = "CNPGCluster" THEN <<r>> ELSE Append(@, r)]

(***************************************************************************)
(* Dependency levels: what buildDependencyGraph and computeScalingLevels   *)
(* compute.  A graph has levels exactly when it has no cycle.              *)
(***************************************************************************)
Levelled(L) == LevelledOver(Components, DependsOn, L)

Valid == \E L \in [Components -> 0 .. N - 1] : Levelled(L)
Levels == CHOOSE L \in [Components -> 0 .. N - 1] : Levelled(L)

Reachable(ready) ==
  {c \in Components : \A d \in Components : Levels[d] < Levels[c] => d \in ready}

FrontierEarly(ready) ==
  {c \in Components : \A d \in Components : Levels[d] < Levels[c] - 1 => d \in ready}

\* The components of the highest level whose lower levels are all ready.
Frontier(ready) ==
  {c \in Reachable(ready) : \A d \in Reachable(ready) : Levels[d] =< Levels[c]}

(***************************************************************************)
(* The judgements of a pass                                                *)
(***************************************************************************)
\* checkDeploymentReady, checkStatefulSetReady and checkCNPGReady.
Ready(c, r) ==
  /\ r.replicas > 0
  /\ r.pods >= (IF Kind[c] = "CNPGCluster" THEN 1 ELSE r.replicas)

ObservedHibernating(state, ready) ==
  IF ready = Components THEN "Awake"
  ELSE IF state \in {"", "Awake"} THEN "Hibernating" ELSE state

ObservedSticky(state, ready) ==
  IF ready = Components THEN "Awake" ELSE IF state = "" THEN "Sleeping" ELSE state

\* The tail of updateComponentStatuses, then reconcileState's default.
Observed(state, ready) ==
  IF ready = Components THEN "Awake"
  ELSE IF state \in {"", "Awake"} THEN "Sleeping" ELSE state

WantsUpOnce(s) == s.desired = "Awake" /\ s.state = "Sleeping"
WantsDownAlways(s) == s.state = "Awake"
WantsDownIfAsked(s) == s.desired = "Sleeping" /\ s.state = "Awake"

\* The switch of reconcileState.
WantsUp(s) == s.state = "Waking" \/ (s.desired = "Awake" /\ s.state = "Sleeping")
WantsDown(s) == s.desired # "Awake" /\ s.state = "Awake"

Settled(s) == s.state = IF s.desired = "Awake" THEN "Awake" ELSE "Sleeping"

-----------------------------------------------------------------------------
EmptyStatus == [desired |-> "", state |-> "", ready |-> {}]

\* The SleepyService has just been created over resources that run or do not.
Init ==
  /\ svc = <<EmptyStatus>>
  /\ \E up \in SUBSET Components :
       comp = [c \in Components |->
                 LET n == IF c \in up THEN Replicas[c] ELSE 0
                 IN  <<[replicas |-> n, pods |-> n]>>]
  /\ queued = TRUE
  /\ pc = "idle" /\ hs = EmptyStatus /\ fresh = FALSE /\ todo = {}
  /\ faults = 0 /\ writes = 0

(***************************************************************************)
(* A reconcile pass                                                        *)
(***************************************************************************)
\* The worker takes the request and reads the SleepyService from the cache.
Begin ==
  /\ pc = "idle" /\ queued
  /\ queued' = FALSE
  /\ pc' = "check" /\ hs' = Head(svc) /\ fresh' = (Len(svc) = 1)
  /\ todo' = Components
  /\ UNCHANGED <<svc, comp, faults, writes>>

\* updateComponentStatuses judges the components in the order of the spec; a
\* failed read is recorded as not ready.
Check(c) ==
  /\ pc = "check" /\ c \in todo /\ todo \subseteq c .. N
  /\ \/ /\ hs' = [hs EXCEPT !.ready = IF Ready(c, View(c)) THEN @ \cup {c} ELSE @ \ {c}]
        /\ UNCHANGED faults
     \/ /\ faults < MaxFaults /\ faults' = faults + 1
        /\ hs' = [hs EXCEPT !.ready = @ \ {c}]
  /\ todo' = todo \ {c}
  /\ UNCHANGED <<svc, comp, queued, pc, fresh, writes>>

\* The pass is over and its copy dropped; on an error the request is retried.
Return == pc' = "idle" /\ hs' = EmptyStatus /\ fresh' = FALSE /\ todo' = {}
SwallowedError == Return /\ UNCHANGED queued
GiveUp == Return /\ queued' = TRUE

\* The status as updateComponentStatuses leaves it.
Judged == [hs EXCEPT !.state = Observed(@, hs.ready)]

\* The switch of reconcileState, up to its first call.
Decide ==
  /\ pc = "check" /\ todo = {}
  /\ \/ /\ WantsUp(Judged) /\ Valid
        /\ pc' = "up" /\ todo' = Frontier(hs.ready)
        /\ hs' = [Judged EXCEPT !.state = "Waking"]
        /\ UNCHANGED <<queued, fresh>>
     \/ /\ WantsUp(Judged) /\ ~Valid
        /\ GiveUp
     \/ /\ WantsDown(Judged)
        /\ pc' = "down" /\ todo' = Components
        /\ hs' = [Judged EXCEPT !.state = "Sleeping"]
        /\ UNCHANGED <<queued, fresh>>
     \/ /\ ~WantsUp(Judged) /\ ~WantsDown(Judged)
        /\ pc' = "write" /\ hs' = Judged
        /\ UNCHANGED <<queued, fresh, todo>>
  /\ UNCHANGED <<svc, comp, faults, writes>>

\* scaleUpDeployment, scaleUpStatefulSet and scaleUpCNPGCluster: a resource that
\* looks scaled down is updated, and the update of a trailing copy fails.
ScaleUp(c) ==
  /\ pc = "up" /\ c \in todo
  /\ \/ /\ View(c).replicas > 0
        /\ todo' = todo \ {c}
        /\ UNCHANGED <<comp, queued, pc, hs, fresh>>
     \/ /\ View(c).replicas = 0 /\ ViewIsActual(c)
        /\ Put(c, [Actual(c) EXCEPT !.replicas = Replicas[c]])
        /\ todo' = todo \ {c}
        /\ UNCHANGED <<queued, pc, hs, fresh>>
     \/ /\ View(c).replicas = 0 /\ ~ViewIsActual(c)
        /\ GiveUp
        /\ UNCHANGED comp
  /\ UNCHANGED <<svc, faults, writes>>

\* scaleDownComponents visits every component in the order of the spec.
ScaleDown(c) ==
  /\ pc = "down" /\ c \in todo /\ todo \subseteq c .. N
  /\ \/ /\ View(c).replicas = 0
        /\ todo' = todo \ {c}
        /\ UNCHANGED <<comp, queued, pc, hs, fresh>>
     \/ /\ View(c).replicas > 0 /\ ViewIsActual(c)
        /\ Put(c, [Actual(c) EXCEPT !.replicas = 0])
        /\ todo' = todo \ {c}
        /\ UNCHANGED <<queued, pc, hs, fresh>>
     \/ /\ View(c).replicas > 0 /\ ~ViewIsActual(c)
        /\ GiveUp
        /\ UNCHANGED comp
  /\ UNCHANGED <<svc, faults, writes>>

\* The API server takes an update only over the version it was read from.
Accepted == fresh

\* Status().Update: refused when the proxy has written since the read; a pass
\* that leaves the service Waking is repeated after 500ms.
WriteStatus ==
  /\ pc \in {"up", "down", "write"} /\ todo = {}
  /\ \/ /\ Accepted
        /\ svc' = Append(svc, hs) \/ (hs = Current /\ UNCHANGED svc)
        /\ queued' = (queued \/ hs.state = "Waking")
        /\ Return
     \/ ~Accepted /\ GiveUp /\ UNCHANGED svc
  /\ UNCHANGED <<comp, faults, writes>>

\* Any call of the pass fails: finalizer, proxy resources, a component, a write.
Fail ==
  /\ pc # "idle" /\ faults < MaxFaults
  /\ faults' = faults + 1
  /\ GiveUp
  /\ UNCHANGED <<svc, comp, writes>>

\* The manager restarts: the pass is lost, the caches are listed again and every
\* object is queued.
Crash ==
  /\ faults < MaxFaults
  /\ faults' = faults + 1
  /\ svc' = <<Current>> /\ comp' = [c \in Components |-> <<Actual(c)>>]
  /\ GiveUp
  /\ UNCHANGED writes

(***************************************************************************)
(* What happens around the pass                                            *)
(***************************************************************************)
\* The watch delivers the next version of the SleepyService and queues it.
SyncService ==
  /\ Len(svc) > 1
  /\ svc' = Tail(svc) /\ queued' = TRUE
  /\ UNCHANGED <<comp, pass, faults, writes>>

\* It delivers the next version of a component.  The controller owns the proxy's
\* Deployment only, so this queues nothing.
SyncComponent(c) ==
  /\ Len(comp[c]) > 1
  /\ comp' = [comp EXCEPT ![c] = Tail(@)]
  /\ UNCHANGED <<svc, queued, pass, faults, writes>>

\* The cache's periodic resync, the idle requeue, an event of an owned object.
Resync ==
  /\ ~queued /\ queued' = TRUE
  /\ UNCHANGED <<svc, comp, pass, faults, writes>>

\* The proxy's UpdateSleepyServiceStatus, which reads from the API server.
ProxyWrites(d) ==
  /\ writes < MaxWrites /\ Len(svc) < MaxLag
  /\ writes' = writes + 1
  /\ svc' = Append(svc, [Current EXCEPT !.desired = d])
  /\ fresh' = FALSE
  /\ UNCHANGED <<comp, queued, pc, hs, todo, faults>>

\* The resource's own controller brings the pods to the replica count.
PodsFollow(c) ==
  LET r == Actual(c)
  IN  /\ Len(comp[c]) < MaxLag
      /\ \/ r.pods < r.replicas /\ Put(c, [r EXCEPT !.pods = @ + 1])
         \/ r.pods > r.replicas /\ Put(c, [r EXCEPT !.pods = @ - 1])
      /\ UNCHANGED <<svc, queued, pass, faults, writes>>

PodFails(c) ==
  /\ faults < MaxFaults /\ Len(comp[c]) < MaxLag
  /\ Actual(c).pods > 0
  /\ faults' = faults + 1
  /\ Put(c, [Actual(c) EXCEPT !.pods = @ - 1])
  /\ UNCHANGED <<svc, queued, pass, writes>>

-----------------------------------------------------------------------------
\* What the worker does when nothing fails.
Work ==
  \/ Begin \/ Decide \/ WriteStatus
  \/ \E c \in Components : Check(c) \/ ScaleUp(c) \/ ScaleDown(c)

Next ==
  \/ Work \/ Fail \/ Crash
  \/ SyncService \/ Resync
  \/ \E c \in Components : SyncComponent(c) \/ PodsFollow(c) \/ PodFails(c)
  \/ \E d \in {"Sleeping", "Awake"} : ProxyWrites(d)

Spec == Init /\ [][Next]_vars

\* A worker runs, watches deliver, pods come and go, and the cache resyncs (every
\* ten hours unless configured otherwise, but it does).
Fairness ==
  /\ WF_vars(Work) /\ WF_vars(SyncService) /\ WF_vars(Resync)
  /\ \A c \in Components : WF_vars(SyncComponent(c)) /\ WF_vars(PodsFollow(c))

FairSpec == Spec /\ Fairness

\* A service that was woken and has settled, as behaviours of Spec leave it.  The bounds
\* count from here.
Woken ==
  /\ svc = <<[desired |-> "Awake", state |-> "Awake", ready |-> Components]>>
  /\ comp = [c \in Components |-> <<[replicas |-> Replicas[c], pods |-> Replicas[c]]>>]
  /\ queued = FALSE
  /\ pc = "idle" /\ hs = EmptyStatus /\ fresh = FALSE /\ todo = {}
  /\ faults = 0 /\ writes = 0

WokenSpec == Woken /\ [][Next]_vars /\ Fairness

-----------------------------------------------------------------------------
(***************************************************************************)
(* Properties                                                              *)
(***************************************************************************)
\* Every variable has its type.
TypeOK ==
  /\ svc \in Seq(Status) /\ svc # <<>>
  /\ comp \in [Components -> Seq(Resource)]
  /\ \A c \in Components : comp[c] # <<>>
  /\ queued \in BOOLEAN /\ fresh \in BOOLEAN
  /\ pc \in {"idle", "check", "up", "down", "write"}
  /\ hs \in Status /\ todo \in SUBSET Components
  /\ faults \in Nat /\ writes \in Nat

\* Whatever the proxy last asked for is either carried out in the status or about
\* to be looked at: queued, in a pass, or in an event the watch still has to
\* deliver.  No conflict, error or crash takes a request off the controller's
\* plate (queue handling of Reconcile's return values).
NoForgottenRequest ==
  Settled(Current) \/ queued \/ pc # "idle" \/ Len(svc) > 1

\* status.state says Awake only next to component statuses that are all ready,
\* although the state, the components and the request are written by different
\* code in different steps.
AwakeOnlyIfReady == Current.state = "Awake" => Current.ready = Components

Upped(c) == Actual(c).replicas = 0 /\ Actual(c)'.replicas > 0
Downed(c) == Actual(c).replicas > 0 /\ Actual(c)'.replicas = 0

\* A component is scaled up only in a pass that has found each of its
\* dependencies ready, and never over a graph with a cycle (dependsOn).
DependencyOrder ==
  [][\A c \in Components : Upped(c) => Valid /\ DependsOn[c] \subseteq hs.ready]_vars

\* A component is scaled down under a request for Awake only when the pass could not
\* have seen that request: it was written after the pass read the status, or the
\* cache had not delivered it by then.
NoSleepAgainstRequest ==
  [][\A c \in Components : Downed(c) => Current.desired # "Awake" \/ ~fresh]_vars

\* The two status fields behave as module ServiceStatus promises.
S == INSTANCE ServiceStatus WITH desired <- Current.desired, state <- Current.state
Contract == S!StatusSpec

AllUp == \A c \in Components : Ready(c, Actual(c))
AllDown == \A c \in Components : Actual(c).replicas = 0

\* A wake request that stands is carried out: in the end the status says Awake
\* and every component runs, whatever failed on the way (README, "How Components
\* Wake Up", steps 2 to 7).
WakeCompletes ==
  <>[](Current.desired = "Awake") => <>[](Current.state = "Awake" /\ AllUp)

\* "When Sleeping: All components (deployments, databases) are scaled to zero"
\* (README, "How It Works").  The code does not keep this: scaleDownComponents stops at
\* the first component that fails, and the next pass takes the rest for asleep.
SleepingIsDown ==
  <>[](Current.desired = "Sleeping" /\ Current.state = "Sleeping") => <>[]AllDown
=============================================================================
