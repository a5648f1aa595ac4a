---------------------------- MODULE Provisioning ----------------------------
(***************************************************************************)
(* What a reconcile pass does around the components of a SleepyService     *)
(* (internal/controller/sleepyservice_controller.go): the finalizer, the   *)
(* proxy's own resources and the deletion, while users create, edit,       *)
(* delete and re-create the object and the garbage collector cleans up.    *)
(*                                                                         *)
(* As in module Reconciler, an object is the sequence of its versions from *)
(* the one in the controller's cache (the head) to the one in the API      *)
(* server (the last element), and an update of any other version than the  *)
(* last is refused.  A deleted object leaves an absent version behind.     *)
(*                                                                         *)
(* Simplifications.  The components themselves are module Reconciler's.    *)
(* Of a spec, what decides which resources exist and how the proxy is      *)
(* wired to the backend is kept; of a resource, its controller reference   *)
(* and that wiring.  A write of the status may or may not make a version.  *)
(*                                                                         *)
(* Ownerless, SwallowedError, BlindlyAccepted, Unmarked, NextOfAny and     *)
(* UnownedServices are bugs the code does not have, each of the definition *)
(* that follows it.                                                        *)
(***************************************************************************)
EXTENDS Integers, Sequences, SequencesExt

CONSTANTS
  Ensured,    \* the kinds of resources followed
  Apps,       \* the names of Deployments and StatefulSets
  Specs,      \* the specs a user may write
  MaxUid,     \* bound: objects created under the one name
  MaxLag,     \* bound: versions of one object a cache may trail by, plus one
  MaxFaults   \* bound: failed calls, crashes, foreign changes of a resource

\* The order of ensureProxyResources.
Rank == [ServiceAccount |-> 1, Role |-> 2, RoleBinding |-> 3,
         BackendService |-> 4, Deployment |-> 5, ProxyService |-> 6]
Kinds == DOMAIN Rank

\* backendService as the user left it, the ports listed there, and the Deployment or
\* StatefulSet among the components that counts ("" if there is none).
SpecType == [backend : {"unset", "disabled", "enabled"}, ports : SUBSET Nat,
             app : Apps \cup {""}]

ASSUME KindsAssumption == Ensured \subseteq Kinds
ASSUME SpecsAssumption == Specs # {} /\ \A s \in Specs : s \in SpecType
ASSUME BoundsAssumption == MaxUid \in Nat /\ MaxLag \in Nat /\ MaxFaults \in Nat

VARIABLES
  svc,     \* versions of the SleepyService
  owned,   \* kind -> versions of the resource
  uid,     \* the last uid handed out
  queued,  \* the name is in the work queue
  pc,      \* what the worker does next
  hs,      \* the pass's own copy
  fresh,   \* no other version was written since hs was read
  todo,    \* kinds the pass has still to ensure
  faults

vars == <<svc, owned, uid, queued, pc, hs, fresh, todo, faults>>
pass == <<pc, hs, fresh, todo>>

NoSpec == [backend |-> "unset", ports |-> {}, app |-> ""]
Gone == [uid |-> 0, deleting |-> FALSE, finalizer |-> FALSE, spec |-> NoSpec]
Absent == [owner |-> 0, host |-> "", ports |-> {}]
Nobody == -1

Current == Last(svc)
Actual(k) == Last(owned[k])
Put(k, r) == owned' = [owned EXCEPT ![k] = Append(@, r)]

(***************************************************************************)
(* What the pass makes of a spec                                           *)
(***************************************************************************)
\* buildBackendServicePorts, buildProxyContainerPorts, buildProxyServicePorts and
\* buildProxyEnv all list the same ports.
Ports(s) == IF s.backend # "unset" /\ s.ports # {} THEN s.ports ELSE {80}

\* BACKEND_HOST of buildProxyEnv: none without a workload, else one named like it, or the
\* managed Service.
Host(s) == IF s.app = "" \/ s.backend = "unset" THEN s.app ELSE "actual"

\* ensureBackendService wants a Deployment or StatefulSet to select the pods of.
Buildable(s) == s.backend = "disabled" \/ s.app # ""

\* The resource as the mutate function of CreateOrUpdate leaves it.
Ownerless(k, h) ==
  [owner |-> Nobody, host |-> IF k = "Deployment" THEN Host(h.spec) ELSE "",
   ports |-> IF Rank[k] > 3 THEN Ports(h.spec) ELSE {}]
Wanted(k, h) ==
  [owner |-> h.uid, host |-> IF k = "Deployment" THEN Host(h.spec) ELSE "",
   ports |-> IF Rank[k] > 3 THEN Ports(h.spec) ELSE {}]

\* Deployment and proxy Service get a new spec without the API server's defaults, so
\* that they always look changed.
Rewritten(k) == k \in {"Deployment", "ProxyService"}

-----------------------------------------------------------------------------
Init ==
  /\ svc = <<Gone>> /\ owned = [k \in Ensured |-> <<Absent>>] /\ uid = 0
  /\ queued = FALSE
  /\ pc = "idle" /\ hs = Gone /\ fresh = FALSE /\ todo = {}
  /\ faults = 0

Return == pc' = "idle" /\ hs' = Gone /\ fresh' = FALSE /\ todo' = {}
SwallowedError == Return /\ UNCHANGED queued
GiveUp == Return /\ queued' = TRUE

BlindlyAccepted == TRUE
Accepted == fresh

(***************************************************************************)
(* A reconcile pass                                                        *)
(***************************************************************************)
\* Reconcile up to its first call: where it goes on with the object it has read.
Unmarked(h) == IF h.deleting THEN "delete" ELSE "ensure"
FirstStep(h) ==
  IF h.deleting THEN "delete" ELSE IF h.finalizer THEN "ensure" ELSE "mark"

Begin ==
  /\ pc = "idle" /\ queued
  /\ queued' = FALSE
  /\ \/ Head(svc).uid = 0 /\ UNCHANGED pass
     \/ /\ Head(svc).uid # 0
        /\ hs' = Head(svc) /\ fresh' = (Len(svc) = 1) /\ todo' = Ensured
        /\ pc' = FirstStep(Head(svc))
  /\ UNCHANGED <<svc, owned, uid, faults>>

\* ensureFinalizer
AddFinalizer ==
  /\ pc = "mark"
  /\ \/ /\ Accepted
        /\ hs' = [hs EXCEPT !.finalizer = TRUE] /\ svc' = Append(svc, hs')
        /\ pc' = "ensure"
        /\ UNCHANGED <<queued, fresh, todo>>
     \/ ~Accepted /\ GiveUp /\ UNCHANGED svc
  /\ UNCHANGED <<owned, uid, faults>>

\* reconcileDelete: without its finalizer the object is gone.
RemoveFinalizer ==
  /\ pc = "delete"
  /\ \/ Accepted /\ svc' = Append(svc, Gone) /\ Return /\ UNCHANGED queued
     \/ ~Accepted /\ GiveUp /\ UNCHANGED svc
  /\ UNCHANGED <<owned, uid, faults>>

\* The next kind in the order of ensureProxyResources.
NextOfAny(k) == k \in todo
IsNext(k) == k \in todo /\ \A j \in todo : Rank[k] =< Rank[j]

Skipped(k) == k = "BackendService" /\ hs.spec.backend = "disabled"
Refused(k) == k = "BackendService" /\ ~Buildable(hs.spec)

\* CreateOrUpdate decides between the two, and whether there is anything to do, by the
\* cache.  A controller reference to an object of the same name gives way.
Ensure(k) ==
  LET view == Head(owned[k])
      want == Wanted(k, hs)
      InPlace == view = want /\ ~Rewritten(k)
      Taken == IF view.owner = 0 THEN Actual(k).owner = 0 ELSE Len(owned[k]) = 1
      Done == todo' = todo \ {k} /\ UNCHANGED <<queued, pc, hs, fresh>>
  IN  /\ pc = "ensure" /\ IsNext(k)
      /\ \/ (Skipped(k) \/ (~Refused(k) /\ InPlace)) /\ Done /\ UNCHANGED owned
         \/ /\ ~Skipped(k) /\ ~Refused(k) /\ ~InPlace /\ Taken
            /\ IF Actual(k) = want THEN UNCHANGED owned ELSE Put(k, want)
            /\ Done
         \/ /\ ~Skipped(k) /\ (Refused(k) \/ (~InPlace /\ ~Taken))
            /\ GiveUp /\ UNCHANGED owned
      /\ UNCHANGED <<svc, uid, faults>>

\* The rest of the pass, up to its only other write of the object.
WriteStatus ==
  /\ pc = "ensure" /\ todo = {}
  /\ \/ /\ Accepted
        /\ svc' = Append(svc, hs) \/ UNCHANGED svc
        /\ Return /\ UNCHANGED queued
     \/ ~Accepted /\ GiveUp /\ UNCHANGED svc
  /\ UNCHANGED <<owned, uid, faults>>

Fault == faults < MaxFaults /\ faults' = faults + 1

Fail ==
  /\ pc # "idle" /\ Fault /\ GiveUp
  /\ UNCHANGED <<svc, owned, uid>>

\* The manager restarts: caches are listed again, objects that exist are queued.
Crash ==
  /\ Fault
  /\ svc' = <<Current>> /\ owned' = [k \in Ensured |-> <<Actual(k)>>]
  /\ Return
  /\ queued' = (Current.uid # 0)
  /\ UNCHANGED uid

(***************************************************************************)
(* What happens around the pass                                            *)
(***************************************************************************)
SyncService ==
  /\ Len(svc) > 1
  /\ svc' = Tail(svc) /\ queued' = TRUE
  /\ UNCHANGED <<owned, uid, pass, faults>>

\* SetupWithManager watches the Deployments and Services it owns.
UnownedServices == {"Deployment"}
Watched == {"Deployment", "BackendService", "ProxyService"}

SyncOwned(k) ==
  /\ Len(owned[k]) > 1
  /\ owned' = [owned EXCEPT ![k] = Tail(@)]
  /\ queued' = (queued \/ k \in Watched)
  /\ UNCHANGED <<svc, uid, pass, faults>>

Resync ==
  /\ ~queued /\ Head(svc).uid # 0 /\ queued' = TRUE
  /\ UNCHANGED <<svc, owned, uid, pass, faults>>

\* Somebody else writes the object.
Foreign(s) ==
  /\ Len(svc) < MaxLag
  /\ svc' = Append(svc, s) /\ fresh' = FALSE
  /\ UNCHANGED <<owned, queued, pc, hs, todo, faults>>

Create(s) ==
  /\ Current.uid = 0 /\ uid < MaxUid
  /\ uid' = uid + 1
  /\ Foreign([uid |-> uid + 1, deleting |-> FALSE, finalizer |-> FALSE, spec |-> s])

Edit(s) ==
  /\ Current.uid # 0 /\ s # Current.spec
  /\ Foreign([Current EXCEPT !.spec = s]) /\ UNCHANGED uid

Delete ==
  /\ Current.uid # 0 /\ ~Current.deleting
  /\ Foreign(IF Current.finalizer THEN [Current EXCEPT !.deleting = TRUE] ELSE Gone)
  /\ UNCHANGED uid

\* The proxy's UpdateSleepyServiceStatus.
ProxyWrites == Current.uid # 0 /\ Foreign(Current) /\ UNCHANGED uid

\* The garbage collector deletes what belongs to an object that no longer exists.
Orphan(k) == Actual(k).owner > 0 /\ Actual(k).owner # Current.uid

Collect(k) ==
  /\ Orphan(k) /\ Len(owned[k]) < MaxLag
  /\ Put(k, Absent)
  /\ UNCHANGED <<svc, uid, queued, pass, faults>>

\* A rollout's or a load balancer's status, or somebody who removes a Deployment or a
\* Service.
Disturb ==
  /\ Fault
  /\ \E k \in {j \in Ensured : Rank[j] > 3} :
       /\ Actual(k).owner # 0 /\ Len(owned[k]) < MaxLag
       /\ \E r \in {Actual(k), Absent} : Put(k, r)
  /\ UNCHANGED <<svc, uid, queued, pass>>

-----------------------------------------------------------------------------
Work ==
  \/ Begin \/ AddFinalizer \/ RemoveFinalizer \/ WriteStatus
  \/ \E k \in Ensured : Ensure(k)

Users ==
  \/ Delete \/ ProxyWrites
  \/ \E s \in Specs : Create(s) \/ Edit(s)

Next ==
  \/ Work \/ Fail \/ Crash
  \/ SyncService \/ Resync \/ Disturb
  \/ \E k \in Ensured : SyncOwned(k) \/ Collect(k)
  \/ Users

Spec == Init /\ [][Next]_vars

\* The worker works, watches deliver, the garbage collector runs.  The resync is not
\* needed.
Fairness ==
  /\ WF_vars(Work) /\ WF_vars(SyncService)
  /\ \A k \in Ensured : WF_vars(SyncOwned(k)) /\ WF_vars(Collect(k))

FairSpec == Spec /\ Fairness

-----------------------------------------------------------------------------
(***************************************************************************)
(* Properties                                                              *)
(***************************************************************************)
ServiceType == [uid : 0 .. MaxUid, deleting : BOOLEAN, finalizer : BOOLEAN,
                spec : Specs \cup {NoSpec}]
ResourceType == [owner : 0 .. MaxUid, host : Apps \cup {"", "actual"},
                 ports : SUBSET Nat]

\* Every variable has its type.
TypeOK ==
  /\ svc \in Seq(ServiceType) /\ svc # <<>>
  /\ owned \in [Ensured -> Seq(ResourceType)] /\ \A k \in Ensured : owned[k] # <<>>
  /\ uid \in 0 .. MaxUid /\ queued \in BOOLEAN /\ fresh \in BOOLEAN
  /\ pc \in {"idle", "mark", "delete", "ensure"}
  /\ hs \in ServiceType /\ todo \subseteq Ensured /\ faults \in 0 .. MaxFaults

UserPart(s) == [uid |-> s.uid, deleting |-> s.deleting, spec |-> s.spec]

\* ensureFinalizer and reconcileDelete write the whole object back, as old as the cache
\* is; still no pass ever undoes an edit, a deletion or a re-creation by a user: it
\* changes the finalizer, or lets go of an object that is being deleted.
NoLostEdit ==
  [][pc' # pc /\ Current' # Current =>
       \/ UserPart(Current') = UserPart(Current)
       \/ Current.deleting /\ Current' = Gone]_vars

\* Whatever a pass creates or takes over belongs to the SleepyService that exists at
\* that moment, although the pass works from a cache that may still show one that was
\* deleted and re-created since (ensureFinalizer before ensureProxyResources).
OwnerExists ==
  [][\A k \in Ensured : Actual(k)' # Actual(k) /\ Actual(k)'.owner # 0 =>
       Actual(k)'.owner = Current.uid]_vars

\* A proxy that runs for the present SleepyService has the account, the role and the
\* binding it needs to read and to write the status.
AccountFirst ==
  "Deployment" \in Ensured /\ Actual("Deployment").owner = Current.uid /\ Current.uid # 0
    => \A k \in Ensured : Rank[k] < 4 => Actual(k).owner = Current.uid

\* From some moment on, users and the proxy leave the object alone (whoever writes it
\* for ever makes every pass conflict).
Undisturbed == <>[][~Users]_vars

\* The resources the spec asks for.
Asked == Ensured \ (IF Current.spec.backend = "disabled" THEN {"BackendService"} ELSE {})
Owned == \A k \in Asked : Actual(k).owner = Current.uid

\* Nothing is left that would start another pass, the resync apart.
Quiet ==
  /\ pc = "idle" /\ ~queued
  /\ Len(svc) = 1 /\ \A k \in Ensured : Len(owned[k]) = 1

\* A controller that has gone quiet is done: no deletion waits for it, and every resource
\* is what a pass would make of the present spec.  Although a pass takes what it finds in
\* a stale cache for granted, may have worked for an older spec, and gets no word of the
\* account, the role and the binding (SetupWithManager), no reason for a further pass is
\* ever lost.
QuietIsDone ==
  Quiet /\ Current.uid # 0 =>
    /\ Current.finalizer /\ ~Current.deleting
    /\ \A k \in Asked : Actual(k) = Wanted(k, Current)

\* The proxy listens on the ports of the managed Service, and forwards to it.  Without a
\* workload it is not told where to, and does not start.
Wired ==
  \A k \in Asked : Rank[k] > 3 =>
    /\ Current.spec.ports # {} => Actual(k).ports = Current.spec.ports
    /\ k = "Deployment" /\ Current.spec.app # "" => Actual(k).host = "actual"

Provisionable ==
  Current.uid # 0 /\ Current.spec.backend # "unset" /\ Buildable(Current.spec)

\* However deletions, re-creations, edits, failures and stale passes have crossed each
\* other, in the end, and by events alone, a deletion has been carried out, after the
\* last one nothing is left behind, and a spec that can be provisioned is: everything
\* belongs to the object and is wired as it says (README, "Resource Ownership").
Converges ==
  Undisturbed => <>[](/\ ~Current.deleting
                      /\ Current.uid = 0 => Owned
                      /\ Provisionable => Owned /\ Wired)
=============================================================================
