---------------------------- MODULE SleepyService ----------------------------
(***************************************************************************)
(* One SleepyService as a whole: the reconcile loop of module Reconciler   *)
(* and the wake proxy of module WakeProxy over the same object, each with  *)
(* the other in place of the environment it is checked against alone.      *)
(*                                                                         *)
(* The proxy reads and writes the last version of the object, the          *)
(* controller reads the one in its cache.  A write by either makes every   *)
(* copy the other has read stale.  The backend a request is forwarded to   *)
(* answers exactly when the last component has a pod.                      *)
(*                                                                         *)
(* Simplifications.  Nothing fails and nothing restarts, as the parts' own *)
(* modules have that.  A status write that changes only messages or        *)
(* timestamps makes a new version at most MaxRewrites times.  The periodic *)
(* resync, which is hours apart, comes when all else has settled; before   *)
(* that only news of the SleepyService and the 500ms requeue start a pass. *)
(***************************************************************************)
EXTENDS Integers, Sequences, SequencesExt

CONSTANTS
  N, DependsOn, Kind, Replicas,  \* the components, as in Reconciler
  Requests, Wakers,              \* bounds, as in WakeProxy
  Api,                           \* the requests that API clients may make
  MaxLag,                        \* bound: versions a cache may trail by, plus one
  MaxNaps,                       \* bound: times IdleTimeout passes
  MaxRewrites                    \* bound: versions that differ in messages only

VARIABLES
  svc, comp, queued, cpc, hs, cfresh, todo,           \* the controller's
  pstate, cancel, cancelled, pc, saw, pfresh, idle,   \* the proxy's
  naps, rewrites

controller == <<comp, queued, cpc, hs, todo>>
proxy == <<pstate, cancel, cancelled, pc, saw, idle>>
vars == <<svc, controller, cfresh, proxy, pfresh, naps, rewrites>>

Current == Last(svc)

C == INSTANCE Reconciler
       WITH pc <- cpc, fresh <- cfresh, writes <- 0, MaxWrites <- 0,
            faults <- 0, MaxFaults <- 0
P == INSTANCE WakeProxy
       WITH fresh <- pfresh, desired <- Current.desired, state <- Current.state,
            Debug <- FALSE, faults <- 0, MaxFaults <- 0

ASSUME ComponentsAssumption ==
  /\ N \in Nat \ {0}
  /\ DependsOn \in [1 .. N -> SUBSET (1 .. N)]
  /\ Kind \in [1 .. N -> C!Kinds] /\ Replicas \in [1 .. N -> Nat]
ASSUME BoundsAssumption ==
  MaxLag \in Nat \ {0, 1} /\ MaxNaps \in Nat /\ MaxRewrites \in Nat
ASSUME NamesAssumption ==
  /\ Requests \cap P!Writers = {} /\ Wakers \cap P!Sleepers = {}
  /\ P!None \notin Wakers

Init == C!Init /\ P!Init /\ naps = 0 /\ rewrites = 0

-----------------------------------------------------------------------------
(***************************************************************************)
(* The controller                                                          *)
(***************************************************************************)
\* A new version of the object makes the proxy's copies stale, even if the two fields
\* are what they were.
Writes == Len(svc') > Len(svc)

ControllerStep(A) ==
  /\ UNCHANGED <<proxy, naps>>
  /\ A
  /\ pfresh' = (IF Writes THEN {} ELSE pfresh)
  /\ rewrites' = (IF Writes /\ Current' = Current THEN rewrites + 1 ELSE rewrites)
  /\ rewrites' <= MaxRewrites

Pass == C!Work

Cluster(c) == C!SyncComponent(c) \/ C!PodsFollow(c)

\* The last change of c is carried out and delivered.
Carried(c) == Len(comp[c]) = 1 /\ C!Actual(c).pods = C!Actual(c).replicas

\* No pass runs or is due, and whatever has been written is carried out and delivered.
AtRest ==
  /\ cpc = "idle" /\ ~queued /\ Len(svc) = 1
  /\ \A c \in C!Components : Carried(c)

Resync == AtRest /\ C!Resync

(***************************************************************************)
(* The proxy                                                               *)
(***************************************************************************)
\* A step that does not write the object.
ProxyStep(A) == UNCHANGED <<svc, cfresh, controller, naps, rewrites>> /\ A

\* UpdateSleepyServiceStatus is accepted: only the request has changed.
ProxyWrites(p, d, A) ==
  /\ p \in pfresh /\ Len(svc) < MaxLag
  /\ svc' = Append(svc, [Current EXCEPT !.desired = d])
  /\ cfresh' = FALSE /\ pfresh' = {}
  /\ UNCHANGED <<controller, naps, rewrites>>
  /\ A

\* It is refused, or fails.
ProxyFails(p, A) == pfresh' = pfresh \ {p} /\ ProxyStep(A)

WakePut(w) ==
  \/ ProxyWrites(w, "Awake", P!WakePut(w))
  \/ ProxyFails(w, P!WakePut(w)) /\ pc'[w] = "fail"

SleepPut(s) ==
  \/ ProxyWrites(s, "Sleeping", P!SleepPut(s))
  \/ ProxyFails(s, P!SleepPut(s))

WakerStep(w) ==
  \/ WakePut(w)
  \/ ProxyStep(pc[w] # "put" /\ P!WakerStep(w))

SleeperStep(s) ==
  \/ SleepPut(s)
  \/ ProxyStep(pc[s] # "put" /\ P!SleeperStep(s))

BackendUp == C!Actual(N).pods > 0

\* The backend answers, or the error handler reads the status.
Answer(r) ==
  \/ BackendUp /\ P!Served(r)
  \/ /\ ~BackendUp /\ pc[r] = "forward"
     /\ pc' = [pc EXCEPT ![r] = "check"] /\ saw' = [saw EXCEPT ![r] = Current.state]
     /\ UNCHANGED <<pstate, cancel, cancelled, pfresh, idle>>

Arrive(r) == ProxyStep(P!Arrive(r) /\ (pc'[r] = "held" => r \in Api))

RequestStep(r) ==
  ProxyStep(\/ P!Release(r) \/ P!NoteActivity(r) \/ P!GatewayTimeout(r)
            \/ Answer(r) \/ P!CheckAndUpdate(r))

\* IdleTimeout passes without a request.  It outlasts what takes moments in an open
\* proxy: the end of a wake-up and the 500ms poll of a held request.
IdlePasses ==
  /\ naps < MaxNaps /\ pstate = "Awake" /\ naps' = naps + 1
  /\ \A r \in Requests : pc[r] # "held"
  /\ \A w \in Wakers : ~P!Opening(w)
  /\ UNCHANGED <<svc, cfresh, controller, rewrites>> /\ P!IdlePasses

-----------------------------------------------------------------------------
Next ==
  \/ ControllerStep(Pass) \/ ControllerStep(C!SyncService) \/ ControllerStep(Resync)
  \/ \E c \in C!Components : ControllerStep(Cluster(c))
  \/ \E w \in Wakers : WakerStep(w) \/ ProxyStep(P!Timeout(w))
  \/ \E s \in P!Sleepers : SleeperStep(s) \/ ProxyStep(P!Tick(s))
  \/ \E r \in Requests : RequestStep(r) \/ Arrive(r)
  \/ IdlePasses

Spec == Init /\ [][Next]_vars

\* The SleepyService is created over components at zero: only hibernations stop them.
AsleepSpec == Spec /\ \A c \in C!Components : C!Actual(c).replicas = 0

\* WF of the steps of each, said of the state as in WakeProxy: whoever is not done can
\* always go on.
WorkerRunsOn == []<>(cpc = "idle" /\ ~queued) \/ []<><<TRUE>>_<<cpc, todo>>
WatchRunsOn == []<>(Len(svc) = 1) \/ []<><<Len(svc') < Len(svc)>>_svc
ClusterRunsOn(c) == []<>Carried(c) \/ []<><<todo' = todo>>_(comp[c])

\* The fairness of the two parts, and users who keep coming.
Fairness ==
  /\ WorkerRunsOn /\ WatchRunsOn /\ WF_vars(ControllerStep(Resync))
  /\ \A c \in C!Components : ClusterRunsOn(c)
  /\ \A p \in P!Processes : P!RunsOn(p)
  /\ \A w \in Wakers : SF_vars(ProxyStep(P!Timeout(w)))
  /\ \A r \in Requests : WF_vars(Arrive(r))

BusySpec == Spec /\ Fairness

-----------------------------------------------------------------------------
(***************************************************************************)
(* Properties                                                              *)
(***************************************************************************)
\* The two parts together keep the promise each keeps alone.
S == INSTANCE ServiceStatus WITH desired <- Current.desired, state <- Current.state
Contract == S!StatusSpec

\* However wake-ups, hibernations and passes cross each other, a service with traffic is
\* open and running again and again, unless its proxy is stranded in Waking for good.
TrafficIsServed == []<>(pstate = "Awake" /\ BackendUp) \/ <>[]P!Stranded


=============================================================================
