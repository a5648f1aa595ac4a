------------------------------ MODULE WakeProxy ------------------------------
(***************************************************************************)
(* The wake proxy of one SleepyService (cmd/proxy/main.go): its request    *)
(* handlers, wake goroutines, idle monitor and debug endpoints around the  *)
(* mutex-protected p.state, and the status they share with the controller. *)
(*                                                                         *)
(* Every critical section of p.mu and every call to the API server is a    *)
(* step of its own, so anything may happen between two of them.  A status  *)
(* update reads the object, then writes the whole of it back, and fails if *)
(* anyone wrote in between.                                                *)
(*                                                                         *)
(* Simplifications.  The controller is reduced to what module Reconciler   *)
(* is shown to guarantee of status.state.  Time is a flag: idle says that  *)
(* IdleTimeout has passed since lastActivity.  What the waiting page shows *)
(* (wakeStatus) is left out.  Requests and goroutines are reused once they *)
(* have ended.                                                             *)
(*                                                                         *)
(* AdoptedVerbatim, PutAfresh, HasNoDeadline, HasDeadlineIfLatest and      *)
(* NotSpawned are what a mistake in the code would make of the operator    *)
(* that follows each.                                                      *)
(***************************************************************************)
EXTENDS Integers

CONSTANTS
  Requests,   \* bound: requests in flight at once
  Wakers,     \* bound: triggerWake goroutines alive at once
  Debug,      \* config.DebugEndpoints
  MaxFaults   \* bound: failed calls, restarts, relapses and early timeouts

ASSUME BoundsAssumption == Debug \in BOOLEAN /\ MaxFaults \in Nat

\* Callers of hibernate: the idle monitor and POST /_wake/debug/sleep.
Sleepers == {"monitor"} \cup (IF Debug THEN {"debug"} ELSE {})
Writers == Wakers \cup Sleepers
Processes == Requests \cup Writers

None == "none"
ASSUME NamesAssumption ==
  /\ Requests \cap Writers = {} /\ Wakers \cap Sleepers = {} /\ None \notin Wakers

VARIABLES
  desired, state,  \* status.desiredState and status.state in the API server
  pstate,          \* p.state
  cancel,          \* p.wakeCancel: the goroutine it would stop
  cancelled,       \* the contexts that are done
  pc,              \* request or goroutine -> where it is
  saw,             \* request or goroutine -> the status.state it has read
  fresh,           \* writers that have read the last version of the status
  idle,            \* IdleTimeout has passed since p.lastActivity
  faults

vars == <<desired, state, pstate, cancel, cancelled, pc, saw, fresh, idle, faults>>
status == <<desired, state>>
proxy == <<pstate, cancel, cancelled, idle>>

ProxyStates == {"Sleeping", "Waking", "Awake"}
ReadStates == {""} \cup ProxyStates

RequestLabels == {"out", "held", "admitted", "forward", "check"}
WakerLabels == {"out", "start", "announce", "get", "put", "asked", "poll", "progress",
                "ready", "open", "opened", "fail"}
SleeperLabels == {"out", "enter", "announce", "get", "put", "settle", "settled"}

Goto(p, l) == pc' = [pc EXCEPT ![p] = l]

\* p.updateStatus
UpdateStatus(s) == pstate' = s

-----------------------------------------------------------------------------
\* The proxy has been deployed with a new SleepyService.
Init ==
  /\ desired = "" /\ state = ""
  /\ pstate = "Sleeping" /\ cancel = None /\ cancelled = {}
  /\ pc = [p \in Processes |-> "out"] /\ saw = [p \in Processes |-> ""]
  /\ fresh = {} /\ idle = FALSE /\ faults = 0

Fault == faults < MaxFaults /\ faults' = faults + 1

(***************************************************************************)
(* The API server                                                          *)
(***************************************************************************)
\* UpdateSleepyServiceStatus, first half: get the object.
Get(p) ==
  /\ saw' = [saw EXCEPT ![p] = state] /\ fresh' = fresh \cup {p}
  /\ UNCHANGED status

Stored(p) == p \in fresh

\* Second half: write it back with another desiredState.
PutAfresh(p, d) ==
  /\ Stored(p)
  /\ desired' = d /\ state' = ""
  /\ fresh' = {}

Put(p, d) ==
  /\ Stored(p)
  /\ desired' = d /\ state' = saw[p]
  /\ fresh' = {}

\* A writer that is done with its copy.
Drop(p) == saw' = [saw EXCEPT ![p] = ""] /\ fresh' = fresh \ {p}

(***************************************************************************)
(* triggerWake                                                             *)
(***************************************************************************)
Alive(w) == pc[w] \notin {"out", "start"}
Opening(w) == pc[w] \in {"ready", "open", "opened"}

\* The goroutine returns; stopping it later has no effect.
Exit(w) ==
  /\ Goto(w, "out") /\ Drop(w)
  /\ cancel' = (IF cancel = w THEN None ELSE cancel)
  /\ cancelled' = cancelled \ {w}

Enter(w) ==
  /\ pc[w] = "start"
  /\ \/ /\ pstate = "Sleeping"
        /\ pstate' = "Waking" /\ cancel' = w
        /\ Goto(w, "announce")
     \/ /\ pstate # "Sleeping"
        /\ Goto(w, "out")
        /\ UNCHANGED <<pstate, cancel>>
  /\ UNCHANGED <<status, cancelled, saw, fresh, idle, faults>>

Announce(w) ==
  /\ pc[w] \in {"announce", "asked"}
  /\ UpdateStatus("Waking")
  /\ Goto(w, IF pc[w] = "announce" THEN "get" ELSE "poll")
  /\ UNCHANGED <<status, cancel, cancelled, saw, fresh, idle, faults>>

WakeGet(w) ==
  /\ pc[w] = "get"
  /\ \/ w \notin cancelled /\ Get(w) /\ Goto(w, "put") /\ UNCHANGED faults
     \/ w \in cancelled /\ Goto(w, "fail") /\ UNCHANGED <<status, saw, fresh, faults>>
     \/ Fault /\ Goto(w, "fail") /\ UNCHANGED <<status, saw, fresh>>
  /\ UNCHANGED proxy

\* A request that is cancelled on its way may have reached the server.
WakePut(w) ==
  /\ pc[w] = "put"
  /\ \/ /\ Put(w, "Awake")
        /\ saw' = [saw EXCEPT ![w] = ""]
        /\ Goto(w, IF w \in cancelled THEN "fail" ELSE "asked")
        /\ UNCHANGED faults
     \/ /\ w \notin fresh \/ w \in cancelled
        /\ Drop(w) /\ Goto(w, "fail")
        /\ UNCHANGED <<status, faults>>
     \/ /\ Fault
        /\ Drop(w) /\ Goto(w, "fail")
        /\ UNCHANGED status
  /\ UNCHANGED proxy

\* WaitForSleepyServiceAwake: one tick reads the status, a failed read is skipped.
Poll(w) ==
  /\ pc[w] = "poll" /\ w \notin cancelled
  /\ saw' = [saw EXCEPT ![w] = state]
  /\ Goto(w, "progress")
  /\ UNCHANGED <<status, proxy, fresh, faults>>

\* onWakeProgress, then the check for Awake: from here on the context, done or not,
\* is not consulted any more.
Progress(w) ==
  /\ pc[w] = "progress"
  /\ UpdateStatus("Waking")
  /\ \/ saw[w] = "Awake" /\ Goto(w, "ready") /\ cancelled' = cancelled \ {w}
     \/ saw[w] # "Awake" /\ Goto(w, "poll") /\ UNCHANGED cancelled
  /\ saw' = [saw EXCEPT ![w] = ""]
  /\ UNCHANGED <<status, cancel, fresh, idle, faults>>

\* "Service is ready!" at 95%, then p.state, then "Service is ready!" at 100%.
Ready(w) ==
  /\ pc[w] = "ready"
  /\ UpdateStatus("Waking") /\ Goto(w, "open")
  /\ UNCHANGED <<status, cancel, cancelled, saw, fresh, idle, faults>>

Open(w) ==
  /\ pc[w] = "open"
  /\ pstate' = "Awake" /\ idle' = FALSE /\ Goto(w, "opened")
  /\ UNCHANGED <<status, cancel, cancelled, saw, fresh, faults>>

Opened(w) ==
  /\ pc[w] = "opened"
  /\ UpdateStatus("Awake") /\ Exit(w)
  /\ UNCHANGED <<status, idle, faults>>

\* The request failed, or the context was done while waiting.
WakeFails(w) ==
  /\ pc[w] = "fail" \/ (pc[w] = "poll" /\ w \in cancelled)
  /\ UpdateStatus("Sleeping") /\ Exit(w)
  /\ UNCHANGED <<status, idle, faults>>

\* WakeTimeout: it outlasts the controller's work, or counts as a fault.
HasNoDeadline(w) == FALSE
HasDeadlineIfLatest(w) == Alive(w) /\ ~Opening(w) /\ w \notin cancelled /\ w = cancel
HasDeadline(w) == Alive(w) /\ ~Opening(w) /\ w \notin cancelled

Timeout(w) ==
  /\ HasDeadline(w)
  /\ cancelled' = cancelled \cup {w}
  /\ \/ desired # "Awake" /\ pc[w] \in {"poll", "progress"} /\ UNCHANGED faults
     \/ Fault
  /\ UNCHANGED <<status, pstate, cancel, pc, saw, fresh, idle>>

(***************************************************************************)
(* hibernate and its callers                                               *)
(***************************************************************************)
\* One turn of the idle monitor's loop, or a request to the debug endpoint.
Tick(s) ==
  /\ pc[s] = "out"
  /\ s = "monitor" => pstate = "Awake" /\ idle
  /\ Goto(s, "enter")
  /\ UNCHANGED <<status, proxy, saw, fresh, faults>>

SleepEnter(s) ==
  /\ pc[s] = "enter"
  /\ \/ pstate = "Sleeping" /\ Goto(s, "out") /\ UNCHANGED cancelled
     \/ /\ pstate # "Sleeping" /\ Goto(s, "announce")
        /\ cancelled' = cancelled \cup {w \in Wakers : w = cancel /\ ~Opening(w)}
  /\ UNCHANGED <<status, pstate, cancel, saw, fresh, idle, faults>>

\* updateStatus before the request and after it, the bare p.state in between.
SetSleeping(s) ==
  /\ pc[s] \in {"announce", "settle", "settled"}
  /\ pstate' = "Sleeping"
  /\ Goto(s, CASE pc[s] = "announce" -> "get"
               [] pc[s] = "settle"   -> "settled"
               [] pc[s] = "settled"  -> "out")
  /\ UNCHANGED <<status, cancel, cancelled, saw, fresh, idle, faults>>

\* An error is logged and otherwise ignored.
SleepGet(s) ==
  /\ pc[s] = "get"
  /\ \/ Get(s) /\ Goto(s, "put") /\ UNCHANGED faults
     \/ Fault /\ Goto(s, "settle") /\ UNCHANGED <<status, saw, fresh>>
  /\ UNCHANGED proxy

SleepPut(s) ==
  /\ pc[s] = "put"
  /\ \/ /\ Put(s, "Sleeping")
        /\ saw' = [saw EXCEPT ![s] = ""]
        /\ UNCHANGED faults
     \/ s \notin fresh /\ Drop(s) /\ UNCHANGED <<status, faults>>
     \/ Fault /\ Drop(s) /\ UNCHANGED status
  /\ Goto(s, "settle")
  /\ UNCHANGED proxy

(***************************************************************************)
(* makePortHandler, waitAndProxyToPort and the reverse proxy               *)
(***************************************************************************)
\* A goroutine that runs triggerWake is started.
NotSpawned(r, w, l) == Goto(r, l)
Spawn(r, w, l) == pc' = [pc EXCEPT ![w] = "start", ![r] = l]

\* An API client is held while the service is not awake; a browser is given the
\* waiting page and is gone.
Arrive(r) ==
  /\ pc[r] = "out"
  /\ \/ pstate = "Awake" /\ Goto(r, "admitted")
     \/ pstate = "Waking" /\ Goto(r, "held")
     \/ /\ pstate = "Sleeping"
        /\ \E w \in Wakers, l \in {"held", "out"} : pc[w] = "out" /\ Spawn(r, w, l)
  /\ UNCHANGED <<status, proxy, saw, fresh, faults>>

\* A held request polls p.state, and is answered 504 after WakeTimeout.
Release(r) ==
  /\ pc[r] = "held" /\ pstate = "Awake"
  /\ Goto(r, "admitted")
  /\ UNCHANGED <<status, proxy, saw, fresh, faults>>

\* Whoever has seen Awake takes the lock again to note the activity, and is forwarded,
\* whatever p.state is by then.
NoteActivity(r) ==
  /\ pc[r] = "admitted"
  /\ Goto(r, "forward") /\ idle' = FALSE
  /\ UNCHANGED <<status, pstate, cancel, cancelled, saw, fresh, faults>>

GatewayTimeout(r) ==
  /\ pc[r] = "held" /\ Goto(r, "out")
  /\ UNCHANGED <<status, proxy, saw, fresh, faults>>

\* The backend answers, or the error handler looks at the SleepyService.
Served(r) ==
  /\ pc[r] = "forward" /\ Goto(r, "out")
  /\ UNCHANGED <<status, proxy, saw, fresh, faults>>

Unavailable(r) ==
  /\ pc[r] = "forward"
  /\ \/ (state # "Awake" \/ desired # "Awake") /\ UNCHANGED faults
     \/ Fault
  /\ saw' = [saw EXCEPT ![r] = state] /\ Goto(r, "check")
  /\ UNCHANGED <<status, proxy, fresh>>

\* What checkAndUpdateState makes of the state it has read.
AdoptedVerbatim(p, s) == s
Adopted(p, s) ==
  CASE s = "Awake" -> "Awake"
    [] s = "Waking" -> "Waking"
    [] s = "Sleeping" /\ p # "Waking" -> "Sleeping"
    [] OTHER -> p

CheckAndUpdate(r) ==
  /\ pc[r] = "check"
  /\ pstate' = Adopted(pstate, saw[r])
  /\ saw' = [saw EXCEPT ![r] = ""] /\ Goto(r, "out")
  /\ UNCHANGED <<status, cancel, cancelled, fresh, idle, faults>>

\* POST /_wake/debug/wake
DebugWake(w) ==
  /\ Debug /\ pc[w] = "out" /\ Goto(w, "start")
  /\ UNCHANGED <<status, proxy, saw, fresh, faults>>

(***************************************************************************)
(* Around the proxy                                                        *)
(***************************************************************************)
\* The pod is replaced: goroutines and requests are gone, main asks for the state
\* once (and carries on with Sleeping if it gets no answer).
Restart ==
  /\ Fault
  /\ pstate' \in {"Sleeping", Adopted("Sleeping", state)}
  /\ cancel' = None /\ cancelled' = {} /\ idle' = FALSE
  /\ pc' = [p \in Processes |-> "out"] /\ saw' = [p \in Processes |-> ""]
  /\ fresh' = {}
  /\ UNCHANGED status

IdlePasses ==
  /\ ~idle /\ idle' = TRUE
  /\ UNCHANGED <<status, pstate, cancel, cancelled, pc, saw, fresh, faults>>

\* The controller follows the request.
Reconcile ==
  /\ \/ desired = "Awake" /\ state # "Awake" /\ state' \in {"Waking", "Awake"} \ {state}
     \/ desired # "Awake" /\ state # "Sleeping" /\ state' = "Sleeping"
  /\ fresh' = {}
  /\ UNCHANGED <<desired, proxy, pc, saw, faults>>

\* A component fails, or the controller rewrites what it knows of the components.
Relapse ==
  /\ Fault
  /\ \/ desired = "Awake" /\ state = "Awake" /\ state' = "Waking"
     \/ UNCHANGED state
  /\ fresh' = {}
  /\ UNCHANGED <<desired, proxy, pc, saw>>

-----------------------------------------------------------------------------
WakerStep(w) ==
  \/ Enter(w) \/ Announce(w) \/ WakeGet(w) \/ WakePut(w) \/ Poll(w) \/ Progress(w)
  \/ Ready(w) \/ Open(w) \/ Opened(w) \/ WakeFails(w)

SleeperStep(s) == SleepEnter(s) \/ SetSleeping(s) \/ SleepGet(s) \/ SleepPut(s)

RequestStep(r) ==
  \/ Release(r) \/ NoteActivity(r) \/ GatewayTimeout(r)
  \/ Served(r) \/ Unavailable(r) \/ CheckAndUpdate(r)

Next ==
  \/ \E w \in Wakers : WakerStep(w) \/ Timeout(w) \/ DebugWake(w)
  \/ \E s \in Sleepers : SleeperStep(s) \/ Tick(s)
  \/ \E r \in Requests : RequestStep(r) \/ Arrive(r)
  \/ Restart \/ IdlePasses \/ Reconcile \/ Relapse

Spec == Init /\ [][Next]_vars

\* WF of the steps of p, said of the state as TLC checks that sooner: whoever is not out
\* can always go on.
RunsOn(p) == []<>(pc[p] = "out") \/ []<><<pc'[p] # pc[p]>>_pc

\* Goroutines and handlers run on, the controller works.  WakeTimeout runs whatever
\* the status does meanwhile, hence SF: a goroutine that waits for ever while the
\* request is withdrawn again and again is timed out.
Fairness ==
  /\ \A p \in Processes : RunsOn(p)
  /\ \A w \in Wakers : SF_vars(Timeout(w))
  /\ WF_vars(Reconcile)

FairSpec == Spec /\ Fairness

\* Users keep coming.
BusySpec == FairSpec /\ \A r \in Requests : WF_vars(Arrive(r))

\* An idle timeout is configured, and the monitor's ticker ticks.
MonitoredSpec == FairSpec /\ WF_vars(IdlePasses) /\ WF_vars(Tick("monitor"))

-----------------------------------------------------------------------------
(***************************************************************************)
(* Properties                                                              *)
(***************************************************************************)
\* Every variable has its type.
TypeOK ==
  /\ desired \in {"", "Sleeping", "Awake"} /\ state \in ReadStates
  /\ pstate \in ProxyStates /\ idle \in BOOLEAN /\ faults \in 0 .. MaxFaults
  /\ cancel \in Wakers \cup {None} /\ cancelled \subseteq Wakers
  /\ pc \in [Processes -> RequestLabels \cup WakerLabels \cup SleeperLabels]
  /\ \A r \in Requests : pc[r] \in RequestLabels
  /\ \A w \in Wakers : pc[w] \in WakerLabels
  /\ \A s \in Sleepers : pc[s] \in SleeperLabels
  /\ saw \in [Processes -> ReadStates]
  /\ fresh \subseteq Writers

\* The proxy's half of the status contract: writing back the whole status it has
\* read, it never undoes a state the controller has reported in the meantime.
S == INSTANCE ServiceStatus
Contract == S!StatusSpec

\* A wake-up ends, whoever stops it, withdraws its request or starts another one
\* meanwhile: with the service awake, on an error or at WakeTimeout; the goroutine does
\* not leak, although p.wakeCancel only belongs to the last one.
WakerEnds == \A w \in Wakers : []<>~Alive(w)

\* Waking, and no goroutine that would ever leave it.
Stranded == pstate = "Waking" /\ \A w \in Wakers : ~Alive(w)

\* The debug endpoint keeps asking for sleep.
KeptAsleep == Debug /\ []<>(pc["debug"] # "out")

\* Whatever wake-ups, hibernations and failures cross each other, a proxy with
\* traffic opens again and again, unless it is stranded in Waking for good or somebody
\* never stops putting it to sleep.
TrafficGetsThrough == []<>(pstate = "Awake") \/ <>[]Stranded \/ KeptAsleep

\* "Controller detects all components ready ..., sets state to Awake.  Proxy starts
\* forwarding traffic" (README, "How Components Wake Up", steps 7 and 8).  A proxy
\* that has taken Waking from the status waits for nobody: the code breaks this.
ForwardsOnceAwake == <>[](desired = "Awake" /\ state = "Awake") => <>(pstate = "Awake")

\* "Auto-Sleep: After configured idle time, components hibernate automatically"
\* (README, "How It Works"): without traffic the request for Awake is withdrawn.
\* A lost status update is not repeated, so the code breaks this.
NoMoreTraffic == <>[][\A r \in Requests : ~Arrive(r)]_vars
AutoSleep == NoMoreTraffic => <>[](desired # "Awake")
=============================================================================
