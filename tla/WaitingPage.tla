----------------------------- MODULE WaitingPage -----------------------------
(***************************************************************************)
(* What a browser is told while the service wakes up: the waiting page and *)
(* the status stream behind it (serveWaitingPage, handleSSE, updateStatus  *)
(* and broadcastStatus of cmd/proxy/main.go, the script of waiting.html),  *)
(* on top of the wake proxy of module WakeProxy.                           *)
(*                                                                         *)
(* updateStatus sets p.state and p.wakeStatus together and tells the       *)
(* subscribed pages after it has released the lock, so other updates and   *)
(* new subscriptions come in between; some writers of p.state change only  *)
(* one of the two, or tell nobody.  A page leaves when it hears "awake".   *)
(*                                                                         *)
(* Simplifications.  Of a WakeStatus only the state is kept, as the        *)
(* message and the percentage move no page.  A broadcast reaches all       *)
(* channels at once: pages share none.  A message on its way to the        *)
(* browser counts as still in the channel, and a page that waits to reload *)
(* as no longer listening.  Other requests are of browsers, the error      *)
(* handler reads the status and adopts it in one step, a page that is let  *)
(* through notes its activity at once, and nothing but connections fails:  *)
(* module WakeProxy has the rest.                                          *)
(*                                                                         *)
(* Grown, AsksOnce and Ungreeted are what a mistake in the code would make *)
(* of the operator that follows each.                                      *)
(***************************************************************************)
EXTENDS Integers, Sequences, SequencesExt

CONSTANTS
  Requests, Wakers,              \* bounds, as in WakeProxy
  Pages,                         \* bound: browser windows on the service
  MaxCuts,                       \* bound: connections that break
  Buffer                         \* capacity of a subscriber's channel

ASSUME BoundsAssumption == Buffer \in Nat \ {0} /\ MaxCuts \in Nat

VARIABLES
  desired, state, pstate, cancel, cancelled, pc, saw, fresh, idle,  \* WakeProxy's
  wakeStatus,  \* p.wakeStatus.State
  say,         \* goroutine -> the update it has made and not yet broadcast
  page,        \* page -> how far it is
  ch,          \* page -> its subscriber channel
  missed,      \* history: pages no broadcast has told of the last "awake"
  cuts

P == INSTANCE WakeProxy WITH Debug <- FALSE, faults <- 0, MaxFaults <- 0

proxy == <<desired, state, pstate, cancel, cancelled, pc, saw, fresh, idle>>
stream == <<page, ch, missed, cuts>>
vars == <<proxy, wakeStatus, say, stream>>

Nothing == "nothing"

\* Where a page is: not on the screen (or showing the backend), asked for, rendered and
\* about to connect, connected, greeted, told to reload.
PageLabels == {"out", "rendering", "connecting", "subscribed", "streaming", "ready"}

Greeted(g) == page[g] = "streaming"
Subscribed(g) == page[g] \in {"subscribed", "streaming"}

Init ==
  /\ P!Init /\ wakeStatus = "Sleeping"
  /\ say = [p \in P!Writers |-> Nothing]
  /\ page = [g \in Pages |-> "out"] /\ ch = [g \in Pages |-> << >>]
  /\ missed = {} /\ cuts = 0

-----------------------------------------------------------------------------
(***************************************************************************)
(* The proxy speaks                                                        *)
(***************************************************************************)
\* A step of goroutine p in which it calls updateStatus.
Speaks(p) ==
  IF p \in Wakers
  THEN pc[p] \in {"announce", "asked", "progress", "ready", "opened", "fail"}
       \/ (pc[p] = "poll" /\ p \in cancelled)
  ELSE pc[p] \in {"announce", "settled"}

Goroutine(p, A) ==
  /\ say[p] = Nothing /\ A
  /\ IF Speaks(p)
     THEN wakeStatus' = pstate' /\ say' = [say EXCEPT ![p] = pstate']
     ELSE UNCHANGED <<wakeStatus, say>>
  /\ UNCHANGED stream

\* One subscriber's channel after "ch <- status" with a default branch.
Grown(q, s) == Append(q, s)
Offered(q, s) == IF Len(q) < Buffer THEN Append(q, s) ELSE q

\* broadcastStatus
Broadcast(p) ==
  /\ say[p] # Nothing /\ say' = [say EXCEPT ![p] = Nothing]
  /\ ch' = [g \in Pages |-> IF Subscribed(g) THEN Offered(ch[g], say[p]) ELSE ch[g]]
  /\ missed' = (IF say[p] = "Awake" THEN {g \in Pages : Greeted(g) /\ Len(ch[g]) = Buffer}
                                    ELSE missed)
  /\ UNCHANGED <<proxy, wakeStatus, page, cuts>>

\* Another request finds no backend.  checkAndUpdateState sets both fields, or leaves
\* both alone, and tells nobody.
Adopt(r) ==
  /\ pc[r] = "forward" /\ (state # "Awake" \/ desired # "Awake")
  /\ P!Goto(r, "out") /\ pstate' = P!Adopted(pstate, state)
  /\ wakeStatus' = (CASE state = "Awake" -> "Awake"
                      [] state # "" /\ pstate # "Waking" -> state
                      [] OTHER -> wakeStatus)
  /\ missed' = (IF wakeStatus' = "Awake" /\ wakeStatus # "Awake"
                THEN {g \in Pages : Greeted(g)} ELSE missed)
  /\ UNCHANGED <<desired, state, cancel, cancelled, saw, fresh, idle>>
  /\ UNCHANGED <<say, page, ch, cuts>>

\* A step of the proxy that leaves wakeStatus alone.
Silently(A) == A /\ UNCHANGED <<wakeStatus, say, stream>>

\* A goroutine that still has to broadcast has not ended.
SpawnsFree == \A w \in Wakers : pc[w] = "out" /\ pc'[w] = "start" => say[w] = Nothing

(***************************************************************************)
(* The page                                                                *)
(***************************************************************************)
PageGoes(g, l) == page' = [page EXCEPT ![g] = l]

\* GET: the page is opened, or reloads itself.
AsksOnce(g) == page[g] = "out"
Asks(g) == page[g] \in {"out", "ready"}

Load(g) ==
  /\ Asks(g)
  /\ \/ pstate = "Awake" /\ PageGoes(g, "out") /\ idle' = FALSE /\ UNCHANGED pc
     \/ pstate = "Waking" /\ PageGoes(g, "rendering") /\ UNCHANGED <<pc, idle>>
     \/ /\ pstate = "Sleeping" /\ PageGoes(g, "rendering") /\ UNCHANGED idle
        /\ \E w \in Wakers : pc[w] = "out" /\ P!Goto(w, "start")
        /\ SpawnsFree
  /\ UNCHANGED <<desired, state, pstate, cancel, cancelled, saw, fresh>>
  /\ UNCHANGED <<wakeStatus, say, ch, missed, cuts>>

\* updateUI: the page reloads soon after "awake"; nothing else makes it move.
Shows(g, s, l) ==
  /\ PageGoes(g, IF s = "Awake" THEN "ready" ELSE l)
  /\ ch' = (IF s = "Awake" THEN [ch EXCEPT ![g] = << >>] ELSE ch)
  /\ missed' = (IF s = "Awake" THEN missed \ {g} ELSE missed)

\* serveWaitingPage puts the status of the moment into the page.
Render(g) ==
  /\ page[g] = "rendering" /\ Shows(g, wakeStatus, "connecting")
  /\ UNCHANGED <<proxy, wakeStatus, say, cuts>>

\* handleSSE registers a channel, then reads the status for the first message.
Subscribe(g) ==
  /\ page[g] = "connecting" /\ PageGoes(g, "subscribed")
  /\ UNCHANGED <<proxy, wakeStatus, say, ch, missed, cuts>>

Ungreeted(g) ==
  /\ page[g] = "subscribed" /\ PageGoes(g, "streaming")
  /\ UNCHANGED <<proxy, wakeStatus, say, ch, missed, cuts>>
Greet(g) ==
  /\ page[g] = "subscribed" /\ Shows(g, wakeStatus, "streaming")
  /\ UNCHANGED <<proxy, wakeStatus, say, cuts>>

\* The handler's loop sends what is in the channel, the page shows it.
Hear(g) ==
  /\ page[g] = "streaming" /\ ch[g] # << >>
  /\ IF Head(ch[g]) = "Awake"
     THEN Shows(g, "Awake", "streaming")
     ELSE ch' = [ch EXCEPT ![g] = Tail(@)] /\ UNCHANGED <<page, missed>>
  /\ UNCHANGED <<proxy, wakeStatus, say, cuts>>

\* The connection breaks; the page connects again after three seconds.
Cut(g) ==
  /\ cuts < MaxCuts /\ cuts' = cuts + 1
  /\ Subscribed(g) /\ PageGoes(g, "connecting")
  /\ ch' = [ch EXCEPT ![g] = << >>] /\ missed' = missed \ {g}
  /\ UNCHANGED <<proxy, wakeStatus, say>>

PageStep(g) ==
  Render(g) \/ Subscribe(g) \/ Greet(g) \/ Hear(g)

-----------------------------------------------------------------------------
WakerStep(w) == Goroutine(w, P!WakerStep(w))
SleeperStep(s) == Goroutine(s, P!SleeperStep(s))
RequestStep(r) == Silently(P!NoteActivity(r) \/ P!Served(r)) \/ Adopt(r)

\* Another browser comes.
Visit(r) == Silently(P!Arrive(r) /\ pc'[r] # "held" /\ SpawnsFree)

Next ==
  \/ \E w \in Wakers : WakerStep(w) \/ Silently(P!Timeout(w))
  \/ \E s \in P!Sleepers : SleeperStep(s) \/ Silently(say[s] = Nothing /\ P!Tick(s))
  \/ \E p \in P!Writers : Broadcast(p)
  \/ \E r \in Requests : RequestStep(r) \/ Visit(r)
  \/ Silently(P!Reconcile) \/ Silently(pstate = "Awake" /\ P!IdlePasses)
  \/ \E g \in Pages : PageStep(g) \/ Load(g) \/ Cut(g)

Spec == Init /\ [][Next]_vars

\* The proxy's and the controller's fairness, and a browser that runs the page's script.
\* WF of a broadcast is said of the state, as nothing disables it.
Fairness ==
  /\ \A p \in P!Processes : P!RunsOn(p)
  /\ \A p \in P!Writers : []<>(say[p] = Nothing)
  /\ \A w \in Wakers : SF_vars(Silently(P!Timeout(w)))
  /\ WF_vars(Silently(P!Reconcile))
  /\ \A g \in Pages : WF_vars(PageStep(g)) /\ WF_vars(page[g] = "ready" /\ Load(g))

FairSpec == Spec /\ Fairness

-----------------------------------------------------------------------------
(***************************************************************************)
(* Properties                                                              *)
(***************************************************************************)
\* Every variable has its type, and no channel holds more than it can.
TypeOK ==
  /\ wakeStatus \in P!ProxyStates
  /\ say \in [P!Writers -> P!ProxyStates \cup {Nothing}]
  /\ page \in [Pages -> PageLabels]
  /\ ch \in [Pages -> Seq(P!ProxyStates)] /\ \A g \in Pages : Len(ch[g]) <= Buffer
  /\ missed \subseteq Pages

\* "awake" is on its way to the page, or the page has yet to read the status.
WillHear(g) ==
  \/ page[g] # "streaming"
  \/ "Awake" \in Range(ch[g])
  \/ \E p \in P!Writers : say[p] = "Awake"

\* However subscriptions, updates and broadcasts cross, an open service has told every
\* page that waits for it, or is about to, unless the page's channel was full or the
\* status was adopted without a word.
NoOneForgotten == wakeStatus = "Awake" => \A g \in Pages : WillHear(g) \/ g \in missed

\* Nobody wakes the service, and only a request would change that ("Try Again" makes none).
Abandoned == pstate # "Awake" /\ \A w \in Wakers : pc[w] = "out"

\* "Users see a waiting page with real-time progress" (README, "How It Works"): once
\* hibernations have stopped, no page is left behind by a service that wakes up, however
\* updates, visits and broken connections cross, unless nothing told it.
NoMoreNaps == <>[](pc["monitor"] = "out")
PageGetsThrough ==
  NoMoreNaps =>
    \A g \in Pages : []<>(page[g] = "out") \/ <>[](g \in missed) \/ <>[]Abandoned
=============================================================================
