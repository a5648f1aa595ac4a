-------------------------- MODULE WaitingPageProofs --------------------------
(***************************************************************************)
(* What the waiting pages are told, for any number of pages, goroutines    *)
(* and other requests, any number of broken connections and channels of    *)
(* any capacity.                                                           *)
(*                                                                         *)
(* An update sets the status before it is broadcast, and a page registers  *)
(* its channel before it reads the status.  So whoever makes the status    *)
(* Awake still owes a broadcast, and a broadcast finds every page either   *)
(* registered or about to read the status.                                 *)
(***************************************************************************)
EXTENDS WaitingPage, VersionLemmas

\* What is said comes from p.state, or from the status as somebody has read it.
Known ==
  /\ pstate \in P!ProxyStates /\ state \in P!ReadStates
  /\ saw \in [P!Processes -> P!ReadStates]

\* The inductive invariant.
Inv == Known /\ TypeOK /\ NoOneForgotten

(***************************************************************************)
(* The operators                                                           *)
(***************************************************************************)
\* An offered message is in the channel, unless the channel is full, and takes nothing out.
LEMMA OfferedEffect ==
  ASSUME NEW T, NEW q \in Seq(T), NEW s \in T, Len(q) =< Buffer
  PROVE  /\ Offered(q, s) \in Seq(T) /\ Len(Offered(q, s)) =< Buffer
         /\ Range(q) \subseteq Range(Offered(q, s))
         /\ s \in Range(Offered(q, s)) \/ Len(q) = Buffer
<1>1. CASE Len(q) < Buffer
  <2>1. /\ Append(q, s) \in Seq(T) /\ Len(Append(q, s)) = Len(q) + 1
        /\ Range(Append(q, s)) = Range(q) \cup {s}
    BY AppendProperties, RangeOfAppend
  <2> QED
    BY <1>1, <2>1, LenProperties, BoundsAssumption DEF Offered
<1>2. CASE ~(Len(q) < Buffer)
  BY <1>2, LenProperties, BoundsAssumption DEF Offered
<1> QED
  BY <1>1, <1>2

\* Whatever the proxy does, it goes by states that there are.
LEMMA SeenStep ==
  ASSUME Known, NEW p \in P!Processes, NEW x \in P!ReadStates, saw' = [saw EXCEPT ![p] = x]
  PROVE  saw' \in [P!Processes -> P!ReadStates] /\ saw[p] \in P!ReadStates
BY DEF Known

\* A wake goroutine sets p.state to a state there is, and writes back what it has read.
LEMMA WakerKnows ==
  ASSUME Known, NEW w \in Wakers, P!WakerStep(w)
  PROVE  Known'
<1>1. w \in P!Processes /\ state \in P!ReadStates /\ "" \in P!ReadStates
      /\ {"Sleeping", "Waking", "Awake"} = P!ProxyStates
  BY DEF Known, P!Processes, P!Writers, P!ReadStates, P!ProxyStates
<1>2. pstate' \in P!ProxyStates
  BY <1>1 DEF Known, P!WakerStep, P!Enter, P!Announce, P!WakeGet, P!WakePut, P!Poll,
              P!Progress, P!Ready, P!Open, P!Opened, P!WakeFails, P!UpdateStatus, P!proxy
<1>3. \/ UNCHANGED <<saw, state>>
      \/ saw' \in {[saw EXCEPT ![w] = ""], [saw EXCEPT ![w] = state]} /\ state' = state
      \/ saw' = [saw EXCEPT ![w] = ""] /\ state' = saw[w]
  BY DEF P!WakerStep, P!Enter, P!Announce, P!WakeGet, P!WakePut, P!Poll, P!Progress,
         P!Ready, P!Open, P!Opened, P!WakeFails, P!Get, P!Put, P!Drop, P!Exit, P!status
<1> QED
  BY <1>1, <1>2, <1>3, SeenStep DEF Known

\* So does whoever puts the service to sleep.
LEMMA SleeperKnows ==
  ASSUME Known, NEW s \in P!Sleepers, P!SleeperStep(s)
  PROVE  Known'
<1>1. s \in P!Processes /\ state \in P!ReadStates /\ "" \in P!ReadStates
      /\ {"Sleeping", "Waking", "Awake"} = P!ProxyStates
  BY DEF Known, P!Processes, P!Writers, P!ReadStates, P!ProxyStates
<1>2. pstate' \in P!ProxyStates
  BY <1>1 DEF Known, P!SleeperStep, P!SleepEnter, P!SetSleeping, P!SleepGet, P!SleepPut,
              P!proxy
<1>3. \/ UNCHANGED <<saw, state>>
      \/ saw' \in {[saw EXCEPT ![s] = ""], [saw EXCEPT ![s] = state]} /\ state' = state
      \/ saw' = [saw EXCEPT ![s] = ""] /\ state' = saw[s]
  BY DEF P!SleeperStep, P!SleepEnter, P!SetSleeping, P!SleepGet, P!SleepPut,
         P!Get, P!Put, P!Drop, P!status
<1> QED
  BY <1>1, <1>2, <1>3, SeenStep DEF Known

\* What does not move a page and says nothing leaves the pages alone.
LEMMA SilentStep ==
  ASSUME Inv, Known', UNCHANGED <<wakeStatus, say, stream>>
  PROVE  Inv'
BY DEF Inv, TypeOK, NoOneForgotten, WillHear, stream

\* A goroutine that says something owes it to the pages; else nothing changes for them.
LEMMA GoroutineStep ==
  ASSUME Inv, NEW p \in P!Writers, NEW ACTION A, Goroutine(p, A), Known'
  PROVE  Inv'
<1>1. CASE Speaks(p)
  <2>1. /\ wakeStatus' = pstate' /\ say' = [say EXCEPT ![p] = pstate']
        /\ UNCHANGED <<page, ch, missed, cuts>>
    BY <1>1 DEF Goroutine, stream
  <2>2. say'[p] = pstate' /\ say' \in [P!Writers -> P!ProxyStates \cup {Nothing}]
    BY <2>1 DEF Inv, Known, TypeOK
  <2>3. TypeOK'
    BY <2>1, <2>2 DEF Inv, Known, TypeOK
  <2>4. NoOneForgotten'
    BY <2>1, <2>2 DEF NoOneForgotten, WillHear
  <2> QED
    BY <2>3, <2>4 DEF Inv
<1>2. CASE ~Speaks(p)
  BY <1>2, SilentStep DEF Goroutine
<1> QED
  BY <1>1, <1>2

\* A broadcast pays what was owed: into every channel of a page that has read the
\* status, or else the page is among the missed.
LEMMA BroadcastStep ==
  ASSUME Inv, NEW p \in P!Writers, Broadcast(p)
  PROVE  Inv'
<1> DEFINE s == say[p]
<1>1. /\ s \in P!ProxyStates
      /\ say' = [say EXCEPT ![p] = Nothing]
      /\ UNCHANGED <<pstate, state, saw, wakeStatus, page>>
      /\ say \in [P!Writers -> P!ProxyStates \cup {Nothing}]
  BY DEF Broadcast, Inv, TypeOK, proxy
<1>2. \A g \in Pages :
        /\ ch'[g] \in Seq(P!ProxyStates) /\ Len(ch'[g]) =< Buffer
        /\ Range(ch[g]) \subseteq Range(ch'[g])
        /\ Subscribed(g) => s \in Range(ch'[g]) \/ Len(ch[g]) = Buffer
  <2> SUFFICES ASSUME NEW g \in Pages
               PROVE  /\ ch'[g] \in Seq(P!ProxyStates) /\ Len(ch'[g]) =< Buffer
                      /\ Range(ch[g]) \subseteq Range(ch'[g])
                      /\ Subscribed(g) => s \in Range(ch'[g]) \/ Len(ch[g]) = Buffer
    OBVIOUS
  <2>1. ch[g] \in Seq(P!ProxyStates) /\ Len(ch[g]) =< Buffer
    BY DEF Inv, TypeOK
  <2>2. ch'[g] = IF Subscribed(g) THEN Offered(ch[g], s) ELSE ch[g]
    BY DEF Broadcast
  <2> HIDE DEF s
  <2> QED
    BY <1>1, <2>1, <2>2, OfferedEffect
<1>3. TypeOK'
  <2>1. ch' \in [Pages -> Seq(P!ProxyStates)]
    BY <1>2 DEF Broadcast
  <2>2. missed' \subseteq Pages
    BY DEF Broadcast, Inv, TypeOK
  <2>3. say' \in [P!Writers -> P!ProxyStates \cup {Nothing}]
    BY <1>1
  <2> QED
    BY <1>1, <1>2, <2>1, <2>2, <2>3 DEF Inv, TypeOK
<1>4. NoOneForgotten'
  <2> SUFFICES ASSUME wakeStatus = "Awake", NEW g \in Pages
               PROVE  WillHear(g)' \/ g \in missed'
    BY <1>1 DEF NoOneForgotten
  <2>1. CASE s = "Awake"
    <3>1. Greeted(g) /\ Len(ch[g]) = Buffer => g \in missed'
      BY <2>1 DEF Broadcast
    <3>2. Greeted(g) => "Awake" \in Range(ch'[g]) \/ Len(ch[g]) = Buffer
      BY <1>2, <2>1 DEF Greeted, Subscribed
    <3> QED
      BY <1>1, <3>1, <3>2 DEF WillHear, Greeted
  <2>2. CASE s # "Awake"
    <3>1. missed' = missed
      BY <2>2 DEF Broadcast
    <3>2. \A q \in P!Writers : say[q] = "Awake" => say'[q] = "Awake"
      BY <1>1, <2>2
    <3>3. WillHear(g) \/ g \in missed
      BY DEF Inv, NoOneForgotten
    <3> QED
      BY <1>1, <1>2, <3>1, <3>2, <3>3 DEF WillHear
  <2> QED
    BY <2>1, <2>2
<1> QED
  BY <1>1, <1>3, <1>4 DEF Inv, Known

\* The error handler makes the status Awake without a word: it leaves the pages that
\* have read the status behind.
LEMMA AdoptStep ==
  ASSUME Inv, NEW r, Adopt(r)
  PROVE  Inv'
<1>1. Known'
  BY DEF Adopt, Inv, Known, P!Adopted, P!ProxyStates
<1>2. UNCHANGED <<say, page, ch>>
  BY DEF Adopt
<1>3. wakeStatus' \in P!ProxyStates
  <2>1. \/ wakeStatus' = "Awake" \/ wakeStatus' = wakeStatus
        \/ wakeStatus' = state /\ state # ""
    BY DEF Adopt
  <2> QED
    BY <2>1 DEF Inv, Known, TypeOK, P!ReadStates, P!ProxyStates
<1>4. missed' = IF wakeStatus' = "Awake" /\ wakeStatus # "Awake"
                THEN {g \in Pages : Greeted(g)} ELSE missed
  BY DEF Adopt
<1>5. TypeOK'
  BY <1>2, <1>3, <1>4 DEF Inv, TypeOK
<1>6. NoOneForgotten'
  BY <1>2, <1>4 DEF Inv, NoOneForgotten, WillHear, Greeted
<1> QED
  BY <1>1, <1>5, <1>6 DEF Inv

(***************************************************************************)
(* The pages                                                               *)
(***************************************************************************)
\* A page that is not listening, or no longer, will read the status when it comes back;
\* the others are none the wiser.
LEMMA PageMoves ==
  ASSUME Inv, Known', NEW g \in Pages, NEW l \in PageLabels, PageGoes(g, l),
         UNCHANGED <<wakeStatus, say>>,
         ch' \in [Pages -> Seq(P!ProxyStates)], \A h \in Pages : Len(ch'[h]) =< Buffer,
         \A h \in Pages \ {g} : ch'[h] = ch[h],
         missed' \in {missed, missed \ {g}},
         wakeStatus = "Awake" => l # "streaming"
  PROVE  Inv'
<1>1. \A h \in Pages : page'[h] = IF h = g THEN l ELSE page[h]
  BY DEF PageGoes, Inv, TypeOK
<1>2. TypeOK'
  BY DEF PageGoes, Inv, TypeOK
<1>3. NoOneForgotten'
  <2> SUFFICES ASSUME wakeStatus = "Awake", NEW h \in Pages
               PROVE  WillHear(h)' \/ h \in missed'
    BY DEF NoOneForgotten
  <2>1. CASE h = g
    BY <1>1, <2>1 DEF WillHear
  <2>2. CASE h # g
    <3>1. WillHear(h) \/ h \in missed
      BY DEF Inv, NoOneForgotten
    <3> QED
      BY <1>1, <2>2, <3>1 DEF WillHear
  <2> QED
    BY <2>1, <2>2
<1> QED
  BY <1>2, <1>3 DEF Inv

\* An emptied channel is one.
LEMMA EmptiedChannel ==
  ASSUME TypeOK, NEW g \in Pages, ch' = [ch EXCEPT ![g] = << >>]
  PROVE  /\ ch' \in [Pages -> Seq(P!ProxyStates)] /\ \A h \in Pages : Len(ch'[h]) =< Buffer
         /\ \A h \in Pages \ {g} : ch'[h] = ch[h]
<1>1. << >> \in Seq(P!ProxyStates) /\ Len(<< >>) = 0 /\ 0 =< Buffer
  BY BoundsAssumption
<1> QED
  BY <1>1 DEF TypeOK

\* A page that is told of the state s reloads if that is Awake, and goes on if not.
LEMMA ShowsStep ==
  ASSUME Inv, Known', NEW g \in Pages, NEW s, NEW l \in PageLabels, Shows(g, s, l),
         UNCHANGED <<wakeStatus, say>>,
         wakeStatus = "Awake" /\ l = "streaming" => s = "Awake"
  PROVE  Inv'
<1>1. TypeOK
  BY DEF Inv
<1>2. "ready" \in PageLabels
  BY DEF PageLabels
<1>3. CASE s = "Awake"
  BY <1>1, <1>2, <1>3, EmptiedChannel, PageMoves DEF Shows
<1>4. CASE s # "Awake"
  BY <1>1, <1>4, PageMoves DEF Shows, TypeOK
<1> QED
  BY <1>3, <1>4

\* A message that is not Awake can be taken out of the channel.
LEMMA HearStep ==
  ASSUME Inv, Known', NEW g \in Pages, Hear(g)
  PROVE  Inv'
<1>1. TypeOK /\ "streaming" \in PageLabels
  BY DEF Inv, PageLabels
<1>2. UNCHANGED <<wakeStatus, say>>
  BY DEF Hear
<1>3. CASE Head(ch[g]) = "Awake"
  BY <1>1, <1>2, <1>3, ShowsStep DEF Hear
<1>4. CASE Head(ch[g]) # "Awake"
  <2> DEFINE t == Tail(ch[g])
  <2>1. ch' = [ch EXCEPT ![g] = t] /\ UNCHANGED <<page, missed>>
    BY <1>4 DEF Hear
  <2>2. /\ ch[g] \in Seq(P!ProxyStates) /\ ch[g] # << >> /\ Len(ch[g]) =< Buffer
        /\ Len(ch[g]) \in Nat
    BY <1>1, LenProperties DEF Hear, TypeOK
  <2>3. /\ t \in Seq(P!ProxyStates) /\ Len(t) =< Len(ch[g]) /\ Len(t) \in Nat
        /\ "Awake" \in Range(ch[g]) => "Awake" \in Range(t)
    BY <1>4, <2>2, HeadAndTail, LenProperties
  <2>4. Len(t) =< Buffer
    BY <2>2, <2>3, BoundsAssumption
  <2> HIDE DEF t
  <2>5. \A h \in Pages : ch'[h] = IF h = g THEN t ELSE ch[h]
    BY <1>1, <2>1 DEF TypeOK
  <2>6. TypeOK'
    BY <1>1, <1>2, <2>1, <2>3, <2>4, <2>5 DEF TypeOK
  <2>7. NoOneForgotten'
    BY <1>2, <2>1, <2>3, <2>5 DEF Inv, NoOneForgotten, WillHear
  <2> QED
    BY <2>6, <2>7 DEF Inv
<1> QED
  BY <1>3, <1>4

\* Whatever a page does keeps the invariant.
LEMMA PagesKeep ==
  ASSUME Inv, NEW g \in Pages, PageStep(g) \/ Load(g) \/ Cut(g)
  PROVE  Inv'
<1>1. /\ TypeOK /\ UNCHANGED <<wakeStatus, say>>
      /\ {"out", "rendering", "connecting", "subscribed", "streaming"} \subseteq PageLabels
  BY DEF Inv, PageLabels, PageStep, Render, Subscribe, Greet, Hear, Load, Cut
<1>2. Known'
  BY DEF Inv, Known, PageStep, Render, Subscribe, Greet, Hear, Load, Cut, proxy
<1>3. CASE Render(g)
  BY <1>1, <1>2, <1>3, ShowsStep DEF Render
<1>4. CASE Subscribe(g)
  BY <1>1, <1>2, <1>4, PageMoves DEF Subscribe, TypeOK
<1>5. CASE Greet(g)
  BY <1>1, <1>2, <1>5, ShowsStep DEF Greet
<1>6. CASE Hear(g)
  BY <1>2, <1>6, HearStep
<1>7. CASE Load(g)
  <2>1. UNCHANGED <<ch, missed>> /\ (PageGoes(g, "out") \/ PageGoes(g, "rendering"))
    BY <1>7 DEF Load
  <2> QED
    BY <1>1, <1>2, <2>1, PageMoves DEF TypeOK
<1>8. CASE Cut(g)
  BY <1>1, <1>2, <1>8, EmptiedChannel, PageMoves DEF Cut
<1> QED
  BY <1>3, <1>4, <1>5, <1>6, <1>7, <1>8 DEF PageStep

(***************************************************************************)
(* The theorems                                                            *)
(***************************************************************************)
\* At first nobody knows anything.
LEMMA InitInv == Init => Inv
<1> SUFFICES ASSUME Init PROVE Inv
  OBVIOUS
<1>1. Known /\ wakeStatus = "Sleeping" /\ "Sleeping" \in P!ProxyStates
  BY DEF Init, P!Init, Known, P!ProxyStates, P!ReadStates
<1>2. << >> \in Seq(P!ProxyStates) /\ Len(<< >>) = 0 /\ 0 =< Buffer
  BY BoundsAssumption
<1>3. TypeOK
  BY <1>1, <1>2 DEF Init, TypeOK, PageLabels
<1>4. NoOneForgotten
  BY <1>1 DEF NoOneForgotten
<1> QED
  BY <1>1, <1>3, <1>4 DEF Inv

\* Every step keeps the invariant.
LEMMA StepInv == Inv /\ [Next]_vars => Inv'
<1> SUFFICES ASSUME Inv, [Next]_vars PROVE Inv'
  OBVIOUS
<1>0. Known /\ \A w \in Wakers : w \in P!Writers
  BY DEF Inv, P!Writers
<1>1. ASSUME NEW w \in Wakers, WakerStep(w) PROVE Inv'
  BY <1>0, <1>1, WakerKnows, GoroutineStep DEF WakerStep, Goroutine
<1>2. ASSUME NEW s \in P!Sleepers, SleeperStep(s) PROVE Inv'
  <2>1. s \in P!Writers
    BY DEF P!Writers
  <2> QED
    BY <1>0, <1>2, <2>1, SleeperKnows, GoroutineStep DEF SleeperStep, Goroutine
<1>3. ASSUME NEW p \in P!Writers, Broadcast(p) PROVE Inv'
  BY <1>3, BroadcastStep
<1>4. ASSUME NEW r \in Requests, RequestStep(r) \/ Visit(r) PROVE Inv'
  <2>1. CASE Adopt(r)
    BY <2>1, AdoptStep
  <2>2. CASE Silently(P!NoteActivity(r) \/ P!Served(r)) \/ Visit(r)
    <3>1. Known' /\ UNCHANGED <<wakeStatus, say, stream>>
      BY <1>0, <2>2
      DEF Silently, Visit, P!NoteActivity, P!Served, P!Arrive, Known, P!status,
          P!proxy
    <3> QED
      BY <3>1, SilentStep
  <2> QED
    BY <1>4, <2>1, <2>2 DEF RequestStep
<1>5. CASE \/ \E w \in Wakers : Silently(P!Timeout(w))
           \/ \E s \in P!Sleepers : Silently(say[s] = Nothing /\ P!Tick(s))
           \/ Silently(P!Reconcile) \/ Silently(pstate = "Awake" /\ P!IdlePasses)
           \/ UNCHANGED vars
  <2>1. UNCHANGED <<wakeStatus, say, stream>> /\ UNCHANGED <<pstate, saw>>
    BY <1>5 DEF Silently, P!Timeout, P!Tick, P!Reconcile, P!IdlePasses, P!status, P!proxy,
                vars, proxy
  <2>2. state' = state \/ state' \in {"Waking", "Awake", "Sleeping"}
    BY <1>5 DEF Silently, P!Timeout, P!Tick, P!Reconcile, P!IdlePasses, P!status, vars, proxy
  <2>3. Known'
    BY <1>0, <2>1, <2>2 DEF Known, P!ReadStates, P!ProxyStates
  <2> QED
    BY <2>1, <2>3, SilentStep
<1>6. ASSUME NEW g \in Pages, PageStep(g) \/ Load(g) \/ Cut(g) PROVE Inv'
  BY <1>6, PagesKeep
<1> QED
  BY <1>1, <1>2, <1>3, <1>4, <1>5, <1>6 DEF Next

\* Every reachable state satisfies the inductive invariant.
THEOREM Invariance == Spec => []Inv
<1> QED
  BY InitInv, StepInv, PTL DEF Spec

\* Every variable has its type, and no channel ever holds more than it can.
THEOREM TypeCorrect == Spec => []TypeOK
<1>1. Inv => TypeOK
  BY DEF Inv
<1> QED
  BY <1>1, Invariance, PTL

\* However subscriptions, updates and broadcasts cross, an open service has told every
\* page, or is about to, but for the pages whose channel was full and those that read
\* the status before checkAndUpdateState adopted another.
THEOREM NobodyForgotten == Spec => []NoOneForgotten
<1>1. Inv => NoOneForgotten
  BY DEF Inv
<1> QED
  BY <1>1, Invariance, PTL
=============================================================================
