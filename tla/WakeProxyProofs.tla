--------------------------- MODULE WakeProxyProofs ---------------------------
(***************************************************************************)
(* The proxy's half of the status contract, for any number of requests and *)
(* wake goroutines, with and without debug endpoints, and any number of    *)
(* faults.  It rests on optimistic locking: whoever may still write the    *)
(* status has seen the state that is stored.                               *)
(***************************************************************************)
EXTENDS WakeProxy, TLAPS

\* A copy that the API server would still accept carries the stored state, and its
\* reader is about to write it.
FreshHasSeen == \A p \in fresh : saw[p] = state
FreshIsWriting == \A p \in fresh : pc[p] = "put"

Inv == TypeOK /\ FreshHasSeen /\ FreshIsWriting

\* The type invariant in three parts: program counters, reads, everything else.
PcOK ==
  /\ pc \in [Processes -> RequestLabels \cup WakerLabels \cup SleeperLabels]
  /\ \A r \in Requests : pc[r] \in RequestLabels
  /\ \A w \in Wakers : pc[w] \in WakerLabels
  /\ \A s \in Sleepers : pc[s] \in SleeperLabels
SawOK == saw \in [Processes -> ReadStates]
RestOK ==
  /\ desired \in {"", "Sleeping", "Awake"} /\ state \in ReadStates
  /\ pstate \in ProxyStates /\ idle \in BOOLEAN /\ faults \in 0 .. MaxFaults
  /\ cancel \in Wakers \cup {None} /\ cancelled \subseteq Wakers
  /\ fresh \subseteq Writers

\* The parts make up the whole.
LEMMA Parts == TypeOK <=> PcOK /\ SawOK /\ RestOK
BY DEF TypeOK, PcOK, SawOK, RestOK

\* After a step as well.
LEMMA PartsNext == PcOK' /\ SawOK' /\ RestOK' => TypeOK'
BY DEF TypeOK, PcOK, SawOK, RestOK

\* Requests, goroutines and sleepers are different processes.
LEMMA Kinds ==
  /\ Requests \subseteq Processes /\ Writers \subseteq Processes
  /\ Wakers \subseteq Writers /\ Sleepers \subseteq Writers
  /\ Requests \cap Wakers = {} /\ Requests \cap Sleepers = {} /\ Wakers \cap Sleepers = {}
BY NamesAssumption DEF Processes, Writers

\* A goroutine moves among its own labels.
LEMMA WakerGoes ==
  ASSUME PcOK, NEW w \in Wakers, NEW l \in WakerLabels, Goto(w, l)
  PROVE  PcOK'
BY Kinds DEF PcOK, Goto

\* So does a sleeper ...
LEMMA SleeperGoes ==
  ASSUME PcOK, NEW s \in Sleepers, NEW l \in SleeperLabels, Goto(s, l)
  PROVE  PcOK'
BY Kinds DEF PcOK, Goto

\* ... and a request.
LEMMA RequestGoes ==
  ASSUME PcOK, NEW r \in Requests, NEW l \in RequestLabels, Goto(r, l)
  PROVE  PcOK'
BY Kinds DEF PcOK, Goto

\* Starting a goroutine moves two processes at once.
LEMMA SpawnGoes ==
  ASSUME PcOK, NEW r \in Requests, NEW w \in Wakers, NEW l \in RequestLabels,
         Spawn(r, w, l)
  PROVE  PcOK'
BY Kinds DEF PcOK, Spawn, WakerLabels

\* A process remembers what it reads.
LEMMA ProcessSees ==
  ASSUME SawOK, NEW p \in Processes, NEW s \in ReadStates, saw' = [saw EXCEPT ![p] = s]
  PROVE  SawOK' /\ saw'[p] = s /\ \A q \in Processes \ {p} : saw'[q] = saw[q]
BY DEF SawOK

\* The first half of a status update: the reader's copy is the stored one.
LEMMA GetStep ==
  ASSUME Inv, NEW p \in Writers, Get(p)
  PROVE  SawOK' /\ FreshHasSeen' /\ fresh' \subseteq Writers /\ UNCHANGED status
<1>1. /\ SawOK' /\ saw'[p] = state /\ \A q \in Processes \ {p} : saw'[q] = saw[q]
  BY ProcessSees, Parts, Kinds DEF Inv, Get, RestOK
<1>2. fresh \subseteq Processes /\ fresh \subseteq Writers
  BY Parts, Kinds DEF Inv, RestOK
<1> QED
  BY <1>1, <1>2 DEF Inv, Get, FreshHasSeen, status

\* The second half: an accepted copy puts back the state that is stored already.
LEMMA PutStep ==
  ASSUME Inv, NEW p \in Writers, NEW d, Put(p, d)
  PROVE  desired' = d /\ state' = state /\ fresh' = {} /\ FreshHasSeen'
BY DEF Put, Stored, Inv, FreshHasSeen

\* A writer that drops its copy cannot write any more.
LEMMA DropStep ==
  ASSUME Inv, NEW p \in Writers, Drop(p), UNCHANGED status
  PROVE  SawOK' /\ FreshHasSeen' /\ fresh' \subseteq Writers
<1>1. /\ SawOK' /\ \A q \in Processes \ {p} : saw'[q] = saw[q]
  BY ProcessSees, Parts, Kinds DEF Inv, Drop, ReadStates
<1>2. fresh \subseteq Processes /\ fresh \subseteq Writers
  BY Parts, Kinds DEF Inv, RestOK
<1> QED
  BY <1>1, <1>2 DEF Inv, Drop, FreshHasSeen, status

\* A process that is not a fresh writer may read or forget what it likes.
LEMMA ReadStep ==
  ASSUME Inv, NEW p \in Processes, NEW s \in ReadStates, saw' = [saw EXCEPT ![p] = s],
         p \notin fresh, UNCHANGED <<state, fresh>>
  PROVE  SawOK' /\ FreshHasSeen'
<1>1. /\ SawOK' /\ \A q \in Processes \ {p} : saw'[q] = saw[q]
  BY ProcessSees, Parts DEF Inv
<1>2. fresh \subseteq Processes
  BY Parts, Kinds DEF Inv, RestOK
<1> QED
  BY <1>1, <1>2 DEF Inv, FreshHasSeen

\* A fault is counted.
LEMMA FaultCounts == ASSUME faults \in 0 .. MaxFaults, Fault PROVE faults' \in 0 .. MaxFaults
BY BoundsAssumption DEF Fault

\* A process that is not about to write goes elsewhere ...
LEMMA MoveStep ==
  ASSUME Inv, NEW p \in Processes, NEW l, pc[p] # "put", Goto(p, l), fresh' \subseteq fresh
  PROVE  FreshIsWriting'
<1>1. \A q \in Processes \ {p} : pc'[q] = pc[q]
  BY Parts DEF Inv, PcOK, Goto
<1>2. fresh \subseteq Processes /\ p \notin fresh
  BY Parts, Kinds DEF Inv, RestOK, FreshIsWriting
<1> QED
  BY <1>1, <1>2 DEF Inv, FreshIsWriting

\* ... and a writer arrives at its write, or leaves it.
LEMMA WriterStep ==
  ASSUME Inv, NEW p \in Writers, NEW l, Goto(p, l), fresh' \subseteq fresh \cup {p},
         l = "put" \/ p \notin fresh'
  PROVE  FreshIsWriting'
<1>1. \A q \in Processes \ {p} : pc'[q] = pc[q]
  BY Parts DEF Inv, PcOK, Goto
<1>2. fresh \subseteq Processes /\ p \in Processes /\ (l = "put" => pc'[p] = "put")
  BY Parts, Kinds DEF Inv, RestOK, PcOK, Goto
<1> QED
  BY <1>1, <1>2 DEF Inv, FreshIsWriting

(***************************************************************************)
(* triggerWake                                                             *)
(***************************************************************************)
\* A step of a goroutine that leaves the status and all copies alone.
LEMMA WakerMoves ==
  ASSUME Inv, NEW w \in Wakers, NEW l \in WakerLabels, pc[w] # "put", Goto(w, l),
         UNCHANGED <<saw, fresh>>, UNCHANGED status, RestOK'
  PROVE  Inv'
<1>1. PcOK' /\ FreshIsWriting'
  BY WakerGoes, MoveStep, Parts, Kinds DEF Inv
<1>2. SawOK' /\ FreshHasSeen'
  BY Parts DEF Inv, SawOK, FreshHasSeen, status
<1> QED
  BY <1>1, <1>2, PartsNext DEF Inv

\* A goroutine that ends drops its copy.
LEMMA ExitStep ==
  ASSUME Inv, NEW w \in Wakers, pc[w] # "put", Exit(w), UNCHANGED status, UNCHANGED <<idle, faults>>,
         pstate' \in ProxyStates
  PROVE  Inv'
<1>1. SawOK' /\ FreshHasSeen' /\ fresh' \subseteq Writers /\ fresh' \subseteq fresh
  BY DropStep, Kinds DEF Exit, Drop
<1>2. PcOK' /\ FreshIsWriting'
  BY <1>1, WakerGoes, MoveStep, Parts, Kinds DEF Inv, Exit, WakerLabels
<1>3. RestOK'
  BY <1>1, Parts DEF Inv, RestOK, Exit, status
<1> QED
  BY <1>1, <1>2, <1>3, PartsNext DEF Inv

\* What a goroutine does to the status, and that it keeps the invariant.
LEMMA WakerKeeps ==
  ASSUME Inv, NEW w \in Wakers, WakerStep(w)
  PROVE  Inv' /\ state' = state /\ desired' \in {desired, "Awake"}
<1>1. CASE Enter(w)
  <2>1. RestOK' /\ pc[w] # "put" /\ UNCHANGED status /\ UNCHANGED <<saw, fresh>>
    BY <1>1, Parts DEF Inv, RestOK, Enter, ProxyStates, status
  <2>2. PICK l \in WakerLabels : Goto(w, l)
    BY <1>1 DEF Enter, WakerLabels
  <2> QED
    BY <2>1, <2>2, WakerMoves DEF status
<1>2. CASE Announce(w)
  <2>1. RestOK' /\ pc[w] # "put" /\ UNCHANGED status /\ UNCHANGED <<saw, fresh>>
    BY <1>2, Parts DEF Inv, RestOK, Announce, UpdateStatus, ProxyStates, status
  <2>2. PICK l \in WakerLabels : Goto(w, l)
    BY <1>2 DEF Announce, WakerLabels
  <2> QED
    BY <2>1, <2>2, WakerMoves DEF status
<1>3. CASE WakeGet(w)
  <2>1. pc[w] # "put" /\ UNCHANGED proxy
    BY <1>3 DEF WakeGet
  <2>2. CASE Get(w) /\ Goto(w, "put") /\ UNCHANGED faults
    <3>1. /\ SawOK' /\ FreshHasSeen' /\ fresh' \subseteq Writers /\ UNCHANGED status
      BY <2>2, GetStep, Kinds
    <3>2. PcOK' /\ FreshIsWriting'
      BY <2>2, WakerGoes, WriterStep, Parts, Kinds DEF Inv, Get, WakerLabels
    <3>3. RestOK'
      BY <2>1, <2>2, <3>1, Parts DEF Inv, RestOK, proxy, status
    <3> QED
      BY <3>1, <3>2, <3>3, PartsNext DEF Inv, status
  <2>3. CASE /\ Goto(w, "fail") /\ UNCHANGED status /\ UNCHANGED <<saw, fresh>>
             /\ UNCHANGED faults \/ Fault
    <3>1. RestOK'
      BY <2>1, <2>3, FaultCounts, Parts DEF Inv, RestOK, proxy, status
    <3> QED
      BY <2>1, <2>3, <3>1, WakerMoves DEF WakerLabels, status
  <2> QED
    BY <1>3, <2>2, <2>3 DEF WakeGet
<1>4. CASE WakePut(w)
  <2>1. UNCHANGED proxy
    BY <1>4 DEF WakePut
  <2>2. CASE /\ Put(w, "Awake") /\ saw' = [saw EXCEPT ![w] = ""] /\ UNCHANGED faults
             /\ Goto(w, IF w \in cancelled THEN "fail" ELSE "asked")
    <3>1. desired' = "Awake" /\ state' = state /\ fresh' = {} /\ FreshHasSeen'
      BY <2>2, PutStep, Kinds
    <3>2. SawOK'
      BY <2>2, ProcessSees, Parts, Kinds DEF Inv, ReadStates
    <3>3. PcOK' /\ FreshIsWriting'
      BY <2>2, <3>1, WakerGoes, Parts DEF Inv, WakerLabels, FreshIsWriting
    <3>4. RestOK'
      BY <2>1, <2>2, <3>1, Parts DEF Inv, RestOK, proxy
    <3> QED
      BY <3>1, <3>2, <3>3, <3>4, PartsNext DEF Inv
  <2>3. CASE /\ Drop(w) /\ Goto(w, "fail") /\ UNCHANGED status
             /\ UNCHANGED faults \/ Fault
    <3>1. SawOK' /\ FreshHasSeen' /\ fresh' \subseteq Writers
      BY <2>3, DropStep, Kinds
    <3>2. PcOK' /\ FreshIsWriting'
      BY <2>3, WakerGoes, WriterStep, Parts, Kinds DEF Inv, Drop, WakerLabels
    <3>3. RestOK'
      BY <2>1, <2>3, <3>1, FaultCounts, Parts DEF Inv, RestOK, proxy, status
    <3> QED
      BY <2>3, <3>1, <3>2, <3>3, PartsNext DEF Inv, status
  <2> QED
    BY <1>4, <2>2, <2>3 DEF WakePut, status
<1>5. CASE Poll(w)
  <2>1. pc[w] # "put" /\ w \notin fresh /\ state \in ReadStates
    BY <1>5, Parts DEF Inv, Poll, FreshIsWriting, RestOK
  <2>2. SawOK' /\ FreshHasSeen'
    BY <1>5, <2>1, ReadStep, Kinds DEF Poll, status
  <2>3. PcOK' /\ FreshIsWriting'
    BY <1>5, <2>1, WakerGoes, MoveStep, Parts, Kinds DEF Inv, Poll, WakerLabels
  <2>4. RestOK'
    BY <1>5, Parts DEF Inv, RestOK, Poll, proxy, status
  <2> QED
    BY <1>5, <2>2, <2>3, <2>4, PartsNext DEF Inv, Poll, status
<1>6. CASE Progress(w)
  <2>1. pc[w] # "put" /\ w \notin fresh
    BY <1>6 DEF Inv, Progress, FreshIsWriting
  <2>2. SawOK' /\ FreshHasSeen'
    BY <1>6, <2>1, ReadStep, Kinds DEF Progress, status, ReadStates
  <2>3. PICK l \in WakerLabels : Goto(w, l)
    BY <1>6 DEF Progress, WakerLabels
  <2>4. PcOK' /\ FreshIsWriting'
    BY <1>6, <2>1, <2>3, WakerGoes, MoveStep, Parts, Kinds DEF Inv, Progress
  <2>5. RestOK'
    BY <1>6, Parts DEF Inv, RestOK, Progress, UpdateStatus, ProxyStates, status
  <2> QED
    BY <1>6, <2>2, <2>4, <2>5, PartsNext DEF Inv, Progress, status
<1>7. CASE Ready(w)
  <2>1. RestOK' /\ pc[w] # "put" /\ Goto(w, "open") /\ UNCHANGED status /\ UNCHANGED <<saw, fresh>>
    BY <1>7, Parts DEF Inv, RestOK, Ready, UpdateStatus, ProxyStates, status
  <2> QED
    BY <2>1, WakerMoves DEF WakerLabels, status
<1>8. CASE Open(w)
  <2>1. RestOK' /\ pc[w] # "put" /\ Goto(w, "opened") /\ UNCHANGED status /\ UNCHANGED <<saw, fresh>>
    BY <1>8, Parts DEF Inv, RestOK, Open, ProxyStates, status
  <2> QED
    BY <2>1, WakerMoves DEF WakerLabels, status
<1>9. CASE Opened(w)
  BY <1>9, ExitStep DEF Opened, UpdateStatus, ProxyStates, status
<1>10. CASE WakeFails(w)
  BY <1>10, ExitStep DEF WakeFails, UpdateStatus, ProxyStates, status
<1> QED
  BY <1>1, <1>2, <1>3, <1>4, <1>5, <1>6, <1>7, <1>8, <1>9, <1>10 DEF WakerStep

(***************************************************************************)
(* hibernate                                                               *)
(***************************************************************************)
\* A step of a sleeper that leaves the status and all copies alone.
LEMMA SleeperMoves ==
  ASSUME Inv, NEW s \in Sleepers, NEW l \in SleeperLabels, pc[s] # "put", Goto(s, l),
         UNCHANGED <<saw, fresh>>, UNCHANGED status, RestOK'
  PROVE  Inv'
<1>1. PcOK' /\ FreshIsWriting'
  BY SleeperGoes, MoveStep, Parts, Kinds DEF Inv
<1>2. SawOK' /\ FreshHasSeen'
  BY Parts DEF Inv, SawOK, FreshHasSeen, status
<1> QED
  BY <1>1, <1>2, PartsNext DEF Inv

\* What hibernate does to the status, and that it keeps the invariant.
LEMMA SleeperKeeps ==
  ASSUME Inv, NEW s \in Sleepers, SleeperStep(s)
  PROVE  Inv' /\ state' = state /\ desired' \in {desired, "Sleeping"}
<1>1. CASE SleepEnter(s)
  <2>1. RestOK' /\ pc[s] # "put" /\ UNCHANGED status /\ UNCHANGED <<saw, fresh>>
    BY <1>1, Parts DEF Inv, RestOK, SleepEnter, status
  <2>2. PICK l \in SleeperLabels : Goto(s, l)
    BY <1>1 DEF SleepEnter, SleeperLabels
  <2> QED
    BY <2>1, <2>2, SleeperMoves DEF status
<1>2. CASE SetSleeping(s)
  <2>1. RestOK' /\ pc[s] # "put" /\ UNCHANGED status /\ UNCHANGED <<saw, fresh>>
    BY <1>2, Parts DEF Inv, RestOK, SetSleeping, ProxyStates, status
  <2>2. PICK l \in SleeperLabels : Goto(s, l)
    BY <1>2 DEF SetSleeping, SleeperLabels
  <2> QED
    BY <2>1, <2>2, SleeperMoves DEF status
<1>3. CASE SleepGet(s)
  <2>1. pc[s] # "put" /\ UNCHANGED proxy
    BY <1>3 DEF SleepGet
  <2>2. CASE Get(s) /\ Goto(s, "put") /\ UNCHANGED faults
    <3>1. /\ SawOK' /\ FreshHasSeen' /\ fresh' \subseteq Writers /\ UNCHANGED status
      BY <2>2, GetStep, Kinds
    <3>2. PcOK' /\ FreshIsWriting'
      BY <2>2, SleeperGoes, WriterStep, Parts, Kinds DEF Inv, Get, SleeperLabels
    <3>3. RestOK'
      BY <2>1, <2>2, <3>1, Parts DEF Inv, RestOK, proxy, status
    <3> QED
      BY <3>1, <3>2, <3>3, PartsNext DEF Inv, status
  <2>3. CASE Fault /\ Goto(s, "settle") /\ UNCHANGED status /\ UNCHANGED <<saw, fresh>>
    <3>1. RestOK'
      BY <2>1, <2>3, FaultCounts, Parts DEF Inv, RestOK, proxy, status
    <3> QED
      BY <2>1, <2>3, <3>1, SleeperMoves DEF SleeperLabels, status
  <2> QED
    BY <1>3, <2>2, <2>3 DEF SleepGet
<1>4. CASE SleepPut(s)
  <2>1. UNCHANGED proxy /\ Goto(s, "settle")
    BY <1>4 DEF SleepPut
  <2>2. CASE Put(s, "Sleeping") /\ saw' = [saw EXCEPT ![s] = ""] /\ UNCHANGED faults
    <3>1. desired' = "Sleeping" /\ state' = state /\ fresh' = {} /\ FreshHasSeen'
      BY <2>2, PutStep, Kinds
    <3>2. SawOK'
      BY <2>2, ProcessSees, Parts, Kinds DEF Inv, ReadStates
    <3>3. PcOK' /\ FreshIsWriting'
      BY <2>1, <3>1, SleeperGoes, Parts DEF Inv, SleeperLabels, FreshIsWriting
    <3>4. RestOK'
      BY <2>1, <2>2, <3>1, Parts DEF Inv, RestOK, proxy
    <3> QED
      BY <3>1, <3>2, <3>3, <3>4, PartsNext DEF Inv
  <2>3. CASE Drop(s) /\ UNCHANGED status /\ (UNCHANGED faults \/ Fault)
    <3>1. SawOK' /\ FreshHasSeen' /\ fresh' \subseteq Writers
      BY <2>3, DropStep, Kinds
    <3>2. PcOK' /\ FreshIsWriting'
      BY <2>1, <2>3, SleeperGoes, WriterStep, Parts, Kinds DEF Inv, Drop, SleeperLabels
    <3>3. RestOK'
      BY <2>1, <2>3, <3>1, FaultCounts, Parts DEF Inv, RestOK, proxy, status
    <3> QED
      BY <2>3, <3>1, <3>2, <3>3, PartsNext DEF Inv, status
  <2> QED
    BY <1>4, <2>2, <2>3 DEF SleepPut, status
<1> QED
  BY <1>1, <1>2, <1>3, <1>4 DEF SleeperStep

(***************************************************************************)
(* Requests                                                                *)
(***************************************************************************)
\* A step of a request that leaves the status and all copies alone.
LEMMA RequestMoves ==
  ASSUME Inv, NEW r \in Requests, NEW l \in RequestLabels, pc[r] # "put", Goto(r, l),
         UNCHANGED <<saw, fresh>>, UNCHANGED status, RestOK'
  PROVE  Inv'
<1>1. PcOK' /\ FreshIsWriting'
  BY RequestGoes, MoveStep, Parts, Kinds DEF Inv
<1>2. SawOK' /\ FreshHasSeen'
  BY Parts DEF Inv, SawOK, FreshHasSeen, status
<1> QED
  BY <1>1, <1>2, PartsNext DEF Inv

\* A request that reads or forgets the state.
LEMMA RequestReads ==
  ASSUME Inv, NEW r \in Requests, NEW l \in RequestLabels, NEW s \in ReadStates,
         Goto(r, l), saw' = [saw EXCEPT ![r] = s], UNCHANGED fresh, UNCHANGED status, RestOK'
  PROVE  Inv'
<1>1. r \notin fresh /\ r \in Processes /\ pc[r] # "put"
  BY Parts, Kinds, NamesAssumption DEF Inv, RestOK, PcOK, RequestLabels
<1>2. PcOK' /\ FreshIsWriting'
  BY <1>1, RequestGoes, MoveStep, Parts DEF Inv
<1>3. SawOK' /\ FreshHasSeen'
  BY <1>1, ReadStep DEF status
<1> QED
  BY <1>2, <1>3, PartsNext DEF Inv

\* A request that finds the proxy asleep starts a goroutine.
LEMMA SpawnStep ==
  ASSUME Inv, NEW r \in Requests, NEW w \in Wakers, NEW l \in RequestLabels, pc[r] = "out",
         pc[w] = "out", Spawn(r, w, l), UNCHANGED <<saw, fresh>>, UNCHANGED status, RestOK'
  PROVE  Inv'
<1>1. PcOK'
  BY SpawnGoes, Parts DEF Inv
<1>2. SawOK' /\ FreshHasSeen'
  BY Parts DEF Inv, SawOK, FreshHasSeen, status
<1>3. \A p \in fresh : p # r /\ p # w /\ p \in Processes
  BY Parts, Kinds DEF Inv, RestOK, FreshIsWriting
<1>4. \A p \in Processes \ {r, w} : pc'[p] = pc[p]
  BY Parts DEF Inv, PcOK, Spawn
<1>5. FreshIsWriting'
  BY <1>3, <1>4 DEF Inv, FreshIsWriting
<1> QED
  BY <1>1, <1>2, <1>5, PartsNext DEF Inv

\* What the proxy makes of the state is one of its own states.
LEMMA AdoptedIsState ==
  ASSUME NEW p \in ProxyStates, NEW s \in ReadStates
  PROVE  Adopted(p, s) \in ProxyStates
BY DEF Adopted, ProxyStates, ReadStates

\* A request never touches the status.
LEMMA RequestKeeps ==
  ASSUME Inv, NEW r \in Requests, RequestStep(r) \/ Arrive(r)
  PROVE  Inv' /\ UNCHANGED status
<1>0. pc[r] # "put" /\ r \in Processes
  BY Parts, Kinds DEF Inv, PcOK, RequestLabels
<1>1. CASE Release(r) \/ NoteActivity(r) \/ GatewayTimeout(r) \/ Served(r)
  <2>1. RestOK' /\ UNCHANGED status /\ UNCHANGED <<saw, fresh>>
    BY <1>1, Parts DEF Inv, RestOK, Release, NoteActivity, GatewayTimeout, Served, status,
                           proxy
  <2>2. PICK l \in RequestLabels : Goto(r, l)
    BY <1>1 DEF Release, NoteActivity, GatewayTimeout, Served, RequestLabels
  <2> QED
    BY <1>0, <2>1, <2>2, RequestMoves
<1>2. CASE Unavailable(r)
  <2>1. RestOK' /\ UNCHANGED status /\ UNCHANGED fresh /\ state \in ReadStates
    BY <1>2, FaultCounts, Parts DEF Inv, RestOK, Unavailable, status, proxy
  <2>2. saw' = [saw EXCEPT ![r] = state] /\ Goto(r, "check")
    BY <1>2 DEF Unavailable
  <2> QED
    BY <2>1, <2>2, RequestReads DEF RequestLabels
<1>3. CASE CheckAndUpdate(r)
  <2>1. saw[r] \in ReadStates /\ pstate \in ProxyStates
    BY <1>0, Parts DEF Inv, SawOK, RestOK
  <2>2. pstate' \in ProxyStates
    BY <1>3, <2>1, AdoptedIsState DEF CheckAndUpdate
  <2>3. RestOK' /\ UNCHANGED status /\ UNCHANGED fresh
    BY <1>3, <2>2, Parts DEF Inv, RestOK, CheckAndUpdate, status
  <2>4. saw' = [saw EXCEPT ![r] = ""] /\ Goto(r, "out")
    BY <1>3 DEF CheckAndUpdate
  <2> QED
    BY <2>3, <2>4, RequestReads DEF RequestLabels, ReadStates
<1>4. CASE Arrive(r)
  <2>1. RestOK' /\ UNCHANGED status /\ UNCHANGED <<saw, fresh>>
    BY <1>4, Parts DEF Inv, RestOK, Arrive, status, proxy
  <2>2. CASE \E l \in RequestLabels : Goto(r, l)
    BY <1>0, <2>1, <2>2, RequestMoves
  <2>3. CASE \E w \in Wakers, l \in {"held", "out"} : pc[w] = "out" /\ Spawn(r, w, l)
    <3>1. PICK w \in Wakers, l \in RequestLabels : pc[w] = "out" /\ Spawn(r, w, l)
      BY <2>3 DEF RequestLabels
    <3>2. pc[r] = "out"
      BY <1>4 DEF Arrive
    <3> QED
      BY <2>1, <3>1, <3>2, SpawnStep
  <2> QED
    BY <1>4, <2>2, <2>3 DEF Arrive, RequestLabels
<1> QED
  BY <1>1, <1>2, <1>3, <1>4 DEF RequestStep

(***************************************************************************)
(* Around the proxy                                                        *)
(***************************************************************************)
\* A write of the controller's makes every copy stale.
LEMMA ControllerWrites ==
  ASSUME Inv, state' \in ReadStates, fresh' = {}, UNCHANGED <<desired, proxy, pc, saw>>,
         UNCHANGED faults \/ Fault
  PROVE  Inv'
<1>1. PcOK' /\ SawOK'
  BY Parts DEF Inv, PcOK, SawOK
<1>2. RestOK'
  BY FaultCounts, Parts DEF Inv, RestOK, proxy
<1>3. FreshHasSeen' /\ FreshIsWriting'
  BY DEF FreshHasSeen, FreshIsWriting
<1> QED
  BY <1>1, <1>2, <1>3, PartsNext DEF Inv

\* A new pod starts with nothing.
LEMMA RestartKeeps == ASSUME Inv, Restart PROVE Inv' /\ UNCHANGED status
<1>1. PcOK' /\ SawOK'
  BY DEF Restart, PcOK, SawOK, RequestLabels, WakerLabels, SleeperLabels, ReadStates, Processes, Writers
<1>2. pstate' \in ProxyStates
  BY AdoptedIsState, Parts DEF Inv, RestOK, Restart, ProxyStates
<1>3. RestOK'
  BY <1>2, FaultCounts, Parts DEF Inv, RestOK, Restart, status
<1>4. FreshHasSeen' /\ FreshIsWriting'
  BY DEF Restart, FreshHasSeen, FreshIsWriting
<1> QED
  BY <1>1, <1>3, <1>4, PartsNext DEF Inv, Restart, status

\* Every step keeps the invariant, and is allowed by the contract.
LEMMA StepInv ==
  ASSUME Inv, Next
  PROVE  Inv' /\ (S!StatusNext \/ UNCHANGED status)
<1>1. ASSUME NEW w \in Wakers, WakerStep(w)
      PROVE  Inv' /\ (S!StatusNext \/ UNCHANGED status)
  BY <1>1, WakerKeeps DEF S!StatusNext, S!Request, S!Sleeping, S!Awake, status
<1>2. ASSUME NEW w \in Wakers, Timeout(w)
      PROVE  Inv' /\ UNCHANGED status
  <2>1. RestOK' /\ UNCHANGED status
    BY <1>2, FaultCounts, Parts DEF Inv, RestOK, Timeout, status
  <2>2. PcOK' /\ SawOK' /\ FreshHasSeen' /\ FreshIsWriting'
    BY <1>2, Parts DEF Inv, Timeout, PcOK, SawOK, FreshHasSeen, FreshIsWriting, status
  <2> QED
    BY <2>1, <2>2, PartsNext DEF Inv
<1>3. ASSUME NEW w \in Wakers, DebugWake(w)
      PROVE  Inv' /\ UNCHANGED status
  <2>1. RestOK' /\ pc[w] # "put" /\ Goto(w, "start") /\ UNCHANGED status /\ UNCHANGED <<saw, fresh>>
    BY <1>3, Parts DEF Inv, RestOK, DebugWake, status, proxy
  <2> QED
    BY <2>1, WakerMoves DEF WakerLabels
<1>4. ASSUME NEW s \in Sleepers, SleeperStep(s)
      PROVE  Inv' /\ (S!StatusNext \/ UNCHANGED status)
  BY <1>4, SleeperKeeps DEF S!StatusNext, S!Request, S!Sleeping, S!Awake, status
<1>5. ASSUME NEW s \in Sleepers, Tick(s)
      PROVE  Inv' /\ UNCHANGED status
  <2>1. RestOK' /\ pc[s] # "put" /\ Goto(s, "enter") /\ UNCHANGED status /\ UNCHANGED <<saw, fresh>>
    BY <1>5, Parts DEF Inv, RestOK, Tick, status, proxy
  <2> QED
    BY <2>1, SleeperMoves DEF SleeperLabels
<1>6. CASE Restart
  BY <1>6, RestartKeeps
<1>7. CASE IdlePasses
  <2>1. RestOK' /\ UNCHANGED status
    BY <1>7, Parts DEF Inv, RestOK, IdlePasses, status
  <2>2. PcOK' /\ SawOK' /\ FreshHasSeen' /\ FreshIsWriting'
    BY <1>7, Parts DEF Inv, IdlePasses, PcOK, SawOK, FreshHasSeen, FreshIsWriting, status
  <2> QED
    BY <2>1, <2>2, PartsNext DEF Inv
<1>8. CASE Reconcile
  <2>1. state' \in ReadStates
    BY <1>8 DEF Reconcile, ReadStates, ProxyStates
  <2>2. Inv'
    BY <1>8, <2>1, ControllerWrites DEF Reconcile
  <2>3. S!FollowWake \/ S!FollowSleep
    BY <1>8 DEF Reconcile, S!FollowWake, S!FollowSleep, S!Awake, S!Waking, S!Sleeping
  <2> QED
    BY <2>2, <2>3 DEF S!StatusNext
<1>9. CASE Relapse
  <2>1. state' \in ReadStates
    BY <1>9, Parts DEF Inv, RestOK, Relapse, ReadStates, ProxyStates
  <2>2. Inv'
    BY <1>9, <2>1, ControllerWrites DEF Relapse
  <2>3. S!FollowWake \/ UNCHANGED status
    BY <1>9 DEF Relapse, S!FollowWake, S!Awake, S!Waking, status
  <2> QED
    BY <2>2, <2>3 DEF S!StatusNext
<1> QED
  BY <1>1, <1>2, <1>3, <1>4, <1>5, <1>6, <1>7, <1>8, <1>9, RequestKeeps DEF Next

(***************************************************************************)
(* The theorems                                                            *)
(***************************************************************************)
\* Nor does it matter what else happens.
LEMMA QuietInv == ASSUME Inv, UNCHANGED vars PROVE Inv'
BY DEF vars, Inv, TypeOK, FreshHasSeen, FreshIsWriting

\* A new proxy has read nothing.
LEMMA InitInv == Init => Inv
<1> SUFFICES ASSUME Init PROVE Inv
  OBVIOUS
<1>1. PcOK
  BY DEF Init, PcOK, RequestLabels, WakerLabels, SleeperLabels, Processes, Writers
<1>2. SawOK
  BY DEF Init, SawOK, ReadStates
<1>3. RestOK
  <2>1. 0 \in 0 .. MaxFaults
    BY BoundsAssumption
  <2> QED
    BY <2>1 DEF Init, RestOK, ReadStates, ProxyStates
<1>4. FreshHasSeen /\ FreshIsWriting
  BY DEF Init, FreshHasSeen, FreshIsWriting
<1> QED
  BY <1>1, <1>2, <1>3, <1>4, Parts DEF Inv

\* In every reachable state, whoever may still write the status has seen the state
\* that is stored.
THEOREM Invariance == Spec => []Inv
<1>1. Inv /\ [Next]_vars => Inv'
  BY QuietInv, StepInv
<1> QED
  BY InitInv, <1>1, PTL DEF Spec

\* Every variable keeps its type.
THEOREM TypeCorrect == Spec => []TypeOK
<1>1. Inv => TypeOK
  BY DEF Inv
<1> QED
  BY <1>1, Invariance, PTL

\* The proxy keeps its half of the status contract: whatever it writes back, and
\* whenever, it never undoes a state that the controller has reported meanwhile.
THEOREM KeepsContract == Spec => Contract
<1>1. Init => S!StatusInit
  BY DEF Init, S!StatusInit, S!Unset
<1>2. Inv /\ [Next]_vars => [S!StatusNext]_S!svcVars
  BY StepInv DEF vars, status, S!svcVars
<1> QED
  BY <1>1, <1>2, Invariance, PTL DEF Spec, Contract, S!StatusSpec
=============================================================================
