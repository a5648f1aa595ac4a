------------------------- MODULE ProvisioningProofs -------------------------
(***************************************************************************)
(* The safety of what surrounds the components, for any kinds of           *)
(* resources, any specs, any number of re-creations under one name, caches *)
(* as old as they like and any number of faults.                           *)
(*                                                                         *)
(* The key is the finalizer.  A pass only makes resources once its copy    *)
(* has one; an object with a finalizer stays, under its uid, until a pass  *)
(* takes it off; and no other pass is at work meanwhile.  So a copy with a *)
(* finalizer that is not being deleted, however old, is of the object that *)
(* exists.                                                                 *)
(*                                                                         *)
(* And the version numbers: whatever a pass took for granted that is not   *)
(* so is ahead of a cache, and its delivery starts another pass, or it     *)
(* cannot have changed.                                                    *)
(***************************************************************************)
EXTENDS Provisioning, VersionLemmas

(***************************************************************************)
(* The inductive invariant                                                 *)
(***************************************************************************)
\* Uids are handed out in order, and only objects that exist have a finalizer.
UidsInOrder == \A v \in Range(svc) : v.uid =< uid /\ (v.finalizer => v.uid # 0)
OwnersInOrder == \A k \in Ensured : \A v \in Range(owned[k]) : v.owner =< uid

\* Whoever has seen a finalizer and no deletion has seen the object that exists.
FinalizerHolds ==
  \A v \in Range(svc) :
    v.finalizer /\ ~v.deleting => Current.finalizer /\ v.uid = Current.uid

\* A copy that is fresh is the stored object.
CopyIsCurrent == fresh => pc # "idle" /\ hs = Current

\* What each phase of a pass may rely on.
Marking == pc = "mark" => ~hs.deleting /\ hs.uid # 0 /\ todo = Ensured

LettingGo == pc = "delete" /\ fresh => \A v \in Range(svc) : v.deleting

Ensuring ==
  pc = "ensure" =>
    ~hs.deleting /\ hs.finalizer /\ Current.finalizer
    /\ hs.uid # 0 /\ hs.uid = Current.uid

\* What the proxy's account consists of, once made, stays: nobody collects it.
Account == {k \in Ensured : Rank[k] < 4}

AccountStays ==
  Current.uid # 0 =>
    \A k \in Account : \A v \in Range(owned[k]) :
      v.owner = Current.uid => Actual(k).owner = Current.uid

EnsuredInOrder ==
  pc = "ensure" => \A k \in Account \ todo : Actual(k).owner = Current.uid

\* What concerns the object and the pass, and what concerns the resources.
ServiceInv ==
  /\ UidsInOrder /\ FinalizerHolds /\ CopyIsCurrent
  /\ Marking /\ LettingGo /\ Ensuring
ResourceInv == OwnersInOrder /\ AccountStays /\ EnsuredInOrder /\ AccountFirst

Inv == TypeOK /\ ServiceInv /\ ResourceInv

(***************************************************************************)
(* Types                                                                   *)
(***************************************************************************)
\* The type invariant in three parts: the object, its resources, the pass.
ServiceOK == svc \in Seq(ServiceType) /\ svc # <<>> /\ uid \in 0 .. MaxUid
OwnedOK == owned \in [Ensured -> Seq(ResourceType)] /\ \A k \in Ensured : owned[k] # <<>>
PassOK ==
  /\ queued \in BOOLEAN /\ fresh \in BOOLEAN
  /\ pc \in {"idle", "mark", "delete", "ensure"}
  /\ hs \in ServiceType /\ todo \subseteq Ensured /\ faults \in 0 .. MaxFaults

\* The parts make up the whole ...
LEMMA Parts == TypeOK <=> ServiceOK /\ OwnedOK /\ PassOK
BY DEF TypeOK, ServiceOK, OwnedOK, PassOK

\* ... after a step as well.
LEMMA PartsNext == ServiceOK' /\ OwnedOK' /\ PassOK' => TypeOK'
BY DEF TypeOK, ServiceOK, OwnedOK, PassOK

\* What is there before anything has been created has its type.
LEMMA NothingType == Gone \in ServiceType /\ Absent \in ResourceType
BY BoundsAssumption DEF Gone, Absent, ServiceType, ResourceType

\* What is read of the object and of its resources has its type.
LEMMA ReadTypes ==
  ASSUME TypeOK
  PROVE  /\ Current \in ServiceType /\ Head(svc) \in ServiceType
         /\ \A k \in Ensured : Actual(k) \in ResourceType /\ Head(owned[k]) \in ResourceType
BY LastType DEF TypeOK, Current, Actual

\* Every spec a user has written, or none, is one.
LEMMA SpecOfService == ASSUME NEW h \in ServiceType PROVE h.spec \in SpecType
<1>1. NoSpec \in SpecType
  BY DEF NoSpec, SpecType
<1> QED
  BY <1>1, SpecsAssumption DEF ServiceType

\* What a pass makes of its copy is a resource that belongs to the copy's object.
LEMMA WantedType ==
  ASSUME NEW h \in ServiceType, NEW k
  PROVE  Wanted(k, h) \in ResourceType /\ Wanted(k, h).owner = h.uid
<1>1. h.spec \in SpecType /\ h.uid \in 0 .. MaxUid
  BY SpecOfService DEF ServiceType
<1>2. Ports(h.spec) \in SUBSET Nat /\ {} \in SUBSET Nat
  <2>1. h.spec.ports \in SUBSET Nat
    BY <1>1 DEF SpecType
  <2>2. {80} \in SUBSET Nat /\ {} \in SUBSET Nat
    OBVIOUS
  <2> QED
    BY <2>1, <2>2 DEF Ports
<1>3. Host(h.spec) \in Apps \cup {"", "actual"}
  BY <1>1 DEF Host, SpecType
<1> QED
  BY <1>1, <1>2, <1>3 DEF Wanted, ResourceType

\* A write of the object, by whomever: the written version is the last one.
LEMMA WriteEffect ==
  ASSUME TypeOK, NEW s \in ServiceType, svc' = Append(svc, s)
  PROVE  /\ svc' \in Seq(ServiceType) /\ svc' # <<>> /\ Current' = s
         /\ Range(svc') = Range(svc) \cup {s}
BY LastOfAppend, RangeOfAppend DEF TypeOK, Current

\* A write of a resource.
LEMMA PutEffect ==
  ASSUME TypeOK, NEW k \in Ensured, NEW r \in ResourceType, Put(k, r)
  PROVE  /\ OwnedOK'
         /\ \A j \in Ensured : Actual(j)' = IF j = k THEN r ELSE Actual(j)
         /\ \A j \in Ensured :
              Range(owned'[j]) = IF j = k THEN Range(owned[j]) \cup {r} ELSE Range(owned[j])
<1> DEFINE s == Append(owned[k], r)
<1>1. s \in Seq(ResourceType) /\ s # <<>> /\ Last(s) = r /\ Range(s) = Range(owned[k]) \cup {r}
  BY LastOfAppend, RangeOfAppend DEF TypeOK
<1>2. owned' = [owned EXCEPT ![k] = s]
  BY DEF Put
<1> HIDE DEF s
<1>3. \A j \in Ensured : owned'[j] = IF j = k THEN s ELSE owned[j]
  BY <1>2 DEF TypeOK
<1> QED
  BY <1>1, <1>2, <1>3 DEF TypeOK, OwnedOK, Actual

\* A delivery takes nothing but the cached version away.
LEMMA DeliverEffect ==
  ASSUME TypeOK, NEW k \in Ensured, SyncOwned(k)
  PROVE  /\ OwnedOK'
         /\ \A j \in Ensured : Actual(j)' = Actual(j) /\ Range(owned'[j]) \subseteq Range(owned[j])
<1> DEFINE s == Tail(owned[k])
<1>1. /\ s \in Seq(ResourceType) /\ s # <<>> /\ Last(s) = Last(owned[k])
      /\ Range(s) \subseteq Range(owned[k])
  BY LastOfTail, RangeOfTail DEF TypeOK, SyncOwned
<1>2. owned' = [owned EXCEPT ![k] = s]
  BY DEF SyncOwned
<1> HIDE DEF s
<1>3. \A j \in Ensured : owned'[j] = IF j = k THEN s ELSE owned[j]
  BY <1>2 DEF TypeOK
<1> QED
  BY <1>1, <1>2, <1>3 DEF TypeOK, OwnedOK, Actual

\* Nor does the delivery of the object itself.
LEMMA DeliverServiceEffect ==
  ASSUME TypeOK, SyncService
  PROVE  /\ svc' \in Seq(ServiceType) /\ svc' # <<>> /\ Current' = Current
         /\ Range(svc') \subseteq Range(svc)
BY LastOfTail, RangeOfTail DEF TypeOK, SyncService, Current

\* A relist after a crash leaves the last version of everything.
LEMMA RelistEffect ==
  ASSUME TypeOK, Crash
  PROVE  /\ svc' \in Seq(ServiceType) /\ svc' # <<>> /\ Current' = Current
         /\ Range(svc') = {Current}
         /\ OwnedOK'
         /\ \A j \in Ensured : Actual(j)' = Actual(j) /\ Range(owned'[j]) = {Actual(j)}
<1>1. /\ svc' = <<Current>> /\ svc' \in Seq(ServiceType) /\ svc' # <<>> /\ Last(svc') = Current
      /\ Range(svc') = {Current}
  BY ReadTypes, LastOfOne, RangeOfOne DEF Crash
<1>2. \A j \in Ensured : /\ <<Actual(j)>> \in Seq(ResourceType) /\ <<Actual(j)>> # <<>>
                         /\ Last(<<Actual(j)>>) = Actual(j)
                         /\ Range(<<Actual(j)>>) = {Actual(j)}
  BY ReadTypes, LastOfOne, RangeOfOne
<1>3. owned' = [j \in Ensured |-> <<Actual(j)>>]
  BY DEF Crash
<1>4. \A j \in Ensured : owned'[j] = <<Actual(j)>>
  BY <1>3
<1>5. Current' = Current
  BY <1>1 DEF Current
<1>6. \A j \in Ensured : Actual(j)' = Last(owned'[j])
  BY DEF Actual
<1>7. OwnedOK'
  BY <1>2, <1>3, <1>4 DEF OwnedOK
<1> QED
  BY <1>1, <1>2, <1>4, <1>5, <1>6, <1>7

\* The end of a pass.
LEMMA ReturnType ==
  ASSUME TypeOK, Return, queued' \in BOOLEAN, faults' \in 0 .. MaxFaults
  PROVE  PassOK'
BY NothingType DEF Return, PassOK

\* A fault is counted.
LEMMA FaultCounts == ASSUME TypeOK, Fault PROVE faults' \in 0 .. MaxFaults
BY BoundsAssumption DEF Fault, TypeOK

\* The versions the users, the proxy and the pass write are objects.
LEMMA WrittenTypes ==
  ASSUME TypeOK
  PROVE  /\ [hs EXCEPT !.finalizer = TRUE] \in ServiceType
         /\ [Current EXCEPT !.deleting = TRUE] \in ServiceType
         /\ \A s \in Specs : [Current EXCEPT !.spec = s] \in ServiceType
         /\ \A s \in Specs :
              uid < MaxUid =>
                [uid |-> uid + 1, deleting |-> FALSE, finalizer |-> FALSE, spec |-> s]
                  \in ServiceType
<1>1. Current \in ServiceType /\ hs \in ServiceType /\ uid \in 0 .. MaxUid
  BY ReadTypes DEF TypeOK
<1>2. uid < MaxUid => uid + 1 \in 0 .. MaxUid
  BY <1>1, BoundsAssumption
<1> QED
  BY <1>1, <1>2 DEF ServiceType

\* Before the first object is created everything has its type.
LEMMA InitType == Init => TypeOK
<1> SUFFICES ASSUME Init PROVE TypeOK
  OBVIOUS
<1>1. svc \in Seq(ServiceType) /\ svc # <<>>
  BY NothingType, LastOfOne DEF Init
<1>2. <<Absent>> \in Seq(ResourceType) /\ <<Absent>> # <<>>
  BY NothingType, LastOfOne
<1>3. OwnedOK
  BY <1>2 DEF Init, OwnedOK
<1>4. PassOK
  <2>1. 0 \in 0 .. MaxFaults
    BY BoundsAssumption
  <2>2. todo \subseteq Ensured
    BY DEF Init
  <2> QED
    BY <2>1, <2>2, NothingType DEF Init, PassOK
<1>5. uid \in 0 .. MaxUid
  BY BoundsAssumption DEF Init
<1> QED
  BY <1>1, <1>3, <1>4, <1>5, Parts DEF ServiceOK

\* Every step keeps the types.
LEMMA StepType == TypeOK /\ [Next]_vars => TypeOK'
<1> SUFFICES ASSUME TypeOK, [Next]_vars PROVE TypeOK'
  OBVIOUS
<1> USE ReadTypes
<1>0. ServiceOK /\ OwnedOK /\ PassOK
  BY Parts
<1>1. CASE Begin
  BY <1>0, <1>1, PartsNext DEF Begin, pass, FirstStep, ServiceOK, OwnedOK, PassOK
<1>2. CASE AddFinalizer
  <2>1. CASE Accepted /\ svc' = Append(svc, hs') /\ hs' = [hs EXCEPT !.finalizer = TRUE]
             /\ pc' = "ensure" /\ UNCHANGED <<queued, fresh, todo>>
    <3>1. hs' \in ServiceType
      BY <2>1, WrittenTypes
    <3>2. svc' \in Seq(ServiceType) /\ svc' # <<>>
      BY <2>1, <3>1, WriteEffect
    <3> QED
      BY <1>0, <1>2, <2>1, <3>1, <3>2, PartsNext DEF AddFinalizer, ServiceOK, OwnedOK, PassOK
  <2>2. CASE GiveUp /\ UNCHANGED svc
    BY <1>0, <1>2, <2>2, ReturnType, PartsNext
    DEF AddFinalizer, GiveUp, ServiceOK, OwnedOK, TypeOK
  <2> QED
    BY <1>2, <2>1, <2>2 DEF AddFinalizer
<1>3. CASE RemoveFinalizer
  <2>1. svc' \in Seq(ServiceType) /\ svc' # <<>>
    BY <1>0, <1>3, NothingType, WriteEffect DEF RemoveFinalizer, ServiceOK
  <2>2. Return /\ queued' \in BOOLEAN /\ faults' \in 0 .. MaxFaults
    BY <1>3 DEF RemoveFinalizer, GiveUp, TypeOK
  <2> QED
    BY <1>0, <1>3, <2>1, <2>2, ReturnType, PartsNext DEF RemoveFinalizer, ServiceOK, OwnedOK
<1>4. CASE WriteStatus
  <2>1. svc' \in Seq(ServiceType) /\ svc' # <<>>
    BY <1>0, <1>4, WriteEffect DEF WriteStatus, ServiceOK, PassOK
  <2>2. Return /\ queued' \in BOOLEAN /\ faults' \in 0 .. MaxFaults
    BY <1>4 DEF WriteStatus, GiveUp, TypeOK
  <2> QED
    BY <1>0, <1>4, <2>1, <2>2, ReturnType, PartsNext DEF WriteStatus, ServiceOK, OwnedOK
<1>5. ASSUME NEW k \in Ensured, Ensure(k) PROVE TypeOK'
  <2>1. OwnedOK'
    <3>1. CASE Put(k, Wanted(k, hs))
      BY <3>1, WantedType, PutEffect DEF TypeOK
    <3>2. CASE UNCHANGED owned
      BY <1>0, <3>2 DEF OwnedOK
    <3> QED
      BY <1>5, <3>1, <3>2 DEF Ensure
  <2>2. PassOK'
    <3>1. CASE GiveUp
      BY <1>5, <3>1, ReturnType DEF Ensure, GiveUp, TypeOK
    <3>2. CASE todo' = todo \ {k} /\ UNCHANGED <<queued, pc, hs, fresh>>
      BY <1>0, <1>5, <3>2 DEF Ensure, PassOK
    <3> QED
      BY <1>5, <3>1, <3>2 DEF Ensure
  <2> QED
    BY <1>0, <1>5, <2>1, <2>2, PartsNext DEF Ensure, ServiceOK
<1>6. CASE Fail
  <2>1. faults' \in 0 .. MaxFaults
    BY <1>6, FaultCounts DEF Fail
  <2> QED
    BY <1>0, <1>6, <2>1, ReturnType, PartsNext DEF Fail, GiveUp, ServiceOK, OwnedOK
<1>7. CASE Crash
  <2>1. faults' \in 0 .. MaxFaults /\ queued' \in BOOLEAN
    BY <1>7, FaultCounts DEF Crash
  <2> QED
    BY <1>0, <1>7, <2>1, ReturnType, RelistEffect, PartsNext DEF Crash, ServiceOK
<1>8. CASE SyncService
  BY <1>0, <1>8, DeliverServiceEffect, PartsNext
  DEF SyncService, pass, ServiceOK, OwnedOK, PassOK
<1>9. ASSUME NEW k \in Ensured, SyncOwned(k) PROVE TypeOK'
  BY <1>0, <1>9, DeliverEffect, PartsNext DEF SyncOwned, pass, ServiceOK, PassOK
<1>10. CASE Resync
  BY <1>0, <1>10, PartsNext DEF Resync, pass, ServiceOK, OwnedOK, PassOK
<1>11. ASSUME NEW k \in Ensured, Collect(k) PROVE TypeOK'
  BY <1>0, <1>11, NothingType, PutEffect, PartsNext DEF Collect, pass, ServiceOK, PassOK
<1>12. CASE Disturb
  <2>1. faults' \in 0 .. MaxFaults
    BY <1>12, FaultCounts DEF Disturb
  <2>2. OwnedOK'
    BY <1>12, NothingType, PutEffect DEF Disturb
  <2> QED
    BY <1>0, <1>12, <2>1, <2>2, PartsNext DEF Disturb, pass, ServiceOK, PassOK
<1>13. CASE Users
  <2>1. PICK s \in ServiceType : Foreign(s)
    BY <1>13, WrittenTypes, NothingType DEF Users, Create, Edit, Delete, ProxyWrites
  <2>2. svc' \in Seq(ServiceType) /\ svc' # <<>>
    BY <2>1, WriteEffect DEF Foreign
  <2>3. uid' \in 0 .. MaxUid
    <3>1. uid' = uid \/ (uid < MaxUid /\ uid' = uid + 1)
      BY <1>13 DEF Users, Create, Edit, Delete, ProxyWrites
    <3> QED
      BY <3>1, BoundsAssumption DEF TypeOK
  <2> QED
    BY <1>0, <2>1, <2>2, <2>3, PartsNext DEF Foreign, ServiceOK, OwnedOK, PassOK
<1>14. CASE UNCHANGED vars
  BY <1>14 DEF vars, TypeOK
<1> QED
  BY <1>1, <1>2, <1>3, <1>4, <1>5, <1>6, <1>7, <1>8, <1>9, <1>10, <1>11, <1>12, <1>13,
     <1>14 DEF Next, Work

\* Every variable keeps its type.
THEOREM TypeCorrect == Spec => []TypeOK
BY InitType, StepType, PTL DEF Spec

(***************************************************************************)
(* The object and the pass                                                 *)
(***************************************************************************)
\* The stored and the cached object are among the versions, and if there is only one
\* they are the same.
LEMMA Ends ==
  ASSUME TypeOK
  PROVE  /\ Current \in Range(svc) /\ Head(svc) \in Range(svc)
         /\ Range(svc) \subseteq ServiceType
         /\ Len(svc) = 1 => Head(svc) = Current /\ Range(svc) = {Current}
BY RangeHasEnds DEF TypeOK, Current

\* A pass that ends gives up its copy; what it leaves behind is a matter of the versions.
LEMMA ReturnKeeps ==
  ASSUME UidsInOrder', FinalizerHolds', Return
  PROVE  ServiceInv'
BY DEF ServiceInv, CopyIsCurrent, Marking, LettingGo, Ensuring, Return

\* Nobody writes the object.
LEMMA VersionsKept ==
  ASSUME UidsInOrder, FinalizerHolds, UNCHANGED uid, Current' = Current,
         Range(svc') \subseteq Range(svc)
  PROVE  UidsInOrder' /\ FinalizerHolds'
BY DEF UidsInOrder, FinalizerHolds

\* Somebody other than the pass writes the object, which may take the pass's copy out of
\* date but, as long as it has a finalizer, not out of existence.
LEMMA ForeignStep ==
  ASSUME TypeOK, ServiceInv, NEW s \in ServiceType, Foreign(s),
         uid' \in Nat, uid <= uid', s.uid <= uid', s.finalizer => s.uid # 0,
         Current.finalizer => s.finalizer /\ s.uid = Current.uid,
         s.finalizer => Current.finalizer
  PROVE  ServiceInv'
<1>1. Current' = s /\ Range(svc') = Range(svc) \cup {s}
  BY WriteEffect DEF Foreign
<1>2. Range(svc) \subseteq ServiceType /\ Current \in Range(svc) /\ uid \in Nat
  BY Ends DEF TypeOK
<1>3. UidsInOrder'
  <2>1. \A v \in Range(svc) : v.uid \in Nat
    BY <1>2 DEF ServiceType
  <2> QED
    BY <1>1, <1>2, <2>1 DEF ServiceInv, UidsInOrder
<1>4. FinalizerHolds'
  BY <1>1, <1>2 DEF ServiceInv, FinalizerHolds
<1>5. ~fresh' /\ pc' = pc /\ hs' = hs /\ todo' = todo
  BY DEF Foreign
<1> QED
  BY <1>1, <1>3, <1>4, <1>5
  DEF ServiceInv, CopyIsCurrent, Marking, LettingGo, Ensuring

\* Before the first object there is nothing to say.
LEMMA InitService == Init => ServiceInv
<1> SUFFICES ASSUME Init PROVE ServiceInv
  OBVIOUS
<1>1. Range(svc) = {Gone}
  BY RangeOfOne DEF Init
<1>2. Gone.uid = 0 /\ ~Gone.finalizer /\ uid = 0
  BY DEF Gone, Init
<1> QED
  BY <1>1, <1>2
  DEF Init, ServiceInv, UidsInOrder, FinalizerHolds, CopyIsCurrent, Marking, LettingGo,
      Ensuring

\* Every step keeps what concerns the object and the pass.
LEMMA StepService == TypeOK /\ ServiceInv /\ [Next]_vars => ServiceInv'
<1> SUFFICES ASSUME TypeOK, ServiceInv, [Next]_vars PROVE ServiceInv'
  OBVIOUS
<1>0. /\ UidsInOrder /\ FinalizerHolds /\ CopyIsCurrent
      /\ Marking /\ LettingGo /\ Ensuring
      /\ Current \in ServiceType /\ hs \in ServiceType /\ uid \in Nat
  BY ReadTypes DEF ServiceInv, TypeOK
<1>1. CASE Begin
  <2>1. UNCHANGED <<svc, uid>> /\ Current' = Current
    BY <1>1 DEF Begin, Current
  <2>2. UidsInOrder' /\ FinalizerHolds'
    BY <1>0, <2>1, VersionsKept
  <2>3. CASE UNCHANGED pass
    BY <1>0, <2>1, <2>2, <2>3
    DEF ServiceInv, pass, CopyIsCurrent, Marking, LettingGo, Ensuring
  <2>4. CASE /\ Head(svc).uid # 0
             /\ hs' = Head(svc) /\ fresh' = (Len(svc) = 1) /\ todo' = Ensured
             /\ pc' = FirstStep(Head(svc))
    <3>1. CopyIsCurrent'
      BY <2>1, <2>4, Ends DEF CopyIsCurrent, FirstStep
    <3>2. LettingGo'
      BY <2>1, <2>4, Ends DEF LettingGo, FirstStep
    <3>3. Marking' /\ Ensuring'
      BY <1>0, <2>1, <2>4, Ends DEF Marking, Ensuring, FinalizerHolds, FirstStep
    <3> QED
      BY <2>2, <3>1, <3>2, <3>3 DEF ServiceInv
  <2> QED
    BY <1>1, <2>3, <2>4 DEF Begin
<1>2. CASE AddFinalizer
  <2>1. CASE GiveUp /\ UNCHANGED svc
    BY <1>0, <1>2, <2>1, VersionsKept, ReturnKeeps DEF AddFinalizer, GiveUp, Current
  <2>2. CASE Accepted /\ hs' = [hs EXCEPT !.finalizer = TRUE] /\ svc' = Append(svc, hs')
             /\ pc' = "ensure" /\ UNCHANGED <<queued, fresh, todo>>
    <3>1. hs = Current /\ ~hs.deleting /\ hs.uid # 0 /\ UNCHANGED uid
      BY <1>0, <1>2, <2>2 DEF AddFinalizer, Accepted, CopyIsCurrent, Marking
    <3>2. /\ hs' \in ServiceType /\ hs'.finalizer /\ hs'.uid = hs.uid
          /\ hs'.deleting = hs.deleting
      BY <1>0, <2>2 DEF ServiceType
    <3>3. Current' = hs' /\ Range(svc') = Range(svc) \cup {hs'}
      BY <2>2, <3>2, WriteEffect
    <3>4. UidsInOrder'
      BY <1>0, <3>1, <3>2, <3>3, Ends DEF UidsInOrder
    <3>5. FinalizerHolds'
      BY <1>0, <3>1, <3>2, <3>3 DEF FinalizerHolds
    <3> QED
      BY <2>2, <3>1, <3>2, <3>3, <3>4, <3>5
      DEF ServiceInv, CopyIsCurrent, Marking, LettingGo, Ensuring
  <2> QED
    BY <1>2, <2>1, <2>2 DEF AddFinalizer
<1>3. CASE RemoveFinalizer
  <2>1. CASE GiveUp /\ UNCHANGED svc
    BY <1>0, <1>3, <2>1, VersionsKept, ReturnKeeps DEF RemoveFinalizer, GiveUp, Current
  <2>2. CASE Accepted /\ svc' = Append(svc, Gone) /\ Return
    <3>1. Current' = Gone /\ Range(svc') = Range(svc) \cup {Gone}
      BY <2>2, NothingType, WriteEffect
    <3>2. Gone.uid = 0 /\ ~Gone.finalizer /\ UNCHANGED uid
      BY <1>3 DEF Gone, RemoveFinalizer
    <3>3. \A v \in Range(svc) : v.deleting
      BY <1>0, <1>3, <2>2 DEF RemoveFinalizer, Accepted, LettingGo
    <3>4. UidsInOrder'
      BY <1>0, <3>1, <3>2 DEF UidsInOrder
    <3>5. FinalizerHolds'
      BY <3>1, <3>2, <3>3 DEF FinalizerHolds
    <3> QED
      BY <2>2, <3>4, <3>5, ReturnKeeps
  <2> QED
    BY <1>3, <2>1, <2>2 DEF RemoveFinalizer
<1>4. CASE WriteStatus
  <2>1. Return /\ UNCHANGED uid
    BY <1>4 DEF WriteStatus, GiveUp
  <2>2. Current' = Current /\ Range(svc') \subseteq Range(svc)
    <3>1. CASE UNCHANGED svc
      BY <3>1 DEF Current
    <3>2. CASE Accepted /\ svc' = Append(svc, hs)
      <4>1. hs = Current
        BY <1>0, <3>2 DEF Accepted, CopyIsCurrent
      <4> QED
        BY <1>0, <3>2, <4>1, WriteEffect, Ends
    <3> QED
      BY <1>4, <3>1, <3>2 DEF WriteStatus
  <2> QED
    BY <1>0, <2>1, <2>2, VersionsKept, ReturnKeeps
<1>5. ASSUME NEW k \in Ensured, Ensure(k) PROVE ServiceInv'
  <2>1. UNCHANGED <<svc, uid>> /\ Current' = Current
    BY <1>5 DEF Ensure, Current
  <2>2. UidsInOrder' /\ FinalizerHolds'
    BY <1>0, <2>1, VersionsKept
  <2>3. CASE GiveUp
    BY <2>2, <2>3, ReturnKeeps DEF GiveUp
  <2>4. CASE pc = "ensure" /\ UNCHANGED <<queued, pc, hs, fresh>>
    BY <1>0, <2>1, <2>2, <2>4
    DEF ServiceInv, CopyIsCurrent, Marking, LettingGo, Ensuring
  <2> QED
    BY <1>5, <2>3, <2>4 DEF Ensure
<1>6. CASE Fail
  <2>1. UNCHANGED <<svc, uid>> /\ Return /\ Current' = Current
    BY <1>6 DEF Fail, GiveUp, Current
  <2> QED
    BY <1>0, <2>1, VersionsKept, ReturnKeeps
<1>7. CASE Crash
  <2>1. UNCHANGED uid /\ Return /\ Current' = Current /\ Range(svc') \subseteq Range(svc)
    BY <1>7, RelistEffect, Ends DEF Crash
  <2> QED
    BY <1>0, <2>1, VersionsKept, ReturnKeeps
<1>8. CASE SyncService
  <2>1. /\ UNCHANGED <<uid, pass>> /\ Current' = Current
        /\ Range(svc') \subseteq Range(svc)
    BY <1>8, DeliverServiceEffect DEF SyncService
  <2>2. UidsInOrder' /\ FinalizerHolds'
    BY <1>0, <2>1, VersionsKept
  <2> QED
    BY <1>0, <2>1, <2>2
    DEF ServiceInv, pass, CopyIsCurrent, Marking, LettingGo, Ensuring
<1>9. CASE UNCHANGED <<svc, uid, pass>>
  <2>1. Current' = Current
    BY <1>9 DEF Current
  <2> QED
    BY <1>0, <1>9, <2>1
    DEF ServiceInv, pass, UidsInOrder, FinalizerHolds, CopyIsCurrent, Marking, LettingGo,
        Ensuring
<1>10. ASSUME NEW s \in Specs, Create(s) PROVE ServiceInv'
  <2> DEFINE o == [uid |-> uid + 1, deleting |-> FALSE, finalizer |-> FALSE, spec |-> s]
  <2>1. o \in ServiceType /\ Foreign(o)
    BY <1>10, WrittenTypes DEF Create
  <2>2. Current.uid = 0 /\ uid' = uid + 1 /\ ~Current.finalizer
    BY <1>0, <1>10, Ends DEF Create, UidsInOrder
  <2>3. o.uid = uid + 1 /\ ~o.finalizer
    OBVIOUS
  <2> HIDE DEF o
  <2> QED
    BY <1>0, <2>1, <2>2, <2>3, ForeignStep
<1>11. ASSUME NEW s \in Specs, Edit(s) PROVE ServiceInv'
  <2> DEFINE o == [Current EXCEPT !.spec = s]
  <2>1. o \in ServiceType /\ Foreign(o) /\ UNCHANGED uid
    BY <1>11, WrittenTypes DEF Edit
  <2>2. o.uid = Current.uid /\ o.finalizer = Current.finalizer
    BY <1>0 DEF ServiceType
  <2> HIDE DEF o
  <2> QED
    BY <1>0, <2>1, <2>2, ForeignStep, Ends DEF UidsInOrder
<1>12. CASE Delete
  <2> DEFINE o == IF Current.finalizer THEN [Current EXCEPT !.deleting = TRUE] ELSE Gone
  <2>1. o \in ServiceType /\ Foreign(o) /\ UNCHANGED uid
    BY <1>12, WrittenTypes, NothingType DEF Delete
  <2>2. o.finalizer = Current.finalizer /\ o.uid \in {0, Current.uid}
        /\ (Current.finalizer => o.uid = Current.uid)
    BY <1>0 DEF ServiceType, Gone
  <2> HIDE DEF o
  <2> QED
    BY <1>0, <2>1, <2>2, ForeignStep, Ends DEF UidsInOrder
<1>13. CASE ProxyWrites
  BY <1>0, <1>13, ForeignStep, Ends DEF ProxyWrites, UidsInOrder
<1>14. \/ Resync \/ Disturb \/ UNCHANGED vars
       \/ \E k \in Ensured : SyncOwned(k) \/ Collect(k)
       => UNCHANGED <<svc, uid, pass>>
  BY DEF Resync, Disturb, vars, pass, SyncOwned, Collect
<1> QED
  BY <1>1, <1>2, <1>3, <1>4, <1>5, <1>6, <1>7, <1>8, <1>9, <1>10, <1>11, <1>12, <1>13,
     <1>14 DEF Next, Work, Users

(***************************************************************************)
(* The resources                                                           *)
(***************************************************************************)
\* The stored and the cached resource are among its versions.
LEMMA OwnedEnds ==
  ASSUME TypeOK, NEW k \in Ensured
  PROVE  /\ Actual(k) \in Range(owned[k]) /\ Head(owned[k]) \in Range(owned[k])
         /\ \A v \in Range(owned[k]) : v.owner \in Nat
<1>1. owned[k] \in Seq(ResourceType) /\ owned[k] # <<>>
  BY DEF TypeOK
<1>2. Range(owned[k]) \subseteq ResourceType
  BY <1>1, RangeHasEnds
<1>3. Actual(k) \in Range(owned[k]) /\ Head(owned[k]) \in Range(owned[k])
  BY <1>1, RangeHasEnds DEF Actual
<1>4. \A v \in ResourceType : v.owner \in Nat
  <2>1. \A v \in ResourceType : v.owner \in 0 .. MaxUid
    BY DEF ResourceType
  <2> QED
    BY <2>1, BoundsAssumption
<1> QED
  BY <1>2, <1>3, <1>4

\* The account comes before the Deployment, and neither it nor the backend Service is
\* part of it.
LEMMA Ranks ==
  /\ \A k \in Ensured : Rank[k] \in 1 .. 6
  /\ Rank["Deployment"] = 5
  /\ "Deployment" \notin Account /\ "BackendService" \notin Account
<1>1. /\ Rank["Deployment"] = 5 /\ Rank["BackendService"] = 4
      /\ \A k \in Kinds : Rank[k] \in 1 .. 6
  BY DEF Rank, Kinds
<1> QED
  BY <1>1, KindsAssumption DEF Account

\* No resource is written.  The object may go, a new one has a new uid, and a pass starts
\* over or goes on.
LEMMA ResourcesKept ==
  ASSUME TypeOK, ResourceInv, uid' \in Nat, uid =< uid',
         \A k \in Ensured : Actual(k)' = Actual(k) /\ Range(owned'[k]) \subseteq Range(owned[k]),
         Current'.uid \in {0, Current.uid} \/ (uid < uid' /\ Current'.uid = uid'),
         pc' = "ensure" => \/ todo' = Ensured
                           \/ pc = "ensure" /\ todo' = todo /\ Current'.uid = Current.uid
  PROVE  ResourceInv'
<1>1. \A k \in Ensured : \A v \in Range(owned[k]) : v.owner \in Nat /\ v.owner =< uid
  BY OwnedEnds DEF ResourceInv, OwnersInOrder
<1>2. uid \in Nat /\ \A k \in Ensured : Actual(k).owner \in Nat /\ Actual(k).owner =< uid
  BY <1>1, OwnedEnds DEF TypeOK
<1>3. OwnersInOrder'
  BY <1>1, <1>2 DEF OwnersInOrder
<1>4. AccountStays'
  BY <1>1, <1>2 DEF ResourceInv, AccountStays, Account
<1>5. EnsuredInOrder'
  BY DEF ResourceInv, EnsuredInOrder, Account
<1>6. AccountFirst'
  BY <1>2 DEF ResourceInv, AccountFirst
<1> QED
  BY <1>3, <1>4, <1>5, <1>6 DEF ResourceInv

\* Before the first object there is no resource.
LEMMA InitResource == Init => ResourceInv
<1> SUFFICES ASSUME Init PROVE ResourceInv
  OBVIOUS
<1>1. \A k \in Ensured : owned[k] = <<Absent>>
  BY DEF Init
<1>2. Range(<<Absent>>) = {Absent} /\ Absent.owner = 0
  BY RangeOfOne DEF Absent
<1>3. Current.uid = 0 /\ uid = 0 /\ pc = "idle"
  <2>1. Last(<<Gone>>) = Gone /\ Gone.uid = 0
    BY LastOfOne DEF Gone
  <2> QED
    BY <2>1 DEF Init, Current
<1>4. OwnersInOrder
  BY <1>1, <1>2, <1>3 DEF OwnersInOrder
<1>5. AccountStays /\ AccountFirst /\ EnsuredInOrder
  BY <1>3 DEF AccountStays, AccountFirst, EnsuredInOrder
<1> QED
  BY <1>4, <1>5 DEF ResourceInv

\* A resource of the present object is written: the pass has ensured it.
LEMMA EnsureStep ==
  ASSUME Inv, NEW k \in Ensured, Ensure(k)
  PROVE  ResourceInv'
<1>0. /\ TypeOK /\ ResourceInv /\ pc = "ensure" /\ IsNext(k)
      /\ OwnersInOrder /\ AccountStays /\ EnsuredInOrder /\ AccountFirst
      /\ hs.uid # 0 /\ hs.uid = Current.uid /\ hs \in ServiceType /\ Current.uid =< uid
      /\ uid \in Nat /\ todo \subseteq Ensured
  BY Ends DEF Ensure, Inv, ServiceInv, ResourceInv, Ensuring, UidsInOrder, TypeOK
<1>1. UNCHANGED <<svc, uid>> /\ Current' = Current
  BY DEF Ensure, Current
<1>2. Wanted(k, hs) \in ResourceType /\ Wanted(k, hs).owner = Current.uid
  BY <1>0, WantedType
<1>3. CASE GiveUp /\ UNCHANGED owned
  <2>1. \A j \in Ensured : Actual(j)' = Actual(j) /\ owned'[j] = owned[j]
    BY <1>3 DEF Actual
  <2> QED
    BY <1>0, <1>1, <1>3, <2>1, ResourcesKept DEF GiveUp, Return
<1>4. CASE /\ UNCHANGED owned /\ todo' = todo \ {k} /\ pc' = pc
           /\ k \in Account => Actual(k).owner = Current.uid
  <2>1. \A j \in Ensured : Actual(j)' = Actual(j) /\ owned'[j] = owned[j]
    BY <1>4 DEF Actual
  <2>2. OwnersInOrder' /\ AccountStays' /\ AccountFirst'
    BY <1>0, <1>1, <2>1 DEF OwnersInOrder, AccountStays, AccountFirst, Account
  <2>3. EnsuredInOrder'
    BY <1>0, <1>1, <1>4, <2>1 DEF EnsuredInOrder, Account
  <2> QED
    BY <2>2, <2>3 DEF ResourceInv
<1>5. CASE Put(k, Wanted(k, hs)) /\ todo' = todo \ {k} /\ pc' = pc
  <2> DEFINE w == Wanted(k, hs)
  <2>1. \A j \in Ensured :
          /\ Actual(j)' = IF j = k THEN w ELSE Actual(j)
          /\ Range(owned'[j]) = IF j = k THEN Range(owned[j]) \cup {w} ELSE Range(owned[j])
    BY <1>0, <1>2, <1>5, PutEffect
  <2>2. w.owner = Current.uid
    BY <1>2
  <2> HIDE DEF w
  <2>3. OwnersInOrder'
    BY <1>0, <1>1, <2>1, <2>2 DEF OwnersInOrder
  <2>4. AccountStays'
    BY <1>0, <1>1, <2>1, <2>2 DEF AccountStays, Account
  <2>5. EnsuredInOrder'
    BY <1>0, <1>1, <1>5, <2>1, <2>2 DEF EnsuredInOrder, Account
  <2>6. AccountFirst'
    <3>1. CASE k = "Deployment"
      <4>1. \A j \in Account : j \notin todo
        BY <1>0, <3>1, Ranks DEF IsNext, Account
      <4> QED
        BY <1>0, <1>1, <2>1, <2>2, <4>1 DEF EnsuredInOrder, AccountFirst, Account
    <3>2. CASE k # "Deployment"
      BY <1>0, <1>1, <2>1, <2>2, <3>2 DEF AccountFirst
    <3> QED
      BY <3>1, <3>2
  <2> QED
    BY <2>3, <2>4, <2>5, <2>6 DEF ResourceInv
<1>6. Head(owned[k]) = Wanted(k, hs) /\ k \in Account => Actual(k).owner = Current.uid
  BY <1>0, <1>2, OwnedEnds DEF AccountStays
<1>7. Skipped(k) => k \notin Account
  BY Ranks DEF Skipped
<1> QED
  BY <1>0, <1>2, <1>3, <1>4, <1>5, <1>6, <1>7 DEF Ensure, GiveUp

\* The garbage collector only takes what belongs to an object that is gone.
LEMMA CollectStep ==
  ASSUME Inv, NEW k \in Ensured, Collect(k)
  PROVE  ResourceInv'
<1>0. /\ TypeOK /\ OwnersInOrder /\ AccountStays /\ EnsuredInOrder /\ AccountFirst
      /\ uid \in Nat /\ Actual(k).owner # Current.uid /\ UNCHANGED <<uid, pc, todo>>
  BY DEF Inv, ResourceInv, TypeOK, Collect, Orphan, pass
<1>1. Current' = Current
  BY DEF Collect, Current
<1>2. Absent \in ResourceType /\ Absent.owner = 0
  BY NothingType DEF Absent
<1>3. \A j \in Ensured :
        /\ Actual(j)' = IF j = k THEN Absent ELSE Actual(j)
        /\ Range(owned'[j]) = IF j = k THEN Range(owned[j]) \cup {Absent} ELSE Range(owned[j])
  BY <1>0, <1>2, PutEffect DEF Collect
<1>4. OwnersInOrder'
  <2> SUFFICES ASSUME NEW j \in Ensured, NEW v \in Range(owned'[j])
               PROVE  v.owner =< uid'
    BY DEF OwnersInOrder
  <2>1. v = Absent \/ v \in Range(owned[j])
    <3>1. CASE j = k
      <4>1. Range(owned'[j]) = Range(owned[j]) \cup {Absent}
        BY <1>3, <3>1
      <4> QED
        BY <4>1
    <3>2. CASE j # k
      <4>1. Range(owned'[j]) = Range(owned[j])
        BY <1>3, <3>2
      <4> QED
        BY <4>1
    <3> QED
      BY <3>1, <3>2
  <2>2. uid' = uid /\ 0 =< uid
    BY <1>0
  <2> QED
    BY <1>0, <1>2, <2>1, <2>2 DEF OwnersInOrder
<1>5. AccountStays'
  BY <1>0, <1>1, <1>2, <1>3 DEF AccountStays, Account
<1>6. EnsuredInOrder'
  BY <1>0, <1>1, <1>3 DEF EnsuredInOrder, Account
<1>7. AccountFirst'
  BY <1>0, <1>1, <1>2, <1>3 DEF AccountFirst, Account
<1> QED
  BY <1>4, <1>5, <1>6, <1>7 DEF ResourceInv

\* Whoever disturbs a Deployment or a Service does not touch the account.
LEMMA DisturbStep ==
  ASSUME Inv, Disturb
  PROVE  ResourceInv'
<1>0. /\ TypeOK /\ OwnersInOrder /\ AccountStays /\ EnsuredInOrder /\ AccountFirst
      /\ uid \in Nat /\ UNCHANGED <<uid, pc, todo>>
  BY DEF Inv, ResourceInv, TypeOK, Disturb, pass
<1>1. Current' = Current
  BY DEF Disturb, Current
<1>2. PICK k \in Ensured : Rank[k] > 3 /\ \E r \in {Actual(k), Absent} : Put(k, r)
  BY DEF Disturb
<1>3. PICK r \in {Actual(k), Absent} : Put(k, r)
  BY <1>2
<1>4. r \in ResourceType /\ r.owner =< uid /\ r.owner \in {Actual(k).owner, 0}
  <2>1. Absent \in ResourceType /\ Absent.owner = 0
    BY NothingType DEF Absent
  <2>2. Actual(k) \in ResourceType /\ Actual(k).owner =< uid
    BY <1>0, ReadTypes, OwnedEnds DEF OwnersInOrder
  <2>3. 0 =< uid
    BY <1>0
  <2> QED
    BY <2>1, <2>2, <2>3
<1>5. \A j \in Ensured :
        /\ Actual(j)' = IF j = k THEN r ELSE Actual(j)
        /\ Range(owned'[j]) = IF j = k THEN Range(owned[j]) \cup {r} ELSE Range(owned[j])
  BY <1>0, <1>3, <1>4, PutEffect
<1>6. OwnersInOrder'
  <2> SUFFICES ASSUME NEW j \in Ensured, NEW v \in Range(owned'[j])
               PROVE  v.owner =< uid'
    BY DEF OwnersInOrder
  <2>1. v = r \/ v \in Range(owned[j])
    <3>1. CASE j = k
      <4>1. Range(owned'[j]) = Range(owned[j]) \cup {r}
        BY <1>5, <3>1
      <4> QED
        BY <4>1
    <3>2. CASE j # k
      <4>1. Range(owned'[j]) = Range(owned[j])
        BY <1>5, <3>2
      <4> QED
        BY <4>1
    <3> QED
      BY <3>1, <3>2
  <2> QED
    BY <1>0, <1>4, <2>1 DEF OwnersInOrder
<1>7. k \notin Account
  BY <1>2, Ranks DEF Account
<1>8. AccountStays' /\ EnsuredInOrder'
  BY <1>0, <1>1, <1>5, <1>7 DEF AccountStays, EnsuredInOrder, Account
<1>9. AccountFirst'
  BY <1>0, <1>1, <1>4, <1>5, <1>7 DEF AccountFirst, Account
<1> QED
  BY <1>6, <1>8, <1>9 DEF ResourceInv

\* Every step keeps what concerns the resources.
LEMMA StepResource == Inv /\ [Next]_vars => ResourceInv'
<1> SUFFICES ASSUME Inv, [Next]_vars PROVE ResourceInv'
  OBVIOUS
<1>0. /\ TypeOK /\ ServiceInv /\ ResourceInv /\ uid \in Nat
      /\ CopyIsCurrent /\ Marking /\ Ensuring
      /\ Current \in ServiceType /\ hs \in ServiceType
  BY ReadTypes DEF Inv, ServiceInv, TypeOK
<1>1. ASSUME UNCHANGED owned
      PROVE  \A k \in Ensured :
               Actual(k)' = Actual(k) /\ Range(owned'[k]) \subseteq Range(owned[k])
  BY <1>1 DEF Actual
<1>2. CASE Begin
  <2>1. UNCHANGED <<owned, uid>> /\ Current' = Current
    BY <1>2 DEF Begin, Current
  <2>2. pc' = "ensure" => todo' = Ensured \/ (pc = "ensure" /\ todo' = todo)
    BY <1>2 DEF Begin, pass
  <2> QED
    BY <1>0, <1>1, <2>1, <2>2, ResourcesKept
<1>3. CASE AddFinalizer
  <2>1. UNCHANGED <<owned, uid>> /\ todo = Ensured
    BY <1>0, <1>3 DEF AddFinalizer, Marking
  <2>2. Current'.uid = Current.uid
    <3>1. CASE UNCHANGED svc
      BY <3>1 DEF Current
    <3>2. CASE Accepted /\ svc' = Append(svc, hs') /\ hs' = [hs EXCEPT !.finalizer = TRUE]
      <4>1. hs = Current /\ hs' \in ServiceType /\ hs'.uid = hs.uid
        BY <1>0, <3>2 DEF Accepted, CopyIsCurrent, ServiceType
      <4> QED
        BY <1>0, <3>2, <4>1, WriteEffect
    <3> QED
      BY <1>3, <3>1, <3>2 DEF AddFinalizer
  <2>3. pc' = "ensure" => todo' = Ensured
    BY <1>3, <2>1 DEF AddFinalizer, GiveUp, Return
  <2> QED
    BY <1>0, <1>1, <2>1, <2>2, <2>3, ResourcesKept
<1>4. CASE RemoveFinalizer
  <2>1. UNCHANGED <<owned, uid>> /\ pc' # "ensure"
    BY <1>4 DEF RemoveFinalizer, GiveUp, Return
  <2>2. Current'.uid \in {0, Current.uid}
    BY <1>0, <1>4, NothingType, WriteEffect DEF RemoveFinalizer, Gone, Current
  <2> QED
    BY <1>0, <1>1, <2>1, <2>2, ResourcesKept
<1>5. CASE WriteStatus
  <2>1. UNCHANGED <<owned, uid>> /\ pc' # "ensure"
    BY <1>5 DEF WriteStatus, GiveUp, Return
  <2>2. Current'.uid = Current.uid
    <3>1. CASE UNCHANGED svc
      BY <3>1 DEF Current
    <3>2. CASE Accepted /\ svc' = Append(svc, hs)
      BY <1>0, <3>2, WriteEffect DEF Accepted, CopyIsCurrent
    <3> QED
      BY <1>5, <3>1, <3>2 DEF WriteStatus
  <2> QED
    BY <1>0, <1>1, <2>1, <2>2, ResourcesKept
<1>6. CASE Fail
  <2>1. UNCHANGED <<svc, owned, uid>> /\ pc' # "ensure" /\ Current' = Current
    BY <1>6 DEF Fail, GiveUp, Return, Current
  <2> QED
    BY <1>0, <1>1, <2>1, ResourcesKept
<1>7. CASE Crash
  <2>1. UNCHANGED uid /\ pc' # "ensure" /\ Current' = Current
    BY <1>0, <1>7, RelistEffect DEF Crash, Return
  <2>2. \A k \in Ensured : Actual(k)' = Actual(k) /\ Range(owned'[k]) \subseteq Range(owned[k])
    BY <1>0, <1>7, RelistEffect, OwnedEnds
  <2> QED
    BY <1>0, <2>1, <2>2, ResourcesKept
<1>8. CASE SyncService
  <2>1. UNCHANGED <<owned, uid, pc, todo>> /\ Current' = Current
    BY <1>0, <1>8, DeliverServiceEffect DEF SyncService, pass
  <2> QED
    BY <1>0, <1>1, <2>1, ResourcesKept
<1>9. ASSUME NEW k \in Ensured, SyncOwned(k) PROVE ResourceInv'
  <2>1. UNCHANGED <<svc, uid, pc, todo>> /\ Current' = Current
    BY <1>9 DEF SyncOwned, pass, Current
  <2> QED
    BY <1>0, <1>9, <2>1, DeliverEffect, ResourcesKept
<1>10. CASE Resync \/ UNCHANGED vars
  <2>1. UNCHANGED <<svc, owned, uid, pc, todo>> /\ Current' = Current
    BY <1>10 DEF Resync, vars, pass, Current
  <2> QED
    BY <1>0, <1>1, <2>1, ResourcesKept
<1>11. CASE Users
  <2>1. PICK s \in ServiceType : /\ Foreign(s)
                                 /\ \/ uid' = uid /\ s.uid \in {0, Current.uid}
                                    \/ uid' = uid + 1 /\ s.uid = uid + 1 /\ Current.uid = 0
                                 /\ Current.finalizer => s.uid = Current.uid
    <3>1. ASSUME NEW t \in Specs, Create(t) PROVE ~Current.finalizer
      BY <1>0, <3>1, Ends DEF Create, ServiceInv, UidsInOrder
    <3>2. /\ Gone.uid = 0
          /\ [Current EXCEPT !.deleting = TRUE].uid = Current.uid
          /\ \A t \in Specs : [Current EXCEPT !.spec = t].uid = Current.uid
      BY <1>0 DEF Gone, ServiceType
    <3>3. CASE Delete \/ ProxyWrites
      BY <1>0, <3>2, <3>3, WrittenTypes, NothingType DEF Delete, ProxyWrites
    <3> QED
      BY <1>0, <1>11, <3>1, <3>2, <3>3, WrittenTypes
      DEF Users, Create, Edit
  <2>2. Current' = s /\ UNCHANGED <<owned, pc, todo>>
    BY <1>0, <2>1, WriteEffect DEF Foreign
  <2>3. pc = "ensure" => Current.finalizer
    BY <1>0 DEF Ensuring
  <2> QED
    BY <1>0, <1>1, <2>1, <2>2, <2>3, ResourcesKept
<1> QED
  BY <1>2, <1>3, <1>4, <1>5, <1>6, <1>7, <1>8, <1>9, <1>10, <1>11, EnsureStep, CollectStep,
     DisturbStep DEF Next, Work

(***************************************************************************)
(* The invariant and what it is for                                        *)
(***************************************************************************)
\* The invariant holds before anything has been created ...
LEMMA InitInv == Init => Inv
BY InitType, InitService, InitResource DEF Inv

\* ... and every step keeps it.
LEMMA StepInv == Inv /\ [Next]_vars => Inv'
BY StepType, StepService, StepResource DEF Inv

\* Every reachable state satisfies the inductive invariant.
THEOREM Invariance == Spec => []Inv
<1>1. Init => Inv
  BY InitInv
<1>2. Inv /\ [Next]_vars => Inv'
  BY StepInv
<1> QED
  BY <1>1, <1>2, PTL DEF Spec

\* A proxy that runs for the present SleepyService has its account, role and binding,
\* after any number of re-creations and whatever the garbage collector does when.
THEOREM AccountFirstHolds == Spec => []AccountFirst
<1>1. Inv => AccountFirst
  BY DEF Inv, ResourceInv
<1> QED
  BY <1>1, Invariance, PTL

\* Of the steps of a pass only the writes of the object change it, and each of them
\* writes what is stored, the finalizer or the status apart, or lets go of it.
LEMMA StepKeepsEdits ==
  ASSUME Inv, [Next]_vars, pc' # pc, Current' # Current
  PROVE  \/ UserPart(Current') = UserPart(Current)
         \/ Current.deleting /\ Current' = Gone
<1>0. /\ TypeOK /\ CopyIsCurrent /\ LettingGo
      /\ Current \in ServiceType /\ hs \in ServiceType
  BY ReadTypes DEF Inv, ServiceInv, TypeOK
<1>1. svc' # svc
  BY DEF Current
<1>2. AddFinalizer \/ RemoveFinalizer \/ WriteStatus
  <2>1. ~Crash /\ ~SyncService
    BY <1>0, RelistEffect, DeliverServiceEffect
  <2>2. ~Users
    BY DEF Users, Create, Edit, Delete, ProxyWrites, Foreign
  <2> QED
    BY <1>1, <2>1, <2>2
    DEF Next, vars, Work, Begin, Ensure, Fail, SyncOwned, Resync, Collect, Disturb
<1>3. CASE AddFinalizer
  <2>1. hs = Current /\ svc' = Append(svc, hs') /\ hs' = [hs EXCEPT !.finalizer = TRUE]
    BY <1>0, <1>1, <1>3 DEF AddFinalizer, Accepted, CopyIsCurrent
  <2>2. hs' \in ServiceType /\ UserPart(hs') = UserPart(hs)
    BY <1>0, <2>1 DEF ServiceType, UserPart
  <2> QED
    BY <1>0, <2>1, <2>2, WriteEffect
<1>4. CASE RemoveFinalizer
  <2>1. svc' = Append(svc, Gone) /\ \A v \in Range(svc) : v.deleting
    BY <1>0, <1>1, <1>4 DEF RemoveFinalizer, Accepted, LettingGo
  <2>2. Current \in Range(svc)
    BY <1>0, Ends
  <2> QED
    BY <1>0, <2>1, <2>2, NothingType, WriteEffect
<1>5. CASE WriteStatus
  <2>1. svc' = Append(svc, hs) /\ hs = Current
    BY <1>0, <1>1, <1>5 DEF WriteStatus, Accepted, CopyIsCurrent
  <2> QED
    BY <1>0, <2>1, WriteEffect
<1> QED
  BY <1>2, <1>3, <1>4, <1>5

\* No pass undoes an edit, a deletion or a re-creation by a user, however old the copy
\* it writes back.
THEOREM NoEditIsLost == Spec => NoLostEdit
<1>1. Inv /\ [Next]_vars =>
        [pc' # pc /\ Current' # Current =>
           \/ UserPart(Current') = UserPart(Current)
           \/ Current.deleting /\ Current' = Gone]_vars
  BY StepKeepsEdits
<1> QED
  BY <1>1, Invariance, PTL DEF Spec, NoLostEdit

\* Only ensureProxyResources gives a resource an owner, and that is the object whose
\* finalizer the pass has seen.
LEMMA StepOwner ==
  ASSUME Inv, [Next]_vars, NEW k \in Ensured,
         Actual(k)' # Actual(k), Actual(k)'.owner # 0
  PROVE  Actual(k)'.owner = Current.uid
<1>0. TypeOK /\ Ensuring /\ hs \in ServiceType
  BY DEF Inv, ServiceInv, TypeOK
<1>1. owned' # owned
  BY DEF Actual
<1>2. ~Crash /\ \A j \in Ensured : ~SyncOwned(j)
  BY <1>0, RelistEffect, DeliverEffect
<1>3. ASSUME NEW j \in Ensured PROVE ~Collect(j)
  <2> SUFFICES ASSUME Collect(j) PROVE FALSE
    OBVIOUS
  <2>1. Actual(k)' = Absent
    BY <1>0, NothingType, PutEffect DEF Collect
  <2>2. Absent.owner = 0
    BY DEF Absent
  <2> QED
    BY <2>1, <2>2
<1>4. ~Disturb
  <2> SUFFICES ASSUME Disturb PROVE FALSE
    OBVIOUS
  <2>1. PICK j \in Ensured : \E r \in {Actual(j), Absent} : Put(j, r)
    BY DEF Disturb
  <2>2. PICK r \in {Actual(j), Absent} : Put(j, r)
    BY <2>1
  <2>3. k = j /\ Actual(k)' = r
    BY <1>0, <2>2, NothingType, ReadTypes, PutEffect
  <2>4. Absent.owner = 0
    BY DEF Absent
  <2> QED
    BY <2>3, <2>4
<1>5. PICK j \in Ensured : Ensure(j)
  BY <1>1, <1>2, <1>3, <1>4
  DEF Next, vars, Work, Users, Begin, AddFinalizer, RemoveFinalizer, WriteStatus, Fail,
      SyncService, Resync, Create, Edit, Delete, ProxyWrites, Foreign
<1>6. Put(j, Wanted(j, hs)) /\ hs.uid = Current.uid
  BY <1>0, <1>1, <1>5 DEF Ensure, Ensuring
<1>7. Wanted(j, hs) \in ResourceType /\ Wanted(j, hs).owner = hs.uid
  BY <1>0, WantedType
<1>8. Actual(k)' = IF k = j THEN Wanted(j, hs) ELSE Actual(k)
  BY <1>0, <1>6, <1>7, PutEffect
<1> QED
  BY <1>6, <1>7, <1>8

\* Whatever a pass creates or takes over belongs to the SleepyService that exists then.
THEOREM OwnerIsThere == Spec => OwnerExists
<1>1. Inv /\ [Next]_vars =>
        [\A k \in Ensured : Actual(k)' # Actual(k) /\ Actual(k)'.owner # 0 =>
           Actual(k)'.owner = Current.uid]_vars
  BY StepOwner
<1> QED
  BY <1>1, Invariance, PTL DEF Spec, OwnerExists

(***************************************************************************)
(* Why a controller that has gone quiet is done                            *)
(***************************************************************************)
\* A resource is what a pass would make of the present spec, or there will be another.
Covered(k) ==
  \/ Actual(k) = Wanted(k, Current)
  \/ queued
  \/ k \in Watched /\ Len(owned[k]) > 1

\* An account says nothing but whom it belongs to, so that the next version is the same.
AccountIsPlain ==
  \A k \in Account : \A v \in Range(owned[k]) : v.host = "" /\ v.ports = {}

\* A pass that has not been overtaken has covered what it has been at, and so has, for
\* everything that is asked for, the last one if nothing has happened since.
PassCovers == pc = "ensure" /\ fresh => \A k \in Asked \ todo : Covered(k)

RestIsCovered ==
  pc = "idle" /\ ~queued /\ Len(svc) = 1 /\ Current.uid # 0 =>
    Current.finalizer /\ ~Current.deleting /\ \A k \in Asked : Covered(k)

QuietInv == AccountIsPlain /\ PassCovers /\ RestIsCovered

\* Two resources that agree in their three fields are the same.
LEMMA SameFields ==
  ASSUME NEW A, NEW B, NEW C, NEW v \in [owner : A, host : B, ports : C],
         NEW w \in [owner : A, host : B, ports : C],
         v.owner = w.owner, v.host = w.host, v.ports = w.ports
  PROVE  v = w
OBVIOUS

\* So it is for the type that resources have.
LEMMA SameResource ==
  ASSUME NEW v \in ResourceType, NEW w \in ResourceType,
         v.owner = w.owner, v.host = w.host, v.ports = w.ports
  PROVE  v = w
<1> DEFINE A == 0 .. MaxUid
           B == Apps \cup {"", "actual"}
           C == SUBSET Nat
<1>1. v \in [owner : A, host : B, ports : C] /\ w \in [owner : A, host : B, ports : C]
  BY DEF ResourceType
<1> HIDE DEF A, B, C
<1> QED
  BY <1>1, SameFields

\* Nothing is asked for that is not followed, and of that, what is not part of the
\* account is watched.
LEMMA AskedKinds ==
  /\ Asked \subseteq Ensured
  /\ \A k \in Ensured : k \in Account \/ k \in Watched
  /\ \A k \in Ensured : Rank[k] > 3 => k \in Watched
<1>1. \A k \in Kinds : Rank[k] < 4 \/ k \in Watched
  BY DEF Rank, Kinds, Watched
<1>2. \A k \in Ensured : Rank[k] \in 1 .. 6
  BY Ranks
<1>3. \A k \in Ensured : ~(Rank[k] < 4 /\ Rank[k] > 3)
  BY <1>2
<1> QED
  BY <1>1, <1>3, KindsAssumption DEF Asked, Account

\* A resource that is written has one more version than the cache has.
LEMMA PutTrails ==
  ASSUME TypeOK, NEW k \in Ensured, NEW r \in ResourceType, Put(k, r)
  PROVE  /\ Len(owned'[k]) > 1
         /\ \A j \in Ensured : j # k => owned'[j] = owned[j]
BY LastOfAppend DEF TypeOK, Put

\* As long as neither the object nor a resource is written, and no queued pass is lost,
\* what is covered stays covered.
LEMMA StaysCovered ==
  ASSUME Current' = Current, queued => queued', NEW k \in Ensured, Covered(k),
         Actual(k)' = Actual(k) \/ (k \in Watched /\ Len(owned'[k]) > 1),
         owned'[k] = owned[k] \/ k \notin Watched \/ queued' \/ Len(owned'[k]) > 1
  PROVE  Covered(k)'
<1>1. Wanted(k, Current)' = Wanted(k, Current)
  BY DEF Wanted
<1> QED
  BY <1>1 DEF Covered

\* A pass that gives up is to be repeated, and so nothing is claimed of it.
LEMMA AnotherPass ==
  ASSUME AccountIsPlain', pc' # "ensure" \/ ~fresh' \/ todo' = Ensured,
         pc' # "idle" \/ queued' \/ Len(svc') # 1 \/ Current'.uid = 0
  PROVE  QuietInv'
<1>1. Asked' \subseteq Ensured
  BY DEF Asked
<1> QED
  BY <1>1 DEF QuietInv, PassCovers, RestIsCovered

\* What the account is made of stays plain.
LEMMA StepPlain ==
  ASSUME Inv, AccountIsPlain, [Next]_vars
  PROVE  AccountIsPlain'
<1>0. TypeOK /\ hs \in ServiceType
  BY DEF Inv, TypeOK
<1>1. ASSUME \A k \in Ensured : Range(owned'[k]) \subseteq Range(owned[k])
      PROVE  AccountIsPlain'
  BY <1>1 DEF AccountIsPlain, Account
<1>2. ASSUME NEW k \in Ensured, NEW r \in ResourceType, Put(k, r),
             k \in Account => r.host = "" /\ r.ports = {}
      PROVE  AccountIsPlain'
  <2>1. \A j \in Ensured :
          Range(owned'[j]) = IF j = k THEN Range(owned[j]) \cup {r} ELSE Range(owned[j])
    BY <1>0, <1>2, PutEffect
  <2> SUFFICES ASSUME NEW j \in Account, NEW v \in Range(owned'[j])
               PROVE  v.host = "" /\ v.ports = {}
    BY DEF AccountIsPlain, Account
  <2>2. j \in Ensured
    BY DEF Account
  <2>3. v \in Range(owned[j]) \/ (j = k /\ v = r)
    BY <2>1, <2>2
  <2> QED
    BY <1>2, <2>3 DEF AccountIsPlain
<1>3. ASSUME NEW k \in Ensured, Ensure(k) PROVE AccountIsPlain'
  <2>1. CASE UNCHANGED owned
    BY <1>1, <2>1
  <2>2. CASE Put(k, Wanted(k, hs))
    <3>1. k \in Account => Wanted(k, hs).host = "" /\ Wanted(k, hs).ports = {}
      <4> SUFFICES ASSUME k \in Account
                   PROVE  Wanted(k, hs).host = "" /\ Wanted(k, hs).ports = {}
        OBVIOUS
      <4>1. k # "Deployment" /\ Rank[k] \in 1 .. 6 /\ Rank[k] < 4
        BY Ranks DEF Account
      <4>2. ~(Rank[k] > 3)
        BY <4>1
      <4> QED
        BY <4>1, <4>2 DEF Wanted
    <3> QED
      BY <1>0, <1>2, <2>2, <3>1, WantedType
  <2> QED
    BY <1>3, <2>1, <2>2 DEF Ensure
<1>4. ASSUME NEW k \in Ensured, Collect(k) PROVE AccountIsPlain'
  <2>1. Absent.host = "" /\ Absent.ports = {}
    BY DEF Absent
  <2> QED
    BY <1>2, <1>4, <2>1, NothingType DEF Collect
<1>5. CASE Disturb
  <2>1. PICK k \in Ensured : Rank[k] > 3 /\ \E r \in {Actual(k), Absent} : Put(k, r)
    BY <1>5 DEF Disturb
  <2>2. PICK r \in {Actual(k), Absent} : Put(k, r)
    BY <2>1
  <2>3. k \notin Account /\ r \in ResourceType
    BY <1>0, <2>1, Ranks, NothingType, ReadTypes DEF Account
  <2> QED
    BY <1>2, <2>2, <2>3
<1>6. CASE Crash
  BY <1>0, <1>1, <1>6, RelistEffect, OwnedEnds
<1>7. ASSUME NEW k \in Ensured, SyncOwned(k) PROVE AccountIsPlain'
  BY <1>0, <1>1, <1>7, DeliverEffect
<1>8. CASE UNCHANGED owned
  BY <1>1, <1>8
<1> QED
  BY <1>3, <1>4, <1>5, <1>6, <1>7, <1>8
  DEF Next, vars, Work, Users, Begin, AddFinalizer, RemoveFinalizer, WriteStatus, Fail,
      SyncService, Resync, Create, Edit, Delete, ProxyWrites, Foreign

\* What a pass has ensured is covered: it is in place, or the cache that says so trails
\* behind a change that is still to be delivered.
LEMMA EnsureCovers ==
  ASSUME Inv, QuietInv, NEW k \in Ensured, Ensure(k), AccountIsPlain'
  PROVE  QuietInv'
<1>0. /\ TypeOK /\ pc = "ensure" /\ CopyIsCurrent /\ Ensuring /\ AccountStays
      /\ hs \in ServiceType /\ hs.uid # 0 /\ hs.uid = Current.uid
      /\ AccountIsPlain /\ PassCovers
  BY DEF Inv, ServiceInv, ResourceInv, Ensuring, TypeOK, QuietInv, Ensure
<1>1. CASE GiveUp
  BY <1>1, AnotherPass DEF GiveUp, Return
<1>2. CASE ~fresh /\ UNCHANGED <<pc, fresh>>
  BY <1>0, <1>2, AnotherPass
<1>3. CASE fresh /\ todo' = todo \ {k} /\ UNCHANGED <<queued, pc, hs, fresh>>
  <2>1. Current' = Current /\ Asked' = Asked /\ hs = Current
    BY <1>0, <1>3 DEF Ensure, Current, Asked, CopyIsCurrent
  <2>2. Wanted(k, Current) \in ResourceType /\ Wanted(k, Current).owner = Current.uid
    BY <1>0, <2>1, WantedType
  <2>3. \A j \in Ensured : j # k => owned'[j] = owned[j]
    BY <1>0, <2>1, <2>2, PutTrails DEF Ensure
  <2>4. \A j \in Asked \ todo : j # k => Covered(j)'
    <3> SUFFICES ASSUME NEW j \in Asked \ todo, j # k PROVE Covered(j)'
      OBVIOUS
    <3>1. j \in Ensured /\ Covered(j) /\ owned'[j] = owned[j]
      BY <1>0, <1>3, <2>3, AskedKinds DEF PassCovers
    <3>2. Actual(j)' = Actual(j)
      BY <3>1 DEF Actual
    <3> QED
      BY <1>3, <2>1, <3>1, <3>2, StaysCovered
  <2>5. k \in Asked => Covered(k)'
    <3> SUFFICES ASSUME k \in Asked PROVE Covered(k)'
      OBVIOUS
    <3>1. ~Skipped(k)
      BY <2>1 DEF Skipped, Asked
    <3>2. Wanted(k, Current)' = Wanted(k, Current)
      BY <2>1 DEF Wanted
    <3>3. CASE Actual(k)' = Wanted(k, Current)
      BY <3>2, <3>3 DEF Covered
    <3>4. CASE UNCHANGED owned /\ Head(owned[k]) = Wanted(k, Current)
      <4>1. Actual(k)' = Actual(k)
        BY <3>4 DEF Actual
      <4>2. CASE k \in Account
        <5>1. Actual(k).owner = Current.uid
          BY <1>0, <2>2, <3>4, <4>2, OwnedEnds DEF AccountStays
        <5>2. /\ Actual(k).host = "" /\ Actual(k).ports = {}
              /\ Wanted(k, Current).host = "" /\ Wanted(k, Current).ports = {}
          BY <1>0, <3>4, <4>2, OwnedEnds DEF AccountIsPlain
        <5>3. Actual(k) = Wanted(k, Current)
          BY <1>0, <2>2, <5>1, <5>2, ReadTypes, SameResource
        <5> QED
          BY <3>3, <4>1, <5>3
      <4>3. CASE Len(owned[k]) = 1
        <5>1. Head(owned[k]) = Actual(k)
          BY <1>0, <4>3, RangeHasEnds DEF TypeOK, Actual
        <5> QED
          BY <3>3, <3>4, <4>1, <5>1
      <4>4. CASE k \in Watched /\ Len(owned[k]) # 1
        <5>1. owned[k] \in Seq(ResourceType) /\ owned[k] # <<>>
          BY <1>0 DEF TypeOK
        <5>2. Len(owned[k]) \in Nat \ {0}
          BY <5>1, EmptySeq
        <5>3. \A n \in Nat \ {0} : n # 1 => n > 1
          OBVIOUS
        <5>4. Len(owned[k]) > 1
          BY <4>4, <5>2, <5>3
        <5> QED
          BY <3>4, <4>4, <5>4 DEF Covered
      <4> QED
        BY <4>2, <4>3, <4>4, AskedKinds
    <3>5. CASE Put(k, Wanted(k, Current))
      BY <1>0, <2>2, <3>3, <3>5, PutEffect
    <3>6. CASE UNCHANGED owned /\ Actual(k) = Wanted(k, Current)
      BY <3>3, <3>6 DEF Actual
    <3>7. pc' # "idle"
      BY <1>0, <1>3
    <3> QED
      BY <2>1, <3>1, <3>4, <3>5, <3>6, <3>7 DEF Ensure, GiveUp, Return
  <2>6. PassCovers'
    BY <1>3, <2>1, <2>4, <2>5 DEF PassCovers
  <2> QED
    BY <1>0, <1>3, <2>6 DEF QuietInv, RestIsCovered
<1> QED
  BY <1>1, <1>2, <1>3 DEF Ensure

\* Whatever starts between passes or next to one, it is covered by an event to come.
LEMMA StepQuiet ==
  ASSUME Inv, QuietInv, [Next]_vars
  PROVE  QuietInv'
<1>0. /\ TypeOK /\ ServiceInv /\ CopyIsCurrent /\ Marking /\ Ensuring
      /\ Current \in ServiceType /\ hs \in ServiceType
      /\ PassCovers /\ RestIsCovered /\ AccountIsPlain'
  BY ReadTypes, StepPlain DEF Inv, ServiceInv, TypeOK, QuietInv
<1>1. ASSUME Current' = Current, queued => queued', UNCHANGED <<pc, fresh, todo>>,
             Len(svc') = Len(svc),
             \A k \in Ensured : Covered(k) => Covered(k)'
      PROVE  QuietInv'
  <2>1. Asked' = Asked /\ Asked \subseteq Ensured
    BY <1>1 DEF Asked
  <2>2. PassCovers'
    BY <1>0, <1>1, <2>1 DEF PassCovers
  <2>3. RestIsCovered'
    BY <1>0, <1>1, <2>1 DEF RestIsCovered
  <2> QED
    BY <1>0, <2>2, <2>3 DEF QuietInv
<1>2. ASSUME NEW s \in ServiceType, svc' = Append(svc, s)
      PROVE  Len(svc') > 1
  BY <1>0, <1>2, LastOfAppend DEF TypeOK
<1>3. CASE Begin
  <2>1. CASE UNCHANGED pass
    <3>1. Len(svc) = 1 => Current.uid = 0
      <4>1. CASE Head(svc).uid = 0
        BY <1>0, <4>1, Ends
      <4>2. CASE pc = "idle" /\ pc' = FirstStep(Head(svc))
        BY <2>1, <4>2 DEF FirstStep, pass
      <4> QED
        BY <1>3, <4>1, <4>2 DEF Begin
    <3> QED
      BY <1>0, <1>3, <2>1, <3>1, AnotherPass DEF Begin, Current, pass
  <2>2. CASE pc' = FirstStep(Head(svc)) /\ todo' = Ensured
    BY <1>0, <2>2, AnotherPass DEF FirstStep
  <2> QED
    BY <1>3, <2>1, <2>2 DEF Begin
<1>4. CASE AddFinalizer
  BY <1>0, <1>4, AnotherPass DEF AddFinalizer, Marking, GiveUp, Return
<1>5. CASE RemoveFinalizer
  <2>1. CASE GiveUp
    BY <1>0, <2>1, AnotherPass DEF GiveUp, Return
  <2>2. CASE svc' = Append(svc, Gone) /\ Return
    BY <1>0, <1>2, <2>2, NothingType, AnotherPass DEF Return
  <2> QED
    BY <1>5, <2>1, <2>2 DEF RemoveFinalizer
<1>6. CASE WriteStatus
  <2>1. CASE GiveUp
    BY <1>0, <2>1, AnotherPass DEF GiveUp, Return
  <2>2. CASE svc' = Append(svc, hs) /\ Return
    BY <1>0, <1>2, <2>2, AnotherPass DEF Return
  <2>3. CASE fresh /\ UNCHANGED <<svc, owned, queued>> /\ Return
    <3>1. /\ Current' = Current /\ Asked' = Asked /\ Asked \subseteq Ensured
          /\ \A k : Actual(k)' = Actual(k)
      BY <2>3 DEF Current, Asked, Actual
    <3>2. pc = "ensure" /\ todo = {} /\ hs = Current
      BY <1>0, <1>6, <2>3 DEF WriteStatus, CopyIsCurrent
    <3>3. Current.finalizer /\ ~Current.deleting
      BY <1>0, <3>2 DEF Ensuring
    <3>4. \A k \in Asked : Covered(k)'
      <4> SUFFICES ASSUME NEW k \in Asked PROVE Covered(k)'
        OBVIOUS
      <4>1. k \in Ensured /\ Covered(k)
        BY <1>0, <2>3, <3>1, <3>2 DEF PassCovers
      <4> QED
        BY <2>3, <3>1, <4>1, StaysCovered
    <3>5. RestIsCovered' /\ PassCovers'
      BY <2>3, <3>1, <3>3, <3>4 DEF RestIsCovered, PassCovers, Return
    <3> QED
      BY <1>0, <3>5 DEF QuietInv
  <2> QED
    BY <1>6, <2>1, <2>2, <2>3 DEF WriteStatus, Accepted
<1>7. ASSUME NEW k \in Ensured, Ensure(k) PROVE QuietInv'
  BY <1>0, <1>7, EnsureCovers
<1>8. CASE Fail
  BY <1>0, <1>8, AnotherPass DEF Fail, GiveUp, Return
<1>9. CASE Crash
  <2>1. Current' = Current /\ Return /\ queued' = (Current.uid # 0)
    BY <1>0, <1>9, RelistEffect DEF Crash
  <2> QED
    BY <1>0, <2>1, AnotherPass DEF Return
<1>10. CASE SyncService
  <2>1. queued' /\ UNCHANGED <<owned, pc, fresh, todo>>
    BY <1>10 DEF SyncService, pass
  <2>2. \A k : Covered(k)'
    BY <2>1 DEF Covered
  <2> QED
    BY <1>0, <2>1, <2>2 DEF QuietInv, PassCovers, RestIsCovered
<1>11. ASSUME NEW k \in Ensured, SyncOwned(k) PROVE QuietInv'
  <2>1. Current' = Current /\ UNCHANGED <<svc, pc, fresh, todo>> /\ (queued => queued')
    BY <1>0, <1>11 DEF SyncOwned, Current, pass, TypeOK
  <2>2. \A j \in Ensured : Actual(j)' = Actual(j)
    BY <1>0, <1>11, DeliverEffect
  <2>3. \A j \in Ensured : owned'[j] = owned[j] \/ j \notin Watched \/ queued'
    BY <1>0, <1>11 DEF SyncOwned, TypeOK
  <2>4. \A j \in Ensured : Covered(j) => Covered(j)'
    BY <2>1, <2>2, <2>3, StaysCovered
  <2> QED
    BY <1>1, <2>1, <2>4
<1>12. CASE Resync
  <2>1. queued' /\ UNCHANGED <<pc, fresh, todo>>
    BY <1>12 DEF Resync, pass
  <2>2. \A k : Covered(k)'
    BY <2>1 DEF Covered
  <2> QED
    BY <1>0, <2>1, <2>2 DEF QuietInv, PassCovers, RestIsCovered
<1>13. ASSUME NEW k \in Ensured, NEW r \in ResourceType, Put(k, r),
              UNCHANGED <<svc, queued, pass>>,
              Covered(k) => k \in Watched \/ queued
       PROVE  QuietInv'
  <2>1. Current' = Current /\ UNCHANGED <<pc, fresh, todo>>
    BY <1>13 DEF Current, pass
  <2>2. Len(owned'[k]) > 1 /\ \A j \in Ensured : j # k => owned'[j] = owned[j]
    BY <1>0, <1>13, PutTrails
  <2>3. \A j \in Ensured : Covered(j) => Covered(j)'
    <3> SUFFICES ASSUME NEW j \in Ensured, Covered(j) PROVE Covered(j)'
      OBVIOUS
    <3>1. CASE j = k
      BY <1>13, <2>2, <3>1 DEF Covered
    <3>2. CASE j # k
      <4>1. owned'[j] = owned[j] /\ Actual(j)' = Actual(j)
        BY <2>2, <3>2 DEF Actual
      <4> QED
        BY <1>13, <2>1, <4>1, StaysCovered
    <3> QED
      BY <3>1, <3>2
  <2> QED
    BY <1>1, <1>13, <2>1, <2>3
<1>14. ASSUME NEW k \in Ensured, Collect(k) PROVE QuietInv'
  <2>1. Actual(k) # Wanted(k, Current)
    BY <1>0, <1>14, WantedType DEF Collect, Orphan
  <2>2. Covered(k) => k \in Watched \/ queued
    BY <2>1 DEF Covered
  <2> QED
    BY <1>13, <1>14, <2>2, NothingType DEF Collect
<1>15. CASE Disturb
  <2>1. PICK k \in Ensured : Rank[k] > 3 /\ \E r \in {Actual(k), Absent} : Put(k, r)
    BY <1>15 DEF Disturb
  <2>2. PICK r \in {Actual(k), Absent} : Put(k, r)
    BY <2>1
  <2>3. k \in Watched /\ r \in ResourceType
    BY <1>0, <2>1, AskedKinds, NothingType, ReadTypes
  <2> QED
    BY <1>13, <1>15, <2>2, <2>3 DEF Disturb
<1>16. CASE Users
  <2>1. PICK s \in ServiceType : Foreign(s)
    BY <1>0, <1>16, WrittenTypes, NothingType DEF Users, Create, Edit, Delete, ProxyWrites
  <2>2. Len(svc') > 1 /\ ~fresh'
    BY <1>2, <2>1 DEF Foreign
  <2> QED
    BY <1>0, <2>2, AnotherPass
<1>17. CASE UNCHANGED vars
  <2>1. /\ Current' = Current /\ UNCHANGED <<svc, queued, pc, fresh, todo>>
        /\ \A k : Actual(k)' = Actual(k) /\ owned'[k] = owned[k]
    BY <1>17 DEF vars, Current, Actual
  <2>2. \A k \in Ensured : Covered(k) => Covered(k)'
    BY <2>1, StaysCovered
  <2> QED
    BY <1>1, <2>1, <2>2
<1> QED
  BY <1>3, <1>4, <1>5, <1>6, <1>7, <1>8, <1>9, <1>10, <1>11, <1>12, <1>14, <1>15, <1>16,
     <1>17 DEF Next, Work

\* There is nothing to cover before the first object.
LEMMA InitQuiet == Init => QuietInv
<1> SUFFICES ASSUME Init PROVE QuietInv
  OBVIOUS
<1>1. Current.uid = 0 /\ pc = "idle"
  <2>1. Last(<<Gone>>) = Gone /\ Gone.uid = 0
    BY LastOfOne DEF Gone
  <2> QED
    BY <2>1 DEF Init, Current
<1>2. \A k \in Ensured : Range(owned[k]) = {Absent}
  BY RangeOfOne DEF Init
<1>3. Absent.host = "" /\ Absent.ports = {}
  BY DEF Absent
<1> QED
  BY <1>1, <1>2, <1>3 DEF QuietInv, AccountIsPlain, Account, PassCovers, RestIsCovered

\* Although resources are compared in stale caches and three kinds of them are not
\* watched, a controller that waits for nothing has nothing left to do.
THEOREM QuietMeansDone == Spec => []QuietIsDone
<1>1. QuietInv => QuietIsDone
  <2> SUFFICES ASSUME QuietInv, Quiet, Current.uid # 0
               PROVE  /\ Current.finalizer /\ ~Current.deleting
                      /\ \A k \in Asked : Actual(k) = Wanted(k, Current)
    BY DEF QuietIsDone
  <2>1. Current.finalizer /\ ~Current.deleting /\ \A k \in Asked : Covered(k)
    BY DEF QuietInv, RestIsCovered, Quiet
  <2>2. ~queued /\ \A k \in Asked : ~(Len(owned[k]) > 1)
    BY AskedKinds DEF Quiet
  <2>3. \A k \in Asked : Actual(k) = Wanted(k, Current)
    BY <2>1, <2>2 DEF Covered
  <2> QED
    BY <2>1, <2>3
<1>2. Inv /\ QuietInv /\ [Next]_vars => QuietInv'
  BY StepQuiet
<1> QED
  BY <1>1, <1>2, InitQuiet, Invariance, PTL DEF Spec
=============================================================================
