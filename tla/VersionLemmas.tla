--------------------------- MODULE VersionLemmas ---------------------------
(***************************************************************************)
(* The history of an object, from the version in a cache to the one in the *)
(* API server: what a write, a delivery and a relist do to its versions.   *)
(* The same facts serve other sequences that grow and shrink at their ends *)
(* (a subscriber's channel, the frames of a search).                       *)
(***************************************************************************)
EXTENDS Integers, Sequences, SequencesExt, SequenceTheorems, TLAPS

\* The first and the last version of a non-empty history have its type.
LEMMA LastType ==
  ASSUME NEW T, NEW s \in Seq(T), s # <<>>
  PROVE  Last(s) \in T /\ Head(s) \in T
BY DEF Last

\* A write makes the appended version the last one.
LEMMA LastOfAppend ==
  ASSUME NEW T, NEW s \in Seq(T), NEW e \in T
  PROVE  /\ Append(s, e) \in Seq(T) /\ Append(s, e) # <<>>
         /\ Last(Append(s, e)) = e
         /\ s # <<>> => Len(Append(s, e)) > 1
<1>1. /\ Append(s, e) \in Seq(T) /\ Append(s, e) # <<>>
      /\ Len(Append(s, e)) = Len(s) + 1 /\ Append(s, e)[Len(s) + 1] = e
  BY AppendProperties
<1>2. s # <<>> => Len(s) > 0
  BY EmptySeq
<1> QED
  BY <1>1, <1>2, LenProperties DEF Last

\* A delivery drops the cached version and leaves the last one.
LEMMA LastOfTail ==
  ASSUME NEW T, NEW s \in Seq(T), Len(s) > 1
  PROVE  Tail(s) \in Seq(T) /\ Tail(s) # <<>> /\ Last(Tail(s)) = Last(s)
<1>1. s # <<>> /\ Len(s) \in Nat
  BY EmptySeq, LenProperties
<1>2. /\ Tail(s) \in Seq(T) /\ Len(Tail(s)) = Len(s) - 1
      /\ \A i \in 1 .. Len(Tail(s)) : Tail(s)[i] = s[i + 1]
  BY <1>1, HeadTailProperties
<1>3. Tail(s) # <<>>
  <2>1. Len(Tail(s)) # 0
    BY <1>1, <1>2
  <2>2. Len(<<>>) = 0
    OBVIOUS
  <2> QED
    BY <2>1, <2>2, Zenon
<1>4. Tail(s)[Len(s) - 1] = s[Len(s) - 1 + 1]
  BY <1>1, <1>2
<1> QED
  BY <1>1, <1>2, <1>3, <1>4 DEF Last

\* A history of one version, as after a relist, has it as its last.
LEMMA LastOfOne ==
  ASSUME NEW T, NEW e \in T
  PROVE  <<e>> \in Seq(T) /\ <<e>> # <<>> /\ Last(<<e>>) = e
BY DEF Last

\* The cached and the stored version are among the versions.
LEMMA RangeHasEnds ==
  ASSUME NEW T, NEW s \in Seq(T), s # <<>>
  PROVE  /\ Head(s) \in Range(s) /\ Last(s) \in Range(s) /\ Range(s) \subseteq T
         /\ Len(s) = 1 => Head(s) = Last(s) /\ Range(s) = {Last(s)}
<1>1. Len(s) \in Nat \ {0}
  BY EmptySeq
<1>2. Range(s) = {s[i] : i \in 1 .. Len(s)} /\ Range(s) \subseteq T
  BY RangeEquality, RangeOfSeq
<1>3. Head(s) = s[1] /\ Last(s) = s[Len(s)]
  BY <1>1 DEF Last
<1>4. 1 \in 1 .. Len(s) /\ Len(s) \in 1 .. Len(s)
  BY <1>1
<1>5. Len(s) = 1 => 1 .. Len(s) = {1}
  OBVIOUS
<1> QED
  BY <1>2, <1>3, <1>4, <1>5

\* A write adds one version ...
LEMMA RangeOfAppend ==
  ASSUME NEW T, NEW s \in Seq(T), NEW e \in T
  PROVE  Range(Append(s, e)) = Range(s) \cup {e}
<1>1. Append(s, e) = s \o <<e>> /\ <<e>> \in Seq(T)
  BY AppendIsConcat
<1>2. Range(<<e>>) = {e}
  BY DEF Range
<1>3. Range(s \o <<e>>) = Range(s) \cup Range(<<e>>)
  BY <1>1, RangeConcatenation
<1> QED
  BY <1>1, <1>2, <1>3

\* ... and a delivery can only take one away.
LEMMA RangeOfTail ==
  ASSUME NEW T, NEW s \in Seq(T), Len(s) > 1
  PROVE  Range(Tail(s)) \subseteq Range(s)
<1>1. s # <<>> /\ Len(s) \in Nat
  BY EmptySeq, LenProperties
<1>2. /\ Tail(s) \in Seq(T) /\ Len(Tail(s)) = Len(s) - 1
      /\ \A i \in 1 .. Len(Tail(s)) : Tail(s)[i] = s[i + 1]
  BY <1>1, HeadTailProperties
<1>3. /\ Range(s) = {s[i] : i \in 1 .. Len(s)}
      /\ Range(Tail(s)) = {Tail(s)[i] : i \in 1 .. Len(Tail(s))}
  BY <1>2, RangeEquality
<1>4. \A i \in 1 .. Len(Tail(s)) : i + 1 \in 1 .. Len(s)
  BY <1>1, <1>2
<1> QED
  BY <1>2, <1>3, <1>4

\* A relist leaves one.
LEMMA RangeOfOne == ASSUME NEW e PROVE Range(<<e>>) = {e}
BY DEF Range

\* What is taken from the head is all that is taken.
LEMMA HeadAndTail ==
  ASSUME NEW T, NEW q \in Seq(T), q # << >>
  PROVE  /\ Tail(q) \in Seq(T) /\ Len(Tail(q)) =< Len(q)
         /\ Head(q) \in T /\ Range(q) = {Head(q)} \cup Range(Tail(q))
<1>1. Len(q) \in Nat \ {0} /\ Head(q) = q[1] /\ Head(q) \in T
  BY EmptySeq
<1>2. /\ Tail(q) \in Seq(T) /\ Len(Tail(q)) = Len(q) - 1
      /\ \A i \in 1 .. Len(Tail(q)) : Tail(q)[i] = q[i + 1]
  BY <1>1, HeadTailProperties
<1>3. /\ Range(q) = {q[i] : i \in 1 .. Len(q)}
      /\ Range(Tail(q)) = {Tail(q)[i] : i \in 1 .. Len(Tail(q))}
  BY <1>2, RangeEquality
<1>4. \A i \in 1 .. Len(Tail(q)) : i + 1 \in 1 .. Len(q)
  BY <1>1, <1>2
<1>5. \A i \in 1 .. Len(q) : i = 1 \/ (i - 1 \in 1 .. Len(Tail(q)) /\ q[i] = Tail(q)[i - 1])
  <2> SUFFICES ASSUME NEW i \in 1 .. Len(q), i # 1
               PROVE  i - 1 \in 1 .. Len(Tail(q)) /\ q[i] = Tail(q)[i - 1]
    OBVIOUS
  <2>1. i - 1 \in 1 .. Len(Tail(q)) /\ (i - 1) + 1 = i
    BY <1>1, <1>2
  <2> QED
    BY <1>2, <2>1
<1> QED
  BY <1>1, <1>2, <1>3, <1>4, <1>5
=============================================================================
