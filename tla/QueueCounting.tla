---------------------------- MODULE QueueCounting ----------------------------
(***************************************************************************)
(* Counting the entries of a queue that lie in a set: what adding an entry *)
(* at the end and taking the first one do to the count.                    *)
(***************************************************************************)
EXTENDS Integers, Sequences, FiniteSets, FiniteSetTheorems, TLAPS

Hits(q, S) == {i \in DOMAIN q : q[i] \in S}
Count(q, S) == Cardinality(Hits(q, S))

LEMMA HitsFinite ==
    ASSUME NEW T, NEW q \in Seq(T), NEW S
    PROVE  IsFiniteSet(Hits(q, S)) /\ Count(q, S) \in Nat
<1>1. Len(q) \in Nat /\ DOMAIN q = 1..Len(q)
  OBVIOUS
<1>2. IsFiniteSet(1..Len(q))
  BY <1>1, FS_Interval
<1>3. Hits(q, S) \in SUBSET (1..Len(q))
  BY <1>1 DEF Hits
<1>4. IsFiniteSet(Hits(q, S))
  BY <1>2, <1>3, FS_Subset
<1> QED
  BY <1>4, FS_CardinalityType DEF Count

LEMMA CountEmpty == ASSUME NEW S PROVE Count(<<>>, S) = 0
<1>1. Hits(<<>>, S) = {}
  BY DEF Hits
<1> QED
  BY <1>1, FS_EmptySet DEF Count

(* An entry at the end counts if it lies in the set.                       *)
LEMMA CountAppend ==
    ASSUME NEW T, NEW q \in Seq(T), NEW e \in T, NEW S
    PROVE  Count(Append(q, e), S) = Count(q, S) + (IF e \in S THEN 1 ELSE 0)
<1>1. /\ Len(q) \in Nat /\ DOMAIN q = 1..Len(q)
      /\ DOMAIN Append(q, e) = 1..(Len(q) + 1)
      /\ \A i \in 1..Len(q) : Append(q, e)[i] = q[i]
      /\ Append(q, e)[Len(q) + 1] = e
  OBVIOUS
<1>2. IsFiniteSet(Hits(q, S)) /\ Count(q, S) \in Nat
  BY HitsFinite
<1>3. CASE e \in S
  <2>1. Hits(Append(q, e), S) = Hits(q, S) \cup {Len(q) + 1}
    BY <1>1, <1>3 DEF Hits
  <2>2. Len(q) + 1 \notin Hits(q, S)
    BY <1>1 DEF Hits
  <2> QED
    BY <1>2, <1>3, <2>1, <2>2, FS_AddElement DEF Count
<1>4. CASE e \notin S
  <2>1. Hits(Append(q, e), S) = Hits(q, S)
    BY <1>1, <1>4 DEF Hits
  <2> QED
    BY <1>2, <1>4, <2>1 DEF Count
<1> QED
  BY <1>3, <1>4

(* Taking the first entry uncounts it if it lies in the set.               *)
LEMMA CountTail ==
    ASSUME NEW T, NEW q \in Seq(T), q # <<>>, NEW S
    PROVE  Count(Tail(q), S) = Count(q, S) - (IF Head(q) \in S THEN 1 ELSE 0)
<1>1. /\ Len(q) \in Nat \ {0} /\ DOMAIN q = 1..Len(q)
      /\ DOMAIN Tail(q) = 1..(Len(q) - 1)
      /\ \A i \in 1..(Len(q) - 1) : Tail(q)[i] = q[i + 1]
      /\ Head(q) = q[1]
  OBVIOUS
<1>2. IsFiniteSet(Hits(q, S)) /\ Count(q, S) \in Nat
  BY HitsFinite
<1>3. Count(Tail(q), S) = Cardinality(Hits(q, S) \ {1})
  <2> DEFINE f == [i \in Hits(q, S) \ {1} |-> i - 1]
  <2>1. f \in Bijection(Hits(q, S) \ {1}, Hits(Tail(q), S))
    <3>1. \A i \in Hits(q, S) \ {1} : f[i] \in Hits(Tail(q), S)
      BY <1>1 DEF Hits
    <3>2. f \in Injection(Hits(q, S) \ {1}, Hits(Tail(q), S))
      BY <1>1, <3>1 DEF Injection, IsInjective, Hits
    <3>3. \A j \in Hits(Tail(q), S) : j + 1 \in Hits(q, S) \ {1} /\ f[j + 1] = j
      BY <1>1 DEF Hits
    <3> QED
      BY <3>1, <3>2, <3>3 DEF Bijection, Surjection, Injection
  <2>2. IsFiniteSet(Hits(q, S) \ {1})
    BY <1>2, FS_RemoveElement
  <2> QED
    BY <2>1, <2>2, FS_Bijection DEF Count, ExistsBijection
<1>4. 1 \in Hits(q, S) <=> Head(q) \in S
  BY <1>1 DEF Hits
<1>5. Cardinality(Hits(q, S) \ {1})
        = IF 1 \in Hits(q, S) THEN Count(q, S) - 1 ELSE Count(q, S)
  BY <1>2, FS_RemoveElement DEF Count
<1> QED
  BY <1>2, <1>3, <1>4, <1>5
===============================================================================
