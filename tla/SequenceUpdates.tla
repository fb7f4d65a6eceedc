---------------------------- MODULE SequenceUpdates ----------------------------
(* Lemmas about sequences: rows overwritten in place, and queues.            *)
EXTENDS SequenceTheorems, TLAPS

\* A sequence rewritten in place, as RecoverExpiredLeases and LoadSteps do, stays
\* a sequence.
LEMMA SameDomain ==
  ASSUME NEW S, NEW q \in Seq(S), NEW u \in [DOMAIN q -> S] PROVE u \in Seq(S)
<1>1. Len(q) \in Nat /\ DOMAIN q = 1..Len(q)
  BY LenProperties
<1> QED
  BY <1>1, SeqDef

\* Writing one element, as the handlers do with the status of one task, step or
\* approval, leaves a sequence over the same positions.
LEMMA OverwriteInSeq ==
  ASSUME NEW S, NEW q \in Seq(S), NEW i, NEW v \in S
  PROVE  [q EXCEPT ![i] = v] \in Seq(S)
<1>1. [q EXCEPT ![i] = v] \in [DOMAIN q -> S]
  <2>1. q \in [DOMAIN q -> S]
    BY LenProperties
  <2> QED
    BY <2>1
<1> QED
  BY <1>1, SameDomain

-----------------------------------------------------------------------------
(* Queues: who stands in one, and who stands in front of whom.               *)

Occurs(q, x) == \E i \in 1..Len(q) : q[i] = x

Precedes(q, x, y) == \E i, j \in 1..Len(q) : i < j /\ q[i] = x /\ q[j] = y

\* Who joins a queue stands behind all the others.
LEMMA JoinsAtTheEnd ==
  ASSUME NEW S, NEW q \in Seq(S), NEW z \in S
  PROVE  /\ Append(q, z) # <<>>
         /\ Head(Append(q, z)) = IF q = <<>> THEN z ELSE Head(q)
         /\ \A x : Occurs(Append(q, z), x) <=> Occurs(q, x) \/ x = z
         /\ \A x, y : Precedes(Append(q, z), x, y) <=>
              Precedes(q, x, y) \/ (Occurs(q, x) /\ y = z)
<1> DEFINE u == Append(q, z)
<1>1. /\ u \in Seq(S) /\ Len(q) \in Nat /\ Len(u) = Len(q) + 1
      /\ \A i \in 1..Len(q) : u[i] = q[i]
      /\ u[Len(q) + 1] = z
  OBVIOUS
<1> HIDE DEF u
<1>2. \A x : Occurs(u, x) <=> Occurs(q, x) \/ x = z
  BY <1>1 DEF Occurs
<1>3. \A x, y : Precedes(u, x, y) <=> Precedes(q, x, y) \/ (Occurs(q, x) /\ y = z)
  BY <1>1 DEF Occurs, Precedes
<1>4. u # <<>> /\ Head(u) = u[1]
  BY <1>1, HeadTailProperties, EmptySeq
<1>5. Head(u) = IF q = <<>> THEN z ELSE Head(q)
  <2>1. CASE q = <<>>
    BY <1>1, <1>4, <2>1
  <2>2. CASE q # <<>>
    BY <1>1, <1>4, <2>2, HeadTailProperties
  <2> QED
    BY <2>1, <2>2
<1> QED
  BY <1>2, <1>3, <1>4, <1>5 DEF u

\* When the head leaves, those who stood behind it are left, in their order.
LEMMA HeadLeaves ==
  ASSUME NEW S, NEW q \in Seq(S), q # <<>>
  PROVE  /\ \A x : Occurs(q, x) <=> x = Head(q) \/ Precedes(q, Head(q), x)
         /\ \A x : Occurs(Tail(q), x) <=> Precedes(q, Head(q), x)
         /\ \A x, y : Precedes(Tail(q), x, y) => Precedes(q, x, y)
<1> DEFINE u == Tail(q)
<1>1. /\ u \in Seq(S) /\ Len(q) \in Nat /\ Len(q) >= 1 /\ Len(u) = Len(q) - 1
      /\ \A i \in 1..Len(u) : u[i] = q[i + 1]
      /\ Head(q) = q[1]
  OBVIOUS
<1> HIDE DEF u
<1>2. \A x : Occurs(q, x) <=> x = Head(q) \/ Precedes(q, Head(q), x)
  BY <1>1 DEF Occurs, Precedes
<1>3. \A x : Occurs(u, x) <=> Precedes(q, Head(q), x)
  <2>1. ASSUME NEW x, Occurs(u, x) PROVE Precedes(q, Head(q), x)
    BY <1>1, <2>1 DEF Occurs, Precedes
  <2>2. ASSUME NEW x, Precedes(q, Head(q), x) PROVE Occurs(u, x)
    <3>1. PICK i, j \in 1..Len(q) : i < j /\ q[j] = x
      BY <2>2 DEF Precedes
    <3>2. j - 1 \in 1..Len(u) /\ u[j - 1] = x
      BY <1>1, <3>1
    <3> QED
      BY <3>2 DEF Occurs
  <2> QED
    BY <2>1, <2>2
<1>4. \A x, y : Precedes(u, x, y) => Precedes(q, x, y)
  BY <1>1 DEF Precedes
<1> QED
  BY <1>2, <1>3, <1>4 DEF u
=============================================================================
