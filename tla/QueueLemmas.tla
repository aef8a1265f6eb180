---------------------------- MODULE QueueLemmas ----------------------------
(***************************************************************************)
(* What appending, taking the head and removing an entry do to a queue     *)
(* without repetitions and to the set of its entries.  The queues of       *)
(* requests of the serial driver are such queues.                          *)
(***************************************************************************)
EXTENDS Integers, SequencesExt, SequenceTheorems, TLAPS

\* Removing the entry at position n shifts the later ones down by one.
LEMMA RemoveAtShifts ==
    ASSUME NEW S, NEW q \in Seq(S), NEW n \in 1..Len(q)
    PROVE  /\ RemoveAt(q, n) \in Seq(S)
           /\ Len(RemoveAt(q, n)) = Len(q) - 1
           /\ \A m \in 1..Len(q) - 1 :
                  RemoveAt(q, n)[m] = IF m < n THEN q[m] ELSE q[m + 1]
<1>. DEFINE a == SubSeq(q, 1, n - 1)
            b == SubSeq(q, n + 1, Len(q))
<1>1. Len(q) \in Nat /\ \A m \in 1..Len(q) : q[m] \in S
  BY LenProperties
<1>2. /\ a \in Seq(S)
      /\ Len(a) = n - 1
      /\ \A m \in 1..n - 1 : a[m] = q[m]
  <2>1. \A m \in 1..n - 1 : q[m] \in S
    BY <1>1
  <2>. QED  BY <1>1, <2>1, SubSeqProperties
<1>3. /\ b \in Seq(S)
      /\ Len(b) = Len(q) - n
      /\ \A m \in 1..Len(q) - n : b[m] = q[n + m]
  <2>1. \A m \in n + 1..Len(q) : q[m] \in S
    BY <1>1
  <2>. QED  BY <1>1, <2>1, SubSeqProperties
<1>4. RemoveAt(q, n) = a \o b
  BY DEF RemoveAt
<1>. HIDE DEF a, b
<1>5. /\ a \o b \in Seq(S)
      /\ Len(a \o b) = Len(q) - 1
      /\ \A m \in 1..Len(q) - 1 :
             (a \o b)[m] = IF m <= n - 1 THEN a[m] ELSE b[m - (n - 1)]
  BY <1>1, <1>2, <1>3, ConcatProperties
<1>6. \A m \in 1..Len(q) - 1 : (a \o b)[m] = IF m < n THEN q[m] ELSE q[m + 1]
  <2>. SUFFICES ASSUME NEW m \in 1..Len(q) - 1
                PROVE  (a \o b)[m] = IF m < n THEN q[m] ELSE q[m + 1]
    OBVIOUS
  <2>1. CASE m < n
    BY <2>1, <1>1, <1>2, <1>5
  <2>2. CASE ~(m < n)
    <3>1. m - (n - 1) \in 1..Len(q) - n /\ n + (m - (n - 1)) = m + 1
      BY <2>2, <1>1
    <3>. QED  BY <2>2, <3>1, <1>1, <1>3, <1>5
  <2>. QED  BY <2>1, <2>2
<1>. QED  BY <1>4, <1>5, <1>6

\* The entries of a sequence are its range.
LEMMA EntriesOfRange ==
    ASSUME NEW S, NEW q \in Seq(S), NEW x
    PROVE  x \in Range(q) <=> \E n \in 1..Len(q) : q[n] = x
  BY LenProperties DEF Range

\* Appending a new entry adds it.
LEMMA AppendEntries ==
    ASSUME NEW S, NEW q \in Seq(S), IsInjective(q), NEW x \in S, x \notin Range(q)
    PROVE  /\ Append(q, x) \in Seq(S)
           /\ Append(q, x) # <<>>
           /\ IsInjective(Append(q, x))
           /\ \A y : y \in Range(Append(q, x)) <=> y \in Range(q) \/ y = x
<1>1. /\ Append(q, x) \in Seq(S)
      /\ Len(Append(q, x)) = Len(q) + 1
      /\ \A n \in 1..Len(q) : Append(q, x)[n] = q[n]
      /\ Append(q, x)[Len(q) + 1] = x
      /\ Len(q) \in Nat
  BY AppendProperties, LenProperties
<1>2. DOMAIN q = 1..Len(q) /\ DOMAIN Append(q, x) = 1..Len(q) + 1
  BY <1>1, LenProperties
<1>3. \A n \in 1..Len(q) : q[n] # x
  BY EntriesOfRange
<1>4. IsInjective(Append(q, x))
  <2>. SUFFICES ASSUME NEW m \in 1..Len(q) + 1, NEW n \in 1..Len(q) + 1,
                       Append(q, x)[m] = Append(q, x)[n]
                PROVE  m = n
    BY <1>2 DEF IsInjective
  <2>1. \A k, l \in 1..Len(q) : q[k] = q[l] => k = l
    BY <1>2 DEF IsInjective
  <2>2. CASE m \in 1..Len(q) /\ n \in 1..Len(q)
    BY <1>1, <2>1, <2>2
  <2>3. CASE m = Len(q) + 1 /\ n \in 1..Len(q)
    BY <1>1, <1>3, <2>3
  <2>4. CASE n = Len(q) + 1 /\ m \in 1..Len(q)
    BY <1>1, <1>3, <2>4
  <2>. QED  BY <1>1, <2>2, <2>3, <2>4
<1>5. \A y : y \in Range(Append(q, x)) <=> y \in Range(q) \/ y = x
  <2>. SUFFICES ASSUME NEW y
                PROVE  y \in Range(Append(q, x)) <=> y \in Range(q) \/ y = x
    OBVIOUS
  <2>1. y \in Range(Append(q, x)) <=>
            \E n \in 1..Len(q) + 1 : Append(q, x)[n] = y
    <3>1. y \in Range(Append(q, x)) <=>
              \E n \in 1..Len(Append(q, x)) : Append(q, x)[n] = y
      BY <1>1, EntriesOfRange
    <3>. QED  BY <1>1, <3>1
  <2>2. y \in Range(q) <=> \E n \in 1..Len(q) : q[n] = y
    BY EntriesOfRange
  <2>. QED  BY <1>1, <2>1, <2>2
<1>6. Append(q, x) # <<>>
  BY <1>1, EmptySeq
<1>. QED  BY <1>1, <1>4, <1>5, <1>6

\* Taking the head removes it.
LEMMA HeadEntries ==
    ASSUME NEW S, NEW q \in Seq(S), IsInjective(q), q # <<>>
    PROVE  /\ Head(q) \in S
           /\ Head(q) \in Range(q)
           /\ Tail(q) \in Seq(S)
           /\ IsInjective(Tail(q))
           /\ \A y : y \in Range(Tail(q)) <=> y \in Range(q) /\ y # Head(q)
<1>1. /\ Head(q) \in S
      /\ Tail(q) \in Seq(S)
      /\ Head(q) = q[1]
      /\ Len(q) \in Nat /\ Len(q) >= 1
      /\ Len(Tail(q)) = Len(q) - 1
      /\ \A n \in 1..Len(q) - 1 : Tail(q)[n] = q[n + 1]
  BY HeadTailProperties, EmptySeq, LenProperties
<1>2. DOMAIN q = 1..Len(q) /\ DOMAIN Tail(q) = 1..Len(q) - 1
  BY <1>1, LenProperties
<1>3. \A k, l \in 1..Len(q) : q[k] = q[l] => k = l
  BY <1>2 DEF IsInjective
<1>4. IsInjective(Tail(q))
  <2>. SUFFICES ASSUME NEW m \in 1..Len(q) - 1, NEW n \in 1..Len(q) - 1,
                       Tail(q)[m] = Tail(q)[n]
                PROVE  m = n
    BY <1>2 DEF IsInjective
  <2>. QED  BY <1>1, <1>3
<1>5. \A y : y \in Range(Tail(q)) <=> y \in Range(q) /\ y # Head(q)
  <2>. SUFFICES ASSUME NEW y
                PROVE  y \in Range(Tail(q)) <=> y \in Range(q) /\ y # Head(q)
    OBVIOUS
  <2>1. y \in Range(Tail(q)) <=> \E n \in 1..Len(q) - 1 : Tail(q)[n] = y
    <3>1. y \in Range(Tail(q)) <=> \E n \in 1..Len(Tail(q)) : Tail(q)[n] = y
      BY <1>1, EntriesOfRange
    <3>. QED  BY <1>1, <3>1
  <2>2. y \in Range(q) <=> \E n \in 1..Len(q) : q[n] = y
    BY EntriesOfRange
  <2>3. ASSUME NEW n \in 1..Len(q), q[n] = y, y # Head(q)
        PROVE  \E m \in 1..Len(q) - 1 : Tail(q)[m] = y
    <3>1. n # 1
      BY <1>1, <2>3
    <3>2. n - 1 \in 1..Len(q) - 1 /\ Tail(q)[n - 1] = y
      BY <1>1, <2>3, <3>1
    <3>. QED  BY <3>2
  <2>4. ASSUME NEW m \in 1..Len(q) - 1, Tail(q)[m] = y
        PROVE  (\E n \in 1..Len(q) : q[n] = y) /\ y # Head(q)
    BY <1>1, <1>3, <2>4
  <2>. QED  BY <2>1, <2>2, <2>3, <2>4
<1>6. Head(q) \in Range(q)
  BY <1>1, EntriesOfRange
<1>. QED  BY <1>1, <1>4, <1>5, <1>6

\* Removing an entry removes it.
LEMMA RemoveEntries ==
    ASSUME NEW S, NEW q \in Seq(S), IsInjective(q), NEW n \in 1..Len(q)
    PROVE  /\ q[n] \in S
           /\ q[n] \in Range(q)
           /\ RemoveAt(q, n) \in Seq(S)
           /\ IsInjective(RemoveAt(q, n))
           /\ \A y : y \in Range(RemoveAt(q, n)) <=> y \in Range(q) /\ y # q[n]
<1>. DEFINE r == RemoveAt(q, n)
<1>1. /\ r \in Seq(S)
      /\ Len(r) = Len(q) - 1
      /\ \A m \in 1..Len(q) - 1 : r[m] = IF m < n THEN q[m] ELSE q[m + 1]
  BY RemoveAtShifts
<1>2. /\ Len(q) \in Nat /\ q[n] \in S
      /\ DOMAIN q = 1..Len(q) /\ DOMAIN r = 1..Len(q) - 1
  BY <1>1, LenProperties
<1>. HIDE DEF r
<1>3. \A k, l \in 1..Len(q) : q[k] = q[l] => k = l
  BY <1>2 DEF IsInjective
<1>4. IsInjective(r)
  <2>. SUFFICES ASSUME NEW k \in 1..Len(q) - 1, NEW l \in 1..Len(q) - 1,
                       r[k] = r[l]
                PROVE  k = l
    BY <1>2 DEF IsInjective
  <2>. QED  BY <1>1, <1>2, <1>3
<1>5. \A y : y \in Range(r) <=> y \in Range(q) /\ y # q[n]
  <2>. SUFFICES ASSUME NEW y
                PROVE  y \in Range(r) <=> y \in Range(q) /\ y # q[n]
    OBVIOUS
  <2>1. y \in Range(r) <=> \E m \in 1..Len(q) - 1 : r[m] = y
    BY <1>1, EntriesOfRange
  <2>2. y \in Range(q) <=> \E m \in 1..Len(q) : q[m] = y
    BY EntriesOfRange
  <2>3. ASSUME NEW m \in 1..Len(q), q[m] = y, y # q[n]
        PROVE  \E k \in 1..Len(q) - 1 : r[k] = y
    <3>1. CASE m < n
      BY <1>1, <1>2, <2>3, <3>1
    <3>2. CASE m > n
      <4>1. m - 1 \in 1..Len(q) - 1 /\ r[m - 1] = y
        BY <1>1, <1>2, <2>3, <3>2
      <4>. QED  BY <4>1
    <3>. QED  BY <2>3, <3>1, <3>2
  <2>4. ASSUME NEW k \in 1..Len(q) - 1, r[k] = y
        PROVE  (\E m \in 1..Len(q) : q[m] = y) /\ y # q[n]
    BY <1>1, <1>2, <1>3, <2>4
  <2>. QED  BY <2>1, <2>2, <2>3, <2>4
<1>6. q[n] \in Range(q)
  BY EntriesOfRange
<1>. QED  BY <1>1, <1>2, <1>4, <1>5, <1>6 DEF r
=============================================================================
