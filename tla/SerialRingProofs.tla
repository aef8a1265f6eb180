-------------------------- MODULE SerialRingProofs --------------------------
(***************************************************************************)
(* For every size of the ring, every length of a read and every size a     *)
(* resize asks for: the ISR and the copies stay inside their buffers, even *)
(* when reads are cancelled between their copies; the count of characters  *)
(* is exact; and the characters reach the reads in order, which is that    *)
(* SerialRing implements CharQueue.                                        *)
(*                                                                         *)
(* The order is proved entry by entry: Nth(k) is the k-th buffered         *)
(* character (ContentsIs), and each action has a lemma that names the step *)
(* of CharQueue it is (<action>Order).                                     *)
(***************************************************************************)
EXTENDS SerialRing, SequenceTheorems, TLAPS

\* A wrapped offset is an offset in the ring.
LEMMA WrapsInside ==
    ASSUME NEW a \in Nat, NEW n \in Nat \ {0}
    PROVE  a % n \in 0..n - 1
  OBVIOUS

\* Copying readable characters into a buffer leaves a buffer of its size.
LEMMA FilledType ==
    ASSUME NEW n \in Nat, NEW buffer \in Buffer(n),
           size \in Nat \ {0}, ring \in Buffer(size), first \in Nat,
           NEW offset \in Nat, NEW got \in Nat
    PROVE  Filled(buffer, offset, got) \in Buffer(n)
<1>. SUFFICES ASSUME NEW k \in 0..n - 1, k \in offset..offset + got - 1
              PROVE  Readable(k - offset) \in Values
  BY DEF Filled, Buffer
<1>1. first + (k - offset) \in Nat
  OBVIOUS
<1>2. (first + (k - offset)) % size \in 0..size - 1
  BY <1>1, WrapsInside
<1>. QED  BY <1>2 DEF Readable, Buffer

\* A new buffer is well typed.
LEMMA NewBufferType == ASSUME NEW n \in Nat PROVE NewBuffer(n) \in Buffer(n)
  BY DEF NewBuffer, Buffer, Values

\* Going back to the empty ring restores the bounds.
LEMMA EmptyRingBounds ==
    ASSUME RingInv, EmptyRing, size' = size
    PROVE  /\ base' = "ring"
           /\ first' \in 0..size' - 1 /\ slot' \in Nat /\ last' \in Nat
           /\ slot' < size' /\ last' = size' - 1 /\ count' = 0
           /\ count' \in 0..size' /\ skewed' \in BOOLEAN
<1>1. skewed' \in BOOLEAN
  BY DEF EmptyRing
<1>. QED  BY <1>1, SerialRingAssumption DEF RingInv, TypeOK, EmptyRing

\* What a copy takes is there and is asked for.
LEMMA LesserBounds ==
    ASSUME NEW a \in Nat, NEW b \in Nat
    PROVE  /\ Lesser(a, b) \in 0..a /\ Lesser(a, b) \in 0..b
           /\ Lesser(a, b) < b => Lesser(a, b) = a
  BY DEF Lesser

\* RingInv is inductive.
THEOREM RingInductive == Spec => []RingInv
<1>. USE SerialRingAssumption
<1>1. Init => RingInv
  <2>. SUFFICES ASSUME Init PROVE RingInv
    OBVIOUS
  <2>1. ring \in Buffer(size) /\ user \in Buffer(MaxLen)
    BY NewBufferType DEF Init
  <2>2. TypeOK
    <3>1. skewed \in BOOLEAN
      BY DEF Init
    <3>. QED  BY <2>1, <3>1 DEF Init, TypeOK, ReadModes
  <2>. QED  BY <2>2 DEF Init, RingInv, StoresInBounds
<1>2. RingInv /\ [Next]_vars => RingInv'
  <2>. SUFFICES ASSUME RingInv, [Next]_vars PROVE RingInv'
    OBVIOUS
  <2>0. /\ size \in FirstSize..MaxSize /\ size \in Nat \ {0}
        /\ ring \in Buffer(size) /\ user \in Buffer(MaxLen)
        /\ first \in 0..size - 1 /\ slot \in Nat /\ last \in Nat
        /\ count \in 0..size /\ copied \in 0..count
        /\ length \in 0..MaxLen /\ info \in 0..MaxLen /\ needed \in 0..MaxLen
        /\ base \in {"ring", "user"} /\ skewed \in BOOLEAN
    BY DEF RingInv, TypeOK
  <2>. USE DEF ringVars, readVars, stepVars
  <2>1. CASE UNCHANGED vars
    BY <2>1 DEF RingInv, TypeOK, StoresInBounds, vars
  <2>2. ASSUME NEW ch \in Chars, PutCharInUserBuffer(ch) PROVE RingInv'
    <3>1. /\ base = "user" /\ slot <= last /\ last = length - 1
          /\ count = 0 /\ place = "idle" /\ copied = 0
      BY <2>2 DEF PutCharInUserBuffer, RingInv, StoresInBounds
    <3>2. user' \in Buffer(MaxLen)
      BY <2>0, <2>2, <3>1 DEF PutCharInUserBuffer, Buffer, Values
    <3>3. CASE slot = last
      <4>1. EmptyRing /\ info' = length
        BY <2>2, <3>3, <2>0 DEF PutCharInUserBuffer
      <4>2. UNCHANGED <<ring, size, length, needed, mode, place, copied,
                        newRing>>
        BY <2>2 DEF PutCharInUserBuffer
      <4>. QED
        BY <2>0, <3>1, <3>2, <4>1, <4>2, EmptyRingBounds
        DEF RingInv, TypeOK, StoresInBounds
    <3>4. CASE slot # last
      <4>1. /\ slot' = slot + 1
            /\ UNCHANGED <<first, base, last, count, info, skewed>>
            /\ UNCHANGED <<ring, size, length, needed, mode, place, copied,
                           newRing>>
        BY <2>2, <3>4 DEF PutCharInUserBuffer
      <4>. QED
        BY <2>0, <3>1, <3>2, <3>4, <4>1 DEF RingInv, TypeOK, StoresInBounds
    <3>. QED  BY <3>3, <3>4
  <2>3. ASSUME NEW ch \in Chars, PutCharInRing(ch) PROVE RingInv'
    <3>1. base = "ring" /\ slot < size /\ last = size - 1
      BY <2>3 DEF PutCharInRing, RingInv, StoresInBounds
    <3>2. ring' \in Buffer(size)
      BY <2>0, <2>3, <3>1 DEF PutCharInRing, Buffer, Values
    <3>. QED
      BY <2>0, <2>3, <3>1, <3>2 DEF PutCharInRing, RingInv, TypeOK,
                                    StoresInBounds
  <2>4. CASE MarkOverrun
    <3>1. base = "ring" /\ slot < size /\ last = size - 1
      BY <2>4 DEF MarkOverrun, RingInv, StoresInBounds
    <3>2. ring' \in Buffer(size)
      BY <2>0, <2>4, <3>1 DEF MarkOverrun, Buffer, Values
    <3>. QED
      BY <2>4, <3>2 DEF MarkOverrun, RingInv, TypeOK, StoresInBounds
  <2>5. ASSUME NEW n \in 1..MaxLen, NEW m \in ReadModes, FirstCopy(n, m)
        PROVE  RingInv'
    <3>. DEFINE got == Lesser(count, n)
    <3>1. got \in 0..count /\ got \in 0..n
      <4>1. count \in Nat /\ n \in Nat
        BY <2>0
      <4>. QED  BY <4>1, LesserBounds
    <3>2. user' \in Buffer(MaxLen)
      BY <2>0, <2>5, <3>1, NewBufferType, FilledType DEF FirstCopy
    <3>3. first' \in 0..size - 1
      BY <2>0, <2>5, <3>1, WrapsInside DEF FirstCopy, Advance
    <3>4. /\ length' = n /\ mode' = m /\ needed' = n - got /\ info' = got
          /\ copied' = got /\ place' = "copied" /\ place = "idle"
          /\ base = "ring"
          /\ UNCHANGED <<ring, size, base, slot, last, count, newRing, skewed>>
      BY <2>5 DEF FirstCopy
    <3>. HIDE DEF got
    <3>. QED
      BY <2>0, <3>1, <3>2, <3>3, <3>4 DEF RingInv, TypeOK, StoresInBounds
  <2>6. CASE FinishAtOnce
    BY <2>0, <2>6 DEF FinishAtOnce, RingInv, TypeOK, StoresInBounds
  <2>7. CASE FinishCancelled
    BY <2>0, <2>7 DEF FinishCancelled, RingInv, TypeOK, StoresInBounds
  <2>8. CASE SwitchToUser
    <3>. DEFINE wanted == IF mode = "one" THEN 1 ELSE needed
                n == IF mode = "one" THEN 1 ELSE length
                left == count - copied
                got == Lesser(left, wanted)
    <3>1. /\ base = "ring" /\ place = "copied" /\ info + needed = length
          /\ needed # 0 /\ (mode = "one" => info = 0)
          /\ slot < size /\ last = size - 1 /\ newRing = <<>>
      BY <2>0, <2>8 DEF SwitchToUser, Satisfied, RingInv, StoresInBounds
    <3>2. /\ wanted \in 1..MaxLen /\ n \in 1..MaxLen /\ left \in Nat
          /\ info + wanted = n
      BY <2>0, <3>1
    <3>. HIDE DEF wanted, n, left
    <3>3. /\ got \in 0..left /\ got \in 0..wanted
          /\ got < wanted => got = left
      <4>1. left \in Nat /\ wanted \in Nat
        BY <3>2
      <4>. QED  BY <4>1, LesserBounds
    <3>4. /\ user' = Filled(user, n - wanted, got)
          /\ length' = n /\ needed' = wanted - got /\ info' = info + got
          /\ count' = left - got /\ Advance(got)
          /\ place' = "idle" /\ copied' = 0
          /\ UNCHANGED <<ring, size, mode, newRing, skewed>>
      BY <2>8 DEF SwitchToUser, wanted, n, left
    <3>5. IF got < wanted
          THEN base' = "user" /\ slot' = info + got /\ last' = n - 1
          ELSE UNCHANGED <<base, slot, last>>
      BY <2>8 DEF SwitchToUser, wanted, n, left
    <3>. HIDE DEF got
    <3>6. user' \in Buffer(MaxLen)
      <4>1. n - wanted \in Nat /\ got \in Nat /\ first \in Nat
        BY <2>0, <3>2, <3>3
      <4>. QED  BY <2>0, <3>4, <4>1, FilledType
    <3>7. first' \in 0..size - 1
      <4>1. first + got \in Nat
        BY <2>0, <3>2, <3>3
      <4>. QED  BY <2>0, <3>4, <4>1, WrapsInside DEF Advance
    <3>8. /\ info' \in 0..MaxLen /\ needed' \in 0..MaxLen
          /\ length' \in 0..MaxLen /\ count' \in 0..size
      BY <2>0, <3>2, <3>3, <3>4 DEF left
    <3>9. TypeOK'
      BY <2>0, <3>1, <3>2, <3>3, <3>4, <3>5, <3>6, <3>7, <3>8
      DEF RingInv, TypeOK
    <3>10. StoresInBounds'
      BY <2>0, <3>1, <3>2, <3>3, <3>4, <3>5 DEF StoresInBounds
    <3>. QED  BY <3>1, <3>4, <3>9, <3>10 DEF RingInv
  <2>9. CASE GrabReadFromIsr
    <3>1. /\ base = "user" /\ slot <= last /\ last = length - 1
          /\ count = 0 /\ place = "idle" /\ copied = 0
      BY <2>9 DEF GrabReadFromIsr, RingInv, StoresInBounds
    <3>2. info' \in 0..MaxLen
      BY <2>0, <2>9, <3>1 DEF GrabReadFromIsr
    <3>3. /\ EmptyRing
          /\ UNCHANGED <<ring, size, user, length, needed, mode, place,
                         copied, newRing>>
      BY <2>9 DEF GrabReadFromIsr
    <3>. QED
      BY <2>0, <3>1, <3>2, <3>3, EmptyRingBounds
      DEF RingInv, TypeOK, StoresInBounds
  <2>10. CASE PurgeInterruptBuff
    <3>1. copied = 0
      BY <2>10 DEF PurgeInterruptBuff, RingInv
    <3>. QED
      BY <2>0, <2>10, <3>1, EmptyRingBounds
      DEF PurgeInterruptBuff, RingInv, TypeOK, StoresInBounds
  <2>11. ASSUME NEW n \in 1..MaxSize, MoveToNewIntBuffer(n) PROVE RingInv'
    <3>1. n \in size + 1..MaxSize /\ n \in Nat
      BY <2>0, <2>11 DEF MoveToNewIntBuffer
    <3>2. newRing' \in Buffer(n)
      BY <2>0, <2>11, <3>1, NewBufferType, FilledType DEF MoveToNewIntBuffer
    <3>3. first' \in 0..size - 1
      BY <2>0, <2>11, WrapsInside DEF MoveToNewIntBuffer, Advance
    <3>4. /\ copied' = count /\ place' = "moved" /\ base = "ring"
          /\ UNCHANGED <<ring, size, base, slot, last, count, user, length,
                         info, needed, mode, skewed>>
      BY <2>11 DEF MoveToNewIntBuffer
    <3>. QED
      BY <2>0, <3>1, <3>2, <3>3, <3>4 DEF RingInv, TypeOK, StoresInBounds
  <2>12. CASE SwitchToNew
    <3>1. base = "ring"
      BY <2>0, <2>12 DEF SwitchToNew, RingInv, StoresInBounds
    <3>2. PICK n \in size + 1..MaxSize :
              DOMAIN newRing = 0..n - 1 /\ size' = n /\ last' = n - 1
      BY <2>12 DEF SwitchToNew
    <3>3. PICK m \in size + 1..MaxSize : newRing \in Buffer(m)
      BY <2>12 DEF SwitchToNew, RingInv
    <3>4. newRing \in Buffer(n)
      BY <3>2, <3>3 DEF Buffer
    <3>5. ring' \in Buffer(n)
      <4>1. ring' = Filled(newRing, copied, count - copied)
        BY <2>12 DEF SwitchToNew
      <4>2. n \in Nat /\ copied \in Nat /\ count - copied \in Nat
        BY <2>0, <3>2
      <4>. QED  BY <2>0, <3>4, <4>1, <4>2, FilledType
    <3>6. /\ first' = 0 /\ slot' = count /\ place' = "idle" /\ copied' = 0
          /\ newRing' = <<>>
          /\ UNCHANGED <<base, count, user, length, info, needed, mode, skewed>>
      BY <2>12 DEF SwitchToNew
    <3>. QED
      BY <2>0, <3>1, <3>2, <3>5, <3>6 DEF RingInv, TypeOK, StoresInBounds
  <2>. QED
    BY <2>1, <2>2, <2>3, <2>4, <2>5, <2>6, <2>7, <2>8, <2>9, <2>10, <2>11,
       <2>12
    DEF Next
<1>. QED  BY <1>1, <1>2, PTL DEF Spec

\* The values keep their types; the counts stay within the buffers.
THEOREM RingTypeCorrect == Spec => []TypeOK
<1>1. RingInv => TypeOK
  BY DEF RingInv
<1>. QED  BY RingInductive, <1>1, PTL

\* The ISR never stores outside the ring or the user buffer.
THEOREM StoresAlwaysInBounds == Spec => []StoresInBounds
<1>1. RingInv => StoresInBounds
  BY DEF RingInv
<1>. QED  BY RingInductive, <1>1, PTL

-----------------------------------------------------------------------------
(* The count of characters. *)

\* One turn around the ring is undone by one subtraction.
LEMMA WrapOnce ==
    ASSUME NEW n \in Nat \ {0}, NEW a \in 0..n + n - 1
    PROVE  a % n = IF a < n THEN a ELSE a - n
<1>. DEFINE q == a \div n
            r == a % n
<1>1. a = n * q + r /\ r \in 0..n - 1 /\ q \in Int
  OBVIOUS
<1>2. q < 2 /\ q >= 0
  BY <1>1
<1>3. q = 0 \/ q = 1
  BY <1>1, <1>2
<1>. HIDE DEF q, r
<1>4. r = IF a < n THEN a ELSE a - n
  BY <1>1, <1>3
<1>. QED  BY <1>4 DEF r

\* Taking n characters from the front of the ring moves no other one.
LEMMA TakeInSync ==
    ASSUME NEW s \in Nat \ {0}, NEW f \in 0..s - 1,
           NEW k \in 0..s, NEW n \in 0..k
    PROVE  (f + k) % s = (((f + n) % s) + (k - n)) % s
<1>1. (f + n) % s = IF f + n < s THEN f + n ELSE f + n - s
  <2>1. f + n \in 0..s + s - 1
    OBVIOUS
  <2>. QED  BY <2>1, WrapOnce
<1>2. (f + k) % s = IF f + k < s THEN f + k ELSE f + k - s
  <2>1. f + k \in 0..s + s - 1
    OBVIOUS
  <2>. QED  BY <2>1, WrapOnce
<1>3. CASE f + n < s
  BY <1>1, <1>3
<1>4. CASE f + n >= s
  <2>. DEFINE x == f + n - s + (k - n)
  <2>1. x \in 0..s + s - 1 /\ x < s /\ x = f + k - s
    BY <1>4
  <2>. HIDE DEF x
  <2>2. x % s = x
    BY <2>1, WrapOnce
  <2>. QED  BY <1>1, <1>2, <1>4, <2>1, <2>2 DEF x
<1>. QED  BY <1>3, <1>4

\* Storing one more character moves the free slot by one.
LEMMA StoreInSync ==
    ASSUME NEW s \in Nat \ {0}, NEW f \in 0..s - 1, NEW k \in 0..s - 1
    PROVE  (f + k + 1) % s = IF (f + k) % s = s - 1 THEN 0 ELSE ((f + k) % s) + 1
<1>. DEFINE x == f + k
            y == f + k + 1
<1>1. x \in 0..s + s - 1 /\ y \in 0..s + s - 1 /\ y = x + 1
  OBVIOUS
<1>. HIDE DEF x, y
<1>2. x % s = IF x < s THEN x ELSE x - s
  BY <1>1, WrapOnce
<1>3. y % s = IF y < s THEN y ELSE y - s
  BY <1>1, WrapOnce
<1>4. y % s = IF x % s = s - 1 THEN 0 ELSE (x % s) + 1
  BY <1>1, <1>2, <1>3
<1>. QED  BY <1>4 DEF x, y

\* Unless a read was cancelled between its two copies since the ring was last
\* empty, CharsInInterruptBuffer is exactly the distance from
\* FirstReadableChar to CurrentCharSlot, less a copy not yet accounted for.
THEOREM CountInSync == Spec => []RingInSync
<1>. USE SerialRingAssumption
<1>1. Init => RingInSync
  BY DEF Init, RingInSync, CountExact
<1>2. RingInv /\ RingInSync /\ [Next]_vars => RingInSync'
  <2>. SUFFICES ASSUME RingInv, RingInSync, [Next]_vars, base' = "ring", ~skewed'
                PROVE  slot' = (first' + count' - copied') % size'
    BY DEF RingInSync, CountExact
  <2>0. /\ size \in Nat \ {0} /\ first \in 0..size - 1 /\ slot \in Nat
        /\ count \in 0..size /\ copied \in 0..count
        /\ length \in Nat /\ needed \in Nat
        /\ base = "ring" /\ ~skewed => slot = (first + count - copied) % size
        /\ base = "ring" => last = size - 1
        /\ place = "idle" => copied = 0
    BY DEF RingInv, TypeOK, RingInSync, CountExact, StoresInBounds
  <2>. DEFINE Goal == slot' = (first' + count' - copied') % size'
  <2>. USE DEF ringVars, readVars, stepVars
  <2>1. ASSUME UNCHANGED <<first, count, copied, size, slot, base>>, ~skewed
        PROVE  Goal
    BY <2>0, <2>1
  <2>2. ASSUME EmptyRing, size' = size, copied' = 0  PROVE Goal
    BY <2>0, <2>2 DEF EmptyRing
  <2>3. ASSUME UNCHANGED vars \/ MarkOverrun  PROVE Goal
    BY <2>1, <2>3 DEF vars, MarkOverrun
  <2>4. ASSUME NEW ch \in Chars, PutCharInUserBuffer(ch)  PROVE Goal
    <3>1. base = "user" /\ copied = 0
      BY <2>0, <2>4 DEF PutCharInUserBuffer, RingInv, StoresInBounds
    <3>2. EmptyRing /\ size' = size /\ copied' = 0
      BY <2>4, <3>1 DEF PutCharInUserBuffer
    <3>. QED  BY <2>2, <3>2
  <2>5. ASSUME NEW ch \in Chars, PutCharInRing(ch)  PROVE Goal
    <3>. DEFINE k == count - copied
    <3>1. /\ base = "ring" /\ count < size /\ count' = count + 1
          /\ slot' = IF slot = last THEN 0 ELSE slot + 1
          /\ UNCHANGED <<first, copied, size, skewed>>
      BY <2>5 DEF PutCharInRing
    <3>2. k \in 0..size - 1 /\ slot = (first + k) % size /\ last = size - 1
      BY <2>0, <3>1
    <3>3. first' + count' - copied' = first + k + 1
      BY <2>0, <3>1
    <3>. HIDE DEF k
    <3>. QED  BY <2>0, <3>1, <3>2, <3>3, StoreInSync
  <2>6. ASSUME NEW n \in 1..MaxLen, NEW m \in ReadModes, FirstCopy(n, m)
        PROVE  Goal
    <3>. DEFINE got == Lesser(count, n)
    <3>1. /\ base = "ring" /\ copied = 0 /\ copied' = got
          /\ first' = (first + got) % size
          /\ UNCHANGED <<size, slot, count, skewed>>
      BY <2>0, <2>6 DEF FirstCopy, Advance
    <3>2. got \in 0..count
      <4>1. count \in Nat /\ n \in Nat
        BY <2>0
      <4>. QED  BY <4>1, LesserBounds
    <3>. HIDE DEF got
    <3>3. (first + count) % size = (((first + got) % size) + (count - got)) % size
      BY <2>0, <3>2, TakeInSync
    <3>4. (first + got) % size \in 0..size - 1
      BY <2>0, <3>2, WrapsInside
    <3>5. slot = (first + count) % size
      BY <2>0, <3>1
    <3>6. first' + count' - copied' = ((first + got) % size) + (count - got)
      BY <2>0, <3>1, <3>2, <3>4
    <3>. QED  BY <3>1, <3>3, <3>5, <3>6
  <2>7. CASE FinishAtOnce
    <3>1. /\ base = "ring" /\ count' = count - copied /\ copied' = 0
          /\ UNCHANGED <<first, size, slot, skewed>>
      BY <2>7 DEF FinishAtOnce
    <3>2. first' + count' - copied' = first + count - copied
      BY <2>0, <3>1
    <3>. QED  BY <2>0, <3>1, <3>2
  <2>8. CASE FinishCancelled
    <3>1. copied = 0 /\ ~skewed
      BY <2>0, <2>8 DEF FinishCancelled
    <3>2. UNCHANGED <<first, count, copied, size, slot, base>>
      BY <2>8, <3>1 DEF FinishCancelled
    <3>. QED  BY <2>1, <3>1, <3>2
  <2>9. CASE SwitchToUser
    <3>. DEFINE wanted == IF mode = "one" THEN 1 ELSE needed
                left == count - copied
                got == Lesser(left, wanted)
    <3>0. left \in Nat /\ wanted \in Nat
      BY <2>0
    <3>1. /\ place = "copied"
          /\ count' = left - got /\ copied' = 0 /\ Advance(got)
          /\ UNCHANGED <<size, skewed>>
          /\ got < wanted => base' = "user"
          /\ ~(got < wanted) => UNCHANGED <<base, slot>>
      BY <2>9 DEF SwitchToUser
    <3>2. got \in 0..left
      BY <3>0, LesserBounds
    <3>. HIDE DEF got, wanted
    <3>3. UNCHANGED <<base, slot>> /\ base = "ring"
      BY <3>1
    <3>4. (first + left) % size = (((first + got) % size) + (left - got)) % size
      BY <2>0, <3>0, <3>2, TakeInSync
    <3>5. (first + got) % size \in 0..size - 1
      BY <2>0, <3>0, <3>2, WrapsInside
    <3>6. slot = (first + left) % size
      <4>1. first + count - copied = first + left
        BY <2>0
      <4>. QED  BY <2>0, <3>1, <3>3, <4>1
    <3>7. first' + count' - copied' = ((first + got) % size) + (left - got)
      BY <2>0, <3>0, <3>1, <3>2, <3>5 DEF Advance
    <3>. QED  BY <3>1, <3>3, <3>4, <3>6, <3>7
  <2>10. CASE GrabReadFromIsr
    <3>1. copied = 0
      BY <2>0, <2>10 DEF GrabReadFromIsr, RingInv, StoresInBounds
    <3>. QED  BY <2>2, <2>10, <3>1 DEF GrabReadFromIsr
  <2>11. CASE PurgeInterruptBuff
    BY <2>0, <2>2, <2>11 DEF PurgeInterruptBuff
  <2>12. ASSUME NEW n \in 1..MaxSize, MoveToNewIntBuffer(n)  PROVE Goal
    <3>1. /\ base = "ring" /\ copied = 0 /\ copied' = count
          /\ first' = (first + count) % size
          /\ UNCHANGED <<size, slot, count, skewed>>
      BY <2>0, <2>12 DEF MoveToNewIntBuffer, Advance
    <3>2. slot = (first + count) % size /\ first' \in 0..size - 1
      BY <2>0, <3>1, WrapsInside
    <3>3. first' + count' - copied' = first'
      BY <2>0, <3>1, <3>2
    <3>. QED  BY <2>0, <3>1, <3>2, <3>3
  <2>13. CASE SwitchToNew
    <3>1. PICK n \in size + 1..MaxSize : size' = n
      BY <2>13 DEF SwitchToNew
    <3>2. first' = 0 /\ slot' = count /\ count' = count /\ copied' = 0
      BY <2>13 DEF SwitchToNew
    <3>3. first' + count' - copied' = count /\ count \in 0..n - 1
      BY <2>0, <3>1, <3>2
    <3>. QED  BY <2>0, <3>1, <3>2, <3>3
  <2>. QED
    BY <2>3, <2>4, <2>5, <2>6, <2>7, <2>8, <2>9, <2>10, <2>11, <2>12, <2>13
    DEF Next
<1>. QED  BY RingInductive, <1>1, <1>2, PTL DEF Spec

-----------------------------------------------------------------------------
(* The order of the characters. *)

\* The buffered characters, one by one.
Moved == IF place = "moved" THEN copied ELSE 0
Total == Moved + (count - copied)
Nth(k) == IF k <= Moved THEN newRing[k - 1] ELSE Readable(k - 1 - Moved)

\* The characters of the read in progress are the first of its buffer.
Got == IF base = "user" THEN slot ELSE info

\* A listing is a sequence.
LEMMA ListingIsSeq ==
    ASSUME NEW S, NEW f, NEW n \in Nat, \A k \in 1..n : f[k - 1] \in S
    PROVE  /\ [k \in 1..n |-> f[k - 1]] \in Seq(S)
           /\ Len([k \in 1..n |-> f[k - 1]]) = n
  OBVIOUS

\* What the ring's fields are, as numbers and buffers.
LEMMA RingTypes ==
    ASSUME RingInv
    PROVE  /\ size \in Nat \ {0} /\ ring \in Buffer(size)
           /\ user \in Buffer(MaxLen) /\ MaxLen \in Nat \ {0}
           /\ first \in 0..size - 1 /\ slot \in Nat /\ last \in Nat
           /\ count \in 0..size /\ copied \in 0..count
           /\ length \in 0..MaxLen /\ info \in 0..MaxLen
           /\ needed \in 0..MaxLen /\ base \in {"ring", "user"}
           /\ place # "copied" /\ place # "moved" => copied = 0
           /\ place = "moved" => /\ size < MaxSize + 1
                                 /\ \E n \in size + 1..MaxSize :
                                        newRing \in Buffer(n)
           /\ base = "user" => /\ slot <= last /\ last = length - 1
                               /\ count = 0 /\ copied = 0 /\ place = "idle"
           /\ base = "ring" => slot < size /\ last = size - 1
           /\ place = "copied" => info + needed = length
           /\ place \in {"idle", "copied", "moved"}
  BY SerialRingAssumption DEF RingInv, TypeOK, StoresInBounds

\* What is readable is a value.
LEMMA ReadableValue ==
    ASSUME RingInv, NEW k \in Nat
    PROVE  Readable(k) \in Values
<1>1. first + k \in Nat /\ size \in Nat \ {0} /\ ring \in Buffer(size)
  BY RingTypes
<1>2. (first + k) % size \in 0..size - 1
  BY <1>1, WrapsInside
<1>. QED  BY <1>1, <1>2 DEF Readable, Buffer

\* Contents, one by one.
ContentsListed ==
    /\ Contents \in Seq(Values) /\ Len(Contents) = Total
    /\ Total \in Nat /\ Moved \in Nat /\ Moved <= Total
    /\ \A k \in 1..Total : Contents[k] = Nth(k)

\* What is in the ring, entry by entry from the first readable slot.
LEMMA ContentsIs == RingInv => ContentsListed
<1>. SUFFICES ASSUME RingInv PROVE ContentsListed
  OBVIOUS
<1>. DEFINE m == Moved
            n == count - copied
            s == [k \in 1..m |-> newRing[k - 1]]
            t == [k \in 1..n |-> Readable(k - 1)]
<1>0. m \in Nat /\ n \in Nat /\ Total = m + n
  BY RingTypes DEF Moved, Total
<1>1. Contents = s \o t
  BY DEF Contents, Moved
<1>2. s \in Seq(Values) /\ Len(s) = m /\ \A k \in 1..m : s[k] = newRing[k - 1]
  <2>1. \A k \in 1..m : newRing[k - 1] \in Values
    BY RingTypes DEF Moved, Buffer
  <2>. HIDE DEF m
  <2>. QED  BY <1>0, <2>1
<1>3. t \in Seq(Values) /\ Len(t) = n /\ \A k \in 1..n : t[k] = Readable(k - 1)
  <2>1. \A k \in 1..n : Readable(k - 1) \in Values
    <3>. TAKE k \in 1..n
    <3>1. k - 1 \in Nat
      BY <1>0
    <3>. QED  BY <3>1, ReadableValue
  <2>. HIDE DEF n
  <2>. QED  BY <1>0, <2>1
<1>. HIDE DEF n, s, t
<1>4. /\ s \o t \in Seq(Values) /\ Len(s \o t) = m + n
      /\ \A k \in 1..m + n : (s \o t)[k] = IF k <= m THEN s[k] ELSE t[k - m]
  BY <1>2, <1>3, ConcatProperties
<1>5. ASSUME NEW k \in 1..Total PROVE Contents[k] = Nth(k)
  <2>1. CASE k <= m
    BY <1>0, <1>1, <1>2, <1>4, <2>1 DEF Nth
  <2>2. CASE ~(k <= m)
    <3>1. k - m \in 1..n /\ k - m - 1 = k - 1 - m
      BY <1>0, <2>2
    <3>. QED  BY <1>0, <1>1, <1>3, <1>4, <2>2, <3>1 DEF Nth
  <2>. QED  BY <2>1, <2>2
<1>. QED  BY <1>0, <1>1, <1>4, <1>5 DEF ContentsListed

\* The same after a step.
LEMMA ContentsAfter == RingInv' => ContentsListed'
  BY ContentsIs, PTL

\* ReadSoFar, one by one.
ReadListed ==
    /\ ReadSoFar \in Seq(Values) /\ Len(ReadSoFar) = Got
    /\ Got \in 0..MaxLen
    /\ \A k \in 1..Got : ReadSoFar[k] = user[k - 1]

\* What was read so far, entry by entry.
LEMMA ReadIs == RingInv => ReadListed
<1>. SUFFICES ASSUME RingInv PROVE ReadListed
  OBVIOUS
<1>1. Got \in 0..MaxLen /\ MaxLen \in Nat
  BY RingTypes DEF Got
<1>2. \A k \in 1..Got : user[k - 1] \in Values
  BY <1>1, RingTypes DEF Buffer
<1>3. ReadSoFar = [k \in 1..Got |-> user[k - 1]]
  BY DEF ReadSoFar, Got
<1>. HIDE DEF Got
<1>. QED  BY <1>1, <1>2, <1>3 DEF ReadListed

\* What was read after a step, entry by entry.
LEMMA ReadAfter == RingInv' => ReadListed'
  BY ReadIs, PTL

\* A step that changes neither what is readable nor what has been moved.
LEMMA ContentsKept ==
    ASSUME RingInv, RingInv', Total' = Total,
           \A k \in 1..Total : Nth(k)' = Nth(k)
    PROVE  Contents' = Contents
  BY ContentsIs, ContentsAfter, SeqEqual DEF ContentsListed

\* A step that adds nothing to what was read leaves it as it is.
LEMMA ReadKept ==
    ASSUME RingInv, RingInv', Got' = Got,
           \A k \in 1..Got : user'[k - 1] = user[k - 1]
    PROVE  ReadSoFar' = ReadSoFar
  BY ReadIs, ReadAfter, SeqEqual DEF ReadListed

\* Nothing is buffered.
LEMMA ContentsEmpty == RingInv /\ Total = 0 => Contents = <<>>
  BY ContentsIs, EmptySeq DEF ContentsListed

\* A ring with a count of zero has no characters.
LEMMA ContentsEmptied == RingInv' /\ Total' = 0 => Contents' = <<>>
  BY ContentsAfter, EmptySeq DEF ContentsListed

\* Putting n characters behind a sequence of m.
LEMMA TwoParts ==
    ASSUME NEW S, NEW a \in Seq(S), NEW b \in Seq(S), NEW c \in Seq(S),
           NEW n \in 0..Len(b), Len(c) = Len(a) + n,
           \A k \in 1..Len(a) : c[k] = a[k],
           \A k \in 1..n : c[Len(a) + k] = b[k]
    PROVE  c = a \o SubSeq(b, 1, n)
<1>0. /\ Len(a) \in Nat /\ Len(b) \in Nat /\ n \in Nat
      /\ \A k \in 1..n : b[k] \in S
  BY LenProperties, ElementOfSeq
<1>. DEFINE d == SubSeq(b, 1, n)
<1>1. d \in Seq(S) /\ Len(d) = n /\ \A k \in 1..n : d[k] = b[k]
  BY <1>0, SubSeqProperties
<1>. HIDE DEF d
<1>2. /\ a \o d \in Seq(S) /\ Len(a \o d) = Len(a) + n
      /\ \A k \in 1..Len(a) + n :
             (a \o d)[k] = IF k <= Len(a) THEN a[k] ELSE d[k - Len(a)]
  BY <1>1, ConcatProperties
<1>3. ASSUME NEW k \in 1..Len(c) PROVE c[k] = (a \o d)[k]
  <2>1. CASE k <= Len(a)
    BY <1>0, <1>2, <2>1
  <2>2. CASE ~(k <= Len(a))
    <3>1. k - Len(a) \in 1..n /\ k = Len(a) + (k - Len(a))
      BY <1>0, <2>2
    <3>. QED  BY <1>0, <1>1, <1>2, <2>2, <3>1
  <2>. QED  BY <2>1, <2>2
<1>4. c = a \o d
  BY <1>2, <1>3, SeqEqual
<1>. QED  BY <1>4 DEF d

\* What is left of a sequence without its first n entries.
LEMMA Rest ==
    ASSUME NEW S, NEW b \in Seq(S), NEW c \in Seq(S), NEW n \in 0..Len(b),
           Len(c) = Len(b) - n,
           \A k \in 1..Len(c) : c[k] = b[n + k]
    PROVE  c = SubSeq(b, n + 1, Len(b))
<1>0. Len(b) \in Nat /\ n \in Nat /\ \A k \in n + 1..Len(b) : b[k] \in S
  BY LenProperties, ElementOfSeq
<1>. DEFINE d == SubSeq(b, n + 1, Len(b))
<1>1. /\ d \in Seq(S) /\ Len(d) = Len(b) - n
      /\ \A k \in 1..Len(b) - n : d[k] = b[n + 1 + k - 1]
  <2>1. n + 1 \in Int /\ Len(b) \in Int
    BY <1>0
  <2>2. /\ d \in Seq(S)
        /\ Len(d) = IF n + 1 <= Len(b) THEN Len(b) - (n + 1) + 1 ELSE 0
        /\ \A k \in 1..Len(b) - (n + 1) + 1 : d[k] = b[n + 1 + k - 1]
    BY <1>0, <2>1, SubSeqProperties
  <2>. HIDE DEF d
  <2>. QED  BY <1>0, <2>2
<1>. HIDE DEF d
<1>2. \A k \in 1..Len(c) : c[k] = d[k]
  <2>1. \A k \in 1..Len(c) : n + 1 + k - 1 = n + k
    BY <1>0
  <2>. QED  BY <1>1, <2>1
<1>3. c = d
  BY <1>1, <1>2, SeqEqual
<1>. QED  BY <1>3 DEF d

\* One more entry.
LEMMA OneMore ==
    ASSUME NEW S, NEW a \in Seq(S), NEW c \in Seq(S), NEW e \in S,
           Len(c) = Len(a) + 1, c[Len(a) + 1] = e,
           \A k \in 1..Len(a) : c[k] = a[k]
    PROVE  c = Append(a, e)
<1>1. /\ Append(a, e) \in Seq(S) /\ Len(Append(a, e)) = Len(a) + 1
      /\ \A k \in 1..Len(a) + 1 :
             Append(a, e)[k] = IF k <= Len(a) THEN a[k] ELSE e
  BY AppendProperties, LenProperties
<1>2. Len(a) \in Nat
  BY LenProperties
<1>3. \A k \in 1..Len(c) : c[k] = Append(a, e)[k]
  BY <1>1, <1>2
<1>. QED  BY <1>1, <1>3, SeqEqual

\* Going on from where a copy has stopped.
LEMMA WrapTwice ==
    ASSUME NEW s \in Nat \ {0}, NEW f \in 0..s - 1,
           NEW n \in Nat, NEW k \in Nat, n + k <= s
    PROVE  (((f + n) % s) + k) % s = (f + (n + k)) % s
<1>1. n + k \in 0..s /\ n \in 0..n + k /\ (n + k) - n = k
  OBVIOUS
<1>. QED  BY <1>1, TakeInSync

\* A copy takes the oldest characters.
LEMMA TakeStep ==
    ASSUME RingInv, RingInv', NEW got \in 0..Total,
           Moved = 0, Moved' = 0, ring' = ring, size' = size,
           Total' = Total - got, first' = (first + got) % size
    PROVE  /\ got \in 0..Len(Contents)
           /\ Contents' = SubSeq(Contents, got + 1, Len(Contents))
<1>0. ContentsListed /\ ContentsListed'
  BY ContentsIs, ContentsAfter
<1>1. /\ Total \in Nat /\ Total <= size /\ got \in Nat
      /\ size \in Nat \ {0} /\ first \in 0..size - 1
  BY RingTypes DEF Total, Moved
<1>2. ASSUME NEW k \in 1..Total' PROVE Contents'[k] = Contents[got + k]
  <2>1. k - 1 \in Nat /\ got + (k - 1) <= size /\ got + k \in 1..Total
    BY <1>1
  <2>2. (((first + got) % size) + (k - 1)) % size
            = (first + (got + (k - 1))) % size
    BY <1>1, <2>1, WrapTwice
  <2>3. Nth(k)' = ring[(((first + got) % size) + (k - 1)) % size]
    <3>1. ~(k <= Moved') /\ k - 1 - Moved' = k - 1
      BY <1>1
    <3>. QED  BY <3>1 DEF Nth, Readable
  <2>4. Nth(got + k) = ring[(first + (got + (k - 1))) % size]
    <3>1. ~(got + k <= Moved) /\ got + k - 1 - Moved = got + (k - 1)
      BY <1>1
    <3>. QED  BY <3>1 DEF Nth, Readable
  <2>. QED  BY <1>0, <2>1, <2>2, <2>3, <2>4 DEF ContentsListed
<1>3. got \in 0..Len(Contents) /\ Len(Contents') = Len(Contents) - got
  BY <1>0, <1>1 DEF ContentsListed
<1>4. \A k \in 1..Len(Contents') : Contents'[k] = Contents[got + k]
  BY <1>0, <1>2 DEF ContentsListed
<1>. QED  BY <1>0, <1>3, <1>4, Rest DEF ContentsListed

\* The entries of a buffer that got readable characters from an offset on.
LEMMA FilledEntries ==
    ASSUME NEW n \in Nat, NEW buffer \in Buffer(n),
           NEW offset \in Nat, NEW got \in Nat, offset + got <= n
    PROVE  /\ \A k \in 1..offset :
                  Filled(buffer, offset, got)[k - 1] = buffer[k - 1]
           /\ \A k \in 1..got :
                  Filled(buffer, offset, got)[offset + k - 1] = Readable(k - 1)
<1>1. DOMAIN buffer = 0..n - 1
  BY DEF Buffer
<1>2. ASSUME NEW k \in 1..offset
      PROVE  Filled(buffer, offset, got)[k - 1] = buffer[k - 1]
  <2>1. k - 1 \in DOMAIN buffer /\ k - 1 \notin offset..offset + got - 1
    BY <1>1
  <2>. QED  BY <2>1 DEF Filled
<1>3. ASSUME NEW k \in 1..got
      PROVE  Filled(buffer, offset, got)[offset + k - 1] = Readable(k - 1)
  <2>1. /\ offset + k - 1 \in DOMAIN buffer
        /\ offset + k - 1 \in offset..offset + got - 1
        /\ (offset + k - 1) - offset = k - 1
    BY <1>1
  <2>. QED  BY <2>1 DEF Filled
<1>. QED  BY <1>2, <1>3

\* What steps may be to readers.
OrderStep == \/ CharacterOrder!Next
             \/ skewed'
             \/ UNCHANGED <<Contents, ReadSoFar>>

\* A character stored with the reader goes to the end of what was read.
LEMMA PutInUserOrder ==
    ASSUME RingInv, RingInv', NEW ch \in Chars, PutCharInUserBuffer(ch)
    PROVE  OrderStep
<1>. USE DEF ringVars, readVars, stepVars
<1>0. ReadListed /\ ReadListed'
  BY ReadIs, ReadAfter
<1>1. /\ base = "user" /\ slot <= last /\ last = length - 1
      /\ count = 0 /\ copied = 0 /\ place = "idle"
      /\ slot \in Nat /\ last \in Nat /\ length \in 0..MaxLen
      /\ user \in Buffer(MaxLen) /\ MaxLen \in Nat
  BY RingTypes DEF PutCharInUserBuffer
<1>2. user' = [user EXCEPT ![slot] = ch] /\ place' = place /\ copied' = copied
  BY DEF PutCharInUserBuffer
<1>3. Got' = slot + 1 /\ count' = 0
  <2>1. CASE slot = last
    <3>1. base' = "ring" /\ info' = length /\ count' = 0
      BY <1>1, <2>1 DEF PutCharInUserBuffer, EmptyRing
    <3>. QED  BY <1>1, <2>1, <3>1 DEF Got
  <2>2. CASE slot # last
    <3>1. base' = "user" /\ slot' = slot + 1 /\ count' = 0
      BY <1>1, <2>2 DEF PutCharInUserBuffer
    <3>. QED  BY <3>1 DEF Got
  <2>. QED  BY <2>1, <2>2
<1>4. Got = slot
  BY <1>1 DEF Got
<1>5. Total = 0 /\ Total' = 0
  BY <1>1, <1>2, <1>3 DEF Total, Moved
<1>6. Contents = <<>> /\ Contents' = <<>>
  BY <1>5, ContentsEmpty, ContentsEmptied
<1>7. /\ ReadSoFar'[slot + 1] = ch
      /\ \A k \in 1..slot : ReadSoFar'[k] = ReadSoFar[k]
  <2>1. DOMAIN user = 0..MaxLen - 1
    BY <1>1 DEF Buffer
  <2>2. user'[slot] = ch
    BY <1>1, <1>2, <2>1
  <2>3. \A k \in 1..slot : user'[k - 1] = user[k - 1]
    BY <1>1, <1>2, <2>1
  <2>4. slot + 1 \in 1..Got' /\ (slot + 1) - 1 = slot
    BY <1>1, <1>3
  <2>5. \A k \in 1..slot : k \in 1..Got' /\ k \in 1..Got
    BY <1>1, <1>3, <1>4
  <2>. QED  BY <1>0, <2>2, <2>3, <2>4, <2>5 DEF ReadListed
<1>8. ReadSoFar' = Append(ReadSoFar, ch)
  <2>1. ch \in Values
    BY DEF Values
  <2>. QED  BY <1>0, <1>3, <1>4, <1>7, <2>1, OneMore DEF ReadListed
<1>9. CharacterOrder!ReceiveForRead(ch)
  BY <1>6, <1>8 DEF CharacterOrder!ReceiveForRead
<1>. QED  BY <1>9 DEF OrderStep, CharacterOrder!Next

\* The first copy hands out the characters in front,
LEMMA FirstCopyOrder ==
    ASSUME RingInv, RingInv', NEW n \in 1..MaxLen, NEW m \in ReadModes,
           FirstCopy(n, m)
    PROVE  OrderStep
<1>. DEFINE got == Lesser(count, n)
<1>0. ReadListed' /\ ContentsListed
  BY ReadAfter, ContentsIs
<1>1. /\ place = "idle" /\ base = "ring" /\ place' = "copied"
      /\ base' = "ring" /\ ring' = ring /\ size' = size /\ count' = count
      /\ copied' = got /\ info' = got
      /\ user' = Filled(NewBuffer(MaxLen), 0, got)
      /\ first' = (first + got) % size
  BY DEF FirstCopy, Advance
<1>2. copied = 0 /\ count \in Nat /\ MaxLen \in Nat \ {0} /\ n \in Nat
  BY <1>1, RingTypes
<1>3. got \in 0..count /\ got \in 0..n
  BY <1>2, LesserBounds
<1>. HIDE DEF got
<1>4. /\ Moved = 0 /\ Moved' = 0 /\ Total = count /\ Total' = count - got
      /\ Got' = got
  BY <1>1, <1>2, <1>3 DEF Moved, Total, Got
<1>5. /\ got \in 0..Len(Contents)
      /\ Contents' = SubSeq(Contents, got + 1, Len(Contents))
  <2>1. got \in 0..Total /\ Total' = Total - got
    BY <1>3, <1>4
  <2>. QED  BY <1>1, <1>4, <2>1, TakeStep
<1>6. \A k \in 1..got : ReadSoFar'[k] = Contents[k]
  <2>. TAKE k \in 1..got
  <2>1. NewBuffer(MaxLen) \in Buffer(MaxLen)
    BY <1>2, NewBufferType
  <2>2. user'[0 + k - 1] = Readable(k - 1)
    <3>1. 0 \in Nat /\ got \in Nat /\ 0 + got <= MaxLen /\ MaxLen \in Nat
      BY <1>2, <1>3
    <3>2. \A j \in 1..got : Filled(NewBuffer(MaxLen), 0, got)[0 + j - 1]
                                 = Readable(j - 1)
      BY <2>1, <3>1, FilledEntries
    <3>. QED  BY <1>1, <3>2
  <2>3. 0 + k - 1 = k - 1 /\ k \in 1..Total /\ ~(k <= Moved)
        /\ k - 1 - Moved = k - 1 /\ k \in 1..Got'
    BY <1>2, <1>3, <1>4
  <2>. QED  BY <1>0, <2>2, <2>3 DEF ReadListed, ContentsListed, Nth
<1>7. ReadSoFar' = <<>> \o SubSeq(Contents, 1, got)
  <2>1. <<>> \in Seq(Values) /\ Len(<<>>) = 0
    BY EmptySeq
  <2>2. /\ Len(ReadSoFar') = Len(<<>>) + got
        /\ \A k \in 1..Len(<<>>) : ReadSoFar'[k] = <<>>[k]
        /\ \A k \in 1..got : ReadSoFar'[Len(<<>>) + k] = Contents[k]
    BY <1>0, <1>3, <1>4, <1>6, <2>1 DEF ReadListed
  <2>. QED  BY <1>0, <1>5, <2>1, <2>2, TwoParts DEF ReadListed, ContentsListed
<1>8. CharacterOrder!BeginRead
  BY <1>5, <1>7 DEF CharacterOrder!BeginRead, CharacterOrder!TakeAfter
<1>. QED  BY <1>8 DEF OrderStep, CharacterOrder!Next

\* and so does the second one, when the ISR gets the user's buffer.
LEMMA SwitchToUserOrder ==
    ASSUME RingInv, RingInv', SwitchToUser
    PROVE  OrderStep
<1>. DEFINE wanted == IF mode = "one" THEN 1 ELSE needed
            n == IF mode = "one" THEN 1 ELSE length
            left == count - copied
            got == Lesser(left, wanted)
<1>0. ReadListed /\ ReadListed' /\ ContentsListed
  BY ReadIs, ReadAfter, ContentsIs
<1>1. /\ base = "ring" /\ place = "copied" /\ info + needed = length
      /\ needed # 0 /\ (mode = "one" => info = 0)
      /\ info \in Nat /\ needed \in Nat /\ length \in 0..MaxLen
      /\ MaxLen \in Nat \ {0} /\ user \in Buffer(MaxLen)
      /\ count \in Nat /\ copied \in 0..count
  <2>1. place = "copied" /\ needed # 0 /\ (mode = "one" => info = 0)
    BY DEF SwitchToUser, Satisfied
  <2>. QED  BY <2>1, RingTypes
<1>2. /\ left \in Nat /\ wanted \in Nat /\ n - wanted = info /\ n <= MaxLen
      /\ n \in Nat
  BY <1>1
<1>3. got \in 0..left /\ got \in 0..wanted /\ (got < wanted => got = left)
  BY <1>2, LesserBounds
<1>4. /\ user' = Filled(user, n - wanted, got)
      /\ info' = info + got /\ count' = left - got
      /\ first' = (first + got) % size
      /\ place' = "idle" /\ copied' = 0
      /\ ring' = ring /\ size' = size
      /\ IF got < wanted
         THEN base' = "user" /\ slot' = info + got
         ELSE base' = base
  BY DEF SwitchToUser, Advance
<1>. HIDE DEF wanted, n, got
<1>5. /\ Moved = 0 /\ Moved' = 0 /\ Total = left /\ Total' = left - got
      /\ Got = info /\ Got' = info + got
  BY <1>1, <1>2, <1>3, <1>4 DEF Moved, Total, Got
<1>. HIDE DEF left
<1>6. /\ got \in 0..Len(Contents)
      /\ Contents' = SubSeq(Contents, got + 1, Len(Contents))
  <2>1. got \in 0..Total /\ Total' = Total - got
    BY <1>3, <1>5
  <2>. QED  BY <1>4, <1>5, <2>1, TakeStep
<1>7. /\ \A k \in 1..info : user'[k - 1] = user[k - 1]
      /\ \A k \in 1..got : user'[info + k - 1] = Readable(k - 1)
  <2>1. /\ info \in Nat /\ got \in Nat /\ info + got <= MaxLen
        /\ MaxLen \in Nat /\ user \in Buffer(MaxLen)
    BY <1>1, <1>2, <1>3
  <2>2. user' = Filled(user, info, got)
    BY <1>2, <1>4
  <2>3. /\ \A k \in 1..info : Filled(user, info, got)[k - 1] = user[k - 1]
        /\ \A k \in 1..got :
               Filled(user, info, got)[info + k - 1] = Readable(k - 1)
    BY <2>1, FilledEntries
  <2>. QED  BY <2>2, <2>3
<1>8. \A k \in 1..Len(ReadSoFar) : ReadSoFar'[k] = ReadSoFar[k]
  <2>1. \A k \in 1..info : k \in 1..Got /\ k \in 1..Got'
    BY <1>1, <1>3, <1>5
  <2>. QED  BY <1>0, <1>5, <1>7, <2>1 DEF ReadListed
<1>9. \A k \in 1..got : ReadSoFar'[Len(ReadSoFar) + k] = Contents[k]
  <2>. TAKE k \in 1..got
  <2>1. /\ info + k \in 1..Got' /\ (info + k) - 1 = info + k - 1
        /\ k \in 1..Total /\ ~(k <= Moved) /\ k - 1 - Moved = k - 1
    BY <1>1, <1>2, <1>3, <1>5
  <2>. QED  BY <1>0, <1>5, <1>7, <2>1 DEF ReadListed, ContentsListed, Nth
<1>10. ReadSoFar' = ReadSoFar \o SubSeq(Contents, 1, got)
  <2>1. Len(ReadSoFar') = Len(ReadSoFar) + got
    BY <1>0, <1>5 DEF ReadListed
  <2>2. /\ ReadSoFar \in Seq(Values) /\ ReadSoFar' \in Seq(Values)
        /\ Contents \in Seq(Values)
    BY <1>0 DEF ReadListed, ContentsListed
  <2>. QED  BY <1>6, <1>8, <1>9, <2>1, <2>2, TwoParts
<1>11. CharacterOrder!ContinueRead
  BY <1>6, <1>10 DEF CharacterOrder!ContinueRead, CharacterOrder!TakeAfter
<1>. QED  BY <1>11 DEF OrderStep, CharacterOrder!Next

\* The slots of the readable characters are different from each other and from
\* the next free one.
LEMMA SlotsDiffer ==
    ASSUME NEW s \in Nat \ {0}, NEW f \in 0..s - 1,
           NEW j \in 0..s - 1, NEW k \in 0..s - 1, j # k
    PROVE  (f + j) % s # (f + k) % s
<1>. DEFINE x == f + j
            y == f + k
<1>1. /\ x \in 0..s + s - 1 /\ y \in 0..s + s - 1 /\ x # y
      /\ x - y < s /\ y - x < s
  OBVIOUS
<1>. HIDE DEF x, y
<1>2. x % s = IF x < s THEN x ELSE x - s
  BY <1>1, WrapOnce
<1>3. y % s = IF y < s THEN y ELSE y - s
  BY <1>1, WrapOnce
<1>4. x % s # y % s
  BY <1>1, <1>2, <1>3
<1>. QED  BY <1>4 DEF x, y

\* A character stored in the ring goes behind all others.
LEMMA PutInRingOrder ==
    ASSUME RingInv, RingInv', RingInSync, NEW ch \in Chars, PutCharInRing(ch)
    PROVE  OrderStep
<1>. SUFFICES ASSUME ~skewed' PROVE OrderStep
  BY DEF OrderStep
<1>. USE DEF ringVars, readVars, stepVars
<1>. DEFINE n == count - copied
<1>0. ContentsListed /\ ContentsListed'
  BY ContentsIs, ContentsAfter
<1>1. /\ base = "ring" /\ count < size /\ ~skewed
      /\ ring' = [ring EXCEPT ![slot] = ch] /\ count' = count + 1
      /\ UNCHANGED <<size, first, base, user, info, place, copied, newRing>>
  BY DEF PutCharInRing
<1>2. /\ size \in Nat \ {0} /\ first \in 0..size - 1 /\ slot < size
      /\ slot \in Nat /\ ring \in Buffer(size)
      /\ count \in Nat /\ copied \in 0..count
  BY <1>1, RingTypes
<1>3. n \in 0..size - 1 /\ slot = (first + n) % size
  BY <1>1, <1>2 DEF RingInSync, CountExact
<1>4. /\ Moved' = Moved /\ Total = Moved + n /\ Total' = Total + 1
      /\ Moved \in Nat
  BY <1>1, <1>2 DEF Moved, Total
<1>. HIDE DEF n
<1>5. ASSUME NEW k \in 1..Total PROVE Nth(k)' = Nth(k)
  <2>1. CASE k <= Moved
    BY <1>1, <1>4, <2>1 DEF Nth
  <2>2. CASE ~(k <= Moved)
    <3>. DEFINE j == k - 1 - Moved
    <3>1. j \in 0..size - 1 /\ j # n
      BY <1>2, <1>3, <1>4, <2>2
    <3>. HIDE DEF j
    <3>2. (first + j) % size # slot
      BY <1>2, <1>3, <3>1, SlotsDiffer
    <3>3. first + j \in Nat
      BY <1>2, <3>1
    <3>4. (first + j) % size \in DOMAIN ring
      BY <1>2, <3>3, WrapsInside DEF Buffer
    <3>5. ring'[(first + j) % size] = ring[(first + j) % size]
      BY <1>1, <3>2, <3>4
    <3>. QED  BY <1>1, <1>4, <2>2, <3>5 DEF Nth, Readable, j
  <2>. QED  BY <2>1, <2>2
<1>6. ASSUME NEW k \in 1..Total', k = Total + 1 PROVE Nth(k)' = ch
  <2>1. ~(k <= Moved') /\ k - 1 - Moved' = n
    BY <1>3, <1>4, <1>6
  <2>2. ring'[slot] = ch
    BY <1>1, <1>2 DEF Buffer
  <2>. QED  BY <1>1, <1>3, <1>4, <2>1, <2>2 DEF Nth, Readable
<1>7. Contents' = Append(Contents, ch)
  <2>1. /\ Len(Contents') = Len(Contents) + 1
        /\ \A k \in 1..Len(Contents) : Contents'[k] = Contents[k]
        /\ Contents'[Len(Contents) + 1] = ch
    <3>1. Total \in Nat /\ Total' \in Nat
      BY <1>0 DEF ContentsListed
    <3>2. Total + 1 \in 1..Total' /\ \A k \in 1..Total : k \in 1..Total'
      BY <1>4, <3>1
    <3>. QED  BY <1>0, <1>4, <1>5, <1>6, <3>1, <3>2 DEF ContentsListed
  <2>2. ch \in Values
    BY DEF Values
  <2>. QED  BY <1>0, <2>1, <2>2, OneMore DEF ContentsListed
<1>8. ReadSoFar' = ReadSoFar
  BY <1>1 DEF ReadSoFar
<1>9. CharacterOrder!Receive(ch)
  BY <1>7, <1>8 DEF CharacterOrder!Receive
<1>. QED  BY <1>9 DEF OrderStep, CharacterOrder!Next

\* The mark of an overrun takes the place of the newest character.
LEMMA MarkOverrunOrder ==
    ASSUME RingInv, RingInv', RingInSync, MarkOverrun
    PROVE  OrderStep
<1>. SUFFICES ASSUME ~skewed' PROVE OrderStep
  BY DEF OrderStep
<1>. USE DEF ringVars, readVars, stepVars
<1>. DEFINE n == count - copied
            latest == IF slot = 0 THEN size - 1 ELSE slot - 1
<1>0. ContentsListed /\ ContentsListed'
  BY ContentsIs, ContentsAfter
<1>1. /\ base = "ring" /\ count = size /\ ~skewed
      /\ ring' = [ring EXCEPT ![latest] = ErrorChar]
      /\ UNCHANGED <<size, first, base, slot, count, user, info, place, copied,
                     newRing>>
  BY DEF MarkOverrun
<1>2. /\ size \in Nat \ {0} /\ first \in 0..size - 1 /\ slot < size
      /\ slot \in Nat /\ ring \in Buffer(size)
      /\ count \in Nat /\ copied \in 0..count
  BY <1>1, RingTypes
<1>3. n \in 0..size /\ slot = (first + n) % size
  BY <1>1, <1>2 DEF RingInSync, CountExact
<1>4. /\ Moved' = Moved /\ Total = Moved + n /\ Total' = Total
      /\ Moved \in Nat
  BY <1>1, <1>2 DEF Moved, Total
<1>. HIDE DEF n, latest
<1>5. ReadSoFar' = ReadSoFar
  BY <1>1 DEF ReadSoFar
<1>6. CASE n = 0
  <2>1. ASSUME NEW k \in 1..Total PROVE Nth(k)' = Nth(k)
    <3>1. k <= Moved
      BY <1>4, <1>6
    <3>. QED  BY <1>1, <1>4, <3>1 DEF Nth
  <2>2. Contents' = Contents
    BY <1>4, <2>1, ContentsKept
  <2>. QED  BY <1>5, <2>2 DEF OrderStep
<1>7. CASE n # 0
  <2>0. n - 1 \in 0..size - 1
    BY <1>2, <1>3, <1>7
  <2>1. latest = (first + (n - 1)) % size
    <3>1. (first + (n - 1) + 1) % size =
              IF (first + (n - 1)) % size = size - 1 THEN 0
              ELSE ((first + (n - 1)) % size) + 1
      BY <1>2, <2>0, StoreInSync
    <3>2. first + (n - 1) + 1 = first + n /\ first + (n - 1) \in Nat
      BY <1>2, <1>3, <2>0
    <3>3. (first + (n - 1)) % size \in 0..size - 1
      BY <1>2, <3>2, WrapsInside
    <3>. QED  BY <1>2, <1>3, <3>1, <3>2, <3>3 DEF latest
  <2>2. ASSUME NEW k \in 1..Total
        PROVE  Nth(k)' = IF k = Total THEN ErrorChar ELSE Nth(k)
    <3>1. CASE k <= Moved
      <4>1. k # Total
        BY <1>3, <1>4, <1>7, <3>1
      <4>. QED  BY <1>1, <1>4, <3>1, <4>1 DEF Nth
    <3>2. CASE ~(k <= Moved)
      <4>. DEFINE j == k - 1 - Moved
      <4>1. j \in 0..size - 1 /\ (j = n - 1 <=> k = Total)
        BY <1>2, <1>3, <1>4, <3>2
      <4>2. j = k - 1 - Moved'
        BY <1>4
      <4>. HIDE DEF j
      <4>3. first + j \in Nat
        BY <1>2, <4>1
      <4>4. (first + j) % size \in DOMAIN ring
        BY <1>2, <4>3, WrapsInside DEF Buffer
      <4>5. (first + j) % size = latest <=> k = Total
        BY <1>2, <2>0, <2>1, <4>1, SlotsDiffer
      <4>6. ring'[(first + j) % size] =
                IF k = Total THEN ErrorChar ELSE ring[(first + j) % size]
        BY <1>1, <4>4, <4>5
      <4>. QED  BY <1>1, <1>4, <3>2, <4>2, <4>6 DEF Nth, Readable, j
    <3>. QED  BY <3>1, <3>2
  <2>3. /\ Contents \in Seq(Values) /\ Contents' \in Seq(Values)
        /\ Len(Contents) = Total /\ Len(Contents') = Total
        /\ Total \in Nat \ {0} /\ ErrorChar \in Values
        /\ \A k \in 1..Total : Contents'[k] = IF k = Total THEN ErrorChar
                                              ELSE Contents[k]
    <3>1. Total \in Nat \ {0}
      BY <1>3, <1>4, <1>7
    <3>2. ErrorChar \in Values
      BY DEF Values
    <3>. QED  BY <1>0, <1>4, <2>2, <3>1, <3>2 DEF ContentsListed
  <2>4. Contents' = [Contents EXCEPT ![Len(Contents)] = ErrorChar]
    <3>. DEFINE d == [Contents EXCEPT ![Total] = ErrorChar]
    <3>1. /\ d \in Seq(Values) /\ Len(d) = Total
          /\ \A k \in 1..Total : d[k] = IF k = Total THEN ErrorChar
                                        ELSE Contents[k]
      <4>1. Total \in 1..Len(Contents)
        BY <2>3
      <4>. QED  BY <2>3, <4>1, ExceptSeq
    <3>. HIDE DEF d
    <3>2. Contents' = d
      BY <2>3, <3>1, SeqEqual
    <3>. QED  BY <2>3, <3>2 DEF d
  <2>5. Contents # <<>>
    BY <2>3, EmptySeq
  <2>6. CharacterOrder!Mark
    BY <1>5, <2>4, <2>5 DEF CharacterOrder!Mark
  <2>. QED  BY <2>6 DEF OrderStep, CharacterOrder!Next
<1>. QED  BY <1>6, <1>7

\* A read that ends takes what it was handed,
LEMMA FinishOrder ==
    ASSUME RingInv, RingInv', FinishAtOnce
    PROVE  OrderStep
<1>. USE DEF ringVars, readVars, stepVars
<1>1. /\ place = "copied" /\ place' = "idle" /\ copied' = 0
      /\ count' = count - copied
      /\ UNCHANGED <<ring, size, first, base, slot, user, info>>
  BY DEF FinishAtOnce
<1>2. count \in Nat /\ copied \in 0..count
  BY RingTypes
<1>3. Moved = 0 /\ Moved' = 0 /\ Total' = Total
  BY <1>1, <1>2 DEF Moved, Total
<1>4. \A k \in 1..Total : Nth(k)' = Nth(k)
  BY <1>1, <1>3 DEF Nth, Readable
<1>5. Contents' = Contents
  BY <1>3, <1>4, ContentsKept
<1>6. ReadSoFar' = ReadSoFar
  BY <1>1 DEF ReadSoFar
<1>. QED  BY <1>5, <1>6 DEF OrderStep

\* also when it was cancelled;
LEMMA CancelledOrder ==
    ASSUME RingInv, RingInv', FinishCancelled
    PROVE  OrderStep
<1>. SUFFICES ASSUME ~skewed' PROVE OrderStep
  BY DEF OrderStep
<1>. USE DEF ringVars, readVars, stepVars
<1>0. ContentsListed /\ ReadListed'
  BY ContentsIs, ReadAfter
<1>1. /\ place = "copied" /\ place' = "idle" /\ copied = 0 /\ copied' = 0
      /\ info' = 0
      /\ UNCHANGED <<ring, size, first, base, slot, count>>
  BY DEF FinishCancelled
<1>2. base = "ring"
  BY <1>1, RingTypes
<1>3. Moved = 0 /\ Moved' = 0 /\ Total' = Total /\ Got' = 0
  BY <1>1, <1>2 DEF Moved, Total, Got
<1>4. \A k \in 1..Total : Nth(k)' = Nth(k)
  BY <1>1, <1>3 DEF Nth, Readable
<1>5. Contents' = Contents
  BY <1>3, <1>4, ContentsKept
<1>6. ReadSoFar' = <<>>
  BY <1>0, <1>3, EmptySeq DEF ReadListed
<1>7. /\ Contents \in Seq(Values) /\ Len(Contents) \in Nat
  BY <1>0, LenProperties DEF ContentsListed
<1>8. SubSeq(Contents, 1, 0) = <<>> /\ SubSeq(Contents, 1, Len(Contents)) = Contents
  BY <1>7, SubSeqEmpty, SubSeqFull
<1>9. <<>> \o <<>> = <<>>
  BY <1>7, EmptySeq, ConcatEmptySeq
<1>10. CharacterOrder!TakeAfter(<<>>, 0)
  BY <1>5, <1>6, <1>8, <1>9 DEF CharacterOrder!TakeAfter
<1>11. CharacterOrder!BeginRead
  BY <1>7, <1>10 DEF CharacterOrder!BeginRead
<1>. QED  BY <1>11 DEF OrderStep, CharacterOrder!Next

\* and when it is taken back from the ISR nothing is lost.
LEMMA GrabOrder ==
    ASSUME RingInv, RingInv', GrabReadFromIsr
    PROVE  OrderStep
<1>. USE DEF ringVars, readVars, stepVars
<1>1. /\ base = "user" /\ slot <= last /\ last = length - 1 /\ place = "idle"
      /\ count = 0 /\ copied = 0 /\ slot \in Nat /\ length \in 0..MaxLen
      /\ MaxLen \in Nat
  BY RingTypes DEF GrabReadFromIsr
<1>2. /\ base' = "ring" /\ info' = length - (last - slot + 1) /\ count' = 0
      /\ place' = "idle" /\ copied' = 0 /\ user' = user
  BY <1>1 DEF GrabReadFromIsr, EmptyRing
<1>3. Total = 0 /\ Total' = 0 /\ Got = slot /\ Got' = slot
  BY <1>1, <1>2 DEF Total, Moved, Got
<1>4. Contents' = Contents
  BY <1>3, ContentsEmpty, ContentsEmptied
<1>5. ReadSoFar' = ReadSoFar
  BY <1>2, <1>3, ReadKept
<1>. QED  BY <1>4, <1>5 DEF OrderStep

\* A purge drops what is in the ring.
LEMMA PurgeOrder ==
    ASSUME RingInv, RingInv', PurgeInterruptBuff
    PROVE  OrderStep
<1>. USE DEF ringVars, readVars, stepVars
<1>1. place = "idle" /\ base = "ring" /\ base' = "ring" /\ count' = 0
      /\ UNCHANGED <<place, copied, user, info>>
  BY DEF PurgeInterruptBuff, EmptyRing
<1>2. copied = 0
  BY <1>1, RingTypes
<1>3. Total' = 0
  BY <1>1, <1>2 DEF Total, Moved
<1>4. Contents' = <<>>
  BY <1>3, ContentsEmptied
<1>5. ReadSoFar' = ReadSoFar
  BY <1>1 DEF ReadSoFar
<1>6. CharacterOrder!Purge
  BY <1>4, <1>5 DEF CharacterOrder!Purge
<1>. QED  BY <1>6 DEF OrderStep, CharacterOrder!Next

\* A resize copies what is in the ring, in its order,
LEMMA MoveOrder ==
    ASSUME RingInv, RingInv', NEW n \in 1..MaxSize, MoveToNewIntBuffer(n)
    PROVE  OrderStep
<1>. USE DEF ringVars, readVars, stepVars
<1>1. /\ place = "idle" /\ base = "ring" /\ n > size
      /\ newRing' = Filled(NewBuffer(n), 0, count)
      /\ copied' = count /\ place' = "moved" /\ count' = count
      /\ UNCHANGED <<base, slot, user, info>>
  BY DEF MoveToNewIntBuffer
<1>2. /\ copied = 0 /\ count \in Nat /\ size \in Nat /\ count <= size
      /\ n \in Nat
  BY <1>1, RingTypes
<1>3. Moved = 0 /\ Moved' = count /\ Total = count /\ Total' = count
  BY <1>1, <1>2 DEF Moved, Total
<1>4. \A k \in 1..count : Filled(NewBuffer(n), 0, count)[0 + k - 1]
                              = Readable(k - 1)
  <2>1. NewBuffer(n) \in Buffer(n)
    BY <1>2, NewBufferType
  <2>2. 0 \in Nat /\ 0 + count <= n /\ n \in Nat /\ count \in Nat
    BY <1>1, <1>2
  <2>. QED  BY <2>1, <2>2, FilledEntries
<1>5. ASSUME NEW k \in 1..Total PROVE Nth(k)' = Nth(k)
  <2>1. /\ k \in 1..count /\ k <= Moved' /\ ~(k <= Moved)
        /\ 0 + k - 1 = k - 1 /\ k - 1 - Moved = k - 1
    BY <1>2, <1>3
  <2>. QED  BY <1>1, <1>4, <2>1 DEF Nth
<1>6. Contents' = Contents
  BY <1>3, <1>5, ContentsKept
<1>7. ReadSoFar' = ReadSoFar
  BY <1>1 DEF ReadSoFar
<1>. QED  BY <1>6, <1>7 DEF OrderStep

\* and goes on with the copy.
LEMMA SwitchToNewOrder ==
    ASSUME RingInv, RingInv', SwitchToNew
    PROVE  OrderStep
<1>. USE DEF ringVars, readVars, stepVars
<1>. DEFINE n == count - copied
<1>1. /\ place = "moved" /\ ring' = Filled(newRing, copied, n)
      /\ first' = 0 /\ place' = "idle" /\ copied' = 0
      /\ UNCHANGED <<base, count, user, info>>
  BY DEF SwitchToNew
<1>2. PICK m \in size + 1..MaxSize : DOMAIN newRing = 0..m - 1 /\ size' = m
  BY DEF SwitchToNew
<1>3. /\ count \in Nat /\ copied \in 0..count /\ base = "ring"
      /\ size \in Nat \ {0} /\ count <= size
  BY <1>1, RingTypes
<1>4. newRing \in Buffer(m) /\ m \in Nat /\ count < m
  <2>1. PICK o \in size + 1..MaxSize : newRing \in Buffer(o)
    BY <1>1, RingTypes
  <2>. QED  BY <1>2, <1>3, <2>1 DEF Buffer
<1>5. Moved = copied /\ Moved' = 0 /\ Total = count /\ Total' = count
  BY <1>1, <1>3 DEF Moved, Total
<1>6. n \in Nat /\ copied \in Nat /\ copied + n = count
  BY <1>3
<1>. HIDE DEF n
<1>7. /\ \A k \in 1..copied : ring'[k - 1] = newRing[k - 1]
      /\ \A k \in 1..n : ring'[copied + k - 1] = Readable(k - 1)
  <2>1. copied + n <= m
    BY <1>4, <1>6
  <2>. QED  BY <1>1, <1>4, <1>6, <2>1, FilledEntries
<1>8. ASSUME NEW k \in 1..Total PROVE Nth(k)' = Nth(k)
  <2>1. k - 1 \in 0..m - 1 /\ ~(k <= Moved') /\ first' + (k - 1 - Moved') = k - 1
    BY <1>1, <1>3, <1>4, <1>5
  <2>2. (k - 1) % m = k - 1
    BY <1>4, <2>1
  <2>3. Nth(k)' = ring'[k - 1]
    BY <1>2, <2>1, <2>2 DEF Nth, Readable
  <2>4. CASE k <= copied
    BY <1>5, <1>7, <2>3, <2>4 DEF Nth
  <2>5. CASE ~(k <= copied)
    <3>1. k - copied \in 1..n /\ copied + (k - copied) - 1 = k - 1
          /\ (k - copied) - 1 = k - 1 - copied
      BY <1>5, <1>6, <2>5
    <3>2. ring'[copied + (k - copied) - 1] = Readable((k - copied) - 1)
      BY <1>7, <3>1
    <3>. QED  BY <1>5, <2>3, <2>5, <3>1, <3>2 DEF Nth
  <2>. QED  BY <2>4, <2>5
<1>9. Contents' = Contents
  BY <1>5, <1>8, ContentsKept
<1>10. ReadSoFar' = ReadSoFar
  BY <1>1, <1>3 DEF ReadSoFar
<1>. QED  BY <1>9, <1>10 DEF OrderStep

\* Characters reach the reads in the order in which they arrived, for every
\* size of the ring, every length of a read and every resize: each step of the
\* ISR, of a read, a purge or a resize is one of the typeahead buffer's, or
\* invisible, but for the steps that leave the count skewed.
THEOREM OrderKept == Spec => ImplementsCharQueue
<1>1. Init => CharacterOrder!Init
  <2>. SUFFICES ASSUME Init PROVE CharacterOrder!Init
    OBVIOUS
  <2>1. /\ place = "idle" /\ count = 0 /\ copied = 0 /\ base = "ring"
        /\ info = 0
    BY DEF Init
  <2>2. Contents = <<>>
    BY <2>1 DEF Contents
  <2>3. ReadSoFar = <<>>
    BY <2>1 DEF ReadSoFar
  <2>. QED  BY <2>2, <2>3 DEF CharacterOrder!Init
<1>2. RingInv /\ RingInv' /\ RingInSync /\ [Next]_vars
          => [CharacterOrder!Next \/ skewed']_(CharacterOrder!vars)
  <2>. SUFFICES ASSUME RingInv, RingInv', RingInSync, [Next]_vars
                PROVE  OrderStep
    BY DEF OrderStep, CharacterOrder!vars
  <2>1. CASE UNCHANGED vars
    <3>1. UNCHANGED <<Contents, ReadSoFar>>
      BY <2>1 DEF vars, ringVars, readVars, stepVars, Contents, ReadSoFar,
                  Readable
    <3>. QED  BY <3>1 DEF OrderStep
  <2>2. CASE Next
    BY <2>2, PutInUserOrder, PutInRingOrder, MarkOverrunOrder, FirstCopyOrder,
       FinishOrder, CancelledOrder, SwitchToUserOrder, GrabOrder, PurgeOrder,
       MoveOrder, SwitchToNewOrder DEF Next
  <2>. QED  BY <2>1, <2>2
<1>. QED  BY RingInductive, CountInSync, <1>1, <1>2, PTL
          DEF Spec, ImplementsCharQueue
=============================================================================
