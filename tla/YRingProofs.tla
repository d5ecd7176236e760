---------------------------- MODULE YRingProofs -----------------------------
(***************************************************************************)
(* What the operators of YRing do to a consistent ring buffer, for every   *)
(* size and wherever its indices have wrapped: a put appends, or displaces *)
(* the oldest byte when the buffer is full; a get takes the oldest.        *)
(***************************************************************************)
EXTENDS YRing, SequenceTheorems, TLAPS

\* Places on the circle of n slots: in it, once round is where it began, no
\* place twice before that, and the next place is the next slot.
LEMMA PlaceInside ==
  ASSUME NEW n \in Nat \ {0}, NEW s \in 0 .. n - 1, NEW k \in 0 .. n
  PROVE  Place(n, s, k) \in 0 .. n - 1
BY DEF Place

\* Nothing and a whole turn lead from a slot back to it.
LEMMA PlaceAround ==
  ASSUME NEW n \in Nat \ {0}, NEW s \in 0 .. n - 1
  PROVE  Place(n, s, 0) = s /\ Place(n, s, n) = s
BY DEF Place

\* Different places less than a turn apart are different slots.
LEMMA PlaceOnce ==
  ASSUME NEW n \in Nat \ {0}, NEW s \in 0 .. n - 1,
         NEW j \in 0 .. n, NEW k \in 0 .. n, j < k, j # 0 \/ k # n
  PROVE  Place(n, s, j) # Place(n, s, k)
BY DEF Place

\* The place after a slot is its successor, wrapped.
LEMMA PlaceNext ==
  ASSUME NEW n \in Nat \ {0}, NEW s \in 0 .. n - 1, NEW k \in 0 .. n - 1
  PROVE  /\ Place(n, s, k + 1)
              = IF Place(n, s, k) + 1 >= n THEN 0 ELSE Place(n, s, k) + 1
         /\ Place(n, IF s + 1 >= n THEN 0 ELSE s + 1, k) = Place(n, s, k + 1)
<1>1. CASE s + 1 >= n
  BY <1>1 DEF Place
<1>2. CASE s + 1 < n
  BY <1>2 DEF Place
<1> QED
  BY <1>1, <1>2

\* A consistent ring buffer with a buffer, field by field.
LEMMA RingFields ==
  ASSUME NEW r, RingOK(r), Attached(r)
  PROVE  /\ r.size \in Nat \ {0}
         /\ r.data \in [0 .. r.size - 1 -> Bytes]
         /\ r.current_len \in 0 .. r.size
         /\ r.start \in 0 .. r.size - 1
         /\ r.end = Place(r.size, r.start, r.current_len)
         /\ r.end \in 0 .. r.size - 1
<1>1. /\ r.size \in Nat \ {0}
      /\ r.data \in [0 .. r.size - 1 -> Bytes]
      /\ r.current_len \in 0 .. r.size
      /\ r.start \in 0 .. r.size - 1
      /\ r.end = Place(r.size, r.start, r.current_len)
  BY DEF RingOK, Attached, Slot
<1>2. r.end \in 0 .. r.size - 1
  BY <1>1, PlaceInside
<1> QED
  BY <1>1, <1>2

\* With the indices consistent, the length alone tells full from empty.
LEMMA FullAndEmpty ==
  ASSUME NEW r, RingOK(r), Attached(r)
  PROVE  /\ Full(r) <=> r.current_len = r.size
         /\ Empty(r) <=> r.current_len = 0
<1>1. /\ r.size \in Nat \ {0}
      /\ r.current_len \in 0 .. r.size
      /\ r.start \in 0 .. r.size - 1
      /\ r.end = Place(r.size, r.start, r.current_len)
  BY RingFields
<1>2. CASE r.current_len = 0
  BY <1>1, <1>2, PlaceAround DEF Full, Empty
<1>3. CASE r.current_len = r.size
  BY <1>1, <1>3, PlaceAround DEF Full, Empty
<1>4. CASE r.current_len # 0 /\ r.current_len # r.size
  <2>1. 0 \in 0 .. r.size /\ 0 < r.current_len
    BY <1>1, <1>4
  <2>2. Place(r.size, r.start, 0) # r.end
    BY <1>1, <1>4, <2>1, PlaceOnce
  <2> QED
    BY <1>1, <1>4, <2>2, PlaceAround DEF Full, Empty
<1> QED
  BY <1>2, <1>3, <1>4

\* The contents of a consistent ring buffer are a sequence of bytes.
LEMMA ContentsType ==
  ASSUME NEW r, RingOK(r)
  PROVE  /\ Contents(r) \in Seq(Bytes)
         /\ Len(Contents(r)) = r.current_len
         /\ r.current_len \in Nat
<1>1. ASSUME NEW i \in 1 .. r.current_len
      PROVE  r.data[Slot(r, i - 1)] \in Bytes
  <2>1. Attached(r)
    BY <1>1 DEF RingOK, Attached
  <2>2. /\ r.size \in Nat \ {0} /\ r.start \in 0 .. r.size - 1
        /\ r.data \in [0 .. r.size - 1 -> Bytes]
        /\ r.current_len \in 0 .. r.size
    BY <2>1, RingFields
  <2>3. i - 1 \in 0 .. r.size
    BY <1>1, <2>2
  <2>4. Slot(r, i - 1) \in 0 .. r.size - 1
    BY <2>2, <2>3, PlaceInside DEF Slot
  <2> QED
    BY <2>2, <2>4
<1>2. r.current_len \in Nat
  BY DEF RingOK
<1> QED
  BY <1>1, <1>2 DEF Contents

\* The byte held at a place is that of its slot.
LEMMA ContentsAt ==
  ASSUME NEW r, RingOK(r), NEW k \in 0 .. r.current_len - 1
  PROVE  Contents(r)[k + 1] = r.data[Slot(r, k)]
<1>1. k + 1 \in 1 .. r.current_len /\ (k + 1) - 1 = k
  BY DEF RingOK
<1>2. Contents(r)[k + 1] = r.data[Slot(r, (k + 1) - 1)]
  BY <1>1 DEF Contents
<1> QED
  BY <1>1, <1>2

\* Setting up, taking down and clearing leave an empty, consistent buffer.
LEMMA SetUpRing ==
  ASSUME NEW r, RingOK(r), NEW n \in Nat \ {0}, NEW buffer \in [0 .. n - 1 -> Bytes]
  PROVE  /\ RingOK(InitRing(buffer, n)) /\ Contents(InitRing(buffer, n)) = <<>>
         /\ RingOK(NoBuffer) /\ Contents(NoBuffer) = <<>>
         /\ RingOK(ClearRing(r)) /\ Contents(ClearRing(r)) = <<>>
<1>1. RingOK(InitRing(buffer, n))
  BY PlaceAround DEF RingOK, Ring, InitRing, Slot
<1>2. RingOK(NoBuffer)
  BY DEF RingOK, Ring, NoBuffer
<1>3. RingOK(ClearRing(r))
  BY PlaceAround DEF RingOK, Ring, ClearRing, Slot
<1>4. /\ InitRing(buffer, n).current_len = 0
      /\ NoBuffer.current_len = 0
      /\ ClearRing(r).current_len = 0
  BY DEF Ring, InitRing, NoBuffer, ClearRing
<1>5. ASSUME NEW q, RingOK(q), q.current_len = 0
      PROVE  Contents(q) = <<>>
  BY <1>5, ContentsType
<1> QED
  BY <1>1, <1>2, <1>3, <1>4, <1>5

\* A put into a buffer with room appends.
LEMMA PutAppends ==
  ASSUME NEW r, RingOK(r), Attached(r), ~Full(r), NEW b \in Bytes
  PROVE  /\ RingOK(PutByte(r, b))
         /\ Contents(PutByte(r, b)) = Append(Contents(r), b)
<1> DEFINE p == PutByte(r, b)
<1>1. /\ r.size \in Nat \ {0}
      /\ r.data \in [0 .. r.size - 1 -> Bytes]
      /\ r.current_len \in 0 .. r.size - 1
      /\ r.start \in 0 .. r.size - 1
      /\ r.end = Place(r.size, r.start, r.current_len)
      /\ r.end \in 0 .. r.size - 1
  BY RingFields, FullAndEmpty
<1>2. /\ p.size = r.size
      /\ p.start = r.start
      /\ p.end = IF r.end + 1 >= r.size THEN 0 ELSE r.end + 1
      /\ p.current_len = r.current_len + 1
      /\ p.data = [r.data EXCEPT ![r.end] = b]
  BY <1>1 DEF PutByte, Ring, Wrap
<1> HIDE DEF p
<1>3. RingOK(p)
  <2>1. p.end = Place(r.size, r.start, r.current_len + 1)
    BY <1>1, <1>2, PlaceNext
  <2>2. p.data \in [0 .. r.size - 1 -> Bytes]
    BY <1>1, <1>2
  <2>3. p.current_len \in 0 .. r.size /\ r.size # 0
    BY <1>1, <1>2
  <2> QED
    BY <1>1, <1>2, <2>1, <2>2, <2>3 DEF RingOK, Slot
<1>4. ASSUME NEW k \in 0 .. r.current_len - 1
      PROVE  Contents(p)[k + 1] = Contents(r)[k + 1]
  <2>1. k \in 0 .. r.size /\ k < r.current_len /\ r.current_len \in 0 .. r.size
        /\ r.current_len # r.size /\ k \in 0 .. p.current_len - 1
    BY <1>1, <1>2, <1>4
  <2>2. Slot(r, k) # r.end /\ Slot(r, k) \in 0 .. r.size - 1
    BY <1>1, <2>1, PlaceOnce, PlaceInside DEF Slot
  <2>3. Slot(p, k) = Slot(r, k)
    BY <1>2 DEF Slot
  <2>4. p.data[Slot(r, k)] = r.data[Slot(r, k)]
    BY <1>1, <1>2, <2>2
  <2>5. Contents(p)[k + 1] = p.data[Slot(p, k)]
    BY <1>3, <2>1, ContentsAt
  <2>6. Contents(r)[k + 1] = r.data[Slot(r, k)]
    BY <1>4, ContentsAt
  <2> QED
    BY <2>3, <2>4, <2>5, <2>6
<1>5. Contents(p)[r.current_len + 1] = b
  <2>1. Slot(p, r.current_len) = r.end
    BY <1>1, <1>2 DEF Slot
  <2>2. p.data[r.end] = b
    BY <1>1, <1>2
  <2>3. r.current_len \in 0 .. p.current_len - 1
    BY <1>1, <1>2
  <2>4. Contents(p)[r.current_len + 1] = p.data[Slot(p, r.current_len)]
    BY <1>3, <2>3, ContentsAt
  <2> QED
    BY <2>1, <2>2, <2>4
<1>6. Contents(p) = Append(Contents(r), b)
  <2>1. /\ Contents(p) \in Seq(Bytes) /\ Len(Contents(p)) = r.current_len + 1
        /\ Contents(r) \in Seq(Bytes) /\ Len(Contents(r)) = r.current_len
        /\ r.current_len \in Nat
    BY <1>2, <1>3, ContentsType
  <2>2. ASSUME NEW i \in 1 .. r.current_len
        PROVE  Contents(p)[i] = Contents(r)[i]
    <3>1. i - 1 \in 0 .. r.current_len - 1 /\ (i - 1) + 1 = i
      BY <2>1, <2>2
    <3>2. Contents(p)[(i - 1) + 1] = Contents(r)[(i - 1) + 1]
      BY <1>4, <3>1
    <3> QED
      BY <3>1, <3>2
  <2> QED
    BY <1>5, <2>1, <2>2
<1> QED
  BY <1>3, <1>6 DEF p

\* A put into a full buffer displaces the oldest byte.
LEMMA PutDisplaces ==
  ASSUME NEW r, RingOK(r), Attached(r), Full(r), NEW b \in Bytes
  PROVE  /\ RingOK(PutByte(r, b))
         /\ Contents(PutByte(r, b)) = Append(Tail(Contents(r)), b)
<1> DEFINE p == PutByte(r, b)
<1>1. /\ r.size \in Nat \ {0}
      /\ r.data \in [0 .. r.size - 1 -> Bytes]
      /\ r.current_len = r.size
      /\ r.start \in 0 .. r.size - 1
      /\ r.end = r.start
  BY RingFields DEF Full
<1> DEFINE s1 == IF r.start + 1 >= r.size THEN 0 ELSE r.start + 1
<1>2. /\ p.size = r.size
      /\ p.start = s1
      /\ p.end = s1
      /\ p.current_len = r.size
      /\ p.data = [r.data EXCEPT ![r.start] = b]
  BY <1>1 DEF PutByte, Ring, Wrap
<1>3. s1 \in 0 .. r.size - 1
  BY <1>1
<1>4. ASSUME NEW k \in 0 .. r.size - 1
      PROVE  Place(r.size, s1, k) = Place(r.size, r.start, k + 1)
  BY <1>1, <1>4, PlaceNext
<1> HIDE DEF p, s1
<1>5. RingOK(p)
  <2>1. p.end = Place(r.size, s1, r.size)
    BY <1>1, <1>2, <1>3, PlaceAround
  <2>2. p.data \in [0 .. r.size - 1 -> Bytes]
    BY <1>1, <1>2
  <2>3. p.current_len \in 0 .. r.size /\ r.size # 0
    BY <1>1, <1>2
  <2> QED
    BY <1>1, <1>2, <1>3, <2>1, <2>2, <2>3 DEF RingOK, Slot
<1>6. ASSUME NEW k \in 0 .. r.size - 2
      PROVE  Contents(p)[k + 1] = Contents(r)[(k + 1) + 1]
  <2>1. /\ k + 1 \in 0 .. r.size /\ 0 < k + 1 /\ 0 \in 0 .. r.size
        /\ k + 1 # r.size /\ k \in 0 .. r.size - 1 /\ k + 1 \in 0 .. r.size - 1
    BY <1>1, <1>6
  <2>2. Slot(r, k + 1) # r.start /\ Slot(r, k + 1) \in 0 .. r.size - 1
    <3>1. Place(r.size, r.start, 0) # Place(r.size, r.start, k + 1)
      BY <1>1, <2>1, PlaceOnce
    <3>2. Place(r.size, r.start, k + 1) \in 0 .. r.size - 1
      BY <1>1, <2>1, PlaceInside
    <3> QED
      BY <1>1, <3>1, <3>2, PlaceAround DEF Slot
  <2>3. Slot(p, k) = Slot(r, k + 1)
    BY <1>2, <1>4, <2>1 DEF Slot
  <2>4. p.data[Slot(r, k + 1)] = r.data[Slot(r, k + 1)]
    BY <1>1, <1>2, <2>2
  <2>5. Contents(p)[k + 1] = p.data[Slot(p, k)]
    BY <1>2, <1>5, <2>1, ContentsAt
  <2>6. Contents(r)[(k + 1) + 1] = r.data[Slot(r, k + 1)]
    BY <1>1, <2>1, ContentsAt
  <2> QED
    BY <2>3, <2>4, <2>5, <2>6
<1>7. Contents(p)[r.size] = b
  <2>1. /\ r.size - 1 \in 0 .. r.size - 1 /\ (r.size - 1) + 1 = r.size
    BY <1>1
  <2>2. Slot(p, r.size - 1) = r.start
    <3>1. Place(r.size, s1, r.size - 1) = Place(r.size, r.start, (r.size - 1) + 1)
      BY <1>4, <2>1
    <3> QED
      BY <1>1, <1>2, <2>1, <3>1, PlaceAround DEF Slot
  <2>3. p.data[r.start] = b
    BY <1>1, <1>2
  <2>4. Contents(p)[(r.size - 1) + 1] = p.data[Slot(p, r.size - 1)]
    BY <1>2, <1>5, <2>1, ContentsAt
  <2> QED
    BY <2>1, <2>2, <2>3, <2>4
<1>8. Contents(p) = Append(Tail(Contents(r)), b)
  <2>1. /\ Contents(p) \in Seq(Bytes) /\ Len(Contents(p)) = r.size
        /\ Contents(r) \in Seq(Bytes) /\ Len(Contents(r)) = r.size
        /\ r.size \in Nat \ {0}
    BY <1>1, <1>2, <1>5, ContentsType
  <2>2. ASSUME NEW i \in 1 .. r.size - 1
        PROVE  Contents(p)[i] = Contents(r)[i + 1]
    <3>1. i - 1 \in 0 .. r.size - 2 /\ (i - 1) + 1 = i
      BY <2>1, <2>2
    <3>2. Contents(p)[(i - 1) + 1] = Contents(r)[((i - 1) + 1) + 1]
      BY <1>6, <3>1
    <3> QED
      BY <3>1, <3>2
  <2> QED
    BY <1>7, <2>1, <2>2
<1> QED
  BY <1>5, <1>8 DEF p

\* A get takes the oldest byte.
LEMMA GetTakesHead ==
  ASSUME NEW r, RingOK(r), Attached(r), ~Empty(r)
  PROVE  /\ RingOK(DropByte(r))
         /\ Contents(r) # <<>>
         /\ r.data[r.start] = Head(Contents(r))
         /\ Contents(DropByte(r)) = Tail(Contents(r))
<1> DEFINE p == DropByte(r)
<1>1. /\ r.size \in Nat \ {0}
      /\ r.data \in [0 .. r.size - 1 -> Bytes]
      /\ r.current_len \in 1 .. r.size
      /\ r.start \in 0 .. r.size - 1
      /\ r.end = Place(r.size, r.start, r.current_len)
  BY RingFields, FullAndEmpty
<1> DEFINE s1 == IF r.start + 1 >= r.size THEN 0 ELSE r.start + 1
<1>2. /\ p.size = r.size /\ p.end = r.end /\ p.data = r.data
      /\ p.start = s1
      /\ p.current_len = r.current_len - 1
  BY DEF DropByte, Ring, Wrap
<1>3. s1 \in 0 .. r.size - 1
  BY <1>1
<1>4. ASSUME NEW k \in 0 .. r.size - 1
      PROVE  Place(r.size, s1, k) = Place(r.size, r.start, k + 1)
  BY <1>1, <1>4, PlaceNext
<1> HIDE DEF p, s1
<1>5. RingOK(p)
  <2>1. /\ r.current_len - 1 \in 0 .. r.size - 1
        /\ (r.current_len - 1) + 1 = r.current_len
        /\ r.current_len - 1 \in 0 .. r.size /\ r.size # 0
    BY <1>1
  <2>2. p.end = Place(r.size, s1, p.current_len)
    <3>1. Place(r.size, s1, r.current_len - 1)
            = Place(r.size, r.start, (r.current_len - 1) + 1)
      BY <1>4, <2>1
    <3> QED
      BY <1>1, <1>2, <2>1, <3>1
  <2> QED
    BY <1>1, <1>2, <1>3, <2>1, <2>2 DEF RingOK, Slot
<1>6. ASSUME NEW k \in 0 .. r.current_len - 2
      PROVE  Contents(p)[k + 1] = Contents(r)[(k + 1) + 1]
  <2>1. /\ k \in 0 .. r.size - 1 /\ k \in 0 .. p.current_len - 1
        /\ k + 1 \in 0 .. r.current_len - 1
    BY <1>1, <1>2, <1>6
  <2>2. Slot(p, k) = Slot(r, k + 1)
    BY <1>2, <1>4, <2>1 DEF Slot
  <2>3. Contents(p)[k + 1] = p.data[Slot(p, k)]
    BY <1>5, <2>1, ContentsAt
  <2>4. Contents(r)[(k + 1) + 1] = r.data[Slot(r, k + 1)]
    BY <2>1, ContentsAt
  <2> QED
    BY <1>2, <2>2, <2>3, <2>4
<1>7. Contents(r)[1] = r.data[r.start]
  <2>1. Slot(r, 0) = r.start
    BY <1>1, PlaceAround DEF Slot
  <2>2. 0 \in 0 .. r.current_len - 1 /\ 0 + 1 = 1
    BY <1>1
  <2>3. Contents(r)[0 + 1] = r.data[Slot(r, 0)]
    BY <2>2, ContentsAt
  <2> QED
    BY <2>1, <2>2, <2>3
<1>8. /\ Contents(p) \in Seq(Bytes) /\ Len(Contents(p)) = r.current_len - 1
      /\ Contents(r) \in Seq(Bytes) /\ Len(Contents(r)) = r.current_len
      /\ r.current_len \in Nat \ {0}
  BY <1>1, <1>2, <1>5, ContentsType
<1>9. Contents(r) # <<>> /\ Head(Contents(r)) = Contents(r)[1]
  BY <1>8
<1>10. Contents(p) = Tail(Contents(r))
  <2>1. ASSUME NEW i \in 1 .. r.current_len - 1
        PROVE  Contents(p)[i] = Contents(r)[i + 1]
    <3>1. i - 1 \in 0 .. r.current_len - 2 /\ (i - 1) + 1 = i
      BY <1>8, <2>1
    <3>2. Contents(p)[(i - 1) + 1] = Contents(r)[((i - 1) + 1) + 1]
      BY <1>6, <3>1
    <3> QED
      BY <3>1, <3>2
  <2> QED
    BY <1>8, <2>1
<1> QED
  BY <1>5, <1>7, <1>9, <1>10 DEF p
=============================================================================
