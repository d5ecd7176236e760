------------------------- MODULE YRingBufferProofs --------------------------
(***************************************************************************)
(* The ring buffer keeps the newest bytes in order, whatever its size and  *)
(* wherever its indices have wrapped.                                      *)
(***************************************************************************)
EXTENDS YRingBuffer, YRingProofs

\* Sequences: the newest part of a sequence, one element later.
LEMMA NewestAppended ==
  ASSUME NEW s \in Seq(Bytes), NEW b \in Bytes, NEW m \in 0 .. Len(s) - 1
  PROVE  Append(Tail(SubSeq(s, m + 1, Len(s))), b)
           = SubSeq(Append(s, b), m + 2, Len(s) + 1)
<1> DEFINE n == Len(s)
           later == Append(s, b)
           newest == SubSeq(s, m + 1, n)
<1>1. /\ n \in Nat \ {0} /\ m + 1 \in 1 .. n /\ n \in 1 .. n /\ n \in m + 1 .. n
      /\ <<b>> \in Seq(Bytes)
      /\ m + 1 \in 1 .. n + 1 /\ n + 1 \in m + 1 .. n + 1 /\ (n + 1) - 1 = n
      /\ (m + 1) + 1 = m + 2
  OBVIOUS
<1>2. /\ later \in Seq(Bytes) /\ Len(later) = n + 1 /\ later[n + 1] = b
      /\ later = s \o <<b>>
  BY AppendProperties, AppendIsConcat
<1>3. newest \in Seq(Bytes) /\ newest # <<>>
  <2> HIDE DEF later
  <2>1. \A i \in m + 1 .. n : s[i] \in Bytes
    OBVIOUS
  <2>2. m + 1 \in Int /\ n \in Int /\ m + 1 <= n /\ n - (m + 1) + 1 > 0
    BY <1>1
  <2> HIDE DEF n
  <2>3. newest \in Seq(Bytes) /\ Len(newest) = n - (m + 1) + 1
    BY <2>1, <2>2, SubSeqProperties
  <2>4. Len(newest) > 0
    BY <2>2, <2>3
  <2> HIDE DEF newest
  <2> QED
    BY <2>3, <2>4
<1> HIDE DEF n, later
<1>4. SubSeq(later, m + 1, n) = newest
  BY <1>1, <1>2, SubSeqOfConcat1 DEF n
<1> HIDE DEF newest
<1>5. SubSeq(later, m + 1, n + 1) = SubSeq(later, m + 1, (n + 1) - 1) \o <<later[n + 1]>>
  BY <1>1, <1>2, SubSeqRecursiveSecond
<1>6. SubSeq(later, m + 1, n + 1) = Append(newest, b)
  BY <1>1, <1>2, <1>3, <1>4, <1>5, AppendIsConcat
<1>7. Tail(SubSeq(later, m + 1, n + 1)) = SubSeq(later, (m + 1) + 1, n + 1)
  BY <1>1, <1>2, HeadTailOfSubSeq
<1>8. Tail(Append(newest, b)) = Append(Tail(newest), b)
  BY <1>3, HeadTailAppend
<1> QED
  BY <1>1, <1>6, <1>7, <1>8 DEF n, later, newest

\* Appending to the second of two sequences appends to both together.
LEMMA ConcatAppended ==
  ASSUME NEW s \in Seq(Bytes), NEW t \in Seq(Bytes), NEW b \in Bytes
  PROVE  s \o Append(t, b) = Append(s \o t, b)
<1>1. <<b>> \in Seq(Bytes)
  OBVIOUS
<1>2. s \o t \in Seq(Bytes)
  OBVIOUS
<1> QED
  BY <1>1, <1>2, AppendIsConcat, ConcatAssociative

\* A head moved from the second sequence to the end of the first leaves the two together as they were.
LEMMA ConcatMoved ==
  ASSUME NEW s \in Seq(Bytes), NEW t \in Seq(Bytes), t # <<>>
  PROVE  Append(s, Head(t)) \o Tail(t) = s \o t
<1>1. /\ Head(t) \in Bytes /\ Tail(t) \in Seq(Bytes) /\ <<Head(t)>> \in Seq(Bytes)
      /\ Len(Tail(t)) = Len(t) - 1 /\ Len(t) \in Nat \ {0}
      /\ \A i \in 1 .. Len(Tail(t)) : Tail(t)[i] = t[i + 1]
      /\ Head(t) = t[1]
  BY HeadTailProperties, EmptySeq
<1>2. <<Head(t)>> \o Tail(t) = t
  BY <1>1, SubSeqRecursiveFirst, SubSeqFull, TailIsSubSeq
<1> QED
  BY <1>1, <1>2, AppendIsConcat, ConcatAssociative
-----------------------------------------------------------------------------
\* The consequence of PutKeepsTheNewest that the returned count rests on.
LEMMA HeldDuringPut ==
  ASSUME RTypeOK, PutKeepsTheNewest, op = "put"
  PROVE  rb.current_len = IF Len(before \o moved) > rb.size
                          THEN rb.size ELSE Len(before \o moved)
<1> DEFINE all == before \o moved
<1>1. all \in Seq(Bytes) /\ Len(all) \in Nat /\ rb.size \in Nat
  BY DEF RTypeOK, RingOK
<1>2. Contents(rb) = SubSeq(all, Lost(all) + 1, Len(all))
  BY DEF PutKeepsTheNewest
<1>3. rb.current_len = Len(Contents(rb))
  BY ContentsType DEF RTypeOK
<1> HIDE DEF all
<1>4. Lost(all) \in 0 .. Len(all)
  BY <1>1 DEF Lost
<1>5. Len(SubSeq(all, Lost(all) + 1, Len(all))) = Len(all) - Lost(all)
  BY <1>1, <1>4
<1>6. rb.current_len = Len(all) - Lost(all)
  BY <1>2, <1>3, <1>5
<1>7. CASE Len(all) > rb.size
  BY <1>1, <1>6, <1>7 DEF Lost, all
<1>8. CASE ~(Len(all) > rb.size)
  BY <1>1, <1>6, <1>8 DEF Lost, all
<1> QED
  BY <1>7, <1>8

\* One byte put keeps the newest bytes.
LEMMA PutStepNewest ==
  ASSUME RInv, PutStep
  PROVE  /\ RingOK(rb)' /\ rb'.size = rb.size
         /\ PutKeepsTheNewest'
         /\ Head(todo) \in Bytes /\ Tail(todo) \in Seq(Bytes)
         /\ Len(Tail(todo)) = Len(todo) - 1
<1> DEFINE all == before \o moved
           b == Head(todo)
<1>1. /\ op = "put" /\ Attached(rb) /\ cnt < len /\ RingOK(rb)
      /\ todo \in Seq(Bytes) /\ Len(todo) = len - cnt /\ len \in Nat /\ cnt \in Nat
      /\ before \in Seq(Bytes) /\ moved \in Seq(Bytes) /\ rb.size \in Nat
  BY MaxLenAssumption DEF RInv, RTypeOK, Progress, PutStep, MayPut, RingOK
<1>2. /\ b \in Bytes /\ Tail(todo) \in Seq(Bytes) /\ Len(Tail(todo)) = Len(todo) - 1
  BY <1>1, HeadTailProperties, EmptySeq
<1>3. /\ all \in Seq(Bytes) /\ Len(all) \in Nat
      /\ before' \o moved' = Append(all, b)
      /\ op' = "put"
      /\ rb' = PutByte(rb, b)
  BY <1>1, <1>2, ConcatAppended DEF PutStep
<1>4. rb'.size = rb.size
  BY <1>3 DEF PutByte, Ring
<1>5. /\ Contents(rb) = SubSeq(all, Lost(all) + 1, Len(all))
      /\ Len(Append(all, b)) = Len(all) + 1
  <2>1. Contents(rb) = SubSeq(all, Lost(all) + 1, Len(all))
    BY <1>1 DEF RInv, PutKeepsTheNewest
  <2>2. Len(Append(all, b)) = Len(all) + 1
    BY <1>2, <1>3, AppendProperties
  <2> QED
    BY <2>1, <2>2
<1>6. rb.current_len = IF Len(all) > rb.size THEN rb.size ELSE Len(all)
  BY <1>1, HeldDuringPut DEF RInv
<1> HIDE DEF all, b
<1>7. CASE Full(rb)
  <2>1. rb.current_len = rb.size /\ rb.size \in Nat \ {0}
    BY <1>1, <1>7, FullAndEmpty, RingFields
  <2>2. /\ Lost(all) \in 0 .. Len(all) - 1
        /\ (IF Len(all) + 1 > rb.size THEN (Len(all) + 1) - rb.size ELSE 0)
             = Lost(all) + 1
        /\ (Lost(all) + 1) + 1 = Lost(all) + 2
    BY <1>3, <1>6, <2>1 DEF Lost
  <2>3. RingOK(rb)' /\ Contents(rb)' = Append(Tail(Contents(rb)), b)
    BY <1>1, <1>2, <1>3, <1>7, PutDisplaces
  <2>4. Contents(rb)' = SubSeq(Append(all, b), Lost(all) + 2, Len(all) + 1)
    BY <1>2, <1>3, <1>5, <2>2, <2>3, NewestAppended
  <2> QED
    BY <1>2, <1>3, <1>4, <1>5, <2>2, <2>3, <2>4 DEF PutKeepsTheNewest, Lost, b
<1>8. CASE ~Full(rb)
  <2>1. rb.current_len # rb.size /\ rb.size \in Nat \ {0} /\ rb.current_len \in 0 .. rb.size
    BY <1>1, <1>8, FullAndEmpty, RingFields
  <2>2. /\ Lost(all) = 0
        /\ (IF Len(all) + 1 > rb.size THEN (Len(all) + 1) - rb.size ELSE 0) = 0
    BY <1>3, <1>6, <2>1 DEF Lost
  <2>3. RingOK(rb)' /\ Contents(rb)' = Append(Contents(rb), b)
    BY <1>1, <1>2, <1>3, <1>8, PutAppends
  <2>4. Contents(rb) = all
    BY <1>3, <1>5, <2>2, SubSeqFull
  <2>5. Append(all, b) \in Seq(Bytes)
    BY <1>2, <1>3
  <2>6. Contents(rb)' = SubSeq(Append(all, b), 1, Len(all) + 1)
    BY <1>5, <2>3, <2>4, <2>5, SubSeqFull
  <2> QED
    BY <1>2, <1>3, <1>4, <1>5, <2>2, <2>3, <2>6 DEF PutKeepsTheNewest, Lost, b
<1> QED
  BY <1>7, <1>8

\* One byte got: the bytes taken out and those left are still those of the call.
LEMMA GetStepOldest ==
  ASSUME RInv, GetStep
  PROVE  /\ RingOK(rb)' /\ rb'.size = rb.size
         /\ moved' \in Seq(Bytes)
         /\ GetTakesTheOldest'
<1>1. /\ op = "get" /\ Attached(rb) /\ ~Empty(rb) /\ RingOK(rb)
      /\ moved \in Seq(Bytes) /\ moved \o Contents(rb) = before
  BY DEF RInv, RTypeOK, GetTakesTheOldest, GetStep, MayGet
<1>2. /\ RingOK(DropByte(rb)) /\ Contents(rb) # <<>>
      /\ rb.data[rb.start] = Head(Contents(rb))
      /\ Contents(DropByte(rb)) = Tail(Contents(rb))
  BY <1>1, GetTakesHead
<1>3. Contents(rb) \in Seq(Bytes)
  BY <1>1, ContentsType
<1>4. Head(Contents(rb)) \in Bytes
  BY <1>2, <1>3, HeadTailProperties
<1>5. /\ rb' = DropByte(rb) /\ moved' = Append(moved, Head(Contents(rb)))
      /\ UNCHANGED <<op, before>>
  BY <1>2 DEF GetStep
<1>6. rb'.size = rb.size
  BY <1>5 DEF DropByte, Ring
<1>7. moved' \o Contents(rb)' = moved \o Contents(rb)
  BY <1>1, <1>2, <1>3, <1>5, ConcatMoved
<1> QED
  <2>1. RingOK(rb)'
    BY <1>2, <1>5
  <2>2. moved' \in Seq(Bytes)
    BY <1>1, <1>4, <1>5
  <2>3. GetTakesTheOldest'
    BY <1>1, <1>5, <1>7 DEF GetTakesTheOldest
  <2> QED
    BY <1>6, <2>1, <2>2, <2>3

\* A call begins with nothing moved.
LEMMA CallProgress ==
  ASSUME RTypeOK, NEW name, NEW n \in 0 .. MaxLen, Call(name, n)
  PROVE  /\ RingOK(rb)' /\ rb'.size = rb.size
         /\ op' = name /\ len' = n /\ cnt' = 0 /\ moved' = <<>> /\ moved' \in Seq(Bytes)
         /\ before' \in Seq(Bytes) /\ Len(before') <= rb.size
         /\ moved' \o Contents(rb)' = before'
         /\ before' \o moved' = before'
         /\ Contents(rb)' = SubSeq(before', 1, Len(before'))
<1>1. /\ Contents(rb) \in Seq(Bytes) /\ Len(Contents(rb)) <= rb.size
      /\ RingOK(rb) /\ rb.size \in Nat
  BY ContentsType DEF RTypeOK, RingOK
<1>2. /\ op' = name /\ len' = n /\ cnt' = 0 /\ moved' = <<>> /\ rb' = rb
      /\ before' = Contents(rb) /\ Contents(rb)' = Contents(rb) /\ RingOK(rb)'
  BY <1>1 DEF Call
<1>3. SubSeq(Contents(rb), 1, Len(Contents(rb))) = Contents(rb)
  BY <1>1, SubSeqFull
<1> QED
  BY <1>1, <1>2, <1>3, ConcatEmptySeq

\* A ring without a buffer, in no call, satisfies the invariant.
LEMMA InitRInv ==
  ASSUME RInit PROVE RInv
<1>1. RingOK(NoBuffer) /\ NoBuffer.size = 0
  BY DEF RingOK, NoBuffer, Ring
<1>2. <<>> \in Seq(Bytes) /\ 0 \in 0 .. MaxLen
  BY MaxLenAssumption
<1>3. rb = NoBuffer /\ op = "none" /\ drop = FALSE /\ todo = <<>> /\ len = 0
      /\ cnt = 0 /\ moved = <<>> /\ before = <<>>
  BY DEF RInit
<1>4. RTypeOK
  <2>1. RingOK(rb) /\ rb.size \in {0, Size}
    BY <1>1, <1>3
  <2>2. 0 \in 0 .. 0
    OBVIOUS
  <2> QED
    BY <1>2, <1>3, <2>1, <2>2 DEF RTypeOK
<1> QED
  BY <1>3, <1>4 DEF RInv, GetTakesTheOldest, PutKeepsTheNewest, Progress

\* Every step of the ring buffer's functions keeps the invariant.
LEMMA StepRInv ==
  ASSUME RInv, [RNext]_rvars PROVE RInv'
<1>1. CASE SetUp
  <2>1. RingOK(rb)' /\ rb'.size \in {0, Size}
    <3>1. ASSUME NEW buffer \in [0 .. Size - 1 -> Bytes], rb' = InitRing(buffer, Size)
          PROVE  RingOK(rb)' /\ rb'.size \in {0, Size}
      BY <3>1, SetUpRing, SizeAssumption DEF RInv, RTypeOK, InitRing, Ring
    <3>2. ASSUME rb' = NoBuffer
          PROVE  RingOK(rb)' /\ rb'.size \in {0, Size}
      BY <3>2 DEF NoBuffer, Ring, RingOK
    <3>3. ASSUME rb' = ClearRing(rb)
          PROVE  RingOK(rb)' /\ rb'.size \in {0, Size}
      BY <3>3, PlaceAround DEF RInv, RTypeOK, ClearRing, Ring, RingOK, Slot
    <3> QED
      BY <1>1, <3>1, <3>2, <3>3 DEF SetUp
  <2>2. op = "none" /\ UNCHANGED callvars
    BY <1>1 DEF SetUp
  <2> QED
    BY <2>1, <2>2 DEF RInv, RTypeOK, callvars, GetTakesTheOldest, PutKeepsTheNewest,
                      Progress
<1>2. ASSUME NEW data \in Arrays, NEW d \in BOOLEAN, CallPut(data, d)
      PROVE  RInv'
  <2>1. PICK n \in 0 .. MaxLen : data \in [1 .. n -> Bytes]
    BY <1>2 DEF Arrays
  <2>2. data \in Seq(Bytes) /\ Len(data) = n
    BY <2>1, MaxLenAssumption
  <2>3. Call("put", n) /\ todo' = data /\ drop' = d
    BY <1>2, <2>2 DEF CallPut
  <2>4. /\ RingOK(rb)' /\ rb'.size = rb.size
        /\ op' = "put" /\ len' = n /\ cnt' = 0 /\ moved' = <<>> /\ moved' \in Seq(Bytes)
        /\ before' \in Seq(Bytes) /\ Len(before') <= rb.size
        /\ before' \o moved' = before'
        /\ Contents(rb)' = SubSeq(before', 1, Len(before'))
    BY <2>3, CallProgress DEF RInv
  <2>5. RTypeOK'
    <3>1. 0 \in 0 .. n /\ d \in BOOLEAN
      BY <1>2, MaxLenAssumption
    <3>2. rb'.size \in {0, Size}
      BY <2>4 DEF RInv, RTypeOK
    <3> QED
      BY <2>2, <2>3, <2>4, <3>1, <3>2 DEF RTypeOK
  <2>6. Lost(before)' = 0 /\ Len(before') \in Nat /\ Len(moved') = 0
    <3>1. rb.size \in Nat /\ Len(before') \in Nat /\ Len(moved') = 0
      BY <2>4 DEF RInv, RTypeOK, RingOK
    <3>2. ~(Len(before') > rb'.size)
      BY <2>4, <3>1
    <3> QED
      BY <3>1, <3>2 DEF Lost
  <2>7. PutKeepsTheNewest' /\ GetTakesTheOldest'
    BY <2>4, <2>6 DEF PutKeepsTheNewest, GetTakesTheOldest
  <2>8. Progress'
    BY <2>2, <2>3, <2>4, <2>6, MaxLenAssumption DEF Progress
  <2> QED
    BY <2>5, <2>7, <2>8 DEF RInv
<1>3. ASSUME NEW n \in 0 .. MaxLen, CallGet(n)
      PROVE  RInv'
  <2>1. /\ RingOK(rb)' /\ rb'.size = rb.size
        /\ op' = "get" /\ len' = n /\ cnt' = 0 /\ moved' = <<>> /\ moved' \in Seq(Bytes)
        /\ before' \in Seq(Bytes) /\ Len(before') <= rb.size
        /\ moved' \o Contents(rb)' = before'
    BY <1>3, CallProgress DEF RInv, CallGet
  <2> QED
    BY <1>3, <2>1, MaxLenAssumption
      DEF RInv, RTypeOK, CallGet, GetTakesTheOldest, PutKeepsTheNewest, Progress
<1>4. CASE PutStep
  <2>1. /\ RingOK(rb)' /\ rb'.size = rb.size
        /\ PutKeepsTheNewest'
        /\ Head(todo) \in Bytes /\ Tail(todo) \in Seq(Bytes)
        /\ Len(Tail(todo)) = Len(todo) - 1
    BY <1>4, PutStepNewest
  <2>2. moved' \in Seq(Bytes) /\ Len(moved') = Len(moved) + 1
    BY <1>4, <2>1 DEF PutStep, RInv, RTypeOK
  <2>3. cnt < len /\ cnt \in Nat /\ len \in Nat /\ len <= MaxLen
    BY <1>4, MaxLenAssumption DEF PutStep, MayPut, RInv, RTypeOK
  <2>4. RTypeOK'
    BY <1>4, <2>1, <2>2, <2>3, MaxLenAssumption DEF PutStep, RInv, RTypeOK
  <2>5. ~drop => Len(before) + (cnt + 1) <= rb.size
    <3>1. SUFFICES ASSUME ~drop PROVE Len(before) + (cnt + 1) <= rb.size
      OBVIOUS
    <3>2. /\ ~Full(rb) /\ Attached(rb) /\ RingOK(rb) /\ op = "put"
          /\ Len(before) + cnt <= rb.size /\ cnt = Len(moved)
          /\ before \in Seq(Bytes) /\ moved \in Seq(Bytes)
      BY <1>4, <3>1 DEF PutStep, MayPut, RInv, RTypeOK, Progress
    <3>3. rb.current_len # rb.size
      BY <3>2, FullAndEmpty
    <3>4. Len(before \o moved) = Len(before) + cnt /\ rb.size \in Nat /\ Len(before) \in Nat
      BY <3>2 DEF RingOK
    <3>5. rb.current_len = Len(before) + cnt
      BY <3>2, <3>4, HeldDuringPut DEF RInv
    <3> QED
      BY <2>3, <3>2, <3>3, <3>4, <3>5
  <2>6. Progress'
    <3>1. rb.size > 0
      BY <1>4 DEF PutStep, MayPut, Attached
    <3> QED
      BY <1>4, <2>1, <2>2, <2>3, <2>5, <3>1 DEF Progress, PutStep, RInv
  <2>7. GetTakesTheOldest'
    BY <1>4 DEF PutStep, GetTakesTheOldest
  <2> QED
    BY <2>1, <2>4, <2>6, <2>7 DEF RInv
<1>5. CASE GetStep
  <2>1. RingOK(rb)' /\ rb'.size = rb.size /\ moved' \in Seq(Bytes) /\ GetTakesTheOldest'
    BY <1>5, GetStepOldest
  <2>2. cnt < len /\ cnt \in Nat /\ len \in Nat /\ len <= MaxLen /\ op = "get"
    BY <1>5, MaxLenAssumption DEF GetStep, MayGet, RInv, RTypeOK
  <2>3. Len(moved') = Len(moved) + 1
    BY <1>5 DEF GetStep, RInv, RTypeOK
  <2> QED
    BY <1>5, <2>1, <2>2, <2>3
      DEF GetStep, RInv, RTypeOK, PutKeepsTheNewest, Progress
<1>6. CASE Return
  <2>1. <<>> \in Seq(Bytes)
    OBVIOUS
  <2> QED
    BY <1>6, <2>1 DEF Return, RInv, RTypeOK, GetTakesTheOldest, PutKeepsTheNewest, Progress
<1>7. CASE UNCHANGED rvars
  BY <1>7 DEF rvars, callvars, RInv, RTypeOK, GetTakesTheOldest, PutKeepsTheNewest,
              Progress, Lost, Contents
<1> QED
  BY <1>1, <1>2, <1>3, <1>4, <1>5, <1>6, <1>7 DEF RNext

\* The invariant holds throughout.
THEOREM RingInvariance == RSpec => []RInv
<1>1. RInit => RInv
  BY InitRInv
<1>2. RInv /\ [RNext]_rvars => RInv'
  BY StepRInv
<1> QED
  BY <1>1, <1>2, PTL DEF RSpec

\* The indices stay in the buffer and consistent with the length.
THEOREM RingTypeCorrect == RSpec => []RTypeOK
<1>1. RInv => RTypeOK
  BY DEF RInv
<1> QED
  BY <1>1, RingInvariance, PTL

\* YRingBufferGetData hands out the bytes in the order they were put in.
THEOREM OldestFirst == RSpec => []GetTakesTheOldest
<1>1. RInv => GetTakesTheOldest
  BY DEF RInv
<1> QED
  BY <1>1, RingInvariance, PTL

\* YRingBufferPutData loses nothing but the oldest bytes.
THEOREM NewestKept == RSpec => []PutKeepsTheNewest
<1>1. RInv => PutKeepsTheNewest
  BY DEF RInv
<1> QED
  BY <1>1, RingInvariance, PTL
-----------------------------------------------------------------------------
\* A call returns when it has moved all it was asked for or all it can.
LEMMA ReturnStep ==
  ASSUME RInv, Return PROVE ReturnCount
<1>1. /\ RingOK(rb) /\ len \in Nat /\ cnt \in 0 .. len
      /\ before \in Seq(Bytes) /\ moved \in Seq(Bytes) /\ rb.size \in Nat
      /\ cnt = Len(moved) /\ Len(before) <= rb.size
      /\ Len(before) \in Nat /\ Len(moved) \in Nat
      /\ Len(before \o moved) = Len(before) + Len(moved)
      /\ rb.size = 0 => rb.current_len = 0
  BY MaxLenAssumption DEF RInv, RTypeOK, Progress, RingOK, Return
<1>2. CASE op = "get"
  <2>1. moved \o Contents(rb) = before /\ ~MayGet
    BY <1>2 DEF RInv, GetTakesTheOldest, Return
  <2>2. Len(before) = Len(moved) + rb.current_len /\ rb.current_len \in Nat
    <3>1. Contents(rb) \in Seq(Bytes) /\ Len(Contents(rb)) = rb.current_len
          /\ rb.current_len \in Nat
      BY <1>1, ContentsType
    <3>2. Len(moved \o Contents(rb)) = Len(moved) + rb.current_len
      BY <1>1, <3>1
    <3> QED
      BY <2>1, <3>1, <3>2
  <2>3. cnt = len \/ rb.current_len = 0
    BY <1>1, <2>1, FullAndEmpty DEF MayGet, Attached
  <2> QED
    BY <1>1, <1>2, <2>2, <2>3 DEF ReturnCount
<1>3. CASE op = "put"
  <2>1. ~MayPut /\ (~drop => Len(before) + cnt <= rb.size)
    BY <1>3 DEF RInv, Progress, Return
  <2>2. rb.current_len = IF Len(before) + cnt > rb.size
                         THEN rb.size ELSE Len(before) + cnt
    BY <1>1, <1>3, HeldDuringPut DEF RInv
  <2>3. CASE drop /\ Attached(rb)
    BY <1>1, <1>3, <2>1, <2>3 DEF ReturnCount, MayPut
  <2>4. CASE ~Attached(rb)
    <3>1. rb.size = 0 /\ Len(before) = 0
      BY <1>1, <2>4 DEF Attached
    <3>2. cnt = 0
      BY <1>3, <3>1 DEF RInv, Progress
    <3> QED
      BY <1>1, <1>3, <2>4, <3>1, <3>2 DEF ReturnCount
  <2>5. CASE ~drop /\ Attached(rb)
    <3>1. cnt = len \/ rb.current_len = rb.size
      BY <1>1, <2>1, <2>5, FullAndEmpty DEF MayPut
    <3> QED
      BY <1>1, <1>3, <2>1, <2>2, <2>5, <3>1 DEF ReturnCount
  <2> QED
    BY <2>3, <2>4, <2>5
<1> QED
  BY <1>2, <1>3 DEF Return

\* Every call returns the number of bytes it moved, and that is all it could.
THEOREM CountsAreTrue == RSpec => ReturnsWhatItMoved
<1>1. RInv /\ [RNext]_rvars => [ReturnCount]_rvars
  <2>1. SUFFICES ASSUME RInv, RNext PROVE ReturnCount \/ UNCHANGED rvars
    OBVIOUS
  <2>2. CASE Return
    BY <2>1, <2>2, ReturnStep
  <2>3. CASE ~Return
    BY <2>1, <2>3 DEF RNext, SetUp, callvars, CallPut, CallGet, Call, PutStep, GetStep,
                      ReturnCount
  <2> QED
    BY <2>2, <2>3
<1> QED
  BY <1>1, RingInvariance, PTL DEF RSpec, ReturnsWhatItMoved
-----------------------------------------------------------------------------
\* Initially, and in every step, the ring buffer does what the queue may do.
LEMMA FifoStep ==
  ASSUME RInv, RInv', [RNext]_rvars
  PROVE  [Fifo!SetUp \/ Fifo!Enqueue \/ Fifo!Displace \/ Fifo!Dequeue
          \/ Fifo!MakeEmpty]_(Fifo!fvars)
<1>1. RingOK(rb) /\ RingOK(rb)' /\ rb.size \in {0, Size}
  BY DEF RInv, RTypeOK
<1>2. CASE SetUp
  <2>1. ASSUME NEW buffer \in [0 .. Size - 1 -> Bytes], rb' = InitRing(buffer, Size)
        PROVE  Fifo!SetUp
    <3>1. Contents(rb)' = <<>> /\ rb'.size = Size
      BY <1>1, <2>1, SetUpRing, SizeAssumption DEF InitRing, Ring
    <3> QED
      BY <3>1 DEF Fifo!SetUp
  <2>2. ASSUME rb' = NoBuffer
        PROVE  Fifo!SetUp
    <3>1. rb'.current_len = 0 /\ rb'.size = 0
      BY <2>2 DEF NoBuffer, Ring
    <3>2. Contents(rb)' = <<>>
      BY <1>1, <3>1, ContentsType
    <3> QED
      BY <3>1, <3>2 DEF Fifo!SetUp
  <2>3. ASSUME rb' = ClearRing(rb)
        PROVE  Fifo!MakeEmpty
    <3>1. rb'.current_len = 0 /\ rb'.size = rb.size
      BY <2>3 DEF ClearRing, Ring
    <3>2. Contents(rb)' = <<>>
      BY <1>1, <3>1, ContentsType
    <3> QED
      BY <3>1, <3>2 DEF Fifo!MakeEmpty
  <2> QED
    BY <1>2, <2>1, <2>2, <2>3 DEF SetUp
<1>3. CASE PutStep
  <2>1. /\ Attached(rb) /\ rb' = PutByte(rb, Head(todo)) /\ Head(todo) \in Bytes
        /\ rb'.size = rb.size
    BY <1>3, PutStepNewest DEF PutStep, MayPut
  <2>2. Len(Contents(rb)) = rb.current_len /\ rb.current_len \in 0 .. rb.size
        /\ rb.size \in Nat
    BY <1>1, ContentsType DEF RingOK
  <2>3. CASE Full(rb)
    <3>1. Contents(rb)' = Append(Tail(Contents(rb)), Head(todo))
      BY <1>1, <2>1, <2>3, PutDisplaces
    <3>2. Len(Contents(rb)) = rb.size /\ rb.size > 0
      BY <2>1, <2>2, <2>3 DEF Full, Attached
    <3> QED
      BY <2>1, <3>1, <3>2 DEF Fifo!Displace
  <2>4. CASE ~Full(rb)
    <3>1. Contents(rb)' = Append(Contents(rb), Head(todo))
      BY <1>1, <2>1, <2>4, PutAppends
    <3>2. Len(Contents(rb)) < rb.size
      BY <1>1, <2>1, <2>2, <2>4, FullAndEmpty
    <3> QED
      BY <2>1, <3>1, <3>2 DEF Fifo!Enqueue
  <2> QED
    BY <2>3, <2>4
<1>4. CASE GetStep
  <2>1. Attached(rb) /\ ~Empty(rb) /\ rb' = DropByte(rb) /\ rb'.size = rb.size
    BY <1>4, GetStepOldest DEF GetStep, MayGet
  <2>2. Contents(rb) # <<>> /\ Contents(rb)' = Tail(Contents(rb))
    BY <1>1, <2>1, GetTakesHead
  <2> QED
    BY <2>1, <2>2 DEF Fifo!Dequeue
<1>5. CASE UNCHANGED rb
  BY <1>5 DEF Fifo!fvars, Contents, Slot
<1> QED
  BY <1>2, <1>3, <1>4, <1>5 DEF RNext, CallPut, CallGet, Call, Return, rvars

\* The ring buffer implements the bounded queue of BoundedFifo.
THEOREM RingImplementsFifo == RSpec => ImplementsFifo
<1>1. RInit => Fifo!FInit
  <2>1. SUFFICES ASSUME RInit PROVE Fifo!FInit
    OBVIOUS
  <2>2. RingOK(rb) /\ rb.current_len = 0 /\ rb.size = 0
    BY <2>1, InitRInv DEF RInv, RTypeOK, RInit, NoBuffer, Ring
  <2>3. Contents(rb) = <<>>
    BY <2>2, ContentsType
  <2> QED
    BY <2>2, <2>3 DEF Fifo!FInit
<1>2. RInv /\ RInv' /\ [RNext]_rvars
        => [Fifo!SetUp \/ Fifo!Enqueue \/ Fifo!Displace \/ Fifo!Dequeue
            \/ Fifo!MakeEmpty]_(Fifo!fvars)
  BY FifoStep
<1> QED
  BY <1>1, <1>2, RingInvariance, PTL DEF RSpec, ImplementsFifo, Fifo!FSpec
=============================================================================
