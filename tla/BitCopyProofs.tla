--------------------------- MODULE BitCopyProofs ---------------------------
(***************************************************************************)
(* The bit copy is exact, stays inside its ranges and ends, for buffers of *)
(* any length, any number of bits and any two positions.                   *)
(***************************************************************************)
EXTENDS BitCopy, TLAPS

(* How far the copy has come: done bits are in place, the rest of the target
   up to the end of its last byte is still clear, all other bytes are old. *)
Done == call.n - n

Progress ==
  /\ call \in [n : Nat, di : Nat, si : Nat]
  /\ n <= call.n
  /\ di = call.di + Done
  /\ si = call.si + Done

InRange ==
  /\ \A i \in call.di..(call.di + call.n - 1) : i \in DOMAIN dst
  /\ \A i \in call.si..(call.si + call.n - 1) : i \in DOMAIN src

Copied == \A k \in 0..(Done - 1) : dst[call.di + k] = src[call.si + k]

StillClear ==
  n # 0 => \A i \in di..(ByteEnd(call.di + call.n) - 1) : dst[i] = Clear

OthersOld ==
  \A i \in DOMAIN old :
    i < call.di \/ i >= ByteEnd(call.di + call.n) => dst[i] = old[i]

IInv == BCTypeOK /\ Progress /\ InRange /\ Copied /\ StillClear /\ OthersOld

----------------------------------------------------------------------------
(* The arithmetic of an iteration: what it copies is at least one bit and at
   most the rest, and the word it assigns ends where the last byte of each
   range ends, or before. *)
LEMMA ChunkFits ==
  ASSUME NEW k \in Nat, k # 0, NEW d \in Nat, NEW s \in Nat
  PROVE  /\ Chunk(k, d, s) \in 1..k
         /\ Width(k, d, s) \in {0, 8, 16, 32}
         /\ Width(k, d, s) # 0 => /\ d + Width(k, d, s) <= ByteEnd(d + k)
                                  /\ d % 8 = 0
                                  /\ Chunk(k, d, s) <= Width(k, d, s)
                                  /\ ByteStart(s) + Width(k, d, s) <= ByteEnd(s + k)
         /\ Width(k, d, s) = 0 => /\ ByteStart(d) + 8 <= ByteEnd(d + k)
                                  /\ ByteStart(s) + 8 <= ByteEnd(s + k)
<1>1. d % 8 \in 0..7 /\ s % 8 \in 0..7
  OBVIOUS
<1>2. CASE Width(k, d, s) = 0
  <2>1. Chunk(k, d, s) \in 1..k
    BY <1>1, <1>2 DEF Chunk, MinOf
  <2>2. ByteStart(d) + 8 <= ByteEnd(d + k) /\ ByteStart(s) + 8 <= ByteEnd(s + k)
    BY DEF ByteStart, ByteEnd
  <2>3. QED
    BY <1>2, <2>1, <2>2
<1>3. CASE Width(k, d, s) # 0
  <2>1. /\ d % 8 = 0
        /\ Width(k, d, s) \in {8, 16, 32}
        /\ k + (s % 8) >= Width(k, d, s)
    BY <1>1, <1>3 DEF Width
  <2>2. Chunk(k, d, s) = Width(k, d, s) - (s % 8)
    BY <1>3 DEF Chunk
  <2>3. Chunk(k, d, s) \in 1..k /\ Chunk(k, d, s) <= Width(k, d, s)
    BY <1>1, <2>1, <2>2
  <2>4. d + Width(k, d, s) <= ByteEnd(d + k)
    <3>1. \A w \in {8, 16, 32} : k >= w - 7 => d + w <= ByteEnd(d + k)
      BY <2>1 DEF ByteEnd
    <3>2. QED
      BY <1>1, <2>1, <3>1
  <2>5. ByteStart(s) + Width(k, d, s) <= ByteEnd(s + k)
    <3>1. ByteStart(s) + (s % 8) = s /\ s + k <= ByteEnd(s + k)
          /\ ByteStart(s) \in Int /\ ByteEnd(s + k) \in Int
      BY DEF ByteStart, ByteEnd
    <3>2. QED
      BY <1>1, <2>1, <3>1
  <2>6. QED
    BY <1>3, <2>1, <2>3, <2>4, <2>5
<1>4. QED
  BY <1>2, <1>3
(* The last byte of a range that lies in a buffer lies in it too. *)
LEMMA LastByteInBuffer ==
  ASSUME NEW b, IsBuffer(b), NEW d \in Nat, NEW k \in Nat, k # 0,
         \A i \in d..(d + k - 1) : i \in DOMAIN b
  PROVE  \A i \in 0..(ByteEnd(d + k) - 1) : i \in DOMAIN b
<1>1. PICK m \in 0..MaxBytes : b \in [0..(8 * m - 1) -> Bit]
  BY DEF IsBuffer
<1>2. m \in Nat /\ DOMAIN b = 0..(8 * m - 1)
  BY <1>1, MaxBytesAssumption
<1>3. d + k - 1 \in 0..(8 * m - 1)
  BY <1>2
<1>4. ByteEnd(d + k) <= 8 * m
  BY <1>2, <1>3 DEF ByteEnd
<1>5. QED
  BY <1>2, <1>4 DEF ByteEnd

(* What an iteration does to one bit of the target. *)
LEMMA WrittenBit ==
  ASSUME n \in Nat, n # 0, di \in Nat, si \in Nat,
         NEW i \in Int, i \in DOMAIN dst
  PROVE  LET w == Written(dst, src, n, di, si)[i] IN
         /\ i < di \/ i >= ByteEnd(di + n) => w = dst[i]
         /\ i >= di + Chunk(n, di, si) => w \in {dst[i], Clear}
         /\ i \in di..(di + Chunk(n, di, si) - 1) /\ dst[i] = Clear =>
              w = src[si + (i - di)]
<1>1. Chunk(n, di, si) \in 1..n /\ Width(n, di, si) \in {0, 8, 16, 32}
  BY ChunkFits
<1>2. di + n <= ByteEnd(di + n) /\ ByteEnd(di + n) \in Int
  BY DEF ByteEnd
<1>3. CASE Width(n, di, si) # 0
  <2>1. Written(dst, src, n, di, si) = Assigned(dst, src, n, di, si)
    BY <1>3 DEF Written
  <2>2. di + Width(n, di, si) <= ByteEnd(di + n) /\ Chunk(n, di, si) <= Width(n, di, si)
    BY <1>3, ChunkFits
  <2>3. QED
    BY <1>1, <1>2, <2>1, <2>2 DEF Assigned
<1>4. CASE Width(n, di, si) = 0
  <2>1. Written(dst, src, n, di, si) = Merged(dst, src, n, di, si)
    BY <1>4 DEF Written
  <2>2. QED
    BY <1>1, <1>2, <2>1 DEF Merged, Or
<1>5. QED
  BY <1>3, <1>4

(* An iteration leaves a buffer of the same length. *)
LEMMA WrittenIsBuffer ==
  ASSUME NEW t, NEW f, IsBuffer(t), IsBuffer(f),
         NEW k \in Nat, k # 0, NEW d \in Nat, NEW s \in Nat,
         \A i \in s..(s + k - 1) : i \in DOMAIN f
  PROVE  IsBuffer(Written(t, f, k, d, s))
<1>1. PICK m \in 0..MaxBytes : t \in [0..(8 * m - 1) -> Bit]
  BY DEF IsBuffer
<1>2. PICK j \in 0..MaxBytes : f \in [0..(8 * j - 1) -> Bit]
  BY DEF IsBuffer
<1>3. \A i \in s..(s + k - 1) : f[i] \in Bit
  BY <1>2
<1>4. Chunk(k, d, s) \in 1..k /\ Width(k, d, s) \in {0, 8, 16, 32}
  BY ChunkFits
<1>5. m \in Nat /\ DOMAIN t = 0..(8 * m - 1)
  BY <1>1, MaxBytesAssumption
<1>6. \A i \in d..(d + Chunk(k, d, s) - 1) : f[s + (i - d)] \in Bit
  BY <1>3, <1>4
<1>7. \A i \in 0..(8 * m - 1) : t[i] \in Bit
  BY <1>1
<1>8. Clear \in Bit /\ Unknown \in Bit
  BY DEF Clear, Unknown, Bit
<1>9. Assigned(t, f, k, d, s) \in [0..(8 * m - 1) -> Bit]
  BY <1>4, <1>5, <1>6, <1>7, <1>8 DEF Assigned
<1>10. Merged(t, f, k, d, s) \in [0..(8 * m - 1) -> Bit]
  BY <1>4, <1>5, <1>6, <1>7, <1>8 DEF Merged, Or
<1>11. QED
  BY <1>9, <1>10 DEF Written, IsBuffer

----------------------------------------------------------------------------
(* A call starts with nothing done. *)
LEMMA CallEstablishes ==
  ASSUME Callable(n, di, si, dst, src),
         call = [n |-> n, di |-> di, si |-> si], old = dst
  PROVE  IInv
<1>1. BCTypeOK
  BY DEF Callable, BCTypeOK
<1>2. Progress
  BY DEF Callable, Progress, Done
<1>3. InRange /\ Copied /\ StillClear /\ OthersOld
  BY DEF Callable, InRange, Copied, StillClear, OthersOld, Done
<1>4. QED
  BY <1>1, <1>2, <1>3 DEF IInv

(* An iteration preserves the invariant. *)
LEMMA CopyStepPreserves ==
  ASSUME IInv, CopyStep
  PROVE  IInv'
<1> DEFINE c == Chunk(n, di, si)
<1> DEFINE end == ByteEnd(call.di + call.n)
<1>1. /\ n \in Nat /\ n # 0 /\ di \in Nat /\ si \in Nat
      /\ call.n \in Nat /\ call.di \in Nat /\ call.si \in Nat
      /\ n <= call.n /\ di = call.di + (call.n - n) /\ si = call.si + (call.n - n)
  BY DEF IInv, BCTypeOK, Progress, Done, CopyStep
<1>2. c \in 1..n
  BY <1>1, ChunkFits
<1>3. di + n = call.di + call.n /\ si + n = call.si + call.n
  BY <1>1
<1>4. /\ dst' = Written(dst, src, n, di, si)
      /\ n' = n - c /\ di' = di + c /\ si' = si + c
      /\ src' = src /\ call' = call /\ old' = old
  BY DEF CopyStep
<1>5. DOMAIN dst' = DOMAIN dst
      /\ \A i \in Int : i \in DOMAIN dst =>
           /\ i < di \/ i >= end => dst'[i] = dst[i]
           /\ i >= di + c => dst'[i] \in {dst[i], Clear}
           /\ i \in di..(di + c - 1) /\ dst[i] = Clear => dst'[i] = src[si + (i - di)]
  <2>1. n \in Nat /\ n # 0 /\ di \in Nat /\ si \in Nat
    BY <1>1
  <2>2. end = ByteEnd(di + n)
    BY <1>3
  <2>3. dst' = Written(dst, src, n, di, si)
    BY <1>4
  <2>4. DOMAIN dst' = DOMAIN dst
    BY <2>3 DEF Written, Assigned, Merged
  <2>5. ASSUME NEW i \in Int, i \in DOMAIN dst
        PROVE  /\ i < di \/ i >= end => dst'[i] = dst[i]
               /\ i >= di + c => dst'[i] \in {dst[i], Clear}
               /\ i \in di..(di + c - 1) /\ dst[i] = Clear => dst'[i] = src[si + (i - di)]
    BY <2>1, <2>2, <2>3, <2>5, WrittenBit
  <2>6. QED
    BY <2>4, <2>5
<1>6. \A i \in 0..(end - 1) : i \in DOMAIN dst
  <2>1. /\ IsBuffer(dst) /\ call.n # 0
        /\ \A i \in call.di..(call.di + call.n - 1) : i \in DOMAIN dst
    BY <1>1 DEF IInv, BCTypeOK, InRange
  <2>2. QED
    BY <1>1, <2>1, LastByteInBuffer
<1>7. end \in Nat /\ call.di + call.n <= end
  BY <1>1 DEF ByteEnd
<1>8. BCTypeOK'
  <2>1. IsBuffer(dst')
    <3>1. IsBuffer(dst) /\ IsBuffer(src)
      BY DEF IInv, BCTypeOK
    <3>2. \A i \in si..(si + n - 1) : i \in DOMAIN src
      BY <1>1 DEF IInv, InRange
    <3>3. QED
      BY <1>1, <1>4, <3>1, <3>2, WrittenIsBuffer
  <2>2. QED
    BY <1>1, <1>2, <1>4, <1>5, <2>1 DEF IInv, BCTypeOK
<1>9. Progress'
  BY <1>1, <1>2, <1>4 DEF IInv, Progress, Done
<1>10. InRange'
  BY <1>4, <1>5 DEF IInv, InRange
<1>11. Copied'
  <2> SUFFICES ASSUME NEW k \in 0..(Done' - 1)
               PROVE  dst'[call.di + k] = src[call.si + k]
    BY <1>4 DEF Copied
  <2>1. Done' = call.n - n + c /\ Done = call.n - n
    BY <1>1, <1>2, <1>4 DEF Done
  <2>2. CASE k < Done
    <3>1. dst[call.di + k] = src[call.si + k]
      BY <1>1, <2>1, <2>2 DEF IInv, Copied
    <3>2. call.di + k < di /\ call.di + k \in 0..(end - 1)
      BY <1>1, <1>7, <2>1, <2>2
    <3>3. QED
      BY <1>5, <1>6, <3>1, <3>2
  <2>3. CASE k >= Done
    <3>1. call.di + k \in di..(di + c - 1) /\ call.si + k = si + ((call.di + k) - di)
      BY <1>1, <1>2, <2>1, <2>3
    <3>2. call.di + k \in 0..(end - 1) /\ call.di + k \in di..(end - 1)
      BY <1>1, <1>2, <1>3, <1>7, <3>1
    <3>3. dst[call.di + k] = Clear
      BY <1>1, <3>2 DEF IInv, StillClear
    <3>4. QED
      BY <1>5, <1>6, <3>1, <3>2, <3>3
  <2>4. QED
    BY <1>1, <2>1, <2>2, <2>3
<1>12. StillClear'
  <2> SUFFICES ASSUME NEW i \in di'..(end - 1)
               PROVE  dst'[i] = Clear
    BY <1>4 DEF StillClear
  <2>1. i \in di..(end - 1) /\ i >= di + c /\ i \in 0..(end - 1)
    BY <1>1, <1>2, <1>4, <1>7
  <2>2. dst[i] = Clear
    BY <1>1, <2>1 DEF IInv, StillClear
  <2>3. QED
    BY <1>5, <1>6, <2>1, <2>2
<1>13. OthersOld'
  <2> SUFFICES ASSUME NEW i \in DOMAIN old, i < call.di \/ i >= end
               PROVE  dst'[i] = old[i]
    BY <1>4 DEF OthersOld
  <2>1. i \in DOMAIN dst /\ i \in Int
    <3>1. DOMAIN dst = DOMAIN old /\ IsBuffer(old)
      BY DEF IInv, BCTypeOK
    <3>2. QED
      BY <3>1, MaxBytesAssumption DEF IsBuffer
  <2>2. dst[i] = old[i]
    BY DEF IInv, OthersOld
  <2>3. i < di \/ i >= end
    BY <1>1, <2>1
  <2>4. QED
    BY <1>5, <2>1, <2>2, <2>3
<1>14. QED
  BY <1>8, <1>9, <1>10, <1>11, <1>12, <1>13 DEF IInv

(* The invariant holds of every state of a copy. *)
THEOREM CopyInvariant == BCSpec => []IInv
<1>1. BCInit => IInv
  BY CallEstablishes DEF BCInit
<1>2. IInv /\ CopyStep => IInv'
  BY CopyStepPreserves
<1>3. IInv /\ UNCHANGED bcvars => IInv'
  BY DEF IInv, BCTypeOK, Progress, Done, InRange, Copied, StillClear,
         OthersOld, bcvars
<1>4. QED
  BY <1>1, <1>2, <1>3, PTL DEF BCSpec, BCNext, Call

(* The buffers keep their lengths and hold bits, for every call. *)
THEOREM CopyTypeCorrect == BCSpec => []BCTypeOK
<1>1. IInv => BCTypeOK
  BY DEF IInv
<1>2. QED
  BY <1>1, CopyInvariant, PTL

(* Every call that respects Callable copies exactly its range (bitproto.c:292-398). *)
THEOREM CopyCorrect == BCSpec => []CopyIsExact
<1>1. IInv => CopyIsExact
  BY DEF IInv, Progress, Done, Copied, CopyIsExact
<1>2. QED
  BY <1>1, CopyInvariant, PTL

(* No call touches a byte it does not own, through words or partial bytes. *)
THEOREM CopyContained == BCSpec => []CopyStaysInside
<1>1. IInv => CopyStaysInside
  <2> SUFFICES ASSUME IInv
               PROVE  CopyStaysInside
    OBVIOUS
  <2>1. \A i \in DOMAIN old :
          i < call.di \/ i >= ByteEnd(call.di + call.n) => dst[i] = old[i]
    BY DEF IInv, OthersOld
  <2>2. ASSUME n # 0
        PROVE  LET w == IF Width(n, di, si) # 0 THEN Width(n, di, si) ELSE 8
               IN  /\ ByteStart(di) + w <= ByteEnd(call.di + call.n)
                   /\ ByteStart(si) + w <= ByteEnd(call.si + call.n)
    <3>1. /\ n \in Nat /\ di \in Nat /\ si \in Nat
          /\ di + n = call.di + call.n /\ si + n = call.si + call.n
      BY DEF IInv, BCTypeOK, Progress, Done
    <3>2. CASE Width(n, di, si) = 0
      BY <2>2, <3>1, <3>2, ChunkFits
    <3>3. CASE Width(n, di, si) # 0
      <4>1. di % 8 = 0 /\ di + Width(n, di, si) <= ByteEnd(di + n)
            /\ ByteStart(si) + Width(n, di, si) <= ByteEnd(si + n)
        BY <2>2, <3>1, <3>3, ChunkFits
      <4>2. ByteStart(di) = di
        BY <3>1, <4>1 DEF ByteStart
      <4>3. QED
        BY <3>1, <3>3, <4>1, <4>2
    <3>4. QED
      BY <3>2, <3>3
  <2>3. QED
    BY <2>1, <2>2 DEF CopyStaysInside
<1>2. QED
  BY <1>1, CopyInvariant, PTL

(* Every iteration makes progress, so the loop ends. *)
THEOREM CopyProgresses == BCSpec => []CopyAdvances
<1>1. IInv => CopyAdvances
  <2>1. ASSUME IInv, n # 0
        PROVE  Chunk(n, di, si) \in 1..n
    BY <2>1, ChunkFits DEF IInv, BCTypeOK
  <2>2. QED
    BY <2>1 DEF CopyAdvances
<1>2. QED
  BY <1>1, CopyInvariant, PTL
============================================================================
