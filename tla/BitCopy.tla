------------------------------ MODULE BitCopy ------------------------------
(***************************************************************************)
(* BpCopyBufferBits of src/src/bitproto/bitproto.c: copies n bits from bit *)
(* si of one buffer to bit di of another.  An iteration of the loop either *)
(* assigns a word of 32, 16 or 8 bits at once (when di is at the start of  *)
(* a byte) or merges a few bits of one byte with an or.  Both paths rely   *)
(* on the target being clear, and neither may touch a byte that the copy   *)
(* does not own.                                                           *)
(*                                                                         *)
(* A buffer is a function from bit positions.  Bits are symbolic: every    *)
(* data bit has a name of its own, so that one copy shows where every bit  *)
(* of every value goes.  di and si count from the start of the buffers;    *)
(* the code moves the pointers on and keeps the remainders.  Only the      *)
(* little-endian build is modelled, which is the one of the ESP32-S3.      *)
(***************************************************************************)
EXTENDS Integers

CONSTANT MaxBytes           \* the longest buffer, in bytes

ASSUME MaxBytesAssumption == MaxBytes \in Nat

VARIABLES n, di, si,        \* the arguments of the loop, as it updates them
          src, dst,         \* the two buffers
          call, old         \* the arguments of the call and the target before it

bcvars == <<n, di, si, src, dst, call, old>>

Clear == 0
Unknown == -1
Bit == {Unknown} \cup Nat

IsBuffer(b) == \E k \in 0..MaxBytes : b \in [0..(8 * k - 1) -> Bit]

(* The end of the byte that holds bit i - 1, and the start of the one that holds bit i. *)
ByteEnd(i) == 8 * ((i + 7) \div 8)
ByteStart(i) == 8 * (i \div 8)

(* What an or of two bits leaves: of two different data bits, nothing that is known. *)
Or(a, b) == IF a = Clear THEN b ELSE IF b \in {Clear, a} THEN a ELSE Unknown

\* Mutant: a run of 24 bits is assigned as a word of 32.
WidthTooSoon(k, d, s) ==
  LET bits == k + (s % 8)
  IN  IF d % 8 # 0 THEN 0
      ELSE IF bits >= 24 THEN 32
      ELSE IF bits >= 16 THEN 16
      ELSE IF bits >= 8 THEN 8
      ELSE 0

(* The width of the word an iteration assigns, 0 when it merges bits of one byte. *)
Width(k, d, s) ==
  LET bits == k + (s % 8)
  IN  IF d % 8 # 0 THEN 0
      ELSE IF bits >= 32 THEN 32
      ELSE IF bits >= 16 THEN 16
      ELSE IF bits >= 8 THEN 8
      ELSE 0

MinOf(a, b) == IF a < b THEN a ELSE b

(* The number of bits an iteration copies. *)
Chunk(k, d, s) ==
  IF Width(k, d, s) # 0
  THEN Width(k, d, s) - (s % 8)
  ELSE MinOf(MinOf(8 - (d % 8), 8 - (s % 8)), k)

\* Mutant: the source word is not shifted down to its first bit.
AssignedUnshifted(t, f, k, d, s) ==
  [i \in DOMAIN t |-> IF i < d \/ i >= d + Width(k, d, s) THEN t[i]
                      ELSE f[(s - (s % 8)) + (i - d)]]

(* The target after an iteration that assigns a word: the source word shifted
   right by si % 8, so that its upper bits are clear. *)
Assigned(t, f, k, d, s) ==
  [i \in DOMAIN t |-> IF i < d \/ i >= d + Width(k, d, s) THEN t[i]
                      ELSE IF i < d + Chunk(k, d, s) THEN f[s + (i - d)]
                      ELSE Clear]

(* The target after an iteration that merges Chunk bits into a byte. *)
Merged(t, f, k, d, s) ==
  [i \in DOMAIN t |-> IF i < d \/ i >= d + Chunk(k, d, s) THEN t[i]
                      ELSE Or(t[i], f[s + (i - d)])]

Written(t, f, k, d, s) ==
  IF Width(k, d, s) # 0 THEN Assigned(t, f, k, d, s) ELSE Merged(t, f, k, d, s)

(* One iteration of the loop. *)
CopyStep ==
  /\ n # 0
  /\ dst' = Written(dst, src, n, di, si)
  /\ n' = n - Chunk(n, di, si)
  /\ di' = di + Chunk(n, di, si)
  /\ si' = si + Chunk(n, di, si)
  /\ UNCHANGED <<src, call, old>>

(* What a caller must respect: both ranges lie within their buffers, and the
   target is clear from its first bit to the end of its last byte. *)
Callable(k, d, s, t, f) ==
  /\ k \in Nat /\ d \in Nat /\ s \in Nat
  /\ IsBuffer(t) /\ IsBuffer(f)
  /\ \A i \in d..(d + k - 1) : i \in DOMAIN t
  /\ \A i \in s..(s + k - 1) : i \in DOMAIN f
  /\ k # 0 => \A i \in d..(ByteEnd(d + k) - 1) : t[i] = Clear

BCInit ==
  /\ Callable(n, di, si, dst, src)
  /\ call = [n |-> n, di |-> di, si |-> si]
  /\ old = dst

(* A call, or (with no bits to copy) anything the callers do to the buffers
   between two calls: either way the next copy starts from a state like the
   first. *)
Call == n = 0 /\ BCInit'

BCNext == CopyStep \/ Call

BCSpec == BCInit /\ [][BCNext]_bcvars

----------------------------------------------------------------------------
(* Properties of bitproto.c:292-398. *)

BCTypeOK ==
  /\ n \in Nat /\ di \in Nat /\ si \in Nat
  /\ IsBuffer(src) /\ IsBuffer(dst) /\ IsBuffer(old)
  /\ DOMAIN dst = DOMAIN old

(* When the loop ends the target range is the source range, bit for bit,
   whichever mixture of words and partial bytes copied it. *)
CopyIsExact ==
  n = 0 => \A k \in 0..(call.n - 1) : dst[call.di + k] = src[call.si + k]

(* No iteration reads or writes a byte outside the two ranges, and at every
   point the bits of all other bytes, and those before the range in its
   first byte, are what they were. *)
CopyStaysInside ==
  /\ n # 0 =>
       LET w == IF Width(n, di, si) # 0 THEN Width(n, di, si) ELSE 8
       IN  /\ ByteStart(di) + w <= ByteEnd(call.di + call.n)
           /\ ByteStart(si) + w <= ByteEnd(call.si + call.n)
  /\ \A i \in DOMAIN old :
       i < call.di \/ i >= ByteEnd(call.di + call.n) => dst[i] = old[i]

(* Every iteration copies at least one bit and never more than remain: the
   loop ends, and n does not run past zero. *)
CopyAdvances == n # 0 => Chunk(n, di, si) \in 1..n
============================================================================
