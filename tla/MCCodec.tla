------------------------------ MODULE MCCodec ------------------------------
(* The messages of the repository, and types that reach the branches of the
   library which those do not: every width at every offset in a byte, arrays
   of odd elements, aliases of them, and extensible messages and arrays. *)
EXTENDS DroneBp

CONSTANT MaxWidth   \* the widest value to try

SizeFor(nbits) == IF nbits <= 8 THEN 1 ELSE IF nbits <= 16 THEN 2 ELSE IF nbits <= 32 THEN 4 ELSE 8
Uint(nbits) == BpUint(nbits, SizeFor(nbits))
SInt(nbits) == BpInt(nbits, SizeFor(nbits))
Bytes(nbits) == (nbits + 7) \div 8

(* A value of the given type behind offset bits and in front of one more. *)
At(offset, type) ==
  Same(BpMessage(FALSE, offset + type.nbits + 1,
         (IF offset = 0 THEN <<>> ELSE <<Field("a", Uint(offset))>>)
           \o <<Field("b", type), Field("c", BpBool)>>),
       Bytes(offset + type.nbits + 1))

(* Every width behind every offset, unsigned and signed. *)
Scalars ==
  [k \in 1..(16 * MaxWidth) |->
     LET w == 1 + ((k - 1) \div 16)
     IN  At((k \div 2) % 8, IF k % 2 = 0 THEN Uint(w) ELSE SInt(w))]

Arrays ==
  LET Of(extensible, cap, e) ==
        BpArray(extensible, cap, cap * e.nbits + (IF extensible THEN 16 ELSE 0), e)
      types == <<Of(FALSE, 3, SInt(5)), Of(FALSE, 3, BpAlias(SInt(13))), Of(FALSE, 3, BpByte),
                 BpAlias(Of(FALSE, 3, BpEnum(8, 1))), Of(FALSE, 2, BpAlias(SInt(32))),
                 Of(FALSE, 2, BpAlias(Of(FALSE, 2, SInt(16)))), Of(FALSE, 5, BpBool),
                 Of(FALSE, 2, Uint(64)), Of(TRUE, 2, Uint(16)), Of(TRUE, 3, SInt(7)), BpAlias(BpByte)>>
  IN  [k \in 1..(2 * Len(types)) |-> At(IF k % 2 = 0 THEN 0 ELSE 3, types[(k + 1) \div 2])]

(* Two versions of a message that ends early in the receiver's, alone and
   within another, in front of a value both know. *)
Extensible ==
  LET Version(fields) ==
        BpMessage(TRUE, 16 + FoldSeq(LAMBDA f, sum : sum + f.type.nbits, 0, fields), fields)
      short == <<Field("x", SInt(3))>>
      long == short \o <<Field("y", Uint(11)), Field("z", BpBool)>>
      Around(inner) == BpMessage(FALSE, 11 + inner.nbits,
        <<Field("p", Uint(2)), Field("m", inner), Field("q", SInt(9))>>)
      Twice(inner) == Version(<<Field("m", Around(inner)), Field("r", BpByte)>>)
      Pair(w, r, bytes) == [writer |-> w, reader |-> r, bytes |-> bytes]
  IN  <<Pair(Version(long), Version(long), 4), Pair(Version(long), Version(short), 4),
        Pair(Around(Version(long)), Around(Version(short)), 6),
        Pair(Twice(Version(long)), Twice(Version(short)), 9)>>

MCSchemas == DroneMessages \o FrameMessages \o Arrays \o Extensible \o Scalars
=============================================================================
