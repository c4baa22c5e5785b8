------------------------------- MODULE Codec -------------------------------
(***************************************************************************)
(* The descriptor-driven encoder, decoder and json formatter of            *)
(* src/src/bitproto/bitproto.c.  A descriptor is a type; the C call stack  *)
(* is todo, a stack of what remains to be done; every run of bits goes     *)
(* through the loop of BitCopy, whose variables are the codec's registers: *)
(* when encoding dst is the wire and src the struct, when decoding the     *)
(* other way round.                                                        *)
(*                                                                         *)
(* A struct is flat memory: its fields in order, without padding bytes.    *)
(* Every bit of the sender's struct has a name, those above the width of a *)
(* field included, so a value may be too large for its field.              *)
(***************************************************************************)
EXTENDS BitCopy, Sequences, SequencesExt

CONSTANT Schemas
  \* the calls to follow: what a sender encodes, what a receiver decodes, and
  \* the length in bytes of the buffer between them (BYTES_LENGTH_...)

VARIABLES schema,     \* the index of the current call in Schemas
          mode,       \* "idle", "encode", "decode" or "json"
          at,         \* ctx->i
          todo,       \* the work left, as a stack
          aheads,     \* the locals ahead of the calls that are being decoded
          text        \* what the json formatter has written

cvars == <<schema, mode, at, todo, aheads, text>>
vars == <<bcvars, cvars>>

----------------------------------------------------------------------------
(* Types *)

BpType(flag, nbits, size, to_flag, desc) ==
  [flag |-> flag, nbits |-> nbits, size |-> size, to_flag |-> to_flag, desc |-> desc]

BpBool == BpType("bool", 1, 1, "none", <<>>)
BpByte == BpType("byte", 8, 1, "none", <<>>)
BpUint(nbits, size) == BpType("uint", nbits, size, "none", <<>>)
BpInt(nbits, size) == BpType("int", nbits, size, "none", <<>>)
BpEnum(nbits, size) == BpType("enum", nbits, size, "none", <<>>)
BpAlias(to) == BpType("alias", to.nbits, to.size, to.flag, to)
BpArray(extensible, cap, nbits, element) ==
  BpType("array", nbits, cap * element.size, "none",
         [extensible |-> extensible, cap |-> cap, element_type |-> element])

\* Where in its struct field k starts, in bytes; the length of the struct with k one too large.
Offset(fields, k) == FoldSeq(LAMBDA f, sum : sum + f.type.size, 0, SubSeq(fields, 1, k - 1))

BpMessageFieldDescriptor(name, type) == [name |-> name, type |-> type]
BpMessage(extensible, nbits, fields) ==
  BpType("message", nbits, Offset(fields, Len(fields) + 1), "none",
         [extensible |-> extensible, nbits |-> nbits, fields |-> fields])

Base == {"bool", "uint", "byte", "enum"}        \* what BpEndecodeBaseType alone handles
Storage == {8, 16, 32, 64}

BpIsNbitsStandard(nbits) == nbits \in Storage
BpIsBaseIntegerType(flag) == flag \in {"byte", "uint", "enum", "int"}

----------------------------------------------------------------------------
(* The stack of work *)

Endecode(type, data) == <<[op |-> "endecode", type |-> type, data |-> data]>>
Ahead(value) == <<[op |-> "ahead", value |-> value]>>
SkipTo(start, unit) == <<[op |-> "skip", start |-> start, unit |-> unit]>>
Sign(type, data) == <<[op |-> "sign", type |-> type, data |-> data]>>
Json(type, data) == <<[op |-> "json", type |-> type, data |-> data]>>
Put(token) == <<[op |-> "put", token |-> token]>>

Encoding == mode = "encode"
Top == Head(todo)
Rest == Tail(todo)
Ready(op) == n = 0 /\ todo # <<>> /\ Top.op = op
ReadyFor(op, flags) == Ready(op) /\ Top.type.flag \in flags

If(condition, items) == IF condition THEN items ELSE <<>>
Concat(S(_), count) == FlattenSeq([k \in 1..count |-> S(k)])

Goes(items) == todo' = items \o Rest
Quiet == UNCHANGED <<schema, mode, text>>

\* No copy is under way: the buffers change between two calls of BpCopyBufferBits.
Between(from, to) ==
  /\ src' = from /\ dst' = to /\ old' = to
  /\ call' = [n |-> 0, di |-> di, si |-> si]
  /\ UNCHANGED <<n, di, si>>

\* BpEndecodeBaseType: a copy of nbits bits between data and the wire, with from and to as the buffers.
Copies(nbits, data, from, to) ==
  /\ n' = nbits
  /\ di' = IF Encoding THEN at ELSE data
  /\ si' = IF Encoding THEN data ELSE at
  /\ call' = [n |-> n', di |-> di', si |-> si']
  /\ src' = from /\ dst' = to /\ old' = to
  /\ at' = at + nbits

Copy == CopyStep /\ UNCHANGED cvars

BpEndecodeBaseType ==
  /\ ReadyFor("endecode", Base)
  /\ Copies(Top.type.nbits, Top.data, src, dst)
  /\ Goes(<<>>) /\ Quiet /\ UNCHANGED aheads

BpEndecodeInt ==
  /\ ReadyFor("endecode", {"int"})
  /\ Copies(Top.type.nbits, Top.data, src, dst)
  /\ Goes(Sign(Top.type, Top.data))
  /\ Quiet /\ UNCHANGED aheads

\* Mutant: the sign is taken from the lowest bit above the value, which is still clear.
ExtendedByNextBit(m, type, data) ==
  [i \in DOMAIN m |-> IF i >= data + type.nbits /\ i < data + 8 * type.size
                        THEN Or(m[i], m[data + type.nbits]) ELSE m[i]]

\* The bits above an integer of odd width are or-ed with its sign.
Extended(m, type, data) ==
  [i \in DOMAIN m |-> IF i >= data + type.nbits /\ i < data + 8 * type.size
                        THEN Or(m[i], m[data + type.nbits - 1]) ELSE m[i]]

BpHandleIntSignAfterEndecode ==
  /\ Ready("sign")
  /\ IF Encoding \/ BpIsNbitsStandard(Top.type.nbits)
       THEN UNCHANGED bcvars
       ELSE Between(src, Extended(dst, Top.type, Top.data))
  /\ Goes(<<>>) /\ Quiet /\ UNCHANGED <<at, aheads>>

\* An alias leads to a base type without a name or to an array, and to nothing else.
BpEndecodeAlias ==
  /\ ReadyFor("endecode", {"alias"})
  /\ LET to == Top.type.desc
     IN  Goes(If(to.flag \in {"bool", "uint", "byte", "int", "array"}, Endecode(to, Top.data)))
  /\ Quiet /\ UNCHANGED <<bcvars, at, aheads>>

BpEndecodeMessage ==
  /\ ReadyFor("endecode", {"message"})
  /\ LET d == Top.type.desc
         Field(k) == Endecode(d.fields[k].type, Top.data + 8 * Offset(d.fields, k))
     IN  Goes(If(d.extensible, Ahead(d.nbits))
                \o Concat(Field, Len(d.fields))
                \o If(d.extensible /\ ~Encoding, SkipTo(at, 1)))
  /\ Quiet /\ UNCHANGED <<bcvars, at, aheads>>

\* Mutant: any array of integers is copied as one run of bits.
BatchAnyWidth(element) ==
  BpIsBaseIntegerType(element.flag) \/ BpIsBaseIntegerType(element.to_flag)

\* Whether an array is copied as one run of bits.
Batch(element) ==
  /\ BpIsNbitsStandard(element.nbits)
  /\ BpIsBaseIntegerType(element.flag) \/ BpIsBaseIntegerType(element.to_flag)

BpEndecodeArray ==
  /\ ReadyFor("endecode", {"array"})
  /\ LET d == Top.type.desc
         e == d.element_type
         Data(k) == Top.data + 8 * (k - 1) * e.size
         Element(k) == Endecode(e, Data(k))
         ElementSign(k) == Sign(e, Data(k))
         whole == Endecode(BpUint(e.nbits * d.cap, e.size * d.cap), Top.data)
         items == IF Batch(e)
                    THEN whole \o If("int" \in {e.flag, e.to_flag}, Concat(ElementSign, d.cap))
                    ELSE Concat(Element, d.cap)
     IN  Goes(If(d.extensible, Ahead(d.cap)) \o items
                \o If(d.extensible /\ ~Encoding, SkipTo(at, d.cap)))
  /\ Quiet /\ UNCHANGED <<bcvars, at, aheads>>

Set == 1
Bits16(value) == [i \in 0..15 |-> IF (value \div 2^i) % 2 = 1 THEN Set ELSE Clear]
Value16(b) == FoldSet(LAMBDA i, sum : sum + (IF b[i] = Set THEN 2^i ELSE 0), 0, 0..15)

\* The 16 bits in front of an extensible message or array go through a local variable of their own.
BpEndecodeExtensibleAhead ==
  /\ Ready("ahead")
  /\ IF Encoding THEN Copies(16, 0, Bits16(Top.value), dst) ELSE Copies(16, 0, src, Bits16(0))
  /\ Goes(<<[op |-> "endahead", data |-> IF Encoding THEN src ELSE dst]>>)
  /\ Quiet /\ UNCHANGED aheads

ExtensibleAheadDone ==
  /\ Ready("endahead")
  /\ IF Encoding
       THEN Between(Top.data, dst) /\ UNCHANGED aheads
       ELSE Between(src, Top.data) /\ aheads' = <<Value16(dst)>> \o aheads
  /\ Goes(<<>>) /\ Quiet /\ UNCHANGED at

\* Mutant: the length in front of a message is added to where the decoder is, not to where the message began.
SkipFromHere ==
  /\ Ready("skip")
  /\ at' = at + Head(aheads) * Top.unit
  /\ aheads' = Tail(aheads)
  /\ Goes(<<>>) /\ Quiet /\ UNCHANGED bcvars

\* The decoder moves on to where it takes the other side to have stopped, never back.
SkipRedundantBits ==
  /\ Ready("skip")
  /\ LET ito == Top.start + Head(aheads) * Top.unit
     IN  at' = IF ito >= at THEN ito ELSE at
  /\ aheads' = Tail(aheads)
  /\ Goes(<<>>) /\ Quiet /\ UNCHANGED bcvars

----------------------------------------------------------------------------
(* The json formatter.  A token is a punctuation mark, a key or a value; a
   value is the bits that the conversion of the format reads. *)

Mark(m) == <<"mark", m>>
JsonKey(name) == <<"key", name>>

\* Mutant: values of 17 to 32 bits get the conversion of 16 bits.
PrintedBitsTooFew(type) ==
  IF type.flag \in {"bool", "byte"} \/ type.nbits <= 8 THEN 8
  ELSE IF type.nbits <= 32 THEN 16
  ELSE 32

\* The width of the integer printed: a long has 32 bits on this target.
PrintedBits(type) ==
  IF type.flag \in {"bool", "byte"} THEN 8
  ELSE IF type.nbits <= 8 THEN 8
  ELSE IF type.nbits <= 16 THEN 16
  ELSE IF type.nbits <= 32 \/ type.flag = "int" THEN 32
  ELSE 64

BitsAt(m, data, count) == [i \in 1..count |-> m[data + i - 1]]

JsonQuiet == UNCHANGED <<bcvars, schema, mode, at, aheads>>

BpJsonFormatBaseType ==
  /\ ReadyFor("json", Base \cup {"int"})
  /\ text' = Append(text, <<"value", BitsAt(dst, Top.data, PrintedBits(Top.type))>>)
  /\ Goes(<<>>) /\ JsonQuiet

BpJsonFormatAlias ==
  /\ ReadyFor("json", {"alias"})
  /\ LET to == Top.type.desc
     IN  Goes(If(to.flag \in {"bool", "int", "uint", "byte", "array"}, Json(to, Top.data)))
  /\ JsonQuiet /\ UNCHANGED text

BpJsonFormatMessage ==
  /\ ReadyFor("json", {"message"})
  /\ LET fields == Top.type.desc.fields
         Field(k) == Put(JsonKey(fields[k].name))
                       \o Json(fields[k].type, Top.data + 8 * Offset(fields, k))
                       \o If(k < Len(fields), Put(Mark(",")))
     IN  Goes(Concat(Field, Len(fields)) \o Put(Mark("}")))
  /\ text' = Append(text, Mark("{")) /\ JsonQuiet

BpJsonFormatArray ==
  /\ ReadyFor("json", {"array"})
  /\ LET d == Top.type.desc
         Element(k) == Json(d.element_type, Top.data + 8 * (k - 1) * d.element_type.size)
                         \o If(k < d.cap, Put(Mark(",")))
     IN  Goes(Concat(Element, d.cap) \o Put(Mark("]")))
  /\ text' = Append(text, Mark("[")) /\ JsonQuiet

BpJsonFormatString ==
  /\ Ready("put")
  /\ text' = Append(text, Top.token)
  /\ Goes(<<>>) /\ JsonQuiet

----------------------------------------------------------------------------
(* One call after another: a sender encodes its struct into a cleared buffer,
   the receiver decodes it into a cleared struct and prints that. *)

Writer == Schemas[schema].writer
Reader == Schemas[schema].reader

Cleared(bytes) == [i \in 0..(8 * bytes - 1) |-> Clear]
Named(i) == i + 2                                  \* bit i of the sender's struct
Memory(type) == [i \in 0..(8 * type.size - 1) |-> Named(i)]

Idle == n = 0 /\ todo = <<>>

Encode(k) ==
  /\ Idle /\ mode = "idle"
  /\ schema' = k /\ mode' = "encode" /\ at' = 0 /\ text' = <<>>
  /\ Between(Memory(Schemas[k].writer), Cleared(Schemas[k].bytes))
  /\ todo' = Endecode(Schemas[k].writer, 0)
  /\ UNCHANGED aheads

\* Mutant: the receiver's struct is not cleared.
DecodeOverOldValues ==
  /\ Idle /\ mode = "encode"
  /\ mode' = "decode" /\ at' = 0
  /\ Between(dst, Memory(Reader))
  /\ todo' = Endecode(Reader, 0)
  /\ UNCHANGED <<schema, aheads, text>>

Decode ==
  /\ Idle /\ mode = "encode"
  /\ mode' = "decode" /\ at' = 0
  /\ Between(dst, Cleared(Reader.size))
  /\ todo' = Endecode(Reader, 0)
  /\ UNCHANGED <<schema, aheads, text>>

Format ==
  /\ Idle /\ mode = "decode"
  /\ mode' = "json"
  /\ todo' = Json(Reader, 0)
  /\ UNCHANGED <<bcvars, schema, at, aheads, text>>

Init ==
  /\ n = 0 /\ di = 0 /\ si = 0
  /\ src = Cleared(0) /\ dst = Cleared(0) /\ old = dst
  /\ call = [n |-> 0, di |-> 0, si |-> 0]
  /\ schema = 1 /\ mode = "idle" /\ at = 0 /\ todo = <<>> /\ aheads = <<>> /\ text = <<>>

\* Nothing of a call outlives it but the buffers of its caller.
Return ==
  /\ Idle /\ mode = "json"
  /\ di' = 0 /\ si' = 0 /\ call' = [n |-> 0, di |-> 0, si |-> 0]
  /\ src' = Cleared(0) /\ dst' = Cleared(0) /\ old' = dst'
  /\ schema' = 1 /\ mode' = "idle" /\ at' = 0 /\ text' = <<>>
  /\ UNCHANGED <<n, todo, aheads>>

Next ==
  \/ Copy
  \/ BpEndecodeBaseType \/ BpEndecodeInt \/ BpHandleIntSignAfterEndecode
  \/ BpEndecodeAlias \/ BpEndecodeMessage \/ BpEndecodeArray
  \/ BpEndecodeExtensibleAhead \/ ExtensibleAheadDone \/ SkipRedundantBits
  \/ BpJsonFormatBaseType \/ BpJsonFormatAlias \/ BpJsonFormatMessage
  \/ BpJsonFormatArray \/ BpJsonFormatString
  \/ \E k \in DOMAIN Schemas : Encode(k)
  \/ Decode \/ Format \/ Return

Spec == Init /\ [][Next]_vars

----------------------------------------------------------------------------
(* What the calls promise, stated from the types alone *)

\* The values of a struct in the order of their declaration, each with the path that leads to it.
RECURSIVE Leaves(_, _, _)
Leaves(type, data, path) ==
  CASE type.flag = "alias" -> Leaves(type.desc, data, path)
    [] type.flag = "array" ->
         LET e == type.desc.element_type
             Element(k) == Leaves(e, data + 8 * (k - 1) * e.size, Append(path, k))
         IN  Concat(Element, type.desc.cap)
    [] type.flag = "message" ->
         LET fields == type.desc.fields
             Field(k) == Leaves(fields[k].type, data + 8 * Offset(fields, k), Append(path, k))
         IN  Concat(Field, Len(fields))
    [] OTHER -> <<[path |-> path, data |-> data, type |-> type]>>

\* The bits on the wire: the low bits of every value, without a gap, and the 16 bits of every header.
RECURSIVE Wire(_, _)
Wire(type, data) ==
  LET Header(value) == If(type.desc.extensible, [i \in 1..16 |-> Bits16(value)[i - 1]])
  IN  CASE type.flag = "alias" -> Wire(type.desc, data)
        [] type.flag = "array" ->
             LET e == type.desc.element_type
                 Element(k) == Wire(e, data + 8 * (k - 1) * e.size)
             IN  Header(type.desc.cap) \o Concat(Element, type.desc.cap)
        [] type.flag = "message" ->
             LET fields == type.desc.fields
                 Field(k) == Wire(fields[k].type, data + 8 * Offset(fields, k))
             IN  Header(type.desc.nbits) \o Concat(Field, Len(fields))
        [] OTHER -> [i \in 1..type.nbits |-> Named(data + i - 1)]

CodecTypeOK ==
  /\ BCTypeOK
  /\ schema \in DOMAIN Schemas
  /\ mode \in {"idle", "encode", "decode", "json"}
  /\ at \in 0..(8 * Schemas[schema].bytes)
  /\ mode \notin {"encode", "decode"} => todo = <<>> \/ mode = "json"
  /\ mode # "decode" => aheads = <<>>

(* bitproto.c:85-283, 405-438: what EncodeX leaves in a buffer of its
   BYTES_LENGTH_X bytes is every value of the struct in the order of the
   declaration, each cut to its width and next to its neighbours, with zeros up
   to the last byte: the batch copy of an array and the copy of its elements,
   and words and partial bytes, give the same wire. *)
WireIsDense ==
  mode = "encode" /\ Idle =>
    LET wire == Wire(Writer, 0)
    IN  dst = [i \in 0..(8 * Schemas[schema].bytes - 1) |->
                 IF i < Len(wire) THEN wire[i + 1] ELSE Clear]

(* bitproto.c:440-506: a receiver that decodes the buffer has every value of
   its own struct as the sender's struct has it, cut to its width; the bits
   above the width are the sign of an int and zero for everything else.  This
   holds for a receiver whose extensible message has fewer fields than the
   sender's, too: it finds what comes after the fields it does not know. *)
RoundTripIsExact ==
  mode = "decode" /\ Idle =>
    LET sent == Leaves(Writer, 0, <<>>)
        got == Leaves(Reader, 0, <<>>)
    IN  \A g \in 1..Len(got) :
          LET s == CHOOSE s \in 1..Len(sent) : sent[s].path = got[g].path
              w == got[g].type.nbits
              Bit0(i) == Named(sent[s].data + i)
          IN  \A i \in 0..(8 * got[g].type.size - 1) :
                dst[got[g].data + i] = IF i < w THEN Bit0(i)
                                       ELSE IF got[g].type.flag = "int" THEN Bit0(w - 1)
                                       ELSE Clear

(* Every call of BpCopyBufferBits that the descriptors lead to respects what
   the loop relies on (both ranges inside their buffers, a clear target), so
   that what is proved of the loop holds of all of them. *)
CallsAreLegal == BCSpec

Values(t) == SelectSeq(t, LAMBDA token : token[1] = "value")
Count(t, marks) == Len(SelectSeq(t, LAMBDA token : token[1] = "mark" /\ token[2] \in marks))

(* bitproto.c:550-733: the text has balanced brackets, a comma between two
   members and nowhere else, a key in front of every member of a message and
   of nothing else, and every value of the struct once, in order and with all
   its bits.  An int of more than 32 bits is left out: the formatter prints it
   as a long, which has 32 bits on this target (bitproto.c:629-645). *)
JsonIsComplete ==
  LET leaves == Leaves(Reader, 0, <<>>)
      values == Values(text)
      IsMark(i, marks) == i \in DOMAIN text /\ text[i][1] = "mark" /\ text[i][2] \in marks
      IsKey(i) == i \in DOMAIN text /\ text[i][1] = "key"
  IN  /\ \A i \in DOMAIN text :
           /\ IsMark(i, {","}) => ~IsMark(i + 1, {",", "}", "]"}) /\ ~IsMark(i - 1, {",", "{", "["})
           /\ IsKey(i) => IsMark(i - 1, {"{", ","}) /\ ~IsKey(i + 1)
           /\ IsMark(i, {"}", "]"}) \/ text[i][1] = "value" =>
                i = Len(text) \/ IsMark(i + 1, {",", "}", "]"})
           /\ Count(SubSeq(text, 1, i), {"}", "]"}) <= Count(SubSeq(text, 1, i), {"{", "["})
      /\ mode = "json" /\ Idle =>
           /\ Count(text, {"{"}) = Count(text, {"}"}) /\ Count(text, {"["}) = Count(text, {"]"})
           /\ Len(values) = Len(leaves)
           /\ \A k \in 1..Len(leaves) :
                LET type == leaves[k].type
                IN  \/ type.flag = "int" /\ type.nbits > 32
                    \/ values[k][2] = BitsAt(dst, leaves[k].data, 8 * type.size)
=============================================================================
