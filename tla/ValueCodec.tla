----------------------------- MODULE ValueCodec -----------------------------
(***************************************************************************)
(* The byte encodings of AVM values in                                     *)
(* packages/arb-avm-cpp/avm/src/value.cpp: marshal_value and              *)
(* deserialize_value (the full form), marshalShallow (the ValueStore form, *)
(* children by hash), and serializeForCheckpoint / SerializeValue with     *)
(* deserializeCheckpoint256 and deserializeCheckpointCodePt (the form a    *)
(* checkpoint stores).                                                     *)
(*                                                                         *)
(* A value is a number, a tuple of up to eight values or a code point.     *)
(* Bytes are naturals below 256; a uint256 is IntBytes bytes and a pc      *)
(* PcBytes bytes wide (32 and 8 in the code), enough to tell byte orders   *)
(* apart.  Values to check are built the way AVM code builds them, on a    *)
(* stack: push a number or a code point, create a tuple, set an element,   *)
(* pop; every value on the stack is checked in every state.               *)
(***************************************************************************)
EXTENDS Integers, Sequences, SequencesExt

CONSTANTS
    NUM, CODEPT, HASH_ONLY, TUPLE,  \* the ValueTypes tags of value.hpp
    IntBytes,     \* UINT256_SIZE
    PcBytes,      \* sizeof(CodePoint::pc), a uint64_t
    Ints,         \* numbers values are built from
    Pcs,          \* code point pcs
    OpCodes,      \* opcodes
    NextHashes,   \* code point next hashes
    TupleSizes,   \* sizes a new tuple may have
    SetIndexes,   \* element indexes a tset may write
    MaxStack,     \* bound: values on the stack
    MaxDepth      \* bound: nesting depth of a value

ASSUME TupleSizes \subseteq 0 .. 8 /\ IntBytes >= 2 /\ PcBytes >= 2

VARIABLES stack

vars == <<stack>>

Byte == 0 .. 255
IntMod == 256 ^ IntBytes

(* to_big_endian into w bytes, most significant first.                    *)
ToBigEndian(n, w) == [i \in 1 .. w |-> (n \div 256 ^ (w - i)) % 256]

(* from_big_endian, and boost's big_to_native after a memcpy.             *)
FromBigEndian(s) == FoldLeft(LAMBDA acc, b : acc * 256 + b, 0, s)

(* A plain memcpy into an integer on a little-endian host (x86-64 and     *)
(* arm64, the targets the node is built for).                              *)
FromNative(s) == FoldRight(LAMBDA b, acc : b + acc * 256, s, 0)

Num(n) == [type |-> "num", n |-> n]
MkTuple(s) == [type |-> "tuple", elems |-> s]
MkCodePoint(pc, op, nh) == [type |-> "codept", pc |-> pc, op |-> op, next |-> nh]
MkOperation(code, imm) == [code |-> code, imm |-> imm]

-----------------------------------------------------------------------------
(* The full form                                                           *)

(* marshal_uint256_t: the NUM tag, then the number in big-endian bytes.    *)
MarshalUint256(n) == <<NUM>> \o ToBigEndian(n, IntBytes)

RECURSIVE MarshalValue(_), MarshalTuple(_), MarshalCodePoint(_)

(* Tuple::marshal (tuple.cpp, not in the repository): the tag TUPLE + n,   *)
(* then each element's full form, as deserialize_tuple reads it.          *)
MarshalTuple(v) ==
    <<TUPLE + Len(v.elems)>>
        \o FlattenSeq([i \in 1 .. Len(v.elems) |-> MarshalValue(v.elems[i])])

(* CodePoint::marshal and Operation::marshal (codepoint.cpp, not in the    *)
(* repository): tag, big-endian pc, immediate count, opcode, the          *)
(* immediate's full form, next hash, as deserializeCodePoint reads them.   *)
MarshalCodePoint(v) ==
    <<CODEPT>> \o ToBigEndian(v.pc, PcBytes) \o <<Len(v.op.imm), v.op.code>>
        \o (IF v.op.imm = <<>> THEN <<>> ELSE MarshalValue(v.op.imm[1]))
        \o ToBigEndian(v.next, IntBytes)

(* marshal_value: dispatch on the alternative the value holds.            *)
MarshalValue(v) ==
    CASE v.type = "tuple"  -> MarshalTuple(v)
      [] v.type = "num"    -> MarshalUint256(v.n)
      [] v.type = "codept" -> MarshalCodePoint(v)

(* Deserialisation threads a read position: a result is a status, the     *)
(* value read and the position after it.  The code never checks the       *)
(* buffer's length: a read past its end is "Overrun".                      *)
Got(v, pos) == [st |-> "OK", v |-> v, pos |-> pos]
Failed(st) == [st |-> st, v |-> Num(0), pos |-> 0]

(* deserialize_int256                                                      *)
DeserializeInt256(buf, i) ==
    IF i + IntBytes - 1 > Len(buf) THEN Failed("Overrun")
    ELSE Got(Num(FromBigEndian(SubSeq(buf, i, i + IntBytes - 1))), i + IntBytes)

RECURSIVE DeserializeValue(_, _), DeserializeTuple(_, _, _, _),
          DeserializeOperation(_, _), DeserializeCodePoint(_, _)

(* deserialize_tuple: size elements, each a full value.                   *)
DeserializeTuple(buf, i, size, acc) ==
    IF Len(acc) = size THEN Got(MkTuple(acc), i)
    ELSE LET r == DeserializeValue(buf, i)
         IN IF r.st # "OK" THEN r
            ELSE DeserializeTuple(buf, r.pos, size, Append(acc, r.v))

(* deserializeOperation: immediate count and opcode bytes; an immediate    *)
(* value follows only when the count is exactly 1.                        *)
DeserializeOperation(buf, i) ==
    IF i + 1 > Len(buf) THEN Failed("Overrun")
    ELSE IF buf[i] = 1
         THEN LET r == DeserializeValue(buf, i + 2)
              IN IF r.st # "OK" THEN r
                 ELSE Got(MkOperation(buf[i + 1], <<r.v>>), r.pos)
         ELSE Got(MkOperation(buf[i + 1], <<>>), i + 2)

(* deserializeCodePoint: the pc is copied and converted big_to_native,     *)
(* then the operation, then the next hash.                                *)
DeserializeCodePoint(buf, i) ==
    IF i + PcBytes - 1 > Len(buf) THEN Failed("Overrun")
    ELSE LET pc == FromBigEndian(SubSeq(buf, i, i + PcBytes - 1))
             o  == DeserializeOperation(buf, i + PcBytes)
             j  == o.pos
         IN IF o.st # "OK" THEN o
            ELSE IF j + IntBytes - 1 > Len(buf) THEN Failed("Overrun")
            ELSE Got(MkCodePoint(pc, o.v,
                                 FromBigEndian(SubSeq(buf, j, j + IntBytes - 1))),
                     j + IntBytes)

(* Mutant: the tuple tag range stops one size short.                       *)
DeserializeValueTupleShort(buf, i) ==
    IF i > Len(buf) THEN Failed("Overrun")
    ELSE LET t == buf[i] IN
         CASE t = NUM    -> DeserializeInt256(buf, i + 1)
           [] t = CODEPT -> DeserializeCodePoint(buf, i + 1)
           [] t >= TUPLE /\ t < TUPLE + 8 -> DeserializeTuple(buf, i + 1, t - TUPLE, <<>>)
           [] OTHER      -> Failed("Throw")

(* deserialize_value: one tag byte, then NUM, CODEPT or a tuple of 0..8    *)
(* elements; any other tag throws "Tried to deserialize unhandled type".   *)
DeserializeValue(buf, i) ==
    IF i > Len(buf) THEN Failed("Overrun")
    ELSE LET t == buf[i] IN
         CASE t = NUM    -> DeserializeInt256(buf, i + 1)
           [] t = CODEPT -> DeserializeCodePoint(buf, i + 1)
           [] t >= TUPLE /\ t <= TUPLE + 8 -> DeserializeTuple(buf, i + 1, t - TUPLE, <<>>)
           [] OTHER      -> Failed("Throw")

-----------------------------------------------------------------------------
(* Hashes, the shallow form and the checkpoint form                        *)

(* get_tuple_size: the size a tuple's tag byte says.                       *)
GetTupleSize(buf, i) == buf[i] - TUPLE

(* ::hash of a value (keccak in the code, out of scope here): any function *)
(* of the full form onto uint256 that tells the test values apart.         *)
Hash(v) == FoldLeft(LAMBDA acc, b : (acc * 31 + b) % IntMod, 7, MarshalValue(v))

(* GetHashKey: the hash marshalled as a number, the ValueStore key.        *)
GetHashKey(v) == MarshalValue(Num(Hash(v)))

(* Operation::marshalShallow (codepoint.cpp, not in the repository): the   *)
(* immediate, if any, by its hash as marshalShallow does for tuple         *)
(* children.                                                               *)
MarshalShallowOperation(op) ==
    <<Len(op.imm), op.code>>
        \o (IF op.imm = <<>> THEN <<>>
            ELSE <<HASH_ONLY>> \o ToBigEndian(Hash(op.imm[1]), IntBytes))

(* Mutant: the tuple's tag without its size.                               *)
MarshalShallowNoSize(v) ==
    CASE v.type = "tuple" ->
            <<TUPLE>> \o FlattenSeq([i \in 1 .. Len(v.elems) |->
                            <<HASH_ONLY>> \o ToBigEndian(Hash(v.elems[i]), IntBytes)])
      [] v.type = "codept" ->
            <<CODEPT>> \o MarshalShallowOperation(v.op) \o ToBigEndian(v.next, IntBytes)
      [] v.type = "num" -> MarshalUint256(v.n)

(* marshalShallow: a tuple is its tag and, per element, HASH_ONLY and the  *)
(* element's hash; a code point its operation's shallow form; a number    *)
(* its full form.                                                          *)
MarshalShallow(v) ==
    CASE v.type = "tuple" ->
            <<TUPLE + Len(v.elems)>>
                \o FlattenSeq([i \in 1 .. Len(v.elems) |->
                       <<HASH_ONLY>> \o ToBigEndian(Hash(v.elems[i]), IntBytes)])
      [] v.type = "codept" ->
            <<CODEPT>> \o MarshalShallowOperation(v.op) \o ToBigEndian(v.next, IntBytes)
      [] v.type = "num" -> MarshalUint256(v.n)

(* marshal_uint64_t: native_to_big, then the bytes in memory order.        *)
MarshalUint64(n) == ToBigEndian(n, PcBytes)

(* Mutant: the tuple's hash written in little-endian order.              *)
SerializeForCheckpointLittleEndian(v) ==
    CASE v.type = "num"    -> <<NUM>> \o MarshalUint256(v.n)
      [] v.type = "tuple"  -> <<TUPLE, NUM>> \o Reverse(ToBigEndian(Hash(v), IntBytes))
      [] v.type = "codept" -> <<CODEPT>> \o MarshalUint64(v.pc)

(* The three serializeForCheckpoint overloads: a number is [NUM, NUM,      *)
(* n], a tuple [TUPLE, NUM, hash], a code point [CODEPT, pc] with the pc   *)
(* in PcBytes big-endian bytes.                                            *)
SerializeForCheckpoint(v) ==
    CASE v.type = "num"    -> <<NUM>> \o MarshalUint256(v.n)
      [] v.type = "tuple"  -> <<TUPLE>> \o MarshalUint256(Hash(v))
      [] v.type = "codept" -> <<CODEPT>> \o MarshalUint64(v.pc)

(* Serializer / SerializeValue: the checkpoint form, tagged with its type. *)
SerializeValue(v) ==
    [type |-> CASE v.type = "num"    -> "NUM_TYPE"
                [] v.type = "tuple"  -> "TUPLE_TYPE"
                [] v.type = "codept" -> "CODEPT_TYPE",
     str  |-> SerializeForCheckpoint(v)]

(* deserializeCheckpoint256: deserialize_int256 from &val[2], the third    *)
(* byte.                                                                   *)
DeserializeCheckpoint256(s) == FromBigEndian(SubSeq(s, 3, 2 + IntBytes))

(* deserialize_int64: a plain memcpy of PcBytes bytes, in native order,    *)
(* with no big_to_native ("make sure correct").                           *)
DeserializeInt64(bytes) == FromNative(SubSeq(bytes, 1, PcBytes))

(* deserializeCheckpointCodePt: deserialize_int64 from &val[2].  The       *)
(* vector holds 1 + PcBytes bytes, so the copy reads one byte past its     *)
(* end: undefined behaviour, any byte.  The result is the set of pcs it    *)
(* can produce.                                                            *)
DeserializeCheckpointCodePt(s) ==
    LET inside == SubSeq(s, 3, Len(s))
    IN { DeserializeInt64(inside \o junk) :
            junk \in [1 .. (PcBytes - Len(inside)) -> Byte] }

-----------------------------------------------------------------------------
(* Building values                                                         *)

RECURSIVE Depth(_)
Depth(v) ==
    CASE v.type = "num"    -> 0
      [] v.type = "codept" -> IF v.op.imm = <<>> THEN 0 ELSE 1 + Depth(v.op.imm[1])
      [] v.type = "tuple"  -> 1 + Max({0} \cup {Depth(e) : e \in ToSet(v.elems)})

PushNum(n) ==
    /\ Len(stack) < MaxStack
    /\ stack' = Append(stack, Num(n))

(* A code point; with an immediate, the immediate is the value popped.     *)
PushCodePoint(pc, code, nh, withImm) ==
    IF withImm
    THEN /\ stack # <<>>
         /\ LET cp == MkCodePoint(pc, MkOperation(code, <<Last(stack)>>), nh)
            IN /\ Depth(cp) <= MaxDepth
               /\ stack' = Append(Front(stack), cp)
    ELSE /\ Len(stack) < MaxStack
         /\ stack' = Append(stack, MkCodePoint(pc, MkOperation(code, <<>>), nh))

(* A new tuple of k elements, each the empty tuple.                        *)
NewTuple(k) ==
    /\ Len(stack) < MaxStack
    /\ stack' = Append(stack, MkTuple([j \in 1 .. k |-> MkTuple(<<>>)]))

(* tset: pop a value into element i of the tuple under it.                 *)
TSet(i) ==
    /\ Len(stack) >= 2
    /\ LET t == stack[Len(stack) - 1]
       IN /\ t.type = "tuple"
          /\ i < Len(t.elems)
          /\ LET t2 == MkTuple([t.elems EXCEPT ![i + 1] = Last(stack)])
             IN /\ Depth(t2) <= MaxDepth
                /\ stack' = Append(Front(Front(stack)), t2)

Pop ==
    /\ stack # <<>>
    /\ stack' = Front(stack)

Init == stack = <<>>

Next ==
    \/ \E n \in Ints : PushNum(n)
    \/ \E pc \in Pcs, c \in OpCodes, nh \in NextHashes, w \in BOOLEAN :
            PushCodePoint(pc, c, nh, w)
    \/ \E k \in TupleSizes : NewTuple(k)
    \/ \E i \in SetIndexes : TSet(i)
    \/ Pop

Spec == Init /\ [][Next]_vars

-----------------------------------------------------------------------------
(* Properties                                                              *)

Values == {stack[k] : k \in 1 .. Len(stack)}

(* marshal_value then deserialize_value gives the value back and consumes  *)
(* exactly its bytes: the reader's tag ranges, immediate count and field   *)
(* order agree with the writer's, for tuples of every size 0..8 and       *)
(* nested code point immediates (the ValueStore and the machine state      *)
(* rely on it).                                                            *)
MarshalRoundTrip ==
    \A v \in Values :
        LET b == MarshalValue(v)
            r == DeserializeValue(b, 1)
        IN r.st = "OK" /\ r.v = v /\ r.pos = Len(b) + 1

(* A checkpointed number reads back as itself and a checkpointed tuple as  *)
(* its hash, through SerializeValue and deserializeCheckpoint256 reading   *)
(* from the third byte (spec section 8: a saved machine state reads back   *)
(* identical).                                                             *)
CheckpointRoundTrip ==
    \A v \in Values :
        LET sv == SerializeValue(v)
        IN /\ sv.type = "NUM_TYPE"   => DeserializeCheckpoint256(sv.str) = v.n
           /\ sv.type = "TUPLE_TYPE" => DeserializeCheckpoint256(sv.str) = Hash(v)

(* A tuple's shallow form is the ValueStore record of spec section 4.1,    *)
(* [tag | child-hash x n]: a reader that knows only that layout finds the  *)
(* size in the tag and, for each element, a HASH_ONLY marker and the       *)
(* element's hash, and nothing after the last.                             *)
ShallowEntry(s, i) == SubSeq(s, 2 + (i - 1) * (1 + IntBytes), 1 + i * (1 + IntBytes))

ShallowFormParses ==
    \A v \in Values : v.type = "tuple" =>
        LET s == MarshalShallow(v)
            n == GetTupleSize(s, 1)
        IN /\ n = Len(v.elems)
           /\ Len(s) = 1 + n * (1 + IntBytes)
           /\ \A i \in 1 .. n :
                 /\ ShallowEntry(s, i)[1] = HASH_ONLY
                 /\ FromBigEndian(Tail(ShallowEntry(s, i))) = Hash(v.elems[i])

(* A checkpointed code point reads back with its pc (spec section 8:       *)
(* serialize then deserialize yields the same state), whatever the byte    *)
(* read past the vector holds.                                             *)
CheckpointCodePtRoundTrip ==
    \A v \in Values : v.type = "codept" =>
        \A pc \in DeserializeCheckpointCodePt(SerializeValue(v).str) : pc = v.pc

====
