------------------------------- MODULE Codec -------------------------------
(***************************************************************************)
(* The wire codec of src/client_cpp/src/protocol.cpp (client and server    *)
(* are both built from it) and the field layouts that the client handlers  *)
(* and the server dispatcher write and read with it.                       *)
(*                                                                         *)
(* A byte string is a sequence of 0 .. 255.  TLC's integers are 32-bit,   *)
(* so an unsigned integer of 16k bits (uint32_t, uint64_t, the bits of a   *)
(* double) is kept as its k 16-bit limbs, most significant first; a       *)
(* uint16_t is a plain number.  putBE/getBE still work byte by byte.       *)
(***************************************************************************)
EXTENDS Integers, Sequences, SequencesExt

MAGIC        == <<16961, 20043>>      \* 0x42414E4B, "BANK"
VERSION      == 1
HEADER_SIZE  == 24
MsgRequest   == 1
MsgReply     == 2
MsgCallback  == 3

\* A failed get: the caller returns false.
NoValue == [ok |-> FALSE, val |-> 0, off |-> 0]
Got(v, off) == [ok |-> TRUE, val |-> v, off |-> off]

\* The value of a limb sequence; it stays within TLC's integers while the
\* top limb is below 2^15 (lengths and counts of this model).
LimbsValue(ls) == FoldLeft(LAMBDA acc, l : acc * 65536 + l, 0, ls)

-----------------------------------------------------------------------------
(* Big-endian helpers (protocol.cpp lines 8-51).                           *)

\* putBE16: (v >> 8) & 0xFF, then v & 0xFF.
PutBE16(v) == <<(v \div 256) % 256, v % 256>>

\* putBE32 / putBE64: the bytes from the most significant down.
RECURSIVE PutLimbs(_)
PutLimbs(ls) == IF ls = <<>> THEN <<>> ELSE PutBE16(Head(ls)) \o PutLimbs(Tail(ls))

\* Mutant of GetBE16: the two bytes are combined little-endian.
GetBE16Swapped(b, off) ==
    IF off + 2 > Len(b) THEN NoValue ELSE Got(b[off + 2] * 256 + b[off + 1], off + 2)

\* getBE16: fails when fewer than 2 bytes remain; off is 0-based as in the
\* code, b[off + 1] is the byte at b.data()[off].
GetBE16(b, off) ==
    IF off + 2 > Len(b) THEN NoValue ELSE Got(b[off + 1] * 256 + b[off + 2], off + 2)

\* getBE32 / getBE64: the width is checked once, then the bytes are read.
GetLimbs(b, off, k) ==
    IF off + 2 * k > Len(b) THEN NoValue
    ELSE Got([i \in 1 .. k |-> GetBE16(b, off + 2 * (i - 1)).val], off + 2 * k)

-----------------------------------------------------------------------------
(* Typed fields (protocol.cpp lines 55-143).                               *)

\* uint32_t(v) of an int32_t: two's complement, as two limbs.
I32Limbs(v) == <<(v \div 65536) % 65536, v % 65536>>

\* int32_t(u): a top limb of 2^15 or more is negative.
LimbsI32(ls) == IF ls[1] >= 32768 THEN (ls[1] - 65536) * 65536 + ls[2] ELSE ls[1] * 65536 + ls[2]

\* putString: a string longer than 65535 bytes is silently not written.
PutString(b, s) == IF Len(s) > 65535 THEN b ELSE b \o PutBE16(Len(s)) \o s

\* getString: the u16 length, then that many bytes if present.
GetString(b, off) ==
    LET n == GetBE16(b, off)
    IN  IF ~n.ok \/ n.off + n.val > Len(b) THEN NoValue
        ELSE Got(SubSeq(b, n.off + 1, n.off + n.val), n.off + n.val)

\* putPassword16: cut to 16 bytes, then zero-padded to 16.
PutPassword16(b, s) ==
    LET t == IF Len(s) > 16 THEN SubSeq(s, 1, 16) ELSE s
    IN  b \o t \o [i \in 1 .. 16 - Len(t) |-> 0]

\* The loop `while (n > 0 && p[n - 1] == 0) n--` of getPassword16.
RECURSIVE TrimZeros(_)
TrimZeros(s) == IF s # <<>> /\ Last(s) = 0 THEN TrimZeros(Front(s)) ELSE s

\* getPassword16: 16 bytes, trailing zero bytes stripped.
GetPassword16(b, off) ==
    IF off + 16 > Len(b) THEN NoValue
    ELSE Got(TrimZeros(SubSeq(b, off + 1, off + 16)), off + 16)

\* put<kind> for one field.  A uint16_t parameter takes its argument
\* modulo 2^16 (the conversion at the call, e.g. (uint16_t)seconds); a
\* double is its 64 bits (memcpy), as four limbs.
Put(b, kind, v) ==
    CASE kind = "u16"  -> b \o PutBE16(v % 65536)
      [] kind = "i32"  -> b \o PutLimbs(I32Limbs(v))
      [] kind = "f64"  -> b \o PutLimbs(v)
      [] kind = "str"  -> PutString(b, v)
      [] kind = "pw16" -> PutPassword16(b, v)

\* get<kind> for one field.
Get(b, off, kind) ==
    CASE kind = "u16"  -> GetBE16(b, off)
      [] kind = "i32"  -> LET u == GetLimbs(b, off, 2)
                          IN  IF u.ok THEN Got(LimbsI32(u.val), u.off) ELSE NoValue
      [] kind = "f64"  -> GetLimbs(b, off, 4)
      [] kind = "str"  -> GetString(b, off)
      [] kind = "pw16" -> GetPassword16(b, off)

-----------------------------------------------------------------------------
(* Bodies.  A layout is the sequence of <<field, kind>> that a handler      *)
(* writes, or reads with a chain of get calls joined by ||.                 *)

\* The put calls of a handler, in order, from the field values f.
BuildBody(layout, f) == FoldLeft(LAMBDA b, fk : Put(b, fk[2], f[fk[1]]), <<>>, layout)

\* The get chain: the first failing get fails the parse (ERR_BAD_REQUEST
\* on the server, nothing shown on the client); trailing bytes are ignored.
RECURSIVE ParseFrom(_, _, _, _)
ParseFrom(b, off, layout, acc) ==
    IF layout = <<>> THEN [ok |-> TRUE, fields |-> acc]
    ELSE LET g == Get(b, off, Head(layout)[2])
         IN  IF ~g.ok THEN [ok |-> FALSE, fields |-> acc]
             ELSE ParseFrom(b, g.off, Tail(layout), acc @@ (Head(layout)[1] :> g.val))

ParseBody(layout, b) == ParseFrom(b, 0, layout, <<>>)

-----------------------------------------------------------------------------
(* Messages (protocol.cpp lines 147-179).  A message is a record of the    *)
(* header fields and the body.                                             *)

Encode(m) ==
    PutLimbs(m.magic) \o <<m.version, m.msgType>> \o PutBE16(m.opCode)
      \o PutBE16(m.flags) \o PutBE16(m.status) \o PutLimbs(m.requestId)
      \o PutLimbs(m.bodyLen) \o m.body

\* decode: only the magic is checked; every get of version .. bodyLen
\* fails exactly when the datagram is shorter than the 24-byte header.
Decode(raw) ==
    IF Len(raw) < 4 \/ GetLimbs(raw, 0, 2).val # MAGIC \/ Len(raw) < HEADER_SIZE
    THEN [ok |-> FALSE]
    ELSE LET len == GetLimbs(raw, 20, 2).val
         IN  IF HEADER_SIZE + LimbsValue(len) > Len(raw) THEN [ok |-> FALSE]
             ELSE [ok |-> TRUE,
                   msg |-> [magic |-> MAGIC, version |-> raw[5], msgType |-> raw[6],
                            opCode |-> GetBE16(raw, 6).val, flags |-> GetBE16(raw, 8).val,
                            status |-> GetBE16(raw, 10).val,
                            requestId |-> GetLimbs(raw, 12, 4).val, bodyLen |-> len,
                            body |-> SubSeq(raw, HEADER_SIZE + 1, HEADER_SIZE + LimbsValue(len))]]

=============================================================================
