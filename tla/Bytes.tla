-------------------------------- MODULE Bytes --------------------------------
(***************************************************************************)
(* Byte strings as sequences of 0..255, and the integer and bit encodings   *)
(* of encoding/binary that the protocol code uses.  Offsets count from 0,   *)
(* as in the code.                                                          *)
(***************************************************************************)
EXTENDS Integers, Sequences

(* The two results of a Go call that returns (value, error). *)
Ok(v) == [ok |-> TRUE, val |-> v]
Err(e) == [ok |-> FALSE, err |-> e]

(* if err != nil { return err }: the rest of the call on the value, if any. *)
Try(r, rest(_)) == IF r.ok THEN rest(r.val) ELSE r

U8(d, off) == d[off + 1]

(* d[off : off+n] and d[off:] *)
Slice(d, off, n) == SubSeq(d, off + 1, off + n)
From(d, off) == SubSeq(d, off + 1, Len(d))

Zeros(n) == [i \in 1..n |-> 0]

(* binary.BigEndian *)
BE16(n) == <<n \div 256, n % 256>>
U16BE(d, off) == 256 * U8(d, off) + U8(d, off + 1)

(* binary.LittleEndian; a 32-bit value stays below 2^31 here *)
LE16(n) == <<n % 256, n \div 256>>
U16LE(d, off) == U8(d, off) + 256 * U8(d, off + 1)
LE32(n) == LE16(n % 65536) \o LE16(n \div 65536)
U32LE(d, off) == U16LE(d, off) + 65536 * U16LE(d, off + 2)

(* int16(v): the two's complement reading of a 16-bit word *)
Int16(n) == IF n < 32768 THEN n ELSE n - 65536

BitOf(n, k) == (n \div 2^k) % 2 = 1

(* (n + 7) / 8 *)
BytesForBits(n) == (n + 7) \div 8

(* Bits packed into bytes, the lowest index in the least significant bit. *)
PackBits(bits) ==
    [b \in 1..BytesForBits(Len(bits)) |->
        LET weight(k) == IF 8 * (b - 1) + k <= Len(bits) /\ bits[8 * (b - 1) + k]
                         THEN 2^(k - 1) ELSE 0
        IN  weight(1) + weight(2) + weight(3) + weight(4)
              + weight(5) + weight(6) + weight(7) + weight(8)]

UnpackBits(d, n) == [i \in 1..n |-> BitOf(d[1 + (i - 1) \div 8], (i - 1) % 8)]

(* 16-bit words laid out by enc (BE16 or LE16), one after the other. *)
PackWords(enc(_), words) ==
    [i \in 1..(2 * Len(words)) |-> enc(words[1 + (i - 1) \div 2])[1 + ((i - 1) % 2)]]

UnpackWords(dec(_, _), d, n) == [i \in 1..n |-> dec(d, 2 * (i - 1))]
=============================================================================
