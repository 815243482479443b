------------------------------- MODULE PCCCOps -------------------------------
(***************************************************************************)
(* ethernetip/pccc.go and pccc/client.go: the operations of the PCCC client,   *)
(* through the EtherNet/IP client and the router to the controller's data      *)
(* table.  s is [dev, handle, tns]; an operation maps it to [s, res].          *)
(***************************************************************************)
EXTENDS EIPOps

(* The requestor identity of the client *)
cipVendorID == 4660
cipSerialNumber == <<120, 86, 52, 18>>

ExecutePCCC(s, cmd) ==
    LET reply(d) == IF Len(d) < 7 THEN Err("short") ELSE Ok(From(d, 7))
        returned(x) == [s |-> [s EXCEPT !.dev = x.dev], res |-> Try(x.res, reply)]
    IN  IF cmd = <<>> THEN [s |-> s, res |-> Err("empty")]
        ELSE returned(Operation(s.dev, s.handle, NewExecutePCCCRequest(cipVendorID, cipSerialNumber, cmd)))

(* nextTNS: the counter after skipping a transaction number of zero *)
nextTNS(n) == IF (n + 1) % 65536 = 0 THEN n + 2 ELSE n + 1

Command(s, cmd) ==
    IF ~cmd.ok THEN [s |-> s, res |-> cmd] ELSE After(ExecutePCCC(s, cmd.val), DecodeReply)

rawRead(s, a, size) ==
    LET t == [s EXCEPT !.tns = nextTNS(@)]
    IN  IF size \notin 1..MaxReadBytes THEN [s |-> s, res |-> Err("read size")]
        ELSE Command(t, EncodeTypedRead(t.tns % 65536, size, a))

writeBytes(s, a, data) ==
    LET t == [s EXCEPT !.tns = nextTNS(@)]
    IN  Command(t, EncodeTypedWrite(t.tns % 65536, a, data))

SetBit(word, bit, on) ==
    IF BitOf(word, bit) = on THEN word ELSE IF on THEN word + 2^bit ELSE word - 2^bit

(* Mutant of writeBit: the word is written from its low byte alone. *)
writeBitLowByte(s, a, on) ==
    LET word == [a EXCEPT !.bit = -1]
        modify(r) ==
            IF ~r.res.ok THEN r
            ELSE writeBytes(r.s, word, LE16(SetBit(U8(r.res.val.data, 0), a.bit, on)))
    IN  modify(rawRead(s, word, 2))

writeBit(s, a, on) ==
    LET word == [a EXCEPT !.bit = -1]
        modify(r) ==
            IF ~r.res.ok THEN r
            ELSE IF Len(r.res.val.data) < 2 THEN [r EXCEPT !.res = Err("short read")]
            ELSE writeBytes(r.s, word, LE16(SetBit(U16LE(r.res.val.data, 0), a.bit, on)))
    IN  modify(rawRead(s, word, 2))

-----------------------------------------------------------------------------
(* Reads *)
elementBytes(a, count) ==
    CASE a.bit >= 0 -> 2
      [] a.bit < 0 /\ a.ft = FileTypeFloat -> 4 * count
      [] a.bit < 0 /\ isTimerLike(a.ft) -> IF a.sub > 0 THEN 2 * count ELSE 6 * count
      [] OTHER -> 2 * count

(* An operation at an address, if it is one. *)
At(s, a, op(_)) == IF a.ok THEN op(a.val) ELSE [s |-> s, res |-> a]

effectiveCount(count) == IF count <= 0 THEN 1 ELSE count

readFile(s, address, count) ==
    LET value(a, size, raw) ==
            CASE a.bit >= 0 ->
                   IF Len(raw) < 2 THEN Err("short")
                   ELSE Ok([type |-> "bool", raw |-> <<IF BitOf(U16LE(raw, 0), a.bit) THEN 1 ELSE 0>>])
              [] a.bit < 0 /\ a.ft = FileTypeFloat -> Ok([type |-> "float32", raw |-> Clip(raw, 4)])
              [] a.bit < 0 /\ isTimerLike(a.ft) /\ a.sub = 0 -> Ok([type |-> "bytes", raw |-> Clip(raw, 6)])
              [] OTHER -> Ok([type |-> IF effectiveCount(count) > 1 \/ size > 2 THEN "bytes" ELSE "int16",
                              raw |-> Clip(raw, size)])
        read(a, size) == After(rawRead(s, a, size), LAMBDA reply : value(a, size, reply.data))
    IN  At(s, ParseAddress(address), LAMBDA a : read(a, elementBytes(a, effectiveCount(count))))

ReadAddress(s, address) == readFile(s, address, 0)

ReadWords(s, address, n) ==
    LET words(reply) == IF Len(reply.data) < 2 * n THEN Err("short")
                        ELSE Ok([i \in 1..n |-> Int16(U16LE(reply.data, 2 * (i - 1)))])
    IN  IF n \notin 1..127 THEN [s |-> s, res |-> Err("count")]
        ELSE At(s, ParseAddress(address), LAMBDA a :
                IF a.bit >= 0 THEN [s |-> s, res |-> Err("bit suffix")]
                ELSE After(rawRead(s, a, 2 * n), words))

(* DecodeTimer and DecodeCounter of a whole element: control, PRE, ACC. *)
DecodeElement(b) ==
    IF Len(b) < 6 THEN Err("short")
    ELSE Ok([control |-> U16LE(b, 0), pre |-> Int16(U16LE(b, 2)), acc |-> Int16(U16LE(b, 4))])

-----------------------------------------------------------------------------
(* Writes.  A Go value is [go, val]; "int" stands for the signed and "uint" for *)
(* the unsigned types that are range-checked.                                 *)
boolOf(v) ==
    IF v.go = "bool" THEN Ok(v.val)
    ELSE IF v.go \in {"int16", "uint16", "int", "uint"} THEN Ok(v.val # 0) ELSE Err("bool")

int16Of(v) ==
    CASE v.go = "int16" -> Ok(v.val)
      [] v.go = "uint16" -> Ok(Int16(v.val))
      [] v.go = "int" -> IF v.val \in (-32768)..32767 THEN Ok(v.val) ELSE Err("range")
      [] v.go = "uint" -> IF v.val <= 32767 THEN Ok(v.val) ELSE Err("range")
      [] v.go = "bool" -> Ok(IF v.val THEN 1 ELSE 0)
      [] OTHER -> Err("int16")

(* The IEEE 754 single of an integer below 2^24 in absolute value, as bytes. *)
Float32Bits(n) ==
    LET m == IF n < 0 THEN -n ELSE n
        e == CHOOSE k \in 0..23 : 2^k <= m /\ m < 2^(k + 1)
        frac == (m - 2^e) * 2^(23 - e)
    IN  IF n = 0 THEN Zeros(4)
        ELSE LE16(frac % 65536)
               \o <<((127 + e) % 2) * 128 + frac \div 65536,
                    (IF n < 0 THEN 128 ELSE 0) + (127 + e) \div 2>>

float32Of(v) ==
    CASE v.go \in {"float32", "float64"} -> Ok(v.val)
      [] v.go \in {"int", "int16"} -> Ok(Float32Bits(v.val))
      [] OTHER -> Err("float32")

WriteAddress(s, address, v) ==
    LET bit(a, b) == IF b.ok THEN writeBit(s, a, b.val) ELSE [s |-> s, res |-> b]
        bytes(a, b) == IF b.ok THEN writeBytes(s, a, b.val) ELSE [s |-> s, res |-> b]
    IN  At(s, ParseAddress(address), LAMBDA a :
            IF a.bit >= 0 THEN bit(a, boolOf(v))
            ELSE bytes(a, IF a.ft = FileTypeFloat THEN float32Of(v)
                          ELSE Try(int16Of(v), LAMBDA n : Ok(LE16(n % 65536)))))

WriteWords(s, address, words) ==
    IF Len(words) \notin 1..120 THEN [s |-> s, res |-> Err("count")]
    ELSE At(s, ParseAddress(address), LAMBDA a :
            IF a.bit >= 0 THEN [s |-> s, res |-> Err("bit suffix")]
            ELSE writeBytes(s, a, PackWords(LE16, [i \in DOMAIN words |-> words[i] % 65536])))

(* Client.Write of a File data point *)
WriteFile(s, address, data) ==
    At(s, ParseAddress(address), LAMBDA a :
        IF a.bit < 0 THEN writeBytes(s, a, data)
        ELSE IF data = <<>> THEN [s |-> s, res |-> Err("empty")]
        ELSE writeBit(s, a, data[1] # 0))
=============================================================================
