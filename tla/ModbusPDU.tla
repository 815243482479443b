------------------------------ MODULE ModbusPDU ------------------------------
(***************************************************************************)
(* modbus/protocol.go, request.go, response.go, mbap.go: what the client    *)
(* puts on the wire for each function, and how it reads an answer.  A PDU   *)
(* is [fc, data]; a frame is a PDU behind the MBAP header.                   *)
(***************************************************************************)
EXTENDS Bytes

MaxCoilCount == 2000
MaxRegisterCount == 125
MaxWriteCoilCount == 1968
MaxWriteRegisterCount == 123
MaxReadWriteReadCount == 125
MaxReadWriteWriteCount == 121

CoilOnU16 == 65280
CoilOffU16 == 0

FuncReadCoils == 1
FuncReadDiscreteInputs == 2
FuncReadHoldingRegisters == 3
FuncReadInputRegisters == 4
FuncWriteSingleCoil == 5
FuncWriteSingleRegister == 6
FuncReadExceptionStatus == 7
FuncWriteMultipleCoils == 15
FuncWriteMultipleRegisters == 16
FuncReadWriteMultipleRegisters == 23
FuncReadDeviceIdentification == 43

ExceptionFunctionCodeNotSupported == 1
ExceptionInvalidDataValue == 3
MEIReadDeviceID == 14
ExceptionBit == 128

(* An error that carries a ModbusError: the exception code of the device. *)
Exception(code) == [ok |-> FALSE, err |-> <<"exception", code>>]

InRange(q, max) == q # 0 /\ q <= max

-----------------------------------------------------------------------------
(* Requests *)
generateReadRequest(addr, qty, max) ==
    IF InRange(qty, max) THEN Ok(BE16(addr) \o BE16(qty)) ELSE Err("ErrInvalidQuantity")

GenerateWriteSingleCoilRequest(addr, on) ==
    Ok(BE16(addr) \o BE16(IF on THEN CoilOnU16 ELSE CoilOffU16))

GenerateWriteSingleRegisterRequest(addr, v) == Ok(BE16(addr) \o BE16(v))

(* Mutant of GenerateWriteMultipleCoilsRequest: a byte count of len / 8. *)
GenerateWriteMultipleCoilsFloor(addr, vals) ==
    IF ~InRange(Len(vals), MaxWriteCoilCount) THEN Err("ErrInvalidQuantity")
    ELSE LET n == Len(vals) \div 8
         IN  Ok(BE16(addr) \o BE16(Len(vals)) \o <<n>> \o SubSeq(PackBits(vals), 1, n))

GenerateWriteMultipleCoilsRequest(addr, vals) ==
    IF ~InRange(Len(vals), MaxWriteCoilCount) THEN Err("ErrInvalidQuantity")
    ELSE Ok(BE16(addr) \o BE16(Len(vals)) \o <<BytesForBits(Len(vals))>> \o PackBits(vals))

GenerateWriteMultipleRegistersRequest(addr, vals) ==
    IF ~InRange(Len(vals), MaxWriteRegisterCount) THEN Err("ErrInvalidQuantity")
    ELSE Ok(BE16(addr) \o BE16(Len(vals)) \o <<2 * Len(vals)>> \o PackWords(BE16, vals))

GenerateReadWriteMultipleRegistersRequest(raddr, rqty, waddr, vals) ==
    IF \/ ~InRange(rqty, MaxReadWriteReadCount)
       \/ ~InRange(Len(vals), MaxReadWriteWriteCount)
    THEN Err("ErrInvalidQuantity")
    ELSE Ok(BE16(raddr) \o BE16(rqty) \o BE16(waddr) \o BE16(Len(vals))
              \o <<2 * Len(vals)>> \o PackWords(BE16, vals))

GenerateReadExceptionStatusRequest == Ok(<<>>)

GenerateReadDeviceIdentificationRequest(code, object) ==
    IF code \notin 1..4 THEN Err("ErrInvalidValue")
    ELSE Ok(<<MEIReadDeviceID, code, object>>)

-----------------------------------------------------------------------------
(* Responses *)
CountedBytes(data, count) == Len(data) = data[1] + 1 /\ data[1] = count

parseBitResponse(data, qty) ==
    IF data = <<>> THEN Err("ErrEmptyResponse")
    ELSE IF ~CountedBytes(data, BytesForBits(qty)) THEN Err("ErrInvalidResponseLength")
    ELSE Ok(UnpackBits(Tail(data), qty))

parseRegisterResponse(data, qty) ==
    IF data = <<>> THEN Err("ErrEmptyResponse")
    ELSE IF ~CountedBytes(data, 2 * qty) THEN Err("ErrInvalidResponseLength")
    ELSE Ok(UnpackWords(U16BE, Tail(data), qty))

ParseWriteSingleCoilResponse(data) ==
    IF Len(data) # 4 THEN Err("ErrInvalidResponseLength")
    ELSE IF U16BE(data, 2) \notin {CoilOnU16, CoilOffU16} THEN Err("invalid coil value")
    ELSE Ok(<<U16BE(data, 0), U16BE(data, 2) = CoilOnU16>>)

TwoWords(data) ==
    IF Len(data) # 4 THEN Err("ErrInvalidResponseLength")
    ELSE Ok(<<U16BE(data, 0), U16BE(data, 2)>>)

ParseWriteSingleRegisterResponse(data) == TwoWords(data)
ParseWriteMultipleCoilsResponse(data) == TwoWords(data)
ParseWriteMultipleRegistersResponse(data) == TwoWords(data)

ParseReadExceptionStatusResponse(data) ==
    IF Len(data) # 1 THEN Err("ErrInvalidResponseLength") ELSE Ok(data[1])

(* The loop over the objects: at is the offset of the next one. *)
ParseObject(acc, data) ==
    IF ~acc.ok \/ acc.at + 2 > Len(data) \/ acc.at + 2 + U8(data, acc.at + 1) > Len(data)
    THEN [acc EXCEPT !.ok = FALSE]
    ELSE [acc EXCEPT
            !.at = @ + 2 + U8(data, @ + 1),
            !.objects = Append(@, [id |-> U8(data, acc.at),
                                   value |-> Slice(data, acc.at + 2, U8(data, acc.at + 1))])]

ParseObjects(data) ==
    LET upto[i \in 0..U8(data, 5)] ==
            IF i = 0 THEN [ok |-> TRUE, at |-> 6, objects |-> <<>>]
            ELSE ParseObject(upto[i - 1], data)
    IN  upto[U8(data, 5)]

ParseReadDeviceIdentificationResponse(data) ==
    IF Len(data) < 6 THEN Err("ErrInvalidResponseLength")
    ELSE IF data[1] # MEIReadDeviceID THEN Err("ErrInvalidValue")
    ELSE LET all == ParseObjects(data)
         IN  IF ~all.ok THEN Err("ErrInvalidResponseFormat")
             ELSE Ok([code |-> data[2], more |-> data[4], next |-> data[5], objects |-> all.objects])

-----------------------------------------------------------------------------
(* The frame: MBAP header and PDU.  The length field counts the unit ID, the *)
(* function code and the data, as a uint16.                                  *)
TCPHeaderLength == 7

EncodeMBAP(tid, unit, pduLength) ==
    BE16(tid) \o BE16(0) \o BE16((1 + pduLength) % 65536) \o <<unit>>

EncodeRequest(tid, unit, pdu) ==
    EncodeMBAP(tid, unit, 1 + Len(pdu.data)) \o <<pdu.fc>> \o pdu.data

EncodeResponse(tid, unit, pdu) ==
    EncodeMBAP(tid, unit, 1 + Len(pdu.data)) \o <<pdu.fc>> \o pdu.data

DecodeMBAP(d) ==
    [tid |-> U16BE(d, 0), proto |-> U16BE(d, 2), length |-> U16BE(d, 4), unit |-> U8(d, 6)]

(* Bytes behind the announced length are left unread. *)
DecodeFrame(d, shortLength) ==
    IF Len(d) < TCPHeaderLength THEN Err("ErrInvalidResponseLength")
    ELSE LET h == DecodeMBAP(d)
         IN  IF Len(d) < TCPHeaderLength + 1 THEN Err("EOF")
             ELSE IF h.length < 2 THEN Err(shortLength)
             ELSE IF Len(d) < TCPHeaderLength + h.length - 1 THEN Err("EOF")
             ELSE Ok([tid |-> h.tid, unit |-> h.unit, fc |-> U8(d, 7),
                      data |-> Slice(d, 8, h.length - 2)])

DecodeRequest(d) == DecodeFrame(d, "ErrInvalidRequestLength")
DecodeResponse(d) == DecodeFrame(d, "ErrInvalidResponseLength")

IsException(fc) == fc >= ExceptionBit

(* GetException is 0 when an exception frame carries no code. *)
ToError(pdu) == Exception(IF pdu.data = <<>> THEN 0 ELSE pdu.data[1])
=============================================================================
