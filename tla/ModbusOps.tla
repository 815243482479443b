------------------------------ MODULE ModbusOps ------------------------------
(***************************************************************************)
(* modbus/client.go: the operations of the client, from arguments to        *)
(* result, over a server with a memory store and a connection that delivers. *)
(* What retries and lost connections do to an operation is the subject of    *)
(* RetryingClient and TCPConn; here the question is what the bytes mean.     *)
(***************************************************************************)
EXTENDS ModbusStore

(* handleConnection's own reading of a request frame. *)
ServerReads(d) ==
    LET h == DecodeMBAP(d)
    IN  [tid |-> h.tid, unit |-> h.unit, fc |-> U8(d, 7), data |-> Slice(d, 8, h.length - 2)]

ServerAnswers(store, frame) ==
    LET reply(rq, out) ==
            [store |-> out.store, frame |-> EncodeResponse(rq.tid, rq.unit, ResponsePDU(rq.fc, out.res))]
        serve(rq) == reply(rq, dispatchRequest(store, rq.fc, rq.data))
    IN  serve(ServerReads(frame))

(* send: the response data, or the error the operation returns. *)
Transaction == 770      \* some transaction and unit ID
Unit == 17

send(store, fc, req) ==
    LET result(rsp) == IF IsException(rsp.fc) THEN ToError(rsp) ELSE Ok(rsp.data)
        receive(ans) == [store |-> ans.store, res |-> Try(DecodeResponse(ans.frame), result)]
    IN  IF ~req.ok THEN [store |-> store, res |-> req]
        ELSE receive(ServerAnswers(store,
                                   EncodeRequest(Transaction, Unit, [fc |-> fc, data |-> req.val])))

(* What an operation makes of the response data. *)
Parsed(out, parse(_)) == [out EXCEPT !.res = Try(@, parse)]

Void(res) == Try(res, LAMBDA v : Ok("nil"))

-----------------------------------------------------------------------------
(* The operations *)
ReadBits(store, fc, addr, qty) ==
    LET parse(data) == parseBitResponse(data, qty)
    IN  Parsed(send(store, fc, generateReadRequest(addr, qty, MaxCoilCount)), parse)

ReadRegisters(store, fc, addr, qty) ==
    LET parse(data) == parseRegisterResponse(data, qty)
    IN  Parsed(send(store, fc, generateReadRequest(addr, qty, MaxRegisterCount)), parse)

ReadCoils(store, addr, qty) == ReadBits(store, FuncReadCoils, addr, qty)
ReadDiscreteInputs(store, addr, qty) == ReadBits(store, FuncReadDiscreteInputs, addr, qty)
ReadHoldingRegisters(store, addr, qty) == ReadRegisters(store, FuncReadHoldingRegisters, addr, qty)
ReadInputRegisters(store, addr, qty) == ReadRegisters(store, FuncReadInputRegisters, addr, qty)

WriteSingleCoil(store, addr, on) ==
    LET parse(data) == Void(ParseWriteSingleCoilResponse(data))
    IN  Parsed(send(store, FuncWriteSingleCoil, GenerateWriteSingleCoilRequest(addr, on)), parse)

WriteSingleRegister(store, addr, v) ==
    LET parse(data) == Void(ParseWriteSingleRegisterResponse(data))
    IN  Parsed(send(store, FuncWriteSingleRegister, GenerateWriteSingleRegisterRequest(addr, v)), parse)

WriteMultipleCoils(store, addr, vals) ==
    LET parse(data) == Void(ParseWriteMultipleCoilsResponse(data))
    IN  Parsed(send(store, FuncWriteMultipleCoils, GenerateWriteMultipleCoilsRequest(addr, vals)), parse)

WriteMultipleRegisters(store, addr, vals) ==
    LET parse(data) == Void(ParseWriteMultipleRegistersResponse(data))
    IN  Parsed(send(store, FuncWriteMultipleRegisters,
                    GenerateWriteMultipleRegistersRequest(addr, vals)), parse)

ReadWriteMultipleRegisters(store, raddr, rqty, waddr, vals) ==
    LET parse(data) == parseRegisterResponse(data, rqty)
    IN  Parsed(send(store, FuncReadWriteMultipleRegisters,
                    GenerateReadWriteMultipleRegistersRequest(raddr, rqty, waddr, vals)), parse)

ReadExceptionStatus(store) ==
    Parsed(send(store, FuncReadExceptionStatus, GenerateReadExceptionStatusRequest),
           ParseReadExceptionStatusResponse)

ReadDeviceIdentification(store, code, object) ==
    Parsed(send(store, FuncReadDeviceIdentification,
                GenerateReadDeviceIdentificationRequest(code, object)),
           ParseReadDeviceIdentificationResponse)

-----------------------------------------------------------------------------
(* Read and Write of a data point [key, addr, qty], in raw bytes *)
registersToBytes(regs) == PackWords(BE16, regs)
boolsToBytes(vals) == PackBits(vals)

ReadPoint(store, p) ==
    CASE p.key = "holding_register" -> ReadHoldingRegisters(store, p.addr, p.qty).res
      [] p.key = "input_register"   -> ReadInputRegisters(store, p.addr, p.qty).res
      [] p.key = "coil"             -> ReadCoils(store, p.addr, p.qty).res
      [] p.key = "discrete_input"   -> ReadDiscreteInputs(store, p.addr, p.qty).res

IsRegister(p) == p.key \in {"holding_register", "input_register"}

readDataPoint(store, p) ==
    Try(ReadPoint(store, p), LAMBDA v : Ok(IF IsRegister(p) THEN registersToBytes(v) ELSE boolsToBytes(v)))

WritePoint(store, p, raw) ==
    CASE p.key = "holding_register" ->
            IF p.qty = 1 /\ Len(raw) = 2 THEN WriteSingleRegister(store, p.addr, U16BE(raw, 0))
            ELSE IF Len(raw) % 2 # 0 THEN [store |-> store, res |-> Err("odd length")]
            ELSE WriteMultipleRegisters(store, p.addr, UnpackWords(U16BE, raw, Len(raw) \div 2))
      [] p.key = "coil" ->
            IF p.qty = 1 /\ Len(raw) >= 1 THEN WriteSingleCoil(store, p.addr, raw[1] # 0)
            ELSE WriteMultipleCoils(store, p.addr,
                    [i \in 1..p.qty |-> /\ (i - 1) \div 8 < Len(raw)
                                        /\ BitOf(raw[1 + (i - 1) \div 8], (i - 1) % 8)])
      [] OTHER -> [store |-> store, res |-> Err("unsupported")]

(* ClusterExtract: a point's bytes out of the bytes of a block read. *)
extractBits(raw, addr, qty, start) ==
    LET off == (addr - start) % AddressSpace
    IN  PackBits([i \in 1..qty |-> BitOf(raw[1 + (off + i - 1) \div 8], (off + i - 1) % 8)])

extractRegisters(raw, addr, qty, start) ==
    Slice(raw, 2 * ((addr - start) % AddressSpace), 2 * qty)

ClusterExtract(raw, p, start) ==
    IF IsRegister(p) THEN extractRegisters(raw, p.addr, p.qty, start)
    ELSE extractBits(raw, p.addr, p.qty, start)
=============================================================================
