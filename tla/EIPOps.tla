------------------------------- MODULE EIPOps -------------------------------
(***************************************************************************)
(* ethernetip/server.go, session.go, client.go and io.go, from the arguments   *)
(* of an operation to its result, over a session that delivers.                *)
(* Retries and lost sessions are the subject of EIPExplicit.  Every operation   *)
(* maps a device and a session handle to [dev, res].                          *)
(***************************************************************************)
EXTENDS CIPObjects

(* HandleConn's answer to one frame: the device, the handle of the connection   *)
(* and the reply frame; <<>> when it hangs up.                                  *)
MaxPacketSize == 4096

ServerIdentity == [type |-> ItemIDListIdentity, fixed |-> LE16(1) \o Zeros(28), state |-> 0,
    name |-> <<71, 111, 73, 110, 100, 117, 115, 116, 114, 105, 97, 108, 32,
               69, 73, 80, 32, 83, 101, 114, 118, 101, 114>>]    \* GoIndustrial EIP Server

Communications == [type |-> ItemIDListServices, version |-> 1, flags |-> 32,
    name |-> <<67, 111, 109, 109, 117, 110, 105, 99, 97, 116, 105, 111, 110, 115>>]

wrapUnconnectedResponse(mr) ==
    Zeros(6) \o EncodeCPF(<<NewCPFItem(ItemIDNullAddress, <<>>), NewCPFItem(ItemIDUnconnectedMessage, mr)>>)

wrapConnectedResponse(addr, seq, mr) ==
    Zeros(6) \o EncodeCPF(<<NewCPFItem(ItemIDConnectedAddress, addr),
                            NewCPFItem(ItemIDConnectedData, LE16(seq) \o mr)>>)

(* The message router request in the data of the two commands, with the address *)
(* and the sequence number its response is wrapped in; an unconnected one has   *)
(* neither.                                                                   *)
UnconnectedRequest(d) ==
    LET message(items) ==
            LET item == FindItemByType(items, ItemIDUnconnectedMessage)
            IN  IF item = <<>> THEN Err("no item") ELSE Ok([pdu |-> item[1].data])
    IN  IF Len(d) < 6 THEN Err("short") ELSE Try(DecodeCPF(From(d, 6)), message)

ConnectedRequest(d) ==
    LET message(addr, data) ==
            IF addr = <<>> \/ data = <<>> THEN Err("no item")
            ELSE IF Len(addr[1].data) < 4 \/ Len(data[1].data) < 2 THEN Err("no item")
            ELSE Ok([pdu |-> From(data[1].data, 2), addr |-> addr[1].data, seq |-> U16LE(data[1].data, 0)])
    IN  IF Len(d) < 6 THEN Err("short")
        ELSE Try(DecodeCPF(From(d, 6)), LAMBDA items :
                 message(FindItemByType(items, ItemIDConnectedAddress), FindItemByType(items, ItemIDConnectedData)))

(* Dispatch of the request, and the encoded response. *)
Answered(dev, pdu) ==
    LET mr == DecodeMRRequest(pdu)
    IN  IF ~mr.ok THEN [dev |-> dev, res |-> mr]
        ELSE After(Dispatch(dev, mr.val), LAMBDA r : Ok(EncodeMRResponse(r)))

(* handleSendRRData and handleSendUnitData *)
handleSend(dev, cmd, d) ==
    LET connected == cmd = CommandSendUnitData
        serve(m) ==
            IF ~m.ok THEN [dev |-> dev, res |-> m]
            ELSE After(Answered(dev, m.val.pdu), LAMBDA mr :
                     Ok(IF connected THEN wrapConnectedResponse(m.val.addr, m.val.seq, mr)
                        ELSE wrapUnconnectedResponse(mr)))
    IN  serve(IF connected THEN ConnectedRequest(d) ELSE UnconnectedRequest(d))

HandleConn(dev, handle, frame) ==
    LET h == DecodeHeader(frame)
        data == From(frame, HeaderSize)
        reply(d, hd, session, status, body) ==
            [dev |-> d, handle |-> hd, frame |-> EncodeFrame(h.cmd, session, status, h.context, body)]
        answer(cip) == IF cip.res.ok THEN reply(cip.dev, handle, h.session, EIPSuccess, cip.res.val)
                       ELSE reply(cip.dev, handle, h.session, EIPInvalidCommand, <<>>)
    IN  IF h.length > MaxPacketSize \/ h.cmd = CommandUnregisterSession
        THEN [dev |-> dev, handle |-> handle, frame |-> <<>>]
        ELSE CASE h.cmd = CommandRegisterSession ->
                    reply([dev EXCEPT !.sessions = @ + 1], dev.sessions + 1, dev.sessions + 1,
                          EIPSuccess, LE16(1) \o LE16(0))
               [] h.cmd = CommandListIdentity ->
                    reply(dev, handle, h.session, EIPSuccess, EncodeListIdentityResponse(<<ServerIdentity>>))
               [] h.cmd = CommandListServices ->
                    reply(dev, handle, h.session, EIPSuccess, EncodeListServicesResponse(<<Communications>>))
               [] h.cmd \in {CommandSendRRData, CommandSendUnitData} ->
                    IF h.session # handle \/ handle = 0
                    THEN reply(dev, handle, h.session, EIPInvalidSessionHandle, <<>>)
                    ELSE answer(handleSend(dev, h.cmd, data))
               [] OTHER -> reply(dev, handle, h.session, EIPInvalidCommand, <<>>)

-----------------------------------------------------------------------------
(* Session: Send, Receive and the check of the status, then the body.          *)
Exchange(dev, handle, session, cmd, data) ==
    LET receive(out) ==
            [dev |-> out.dev, handle |-> out.handle,
             res |-> IF out.frame = <<>> THEN Err("transport")
                     ELSE IF DecodeHeader(out.frame).status # EIPSuccess THEN Err("status")
                     ELSE Ok(From(out.frame, HeaderSize))]
    IN  receive(HandleConn(dev, handle, EncodeFrame(cmd, session, 0, Zeros(8), data)))

(* Register: the session handle to use from now on. *)
SessionRegister(dev) == Exchange(dev, 0, 0, CommandRegisterSession, RegisterSessionData)

SendRRData(dev, handle, request) ==
    LET cpf == EncodeCPF(<<NewCPFItem(ItemIDNullAddress, <<>>), NewCPFItem(ItemIDUnconnectedMessage, request)>>)
        message(items) ==
            LET item == FindItemByType(items, ItemIDUnconnectedMessage)
            IN  IF item = <<>> THEN Err("no item") ELSE Ok(item[1].data)
    IN  After(Exchange(dev, handle, handle, CommandSendRRData, Zeros(6) \o cpf),
              LAMBDA d : IF Len(d) < 6 THEN Err("short") ELSE Try(DecodeCPF(From(d, 6)), message))

SendCIPRequest(dev, handle, req) ==
    After(SendRRData(dev, handle, EncodeMRRequest(req)), DecodeMRResponse)

ListIdentity(dev, handle) ==
    Try(Exchange(dev, handle, 0, CommandListIdentity, <<>>).res, DecodeListIdentityResponse)

ListServices(dev, handle) ==
    Try(Exchange(dev, handle, 0, CommandListServices, <<>>).res, DecodeListServicesResponse)

(* An operation of the client: the response data, or the error. *)
Operation(dev, handle, req) == After(SendCIPRequest(dev, handle, req), ResponseError)

-----------------------------------------------------------------------------
(* Go values of a tag: [go, val], val a Boolean, an integer, the bytes of a     *)
(* float or a structure with its controller-specific type code dt.             *)
GoTypeToCIPType(v) ==
    CASE v.go = "bool" -> 193 [] v.go = "int8" -> 194 [] v.go = "int16" -> 195 [] v.go = "int32" -> 196
      [] v.go = "int64" -> 197 [] v.go = "uint8" -> 198 [] v.go = "uint16" -> 199
      [] v.go = "uint32" -> 200 [] v.go = "uint64" -> 201
      [] v.go = "float32" -> 202 [] v.go = "float64" -> 203
      [] v.go \in {"timer", "counter", "control", "pid"} -> v.dt

Width(go) ==
    CASE go \in {"bool", "int8", "uint8"} -> 1 [] go \in {"int16", "uint16"} -> 2
      [] go \in {"int32", "uint32", "float32"} -> 4 [] go \in {"int64", "uint64", "float64"} -> 8

Marshal(v) ==
    CASE v.go = "bool" -> IF v.val THEN <<1>> ELSE <<0>>
      [] v.go \in {"float32", "float64"} -> v.val
      [] v.go = "timer" -> TimerMarshal(v.val)
      [] v.go = "counter" -> CounterMarshal(v.val)
      [] v.go = "control" -> ControlMarshal(v.val)
      [] v.go = "pid" -> PIDMarshal(v.val)
      [] OTHER -> [i \in 1..Width(v.go) |-> IF i > 4 THEN (IF v.val < 0 THEN 255 ELSE 0)
                                            ELSE (v.val \div 256^(i - 1)) % 256]

(* binary.Read of an integer whose value TLC can hold *)
Unsigned(d) == FoldLeft(LAMBDA sum, i : sum + d[i] * 256^(i - 1), 0, [i \in 1..Min({4, Len(d)}) |-> i])
Signed(d) == IF Last(d) >= 128 THEN -1 - Unsigned([i \in DOMAIN d |-> 255 - d[i]]) ELSE Unsigned(d)

Unmarshal(d, go) ==
    CASE go = "timer" -> DecodeTimer(d)
      [] go = "counter" -> DecodeCounter(d)
      [] go = "control" -> UnmarshalControl(d)
      [] go = "pid" -> PIDUnmarshal(d)
      [] OTHER -> LET w == Width(go)
                      b == SubSeq(d, 1, w)
                  IN  IF Len(d) < w THEN Err("EOF")
                      ELSE Ok(CASE go = "bool" -> b[1] # 0
                                [] go \in {"float32", "float64"} -> b
                                [] go \in {"int8", "int16", "int32", "int64"} -> Signed(b)
                                [] OTHER -> Unsigned(b))

-----------------------------------------------------------------------------
(* Tag operations of the client *)
ReadTagElements(dev, handle, tag, count) ==
    IF count = 0 THEN Err("count")
    ELSE Try(ParseTagPath(tag), LAMBDA p : Operation(dev, handle, NewReadTagRequest(p, count)).res)

WriteElements(dev, handle, tag, type, count, data) ==
    LET p == ParseTagPath(tag)
    IN  IF ~p.ok THEN [dev |-> dev, res |-> p]
        ELSE Operation(dev, handle, NewWriteTagRequest(p.val, type, count, data))

(* Client.Write: raw begins with the type code *)
WriteRaw(dev, handle, tag, elements, raw) ==
    IF Len(raw) < 2 THEN [dev |-> dev, res |-> Err("type code")]
    ELSE WriteElements(dev, handle, tag, U16LE(raw, 0), IF elements = 0 THEN 1 ELSE elements, From(raw, 2))

WriteTag(dev, handle, tag, v) == WriteElements(dev, handle, tag, GoTypeToCIPType(v), 1, Marshal(v))

(* The type code and, for structures, the handle are stripped. *)
HeaderLength(raw) == IF U16LE(raw, 0) >= TypeSTRUCT THEN 4 ELSE 2

cipTypeToPlcType(type) ==
    CASE type = 193 -> "bool" [] type \in {194, 195} -> "int16" [] type = 196 -> "int32"
      [] type = 197 -> "int64" [] type \in {198, 199} -> "uint16" [] type = 200 -> "uint32"
      [] type = 201 -> "uint64" [] type = 202 -> "float32" [] type = 203 -> "float64"
      [] type \in {208, 213, 218} -> "string" [] OTHER -> "bytes"

(* Client.Read of one tag *)
ReadValue(dev, handle, tag, elements) ==
    Try(ReadTagElements(dev, handle, tag, IF elements = 0 THEN 1 ELSE elements), LAMBDA raw :
        IF Len(raw) < 2 THEN Ok([type |-> "none", raw |-> raw])
        ELSE Ok([type |-> cipTypeToPlcType(U16LE(raw, 0)),
                 raw |-> IF Len(raw) < HeaderLength(raw) THEN raw ELSE From(raw, HeaderLength(raw))]))

readStructPayload(dev, handle, tag, count) ==
    Try(ReadTagElements(dev, handle, tag, count), LAMBDA raw :
        IF Len(raw) < 2 THEN Err("short")
        ELSE IF Len(raw) < HeaderLength(raw) THEN Err("short")
        ELSE Ok(From(raw, HeaderLength(raw))))

(* ReadTagInto, the generic Read, ReadTimer and ReadCounter *)
ReadTagInto(dev, handle, tag, go) ==
    Try(readStructPayload(dev, handle, tag, 1), LAMBDA d : Unmarshal(d, go))

ReadSlice(dev, handle, tag, count, go) ==
    Try(readStructPayload(dev, handle, tag, count), LAMBDA d :
        IF Len(d) < count * Width(go) THEN Err("EOF")
        ELSE Ok([i \in 1..count |-> Unmarshal(Slice(d, (i - 1) * Width(go), Width(go)), go).val]))

(* ListTags, every request answered *)
ListTags(dev, handle) ==
    LET symbol(id) == Try(Operation(dev, handle, NewGetSymbolAttributesRequest(id)).res,
                          DecodeSymbolAttributesResponse)
        add(acc, id, a) ==
            IF a.ok /\ a.val.name # <<>> THEN Append(acc, [id |-> id, name |-> a.val.name, type |-> a.val.type])
            ELSE acc
        listed(head) == Ok(FoldLeft(LAMBDA acc, id : add(acc, id, symbol(id)), <<>>,
                                    [i \in 1..head.maxInstance |-> i]))
    IN  Try(Try(Operation(dev, handle, NewGetSymbolClassAttributesRequest).res,
                DecodeSymbolClassAttributesResponse), listed)

-----------------------------------------------------------------------------
(* IOScanner.Open and Close: cfg is [ot, to, config, otSize, toSize, rpi, mult]. *)
ConnectionPath(cfg) ==
    AddConnectionPoint(AddConnectionPoint(
        AddInstance(AddClass(<<>>, ClassAssembly), IF cfg.config > 0 THEN cfg.config ELSE 1),
        cfg.ot), cfg.to)

(* uint16 OR of the connection type and the size *)
ConnParams(size) == IF BitOf(size, 14) THEN size ELSE ConnParamPointToPoint + size

ForwardOpenRequest(sc, cfg) ==
    MRRequest(ServiceForwardOpen, BuildPath(ClassConnectionMgr, 1, 0),
        EncodeForwardOpen([otID |-> sc.otID, serial |-> sc.serial, vendor |-> sc.vendor,
                           originator |-> sc.originator, mult |-> cfg.mult, rpi |-> cfg.rpi,
                           otParams |-> ConnParams(cfg.otSize), toParams |-> ConnParams(cfg.toSize),
                           path |-> ConnectionPath(cfg)]))

OpenIO(dev, handle, sc, cfg) ==
    After(Operation(dev, handle, ForwardOpenRequest(sc, cfg)), LAMBDA d :
        IF Len(d) < 26 THEN Err("short")
        ELSE Ok([toID |-> U32LE(d, 4), rpi |-> IF U32LE(d, 16) = 0 THEN cfg.rpi ELSE U32LE(d, 16)]))

CloseIO(dev, handle, sc) ==
    Operation(dev, handle, MRRequest(ServiceForwardClose, BuildPath(ClassConnectionMgr, 1, 0),
        EncodeForwardClose([serial |-> sc.serial, vendor |-> sc.vendor, originator |-> sc.originator,
                            path |-> BuildPath(ClassAssembly, 1, 0)])))
=============================================================================
