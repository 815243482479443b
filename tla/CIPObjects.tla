----------------------------- MODULE CIPObjects -----------------------------
(***************************************************************************)
(* cip/router.go and the objects a server registers with it: the assembly     *)
(* object, the connection manager and the tag database of                    *)
(* examples/ethernetip/server, here as the symbolic handler.  The symbol and   *)
(* PCCC objects are those of a controller, as the client uses them.           *)
(*                                                                         *)
(* A device is a record: tags (name -> [type, data]), asm (instance -> data), *)
(* conns (target ID -> connection), nextConn, opened (what onOpen was given),  *)
(* symbols (instance -> [name, type]) and table (the PCCC data table).        *)
(* A handler maps a device and a request to [dev, res].                      *)
(***************************************************************************)
EXTENDS EIP, PCCC

Done(dev, data) == [dev |-> dev, res |-> Ok(data)]
Fails(dev, status) == [dev |-> dev, res |-> CIPError(status, <<>>)]
Breaks(dev) == [dev |-> dev, res |-> Err(<<"plain">>)]

(* Try for what also returns the device (or the session) it leaves behind. *)
After(x, rest(_)) == [x EXCEPT !.res = Try(@, rest)]

Update(f, k, v) == [x \in DOMAIN f \cup {k} |-> IF x = k THEN v ELSE f[x]]

-----------------------------------------------------------------------------
(* objects/assembly *)
RegisterAssembly(dev, id, data) == [dev EXCEPT !.asm = Update(@, id, data)]

AssemblyGetAttributeSingle(dev, id, attr) ==
    IF id \notin DOMAIN dev.asm THEN Fails(dev, StatusObjectDoesNotExist)
    ELSE IF attr = 3 THEN Done(dev, dev.asm[id])
    ELSE Fails(dev, StatusAttributeNotSupported)

AssemblySetAttributeSingle(dev, id, attr, data) ==
    IF id \notin DOMAIN dev.asm THEN Fails(dev, StatusObjectDoesNotExist)
    ELSE IF attr # 3 THEN Fails(dev, StatusAttributeNotSupported)
    ELSE IF Len(data) # Len(dev.asm[id]) THEN Fails(dev, StatusInvalidAttributeValue)
    ELSE Done(RegisterAssembly(dev, id, data), <<>>)

(* A logical segment of the given 8-bit kind at the head of p: the ID and the *)
(* rest; "short" when it is cut off, "other" when p starts differently.        *)
Head8or16(p, kind) ==
    IF p = <<>> THEN Err("other")
    ELSE IF p[1] = kind THEN (IF Len(p) < 2 THEN Err("short") ELSE Ok([id |-> p[2], rest |-> From(p, 2)]))
    ELSE IF p[1] = kind + 1
         THEN (IF Len(p) < 4 THEN Err("short") ELSE Ok([id |-> U16LE(p, 2), rest |-> From(p, 4)]))
    ELSE Err("other")

AssemblyHandleRequest(dev, service, path, data) ==
    LET serve(id, attr) ==
            IF service \notin {ServiceGetAttributeSingle, ServiceSetAttributeSingle}
            THEN Fails(dev, StatusServiceNotSupported)
            ELSE IF attr = 0 THEN Fails(dev, StatusPathSegmentError)
            ELSE IF service = ServiceGetAttributeSingle THEN AssemblyGetAttributeSingle(dev, id, attr)
            ELSE AssemblySetAttributeSingle(dev, id, attr, data)
        attribute(id, a) ==
            IF ~a.ok /\ a.err = "short" THEN Fails(dev, StatusPathSegmentError)
            ELSE serve(id, IF a.ok THEN a.val.id ELSE 0)
        instance(i) ==
            IF i.ok THEN attribute(i.val.id, Head8or16(i.val.rest, 48)) ELSE Fails(dev, StatusPathSegmentError)
    IN  instance(Head8or16(path, 36))

-----------------------------------------------------------------------------
(* objects/connmgr.  The connection path is read as the path of a request is:  *)
(* short paths keep zeros, and nothing at all is an error.                     *)
ServiceForwardOpen == 84
ServiceForwardClose == 78
ExtStatusConnectionInUse == 256

ConnParamPointToPoint == 16384
ConnectionSizeFromParams(params) == params % 512

EncodeForwardOpen(r) ==
    <<10, 240>> \o LE32(r.otID) \o LE32(0) \o LE16(r.serial) \o LE16(r.vendor) \o r.originator
      \o <<r.mult, 0, 0, 0>> \o LE32(r.rpi) \o LE16(r.otParams) \o LE32(r.rpi) \o LE16(r.toParams)
      \o <<1, (Len(r.path) \div 2) % 256>> \o r.path

EncodeForwardClose(r) ==
    <<10, 240>> \o LE16(r.serial) \o LE16(r.vendor) \o r.originator
      \o <<(Len(r.path) \div 2) % 256, 0>> \o r.path

ReadPath(d, off, words) ==
    LET got == Min({2 * words, Len(d) - off}) IN Slice(d, off, got) \o Zeros(2 * words - got)

DecodeForwardOpen(d) ==
    [otID |-> U32LE(d, 2), serial |-> U16LE(d, 10), vendor |-> U16LE(d, 12),
     originator |-> Slice(d, 14, 4), mult |-> U8(d, 18), otRPI |-> U32LE(d, 22),
     otParams |-> U16LE(d, 26), toRPI |-> U32LE(d, 28), toParams |-> U16LE(d, 32),
     path |-> ReadPath(d, 36, U8(d, 35))]

Triad(r) == <<r.serial, r.vendor, r.originator>>
SameTriad(dev, r) == {id \in DOMAIN dev.conns : Triad(dev.conns[id]) = Triad(r)}

(* Mutant of ForwardOpenReply: the two connection IDs are swapped. *)
ForwardOpenReplySwapped(r, id) ==
    LE32(id) \o LE32(r.otID) \o LE16(r.serial) \o LE16(r.vendor) \o r.originator
      \o LE32(r.otRPI) \o LE32(r.toRPI) \o <<0, 0>>

ForwardOpenReply(r, id) ==
    LE32(r.otID) \o LE32(id) \o LE16(r.serial) \o LE16(r.vendor) \o r.originator
      \o LE32(r.otRPI) \o LE32(r.toRPI) \o <<0, 0>>

HandleForwardOpen(dev, d) ==
    LET id == dev.nextConn + 1
        open(r) ==
            IF SameTriad(dev, r) # {}
            THEN [dev |-> dev, res |-> CIPError(StatusConnectionFailure, <<ExtStatusConnectionInUse>>)]
            ELSE Done([dev EXCEPT !.nextConn = id, !.conns = Update(@, id, r), !.opened = Append(@, r)],
                      ForwardOpenReply(r, id))
    IN  IF Len(d) < 37 THEN Breaks(dev) ELSE open(DecodeForwardOpen(d))

HandleForwardClose(dev, d) ==
    LET r == [serial |-> U16LE(d, 2), vendor |-> U16LE(d, 4), originator |-> Slice(d, 6, 4)]
        gone == SameTriad(dev, r)
    IN  IF Len(d) < 13 THEN Breaks(dev)
        ELSE Done([dev EXCEPT !.conns = [id \in DOMAIN @ \ gone |-> @[id]]],
                  LE16(r.serial) \o LE16(r.vendor) \o r.originator \o <<0, 0>>)

ConnMgrHandleRequest(dev, service, data) ==
    CASE service = ServiceForwardOpen -> HandleForwardOpen(dev, data)
      [] service = ServiceForwardClose -> HandleForwardClose(dev, data)
      [] OTHER -> Fails(dev, StatusServiceNotSupported)

-----------------------------------------------------------------------------
(* The tag database of examples/ethernetip/server *)
parseSymbolicSegment(path) ==
    IF Len(path) < 2 THEN Err("too short")
    ELSE IF path[1] # 145 \/ Len(path) < 2 + path[2] THEN Err("not a symbol")
    ELSE Ok(Slice(path, 2, path[2]))

handleReadTag(dev, path, data) ==
    LET name == parseSymbolicSegment(path)
    IN  IF ~name.ok THEN Fails(dev, StatusPathSegmentError)
        ELSE IF Len(data) < 2 THEN Fails(dev, StatusNotEnoughData)
        ELSE IF name.val \notin DOMAIN dev.tags THEN Fails(dev, StatusPathDestinationUnknown)
        ELSE Done(dev, LE16(dev.tags[name.val].type) \o dev.tags[name.val].data)

handleWriteTag(dev, path, data) ==
    LET name == parseSymbolicSegment(path)
    IN  IF ~name.ok THEN Fails(dev, StatusPathSegmentError)
        ELSE IF Len(data) < 4 THEN Fails(dev, StatusNotEnoughData)
        ELSE Done([dev EXCEPT !.tags = Update(@, name.val, [type |-> U16LE(data, 0), data |-> From(data, 4)])],
                  <<>>)

handleGetAttributeAll(dev) == Done(dev, LE16(Cardinality(DOMAIN dev.tags) % 65536))

TagHandleRequest(dev, service, path, data) ==
    CASE service = ServiceReadTag -> handleReadTag(dev, path, data)
      [] service = ServiceWriteTag -> handleWriteTag(dev, path, data)
      [] service = ServiceGetAttributeAll -> handleGetAttributeAll(dev)
      [] OTHER -> Fails(dev, StatusServiceNotSupported)

-----------------------------------------------------------------------------
(* Get_Attribute_List of a controller's symbol class: attributes 1 and 2 of    *)
(* instance 0 (revision, largest instance) or of a symbol (name, type).        *)
SymbolHandleRequest(dev, service, path, data) ==
    LET instance == Head8or16(path, 36)
        group(id, val) == LE16(id) \o LE16(0) \o val
    IN  IF service # ServiceGetAttributeList THEN Fails(dev, StatusServiceNotSupported)
        ELSE IF ~instance.ok THEN Fails(dev, StatusPathSegmentError)
        ELSE IF instance.val.id = 0
             THEN Done(dev, LE16(2) \o group(1, LE16(1)) \o group(2, LE16(Max({0} \cup DOMAIN dev.symbols))))
        ELSE IF instance.val.id \notin DOMAIN dev.symbols THEN Fails(dev, StatusObjectDoesNotExist)
        ELSE LET s == dev.symbols[instance.val.id]
             IN  Done(dev, LE16(2) \o group(1, LE16(Len(s.name)) \o s.name) \o group(2, LE16(s.type)))

(* Execute_PCCC: the requestor ID is echoed in front of the controller's reply. *)
PCCCHandleRequest(dev, service, data) ==
    LET reply(out) == Done([dev EXCEPT !.table = out.table], SubSeq(data, 1, 7) \o out.reply)
    IN  IF service # ServiceExecutePCCC THEN Fails(dev, StatusServiceNotSupported)
        ELSE reply(Controller(dev.table, From(data, 7)))

-----------------------------------------------------------------------------
(* MessageRouter.Dispatch: by class, or to the symbolic handler. *)
Reply(service, res) ==
    LET bit == IF service >= 128 THEN service ELSE service + 128
    IN  IF res.ok THEN [service |-> bit, status |-> StatusSuccess, ext |-> <<>>, data |-> res.val]
        ELSE IF res.err[1] = "plain"
             THEN [service |-> bit, status |-> StatusServiceNotSupported, ext |-> <<>>, data |-> <<>>]
        ELSE [service |-> bit, status |-> res.err[2], ext |-> res.err[3], data |-> <<>>]

ObjectHandleRequest(dev, class, r, path) ==
    CASE class = ClassAssembly -> AssemblyHandleRequest(dev, r.service, path, r.data)
      [] class = ClassConnectionMgr -> ConnMgrHandleRequest(dev, r.service, r.data)
      [] class = ClassSymbol -> SymbolHandleRequest(dev, r.service, path, r.data)
      [] class = ClassPCCC -> PCCCHandleRequest(dev, r.service, r.data)

Dispatch(dev, r) ==
    LET reply(out) == [out EXCEPT !.res = Ok(Reply(r.service, @))]
        route(class) ==
            IF class.ok
            THEN reply(IF class.val.id \in {ClassAssembly, ClassConnectionMgr, ClassSymbol, ClassPCCC}
                       THEN ObjectHandleRequest(dev, class.val.id, r, class.val.rest)
                       ELSE Fails(dev, StatusObjectDoesNotExist))
            ELSE IF r.path # <<>> /\ r.path[1] = 145
                 THEN reply(TagHandleRequest(dev, r.service, r.path, r.data))
            ELSE [dev |-> dev, res |-> Err("path segment error")]
    IN  route(Head8or16(r.path, 32))
=============================================================================
