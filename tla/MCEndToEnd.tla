----------------------------- MODULE MCEndToEnd -----------------------------
(***************************************************************************)
(* The client operations, through every layer of encoding to the server and   *)
(* back, against the memory they are to behave like.  A behaviour takes one    *)
(* part ("modbus", "plan", "path", "eip", "pccc", "address") and performs up   *)
(* to MaxOps[part] operations; ref is what they should have done, in the       *)
(* part's own terms, and got and want are the result of the last one and what  *)
(* it should have been.                                                      *)
(***************************************************************************)
EXTENDS PCCCOps

CONSTANTS MaxOps, KeyOrder, GapThreshold, MaxPerRead

M == INSTANCE ModbusOps
P == INSTANCE ClusterPlan WITH AddrSpace <- 65536

VARIABLES part, n, mb, s, ref, got, want

vars == <<part, n, mb, s, ref, got, want>>

(* The device: three tag names the tests write, two assemblies, two symbols,   *)
(* and the files N7, T4, F8 and B3 of a controller.                           *)
Device ==
    [tags |-> <<>>, asm |-> [i \in {100, 300} |-> Zeros(2)], conns |-> <<>>, nextConn |-> 0,
     opened |-> <<>>, sessions |-> 0,
     symbols |-> [i \in {1, 3} |-> [name |-> <<97, 48 + i>>, type |-> 195 + i]],
     table |-> [f \in {3, 4, 7, 8} |-> Zeros(IF f = 7 THEN 124 ELSE 6)]]

Session ==
    LET opened(r) == [dev |-> r.dev, handle |-> r.handle, tns |-> 65534]
    IN  opened(SessionRegister(Device))

(* Results agree: both are errors, or both the same value. *)
Same(a, b) == a.ok = b.ok /\ (a.ok => a.val = b.val)

Start(p) ==
    CASE p = "modbus" -> M!NewMemoryStore
      [] p = "pccc" -> Device.table
      [] p = "plan" -> {}
      [] p = "eip" -> [tags |-> <<>>, asm |-> Device.asm, io |-> <<>>]
      [] OTHER -> <<>>

(* The plan's memory: registers and coils that all differ from their shifts. *)
Filled ==
    [M!NewMemoryStore EXCEPT !.holdingRegisters = [a \in 0..20 |-> 1000 + a],
                             !.coils = [a \in 0..20 |-> a \in {0, 2, 3, 7, 8, 9, 13, 20}]]

Init ==
    /\ part \in {"modbus", "plan", "path", "eip", "pccc", "address"}
    /\ n = 0 /\ mb = (IF part = "plan" THEN Filled ELSE M!NewMemoryStore) /\ s = Session
    /\ ref = Start(part)
    /\ got = Ok("nil") /\ want = Ok("nil")

Turn(p) == part = p /\ n < MaxOps[p] /\ n' = n + 1 /\ UNCHANGED part

-----------------------------------------------------------------------------
(* Modbus: writes at both ends of the address space, and at the limits.        *)
Bits(k) == [i \in 1..k |-> (i % 3) # 0 \/ i = k]
Regs(k) == [i \in 1..k |-> 258 * i + 1]

(* The memory after vals are written from address addr on, and what it holds.  *)
Cells(addr, k) == {(addr + i) % 65536 : i \in 0..(k - 1)}

Poke(area, addr, vals) ==
    [ref EXCEPT ![area] = [a \in DOMAIN @ \cup Cells(addr, Len(vals)) |->
        IF a \in Cells(addr, Len(vals)) THEN vals[1 + ((a - addr) % 65536)] ELSE @[a]]]

Peek(mem, area, addr, k) ==
    [i \in 1..k |-> LET a == (addr + i - 1) % 65536
                    IN  IF a \in DOMAIN mem[area] THEN mem[area][a]
                        ELSE IF area \in {"coils", "discreteInputs"} THEN FALSE ELSE 0]

MbDone(r, mem, result) ==
    mb' = r.store /\ got' = r.res /\ ref' = mem /\ want' = result /\ UNCHANGED s

Block(r, area, addr, vals, max) ==
    LET fits == Len(vals) \in 1..max
    IN  MbDone(r, IF fits THEN Poke(area, addr, vals) ELSE ref, IF fits THEN Ok("nil") ELSE Err("quantity"))

WriteCoilsAt(addr, k) ==
    /\ Turn("modbus") /\ (k > 9 => n = 0)
    /\ Block(M!WriteMultipleCoils(mb, addr, Bits(k)), "coils", addr, Bits(k), 1968)

WriteRegistersAt(addr, k) ==
    /\ Turn("modbus") /\ (k > 9 => n = 0)
    /\ Block(M!WriteMultipleRegisters(mb, addr, Regs(k)), "holdingRegisters", addr, Regs(k), 123)

WriteOneCoil(addr, on) ==
    /\ Turn("modbus")
    /\ MbDone(M!WriteSingleCoil(mb, addr, on), Poke("coils", addr, <<on>>), Ok("nil"))

WriteOneRegister(addr, v) ==
    /\ Turn("modbus")
    /\ MbDone(M!WriteSingleRegister(mb, addr, v), Poke("holdingRegisters", addr, <<v>>), Ok("nil"))

ReadWriteAt(addr, k) ==
    LET mem == Poke("holdingRegisters", 1, Regs(k))
        fits == k \in 1..121
    IN  /\ Turn("modbus") /\ (k > 9 => n = 0)
        /\ MbDone(M!ReadWriteMultipleRegisters(mb, addr, 3, 1, Regs(k)), IF fits THEN mem ELSE ref,
                  IF fits THEN Ok(Peek(mem, "holdingRegisters", addr, 3)) ELSE Err("quantity"))

(* Client.Write of a data point in raw bytes *)
WritePointAt(p, raw) ==
    LET odd == p.key # "coil" /\ Len(raw) % 2 = 1
        mem == IF p.key = "coil" THEN Poke("coils", p.addr, UnpackBits(raw, p.qty))
               ELSE Poke("holdingRegisters", p.addr, UnpackWords(U16BE, raw, Len(raw) \div 2))
    IN  /\ Turn("modbus")
        /\ MbDone(M!WritePoint(mb, p, raw), IF odd THEN ref ELSE mem, IF odd THEN Err("length") ELSE Ok("nil"))

(* The server's application sets an input. *)
SetInput(area, v) ==
    /\ Turn("modbus")
    /\ MbDone([store |-> M!StorePut(mb, area, 2, v), res |-> Ok("nil")], Poke(area, 2, <<v>>), Ok("nil"))

Pt(key, addr, qty) == [key |-> key, addr |-> addr, qty |-> qty]

ModbusOp ==
    \/ \E a \in {0, 65535}, k \in {0, 1, 9, 1968, 1969} : WriteCoilsAt(a, k)
    \/ \E a \in {0, 65535}, k \in {0, 1, 2, 123, 124} : WriteRegistersAt(a, k)
    \/ \E on \in BOOLEAN : WriteOneCoil(7, on)
    \/ WriteOneRegister(1, 43981)
    \/ \E k \in {0, 1, 121, 122} : ReadWriteAt(0, k)
    \/ WritePointAt(Pt("coil", 3, 1), <<1>>) \/ WritePointAt(Pt("coil", 3, 10), <<170, 2>>)
    \/ \E raw \in {<<7, 9>>, <<7, 9, 1, 0>>, <<7>>} : WritePointAt(Pt("holding_register", 3, 1), raw)
    \/ SetInput("discreteInputs", TRUE) \/ SetInput("inputRegisters", 4660)

Spans == CASE n = 0 -> {<<0, 0>>, <<0, 125>>, <<0, 126>>, <<0, 2001>>}
           [] n = 1 -> {<<65530, 2000>>, <<65530, 125>>}
           [] OTHER -> {<<0, 1>>, <<0, 9>>, <<6, 8>>, <<65534, 4>>}

Reads(area, addr, k) ==
    CASE area = "coils" -> M!ReadCoils(mb, addr, k) [] area = "discreteInputs" -> M!ReadDiscreteInputs(mb, addr, k)
      [] area = "holdingRegisters" -> M!ReadHoldingRegisters(mb, addr, k)
      [] area = "inputRegisters" -> M!ReadInputRegisters(mb, addr, k)

(* What goes through modbus/client.go, protocol.go, the frames, the server's    *)
(* handlers and its store behaves like four arrays of 2^16 cells: a write is    *)
(* accepted exactly within its limit and then changes exactly its cells, and    *)
(* every read returns the cells asked for; addresses wrap after 65535, and the  *)
(* one function without a handler is refused as such.  Request.Decode gives     *)
(* back what Request.Encode wrote.                                             *)
ModbusEndToEnd ==
    part = "modbus" =>
        /\ Same(got, want)
        /\ \A area \in M!Area, x \in Spans :
              Same(Reads(area, x[1], x[2]).res,
                   IF x[2] \in 1..(IF area \in {"coils", "discreteInputs"} THEN 2000 ELSE 125)
                   THEN Ok(Peek(ref, area, x[1], x[2])) ELSE Err("quantity"))
        /\ \A x \in Spans :
              LET pdu == [fc |-> 3, data |-> M!BE16(x[1]) \o M!BE16(x[2])]
              IN  M!DecodeRequest(M!EncodeRequest(x[1], 255, pdu)) = Ok([tid |-> x[1], unit |-> 255] @@ pdu)
        /\ M!ReadExceptionStatus(mb).res = Err(<<"exception", 1>>)
        /\ \A code \in 1..3 : LET r == M!ReadDeviceIdentification(mb, code, 0).res
                              IN  r.ok /\ Len(r.val.objects) = <<3, 7, 8>>[code]

-----------------------------------------------------------------------------
(* The clustering reader's plan over a real server.                            *)
Points == {Pt("holding_register", a, q) : a \in 0..4, q \in 1..3}
            \cup {Pt("holding_register", a, 1) : a \in {65533, 65535}}
            \cup {Pt("coil", 1, 1), Pt("coil", 6, 4), Pt("coil", 8, 9), Pt("coil", 15, 1)}

AddPoint(p) ==
    /\ Turn("plan") /\ p \notin ref
    /\ ref' = ref \cup {p}
    /\ UNCHANGED <<mb, s, got, want>>

(* Whatever points are registered, and in whatever order sort.Slice leaves      *)
(* those with equal addresses: findWindow finds each of them a window, and the  *)
(* bytes that ClusterExtract cuts out of the window's block read are those of a *)
(* read of the point alone; so no point is read on its own.  Points that end at *)
(* the last address are excepted: their uint16 end is 0.  A window keeps to the *)
(* limit unless it is a single point, and reads no address further than         *)
(* GapThreshold above one of its points.                                       *)
ClusteredReadsAgree ==
    part = "plan" => \A ws \in P!buildWindows(SetToSeq(ref)) :
        /\ \A p \in {q \in ref : P!EndsBelowTop(q)} :
              LET i == P!findWindow(ws, p)
              IN  /\ i # 0
                  /\ P!Addresses(p) \subseteq P!Addresses(ws[i])
                  /\ M!ClusterExtract(M!readDataPoint(mb, ws[i]).val, p, ws[i].addr)
                        = M!readDataPoint(mb, p).val
        /\ \A w \in ToSet(ws) :
              LET area == {p \in ref : p.key = w.key}
              IN  /\ w.qty <= MaxPerRead[w.key] \/ w \in area
                  /\ w.addr + w.qty <= 65536
                  /\ \A a \in P!Addresses(w) :
                        \E p \in area : p.addr <= a /\ a < p.addr + p.qty + GapThreshold

-----------------------------------------------------------------------------
(* Tag paths.  ref is a list of segments [name, indices].                      *)
RECURSIVE IndexText(_)
IndexText(i) == IF i < 10 THEN <<48 + i>> ELSE Append(IndexText(i \div 10), 48 + (i % 10))

Join(texts, sep) ==
    FoldLeft(LAMBDA all, k : all \o (IF k = 1 THEN <<>> ELSE sep) \o texts[k], <<>>, [k \in DOMAIN texts |-> k])

SegText(g) ==
    g.name \o (IF g.indices = <<>> THEN <<>>
               ELSE <<Open>> \o Join([k \in DOMAIN g.indices |-> IndexText(g.indices[k])], <<Comma, Space>>)
                     \o <<Close>>)

TagText == Join([k \in DOMAIN ref |-> SegText(ref[k])], <<Dot>>)

(* Bound: names at the limits of the length bytes come first or second. *)
AddTagSegment(name) ==
    /\ Len(name) > 2 => n < 2
    /\ Turn("path") /\ ref' = Append(ref, [name |-> name, indices |-> <<>>])
    /\ UNCHANGED <<mb, s, got, want>>

AddTagIndex(i) ==
    /\ Turn("path") /\ ref # <<>> /\ ref' = [ref EXCEPT ![Len(ref)].indices = Append(@, i)]
    /\ UNCHANGED <<mb, s, got, want>>

LongNames == {[k \in 1..size |-> 97] : size \in {250, 255, 256}}

(* A reader of EPATHs: the list of segments [kind, val]. *)
Seg(kind, val) == [kind |-> kind, val |-> val]
Bad == <<Seg("bad", <<>>)>>
LogicalKind == (32 :> "class") @@ (36 :> "instance") @@ (40 :> "member") @@ (44 :> "point") @@ (48 :> "attribute")

RECURSIVE Segments(_)
Segments(p) ==
    LET format == p[1] % 4
        size == IF format = 0 THEN 2 ELSE 2 + 2 * format
        id == IF format = 0 THEN p[2] ELSE IF format = 1 THEN U16LE(p, 2) ELSE U32LE(p, 2)
        text == 2 + p[2] + (p[2] % 2)
        head == IF p[1] % 16 = 15 THEN 3 ELSE 1
        port == IF p[1] % 16 = 15 THEN U16LE(p, 1) ELSE p[1] % 16
        start == IF p[1] >= 16 THEN head + 1 ELSE head
        end == start + (IF p[1] >= 16 THEN p[head + 1] ELSE 1)
    IN  IF p = <<>> THEN <<>>
        ELSE IF Len(p) < 2 THEN Bad
        ELSE IF p[1] = 145
             THEN IF Len(p) < text THEN Bad
                  ELSE <<Seg("symbol", Slice(p, 2, p[2]))>> \o Segments(From(p, text))
        ELSE IF p[1] < 32
             THEN <<Seg("port", <<port>> \o Slice(p, start, end - start))>> \o Segments(From(p, end + (end % 2)))
        ELSE IF p[1] - format \notin DOMAIN LogicalKind \/ format = 3 \/ Len(p) < size THEN Bad
        ELSE <<Seg(LogicalKind[p[1] - format], <<id>>)>> \o Segments(From(p, size))

Routes == {<<1, <<0>> >>, <<14, <<7>> >>, <<2, <<49, 46, 50>> >>, <<300, <<5>> >>, <<15, <<49, 46>> >>}

(* A tag's path names exactly the tag's parts, in order: a symbol per name, a   *)
(* member per index and per numeric name after the first (cip/tag.go), also     *)
(* behind a route, and a request carries it whole.  The limits are those of the *)
(* two length bytes, which the code does not test: the path is right exactly    *)
(* when every symbol has at most 255 bytes (path.go:153), and the request       *)
(* exactly when the path has at most 255 words (path.go:207).  A text that is   *)
(* not a tag is refused, whatever tag it begins with.  Whether a tag may begin  *)
(* with a bare index is left open: ParseTagPath takes it (tag.go:44-66), its    *)
(* helper's comment does not allow it (tag.go:104-105).                         *)
TagPathsDecode ==
    part = "path" =>
        LET numeric(k) == k > 1 /\ isAllDigits(ref[k].name)
            named(k) == IF ref[k].name = <<>> THEN <<>>
                        ELSE IF numeric(k) THEN <<Seg("member", <<Decimal(ref[k].name)>>)>>
                        ELSE <<Seg("symbol", ref[k].name)>>
            members(k) == [i \in DOMAIN ref[k].indices |-> Seg("member", <<ref[k].indices[i]>>)]
            bare(k) == ref[k].name = <<>> /\ ref[k].indices # <<>>
            isTag == ref # <<>> /\ \A k \in DOMAIN ref : ref[k].name # <<>> \/ bare(k)
            fits == \A k \in DOMAIN ref : Len(ref[k].name) <= 255
            carried(req) == DecodeMRRequest(EncodeMRRequest(req)) = Ok(req)
            right(parsed, meant) ==
            /\ (isTag /\ bare(1)) \/ parsed.ok = isTag
            /\ parsed.ok =>
                 /\ (Segments(parsed.val) = meant) = fits
                 /\ carried([service |-> ServiceReadTag, path |-> parsed.val, data |-> <<1, 0>>])
                      = (Len(parsed.val) <= 510)
                 /\ fits => \A r \in Routes : Segments(AddPortSegment(<<>>, r[1], r[2]) \o parsed.val)
                                                 = <<Seg("port", <<r[1]>> \o r[2])>> \o meant
            /\ \A tail \in {<<Open>>, <<Close>>, <<Dot>>, <<Open, Close>>, <<Open, 120, Close>>,
                             <<Open, 49, Comma, Close>>, <<Open, 49, Close, 120>>} :
                 ~ParseTagPath(TagText \o tail).ok
        IN  right(ParseTagPath(TagText), FlattenSeq([k \in DOMAIN ref |-> named(k) \o members(k)]))

-----------------------------------------------------------------------------
(* EtherNet/IP: tags, assemblies and I/O connections of one server.            *)
Flags(k) == [i \in 1..k |-> i # 2]
Status(k) == [flags |-> Flags(k), first |-> <<1, 2, 3, 4>>, second |-> <<9, 0, 0, 128>>]

Values ==
    <<[go |-> "bool", dt |-> 0, vals |-> <<TRUE>>], [go |-> "int16", dt |-> 0, vals |-> <<-2, 300, 5>>],
     [go |-> "int32", dt |-> 0, vals |-> <<-70000>>], [go |-> "uint16", dt |-> 0, vals |-> <<65535, 1>>],
     [go |-> "float32", dt |-> 0, vals |-> <<Float32Bits(-7)>>],
     [go |-> "timer", dt |-> 3971, vals |-> <<Status(3)>>], [go |-> "counter", dt |-> 3970, vals |-> <<Status(5)>>],
     [go |-> "control", dt |-> 600, vals |-> <<Status(8)>>],
     [go |-> "pid", dt |-> 601, vals |-> <<[i \in 1..7 |-> Float32Bits(i)]>>]>>

GoValue(v, i) == [go |-> v.go, dt |-> v.dt, val |-> v.vals[i]]

EIPDone(r, mem, result) ==
    /\ s' = [s EXCEPT !.dev = r.dev] /\ got' = r.res /\ ref' = mem /\ want' = result /\ UNCHANGED mb

(* WriteTag of one value; Client.Write, type code first, of several *)
WriteTagValue(name, v) ==
    LET raw == LE16(GoTypeToCIPType(GoValue(v, 1)))
                 \o FlattenSeq([i \in DOMAIN v.vals |-> Marshal(GoValue(v, i))])
    IN  /\ Turn("eip")
        /\ EIPDone(IF Len(v.vals) = 1 THEN WriteTag(s.dev, s.handle, name, GoValue(v, 1))
                   ELSE WriteRaw(s.dev, s.handle, name, Len(v.vals), raw),
                   [ref EXCEPT !.tags = Update(@, name, v)], Ok(<<>>))

SetAssembly(id, data) ==
    LET fits == id \in DOMAIN ref.asm /\ Len(data) = 2
    IN  /\ Turn("eip")
        /\ EIPDone(Operation(s.dev, s.handle,
                             NewSetAttributeSingleRequest(BuildPath(ClassAssembly, id, 3), data)),
                   IF fits THEN [ref EXCEPT !.asm[id] = data] ELSE ref,
                   IF fits THEN Ok(<<>>) ELSE Err("refused"))

Scanner(k) == [otID |-> 500 + k, serial |-> 7, vendor |-> 77, originator |-> <<k, 0, 0, 255>>]
IOConfig == {[ot |-> 100, to |-> 300, config |-> 0, otSize |-> 6, toSize |-> 511, rpi |-> 20000, mult |-> 2],
             [ot |-> 300, to |-> 100, config |-> 260, otSize |-> 34, toSize |-> 0, rpi |-> 10, mult |-> 0]}

OpenConnection(k, cfg) ==
    LET id == s.dev.nextConn + 1
        used == k \in DOMAIN ref.io
    IN  /\ Turn("eip")
        /\ EIPDone(OpenIO(s.dev, s.handle, Scanner(k), cfg),
                   IF used THEN ref ELSE [ref EXCEPT !.io = Update(@, k, [cfg |-> cfg, id |-> id])],
                   IF used THEN Err("in use") ELSE Ok([toID |-> id, rpi |-> cfg.rpi]))

CloseConnection(k) ==
    /\ Turn("eip")
    /\ EIPDone(CloseIO(s.dev, s.handle, Scanner(k)), [ref EXCEPT !.io = [j \in DOMAIN @ \ {k} |-> @[j]]],
               Ok(LE16(7) \o LE16(77) \o Scanner(k).originator \o <<0, 0>>))

TagNames == {<<65>>, <<65, 66>>}

EIPOp ==
    \/ \E x \in ({<<65>>} \X DOMAIN Values) \cup {<< <<65, 66>>, 2>>} : WriteTagValue(x[1], Values[x[2]])
    \/ \E x \in {<<100, <<1, 2>> >>, <<300, <<1, 2, 3>> >>, <<300, <<5, 6>> >>, <<9, <<1, 2>> >>} : SetAssembly(x[1], x[2])
    \/ \E k \in 1..2 : CloseConnection(k) \/ \E cfg \in IOConfig : OpenConnection(k, cfg)

(* A request in a connected message, as a client that opened an explicit        *)
(* connection would send it.                                                  *)
Connected(req) ==
    LET cpf == EncodeCPF(<<NewCPFItem(ItemIDConnectedAddress, LE32(5)),
                           NewCPFItem(ItemIDConnectedData, LE16(9) \o EncodeMRRequest(req))>>)
    IN  Exchange(s.dev, s.handle, s.handle, CommandSendUnitData, Zeros(6) \o cpf).res

TagReadsAgree(name) ==
    LET v == ref.tags[name]
        k == Len(v.vals)
        req == NewReadTagRequest(AddSymbolicSegment(<<>>, name), 1)
        raw == ReadTagElements(s.dev, s.handle, name, 1)
    IN  IF name \notin DOMAIN ref.tags
        THEN raw = CIPError(StatusPathDestinationUnknown, <<>>)
        ELSE /\ Same(ReadTagInto(s.dev, s.handle, name, v.go), Ok(v.vals[1]))
             /\ k > 1 => Same(ReadSlice(s.dev, s.handle, name, k, v.go), Ok(v.vals))
             /\ ReadValue(s.dev, s.handle, name, k).val.type
                   = IF v.dt = 0 THEN v.go ELSE "bytes"
             /\ Same(Connected(req), Ok(wrapConnectedResponse(LE32(5), 9,
                        <<ServiceReadTag + 128, 0, 0, 0>> \o raw.val)))

(* What goes through the client, the session, the encapsulation, the router and *)
(* the objects behaves like a table of tags, a table of assemblies and a set of *)
(* I/O connections: a value written is read back as the same value by every     *)
(* read operation, connected or not; the connection manager holds exactly the   *)
(* connections opened and not closed, with the sizes, interval, multiplier and  *)
(* assemblies of the scanner's configuration and under the ID the scanner got;  *)
(* and the lists name what the device has.                                     *)
ExplicitEndToEnd ==
    part = "eip" =>
        /\ Same(got, want)
        /\ \A name \in TagNames : TagReadsAgree(name)
        /\ \A id \in DOMAIN ref.asm :
              Operation(s.dev, s.handle, NewGetAttributeSingleRequest(BuildPath(ClassAssembly, id, 3))).res
                = Ok(ref.asm[id])
        /\ DOMAIN s.dev.conns = {ref.io[k].id : k \in DOMAIN ref.io}
        /\ \A k \in DOMAIN ref.io :
              LET c == s.dev.conns[ref.io[k].id]
                  cfg == ref.io[k].cfg
              IN  /\ Triad(c) = Triad(Scanner(k)) /\ c.otID = Scanner(k).otID
                  /\ c.mult = cfg.mult /\ c.otRPI = cfg.rpi /\ c.toRPI = cfg.rpi
                  /\ ConnectionSizeFromParams(c.otParams) = cfg.otSize
                  /\ ConnectionSizeFromParams(c.toParams) = cfg.toSize
                  /\ Segments(c.path) = <<Seg("class", <<4>>), Seg("instance", <<IF cfg.config = 0 THEN 1 ELSE cfg.config>>),
                                          Seg("point", <<cfg.ot>>), Seg("point", <<cfg.to>>)>>
        /\ ListTags(s.dev, s.handle) = Ok([j \in 1..2 |-> Device.symbols[2 * j - 1] @@ [id |-> 2 * j - 1]])
        /\ ListIdentity(s.dev, s.handle) = Ok(<<ServerIdentity>>)
        /\ ListServices(s.dev, s.handle) = Ok(<<Communications>>)

-----------------------------------------------------------------------------
(* PCCC: elements of the controller's files.  An element is its address text    *)
(* and where it lies: file, word, and bit or -1; floats take two words.         *)
Element(text, file, word, bit) == [text |-> text, file |-> file, word |-> word, bit |-> bit]

Elements ==
    {Element(<<"N", "7", ":", "3">>, 7, 3, -1), Element(<<"n", "7", ":", "3", "/", "1", "5">>, 7, 3, 15),
     Element(<<"B", "3", ":", "1", "/", "0">>, 3, 1, 0), Element(<<"T", "4", ":", "1", ".", "A", "C", "C">>, 4, 5, -1),
     Element(<<"T", "4", ":", "1", ".", "D", "N">>, 4, 3, 13), Element(<<"F", "8", ":", "1">>, 8, 2, -1)}

GoValues ==
    <<[go |-> "bool", val |-> TRUE], [go |-> "bool", val |-> FALSE], [go |-> "int", val |-> -2],
     [go |-> "int", val |-> 70000], [go |-> "uint16", val |-> 65535]>>

PutWords(file, word, ws) ==
    [ref EXCEPT ![file] = [i \in DOMAIN @ |-> IF i - 1 - word \in 0..(Len(ws) - 1) THEN ws[i - word] ELSE @[i]]]

PutBit(e, on) ==
    LET w == ref[e.file][e.word + 1]
        rest == IF BitOf(w, e.bit) THEN w - 2^e.bit ELSE w
    IN  PutWords(e.file, e.word, <<IF on THEN rest + 2^e.bit ELSE rest>>)

Truth(v) == IF v.go = "bool" THEN v.val ELSE v.val # 0
Number(v) == IF v.go = "bool" THEN (IF v.val THEN 1 ELSE 0) ELSE v.val

PCCCDone(r, mem, ok) ==
    /\ s' = r.s /\ got' = (IF r.res.ok THEN Ok("nil") ELSE Err("error")) /\ ref' = (IF ok THEN mem ELSE ref)
    /\ want' = (IF ok THEN Ok("nil") ELSE Err("error")) /\ UNCHANGED mb

(* A bit takes anything with a truth value, a word what fits 16 bits, a float   *)
(* any number but not a Boolean.                                              *)
WriteElement(e, v) ==
    LET fits == \/ e.bit >= 0
                \/ e.file = 8 /\ v.go = "int"
                \/ e.file # 8 /\ ~(v.go = "int" /\ v.val > 32767)
        mem == IF e.bit >= 0 THEN PutBit(e, Truth(v))
               ELSE IF e.file = 8 THEN PutWords(8, 2, UnpackWords(U16LE, Float32Bits(v.val), 2))
               ELSE PutWords(e.file, e.word, <<Number(v) % 65536>>)
    IN  Turn("pccc") /\ PCCCDone(WriteAddress(s, e.text, v), mem, fits)

WriteSomeWords(k) ==
    LET words == [i \in 1..k |-> 3 - i]
    IN  /\ Turn("pccc") /\ (k > 9 => n = 0)
        /\ PCCCDone(WriteWords(s, <<"N", "7", ":", "2">>, words),
                    PutWords(7, 2, [i \in 1..k |-> words[i] % 65536]), k \in 1..120)

(* Client.Write of a File: the bytes, or the first one as a bit *)
WriteBytes(e, data) ==
    LET mem == IF e.bit >= 0 THEN PutBit(e, data[1] # 0)
               ELSE PutWords(e.file, e.word, UnpackWords(U16LE, data, Len(data) \div 2))
    IN  Turn("pccc") /\ PCCCDone(WriteFile(s, e.text, data), mem, data # <<>>)

PCCCOp ==
    \/ \E e \in Elements, i \in DOMAIN GoValues : WriteElement(e, GoValues[i])
    \/ \E k \in {0, 2, 120, 121} : WriteSomeWords(k)
    \/ \E e \in Elements, data \in {<<>>, <<0, 2>>} : WriteBytes(e, data)

ElementReads(e) ==
    LET r == ReadAddress(s, e.text).res
        ws == ref[e.file]
    IN  r.ok /\ r.val.raw = IF e.bit >= 0 THEN <<IF BitOf(ws[e.word + 1], e.bit) THEN 1 ELSE 0>>
                            ELSE IF e.file = 8 THEN LE16(ws[e.word + 1]) \o LE16(ws[e.word + 2])
                            ELSE LE16(ws[e.word + 1])

(* What goes through pccc/client.go, its commands, Execute_PCCC and the layers  *)
(* below behaves like the controller's data table: a write of a word, a float,  *)
(* a named field or a bit changes exactly that, or is refused; reads return it; *)
(* a whole timer is its three words; up to 120 words are read at once (the      *)
(* check of ReadWords admits 127, the read below it does not); and no command   *)
(* carries transaction number 0.                                              *)
PCCCEndToEnd ==
    part = "pccc" =>
        /\ Same(got, want)
        /\ s.dev.table = ref
        /\ \A e \in Elements : ElementReads(e)
        /\ Same(DecodeElement(ReadAddress(s, <<"T", "4", ":", "1">>).res.val.raw),
                Ok([control |-> ref[4][4], pre |-> Int16(ref[4][5]), acc |-> Int16(ref[4][6])]))
        /\ \A k \in IF n <= 1 THEN {0, 3, 120, 121, 127, 128} ELSE {3} :
              Same(ReadWords(s, <<"N", "7", ":", "1">>, k).res,
                   IF k \in 1..120 THEN Ok([i \in 1..k |-> Int16(ref[7][i + 1])]) ELSE Err("error"))
        /\ s.tns % 65536 # 0

-----------------------------------------------------------------------------
(* Addresses, from their parts: ref is [letters, file, elem, suffix].          *)
FileLetters == {<<"S">>, <<"B">>, <<"T">>, <<"C">>, <<"R">>, <<"N">>, <<"F">>, <<"O">>, <<"I">>,
                <<"S", "T">>, <<"A">>, <<"D">>, <<"X">>, <<>>}
FileNumbers == {<<>>, <<"0">>, <<"1">>, <<"2">>, <<"2", "5", "5">>, <<"2", "5", "6">>}
ElementNumbers == {<<"0">>, <<"2", "5", "5">>, <<"2", "5", "6">>, <<"-", "1">>, <<>>}
AddressSuffixes == {<<>>, <<".", "P", "R", "E">>, <<".", "a", "c", "c">>, <<".", "D", "N">>, <<".", "C", "U">>,
             <<".", "F", "D">>, <<"/", "0">>, <<"/", "1", "5">>, <<"/", "1", "6">>, <<"/">>}

WriteText(l, f, e, x) ==
    /\ Turn("address")
    /\ ref' = [letters |-> l, file |-> f, elem |-> e, suffix |-> x]
    /\ UNCHANGED <<mb, s, got, want>>

(* Every file and element number without a suffix, every suffix with some.     *)
AddressOp ==
    \E l \in FileLetters :
        \/ \E f \in FileNumbers, e \in ElementNumbers : WriteText(l, f, e, <<>>)
        \/ \E f \in {<<>>, <<"2">>}, e \in {<<"0">>, <<"2", "5", "6">>}, x \in AddressSuffixes : WriteText(l, f, e, x)

AddressText == ref.letters \o ref.file \o <<":">> \o ref.elem \o ref.suffix

Fixed == (<<"O">> :> <<"0">>) @@ (<<"I">> :> <<"1">>) @@ (<<"S">> :> <<"2">>)

SuffixFits ==
    CASE ref.suffix = <<>> -> TRUE
      [] ref.suffix[1] = "/" ->
           /\ ref.suffix \in {<<"/", "0">>, <<"/", "1", "5">>}
           /\ ref.letters \in {<<"N">>, <<"B">>, <<"S">>, <<"I">>, <<"O">>, <<"D">>}
      [] OTHER -> \/ ref.letters \in {<<"T">>, <<"C">>} /\ Tail(ref.suffix) \in {<<"P", "R", "E">>, <<"a", "c", "c">>}
                  \/ ref.letters \in {<<"T">>, <<"C">>, <<"R">>} /\ Tail(ref.suffix) = <<"D", "N">>
                  \/ ref.letters = <<"C">> /\ Tail(ref.suffix) = <<"C", "U">>
                  \/ ref.letters = <<"R">> /\ Tail(ref.suffix) = <<"F", "D">>

(* ParseAddress accepts exactly the addresses of the SLC notation: a known file *)
(* type, a file number that O, I and S may leave out but not change, an element *)
(* of 0..255, a bit of 0..15 where words have bits or a field the type has; and *)
(* Address.String is "the inverse of ParseAddress": it prints an address that   *)
(* is read back as the same one.                                              *)
AddressesRoundTrip ==
    part = "address" /\ ref # <<>> =>
        LET right(a) ==
            /\ a.ok = /\ ref.letters \notin {<<"X">>, <<>>}
                      /\ IF ref.letters \in DOMAIN Fixed THEN ref.file \in {<<>>, Fixed[ref.letters]}
                         ELSE ref.file \notin {<<>>, <<"2", "5", "6">>}
                      /\ ref.elem \in {<<"0">>, <<"2", "5", "5">>}
                      /\ SuffixFits
            /\ a.ok => /\ Letter(a.val.ft) = ref.letters /\ a.val.elem = Atoi(ref.elem)
                       /\ ref.file # <<>> => a.val.file = Atoi(ref.file)
                       /\ ParseAddress(AddressString(a.val)) = a
        IN  right(ParseAddress(AddressText))

-----------------------------------------------------------------------------
Next ==
    \/ ModbusOp \/ EIPOp \/ PCCCOp
    \/ \E p \in Points : AddPoint(p)
    \/ \E name \in {<<97>>, <<97, 98>>, <<49, 50>>, <<>>} \cup LongNames : AddTagSegment(name)
    \/ \E i \in {0, 255, 256, 65536} : AddTagIndex(i)
    \/ AddressOp

Spec == Init /\ [][Next]_vars

MCMaxOps == [modbus |-> 2, plan |-> 3, path |-> 3, eip |-> 3, pccc |-> 2, address |-> 1]
MCKeyOrder == <<"coil", "holding_register">>
MCMaxPerRead == [coil |-> 16, holding_register |-> 4]
=============================================================================
