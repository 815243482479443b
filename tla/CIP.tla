-------------------------------- MODULE CIP --------------------------------
(***************************************************************************)
(* ethernetip/cip: the messages of the Common Industrial Protocol.  A path   *)
(* and a text are byte strings, a request is [service, path, data] and a     *)
(* response [service, status, ext, data].  A 32-bit integer that is only     *)
(* carried (PRE, ACC, a serial number) is its four bytes.                    *)
(***************************************************************************)
EXTENDS Bytes, SequencesExt

(* Codes, cip/types.go and services.go *)
ServiceGetAttributeAll == 1
ServiceGetAttributeList == 3
ServiceGetAttributeSingle == 14
ServiceSetAttributeSingle == 16
ServiceExecutePCCC == 75
ServiceReadTag == 76
ServiceWriteTag == 77

ClassAssembly == 4
ClassConnectionMgr == 6
ClassPCCC == 103
ClassSymbol == 107

StatusSuccess == 0
StatusConnectionFailure == 1
StatusPathSegmentError == 4
StatusPathDestinationUnknown == 5
StatusServiceNotSupported == 8
StatusInvalidAttributeValue == 9
StatusNotEnoughData == 19
StatusAttributeNotSupported == 20
StatusObjectDoesNotExist == 22

TypeSTRUCT == 672

-----------------------------------------------------------------------------
(* Paths, cip/path.go.  A logical segment takes the shortest of its 8-, 16-  *)
(* and 32-bit formats.                                                      *)
Logical(kind, id) ==
    IF id <= 255 THEN <<kind, id>>
    ELSE IF id <= 65535 THEN <<kind + 1, 0>> \o LE16(id)
    ELSE <<kind + 2, 0>> \o LE32(id)

AddClass(p, id) == p \o Logical(32, id)
AddInstance(p, id) == p \o Logical(36, id)
AddInstance32(p, id) == p \o Logical(36, id)

(* Mutant of addMember32: the index is cut to 16 bits. *)
addMember16(p, id) == p \o Logical(40, id % 65536)

addMember32(p, id) == p \o Logical(40, id)
AddConnectionPoint(p, id) == p \o Logical(44, id)
AddAttribute(p, id) == p \o Logical(48, id)

AddSymbolicSegment(p, name) ==
    p \o <<145, Len(name) % 256>> \o name \o Zeros(Len(name) % 2)

AddPortSegment(p, port, link) ==
    LET extended == Len(link) > 1
        segment == <<(IF port < 15 THEN port ELSE 15) + (IF extended THEN 16 ELSE 0)>>
                     \o (IF port < 15 THEN <<>> ELSE LE16(port))
                     \o (IF extended THEN <<Len(link) % 256>> ELSE <<>>)
                     \o link
    IN  p \o segment \o Zeros(Len(segment) % 2)

LenWords(p) == ((Len(p) + 1) \div 2) % 256

BuildPath(class, instance, attribute) ==
    LET p == AddInstance(AddClass(<<>>, class), instance)
    IN  IF attribute = 0 THEN p ELSE AddAttribute(p, attribute)

-----------------------------------------------------------------------------
(* Tag names, cip/tag.go *)
Dot == 46
Open == 91
Close == 93
Comma == 44
Space == 32

IsDigit(c) == c \in 48..57
isAllDigits(s) == s # <<>> /\ \A i \in DOMAIN s : IsDigit(s[i])

(* strconv.ParseUint of digits, for values in TLC's range *)
Decimal(s) == FoldLeft(LAMBDA n, c : 10 * n + (c - 48), 0, s)

(* The pieces of s between the separators that satisfy sep. *)
SplitAt(s, seps) ==
    LET cuts == <<0>> \o SetToSortSeq(seps, <) \o <<Len(s) + 1>>
    IN  [k \in 1..(Len(cuts) - 1) |-> SubSeq(s, cuts[k] + 1, cuts[k + 1] - 1)]

splitTagSegments(tag) ==
    LET at(c) == {i \in DOMAIN tag : tag[i] = c}
        before(i, c) == Cardinality({j \in at(c) : j < i})
        depth(i) == before(i, Open) - before(i, Close)
    IN  IF (\E i \in at(Close) : depth(i) = 0) \/ depth(Len(tag) + 1) # 0 THEN Err("unmatched bracket")
        ELSE Ok(SplitAt(tag, {i \in at(Dot) : depth(i) = 0}))

TrimSpace(s) ==
    LET ink == {i \in DOMAIN s : s[i] # Space}
    IN  IF ink = {} THEN <<>> ELSE SubSeq(s, Min(ink), Max(ink))

parseTagSegment(seg) ==
    LET opens == {i \in DOMAIN seg : seg[i] = Open}
        split(inner) == SplitAt(inner, {i \in DOMAIN inner : inner[i] = Comma})
        parsed(open, raw) ==
            IF \E k \in DOMAIN raw : ~isAllDigits(TrimSpace(raw[k])) THEN Err("invalid index")
            ELSE Ok([name |-> SubSeq(seg, 1, open - 1),
                     indices |-> [k \in DOMAIN raw |-> Decimal(TrimSpace(raw[k]))]])
        group(open) == parsed(open, split(SubSeq(seg, open + 1, Len(seg) - 1)))
    IN  IF opens = {} THEN Ok([name |-> seg, indices |-> <<>>])
        ELSE IF Last(seg) # Close THEN Err("bracket group not closed")
        ELSE group(Min(opens))

ParseTagPath(tag) ==
    LET named(p, i, name) ==
            IF name = <<>> THEN p
            ELSE IF i > 1 /\ isAllDigits(name) THEN addMember32(p, Decimal(name))
            ELSE AddSymbolicSegment(p, name)
        segment(p, i, seg) == FoldLeft(addMember32, named(p, i, seg.name), seg.indices)
        path(segs) ==
            IF \E i \in DOMAIN segs :
                  ~segs[i].ok \/ (segs[i].val.name = <<>> /\ segs[i].val.indices = <<>>)
            THEN Err("bad segment")
            ELSE Ok(FoldLeftDomain(LAMBDA p, i : segment(p, i, segs[i].val), <<>>, segs))
    IN  IF tag = <<>> THEN Err("empty tag path")
        ELSE Try(splitTagSegments(tag),
                 LAMBDA parts : path([i \in DOMAIN parts |-> parseTagSegment(parts[i])]))

-----------------------------------------------------------------------------
(* Message router requests and responses, cip/message.go.  The path of a     *)
(* decoded request has the announced size: buf.Read may deliver less, which   *)
(* leaves zeros, and fails only when nothing is left.                        *)
EncodeMRRequest(r) == <<r.service, LenWords(r.path)>> \o r.path \o r.data

DecodeMRRequest(d) ==
    IF Len(d) < 3 THEN Err("EOF")
    ELSE LET size == 2 * U8(d, 1)
             got == Min({size, Len(d) - 2})
         IN  Ok([service |-> U8(d, 0),
                 path |-> Slice(d, 2, got) \o Zeros(size - got),
                 data |-> From(d, 2 + got)])

(* Service | 0x80; ExtStatus is a sequence of words *)
EncodeMRResponse(r) ==
    <<r.service, 0, r.status, Len(r.ext) % 256>> \o PackWords(LE16, r.ext) \o r.data

DecodeMRResponse(d) ==
    IF Len(d) < 4 THEN Err("EOF")
    ELSE IF Len(d) < 4 + 2 * U8(d, 3) THEN Err("EOF")
    ELSE Ok([service |-> U8(d, 0), status |-> U8(d, 2),
             ext |-> UnpackWords(U16LE, From(d, 4), U8(d, 3)),
             data |-> From(d, 4 + 2 * U8(d, 3))])

IsSuccess(r) == r.status = StatusSuccess

(* cip.Error: what a caller sees of a failed response *)
CIPError(status, ext) == Err(<<"cip", status, ext>>)
ResponseError(r) == IF IsSuccess(r) THEN Ok(r.data) ELSE CIPError(r.status, r.ext)

-----------------------------------------------------------------------------
(* Requests, cip/services.go and symbol.go *)
MRRequest(service, path, data) == [service |-> service, path |-> path, data |-> data]

NewGetAttributeSingleRequest(path) == MRRequest(ServiceGetAttributeSingle, path, <<>>)
NewSetAttributeSingleRequest(path, data) == MRRequest(ServiceSetAttributeSingle, path, data)

(* vendor and serial are the client's requestor identity; serial is four bytes *)
NewExecutePCCCRequest(vendor, serial, cmd) ==
    MRRequest(ServiceExecutePCCC, BuildPath(ClassPCCC, 1, 0), <<7>> \o LE16(vendor) \o serial \o cmd)

NewReadTagRequest(path, elements) == MRRequest(ServiceReadTag, path, LE16(elements))

NewWriteTagRequest(path, type, elements, data) ==
    MRRequest(ServiceWriteTag, path, LE16(type) \o LE16(elements) \o data)

NewGetSymbolClassAttributesRequest ==
    MRRequest(ServiceGetAttributeList, AddInstance(AddClass(<<>>, ClassSymbol), 0),
              LE16(2) \o LE16(1) \o LE16(2))

NewGetSymbolAttributesRequest(instance) ==
    MRRequest(ServiceGetAttributeList, AddInstance32(AddClass(<<>>, ClassSymbol), instance),
              LE16(2) \o LE16(1) \o LE16(2))

(* A Get_Attribute_List reply is a count and then (id, status, value) groups,  *)
(* a value only where the status is 0.  Both decoders know the attributes 1    *)
(* and 2, UINTs except for the name of a symbol; any other has no value.       *)
AttributeWidth(named, d, id, off) ==
    CASE id = 1 /\ named -> IF Len(d) < off + 2 THEN -1 ELSE 2 + U16LE(d, off)
      [] id = 2 \/ (id = 1 /\ ~named) -> 2
      [] OTHER -> 0

AttributeList(d, named) ==
    LET groups[n \in Nat] ==     \* [off, vals] after n groups, or an error
            IF n = 0 THEN Ok([off |-> 2, vals |-> [id \in {} |-> <<>>]])
            ELSE LET prev == groups[n - 1]
                     off == prev.val.off
                     id == U16LE(d, off)
                     w == IF U16LE(d, off + 2) # 0 THEN 0 ELSE AttributeWidth(named, d, id, off + 4)
                 IN  IF ~prev.ok THEN prev
                     ELSE IF Len(d) < off + 4 THEN Err("EOF")
                     ELSE IF w < 0 \/ Len(d) < off + 4 + w THEN Err("EOF")
                     ELSE Ok([off |-> off + 4 + w,
                              vals |-> IF w = 0 THEN prev.val.vals
                                       ELSE [k \in DOMAIN prev.val.vals \cup {id} |->
                                                IF k = id THEN Slice(d, off + 4, w)
                                                ELSE prev.val.vals[k]]])
    IN  IF Len(d) < 2 THEN Err("EOF") ELSE groups[U16LE(d, 0)]

ValueOr(list, id, dflt) == IF id \in DOMAIN list.vals THEN list.vals[id] ELSE dflt

DecodeSymbolClassAttributesResponse(d) ==
    Try(AttributeList(d, FALSE), LAMBDA list :
        Ok([revision |-> U16LE(ValueOr(list, 1, <<0, 0>>), 0),
            maxInstance |-> U16LE(ValueOr(list, 2, <<0, 0>>), 0)]))

DecodeSymbolAttributesResponse(d) ==
    Try(AttributeList(d, TRUE), LAMBDA list :
        Ok([name |-> From(ValueOr(list, 1, <<0, 0>>), 2),
            type |-> U16LE(ValueOr(list, 2, <<0, 0>>), 0)]))

-----------------------------------------------------------------------------
(* Timer, counter and control structures, cip/timer.go, counter.go and         *)
(* vendor/rockwell: two DINTs behind a status DINT whose flags sit in bit 31    *)
(* downwards, the order of the flag list.                                     *)
MarshalStatus(flags, first, second) ==
    LET byte == FoldLeft(LAMBDA sum, i : sum + (IF flags[i] THEN 2^(8 - i) ELSE 0), 0,
                         [i \in DOMAIN flags |-> i])
    IN  <<0, 0>> \o <<0, 0, 0, byte>> \o first \o second

DecodeStatus(n, d) ==
    IF Len(d) < 12 THEN Err("insufficient data")
    ELSE LET at == IF Len(d) >= 14 THEN 2 ELSE 0
         IN  Ok([flags |-> [i \in 1..n |-> BitOf(U8(d, at + 3), 8 - i)],
                 first |-> Slice(d, at + 4, 4), second |-> Slice(d, at + 8, 4)])

DecodeTimer(d) == DecodeStatus(3, d)        \* EN, TT, DN; PRE, ACC
DecodeCounter(d) == DecodeStatus(5, d)      \* CU, CD, DN, OV, UN; PRE, ACC
UnmarshalControl(d) ==                      \* EN, EU, DN, EM, ER, UL, IN, FD; LEN, POS
    IF Len(d) < 14 THEN CIPError(StatusNotEnoughData, <<>>) ELSE DecodeStatus(8, d)

TimerMarshal(t) == MarshalStatus(t.flags, t.first, t.second)
CounterMarshal(c) == MarshalStatus(c.flags, c.first, c.second)
ControlMarshal(c) == MarshalStatus(c.flags, c.first, c.second)

(* PID: seven REALs, each its four bytes, in front of what is not decoded. *)
PIDUnmarshal(d) ==
    IF Len(d) < 28 THEN CIPError(StatusNotEnoughData, <<>>)
    ELSE Ok([i \in 1..7 |-> Slice(d, 4 * (i - 1), 4)])
PIDMarshal(p) == FlattenSeq(p)
=============================================================================
