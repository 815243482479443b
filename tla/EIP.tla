-------------------------------- MODULE EIP --------------------------------
(***************************************************************************)
(* ethernetip/eip: the encapsulation header, the common packet format and    *)
(* the discovery replies.                                                   *)
(***************************************************************************)
EXTENDS CIP

CommandListServices == 4
CommandListIdentity == 99
CommandRegisterSession == 101
CommandUnregisterSession == 102
CommandSendRRData == 111
CommandSendUnitData == 112

EIPSuccess == 0
EIPInvalidCommand == 1
EIPInvalidSessionHandle == 100

ItemIDNullAddress == 0
ItemIDListIdentity == 12
ItemIDConnectedAddress == 161
ItemIDConnectedData == 177
ItemIDUnconnectedMessage == 178
ItemIDListServices == 256

HeaderSize == 24

(* A frame: command, length, session, status, eight bytes of context, options. *)
EncodeFrame(cmd, session, status, context, data) ==
    LE16(cmd) \o LE16(Len(data) % 65536) \o LE32(session) \o LE32(status) \o context \o LE32(0) \o data

DecodeHeader(f) ==
    [cmd |-> U16LE(f, 0), length |-> U16LE(f, 2), session |-> U32LE(f, 4),
     status |-> U32LE(f, 8), context |-> Slice(f, 12, 8)]

RegisterSessionData == LE16(1) \o LE16(0)

-----------------------------------------------------------------------------
(* Common packet format, eip/cpf.go: a count and items [type, data]. *)
NewCPFItem(type, data) == [type |-> type, data |-> data]

EncodeItem(item) ==
    LET length == Len(item.data) % 65536
    IN  LE16(item.type) \o LE16(length) \o (IF length = 0 THEN <<>> ELSE item.data)

EncodeCPF(items) ==
    LE16(Len(items)) \o FlattenSeq([i \in DOMAIN items |-> EncodeItem(items[i])])

(* n items of d from offset off on: the items and where they end, or an error. *)
Items(d, off0, count) ==
    LET upto[n \in Nat] ==
            IF n = 0 THEN Ok([off |-> off0, items |-> <<>>])
            ELSE LET prev == upto[n - 1]
                     off == prev.val.off
                     size == U16LE(d, off + 2)
                 IN  IF ~prev.ok THEN prev
                     ELSE IF Len(d) < off + 4 THEN Err("EOF")
                     ELSE IF Len(d) < off + 4 + size THEN Err("EOF")
                     ELSE Ok([off |-> off + 4 + size,
                              items |-> Append(prev.val.items,
                                               NewCPFItem(U16LE(d, off), Slice(d, off + 4, size)))])
    IN  upto[count]

DecodeCPF(d) ==
    IF Len(d) < 2 THEN Err("EOF")
    ELSE IF Len(d) - 2 < 4 * U16LE(d, 0) THEN Err("item count")
    ELSE LET read == Items(d, 2, U16LE(d, 0))
         IN  IF read.ok THEN Ok(read.val.items) ELSE read

(* The first item of the type, as a sequence of at most one. *)
FindItemByType(items, type) ==
    LET found == SelectSeq(items, LAMBDA i : i.type = type)
    IN  SubSeq(found, 1, Min({1, Len(found)}))

-----------------------------------------------------------------------------
(* Discovery, eip/discovery.go.  An identity keeps its fixed-size fields as     *)
(* the 30 bytes they take on the wire (version, socket address, vendor, device, *)
(* product, revision, status, serial number) next to its name and state.        *)
Clip(s, n) == SubSeq(s, 1, Min({Len(s), n}))

EncodeListIdentityResponse(ids) ==
    LE16(Len(ids)) \o
    FlattenSeq([i \in DOMAIN ids |->
        LET name == Clip(ids[i].name, 32)
        IN  LE16(ids[i].type) \o LE16(34 + Len(name)) \o ids[i].fixed
              \o <<Len(name)>> \o name \o <<ids[i].state>>])

DecodeListIdentityResponse(d) ==
    LET upto[n \in Nat] ==
            IF n = 0 THEN Ok([off |-> 2, ids |-> <<>>])
            ELSE LET prev == upto[n - 1]
                     off == prev.val.off
                     name == U8(d, off + 34)
                     end == IF U16LE(d, off) = ItemIDListIdentity THEN off + 36 + name
                            ELSE off + 4 + U16LE(d, off + 2)
                 IN  IF ~prev.ok THEN prev
                     ELSE IF Len(d) < off + 4 THEN Err("EOF")
                     ELSE IF U16LE(d, off) = ItemIDListIdentity /\ Len(d) < off + 35 THEN Err("EOF")
                     ELSE IF Len(d) < end THEN Err("EOF")
                     ELSE Ok([off |-> end,
                              ids |-> IF U16LE(d, off) # ItemIDListIdentity THEN prev.val.ids
                                      ELSE Append(prev.val.ids,
                                                  [type |-> ItemIDListIdentity,
                                                   fixed |-> Slice(d, off + 4, 30),
                                                   name |-> Slice(d, off + 35, name),
                                                   state |-> U8(d, off + 35 + name)])])
    IN  IF Len(d) < 2 THEN Err("EOF")
        ELSE LET read == upto[U16LE(d, 0)] IN IF read.ok THEN Ok(read.val.ids) ELSE read

EncodeListServicesResponse(items) ==
    LE16(Len(items)) \o
    FlattenSeq([i \in DOMAIN items |->
        LET name == Clip(items[i].name, 16)
        IN  LE16(items[i].type) \o LE16(20) \o LE16(items[i].version) \o LE16(items[i].flags)
              \o name \o Zeros(16 - Len(name))])

TrimNULs(s) ==
    LET ink == {i \in DOMAIN s : s[i] # 0} IN IF ink = {} THEN <<>> ELSE SubSeq(s, 1, Max(ink))

DecodeListServicesItem(d, off) ==
    [type |-> U16LE(d, off), version |-> U16LE(d, off + 4), flags |-> U16LE(d, off + 6),
     name |-> TrimNULs(Slice(d, off + 8, 16))]

DecodeListServicesResponse(d) ==
    IF Len(d) < 2 THEN Err("EOF")
    ELSE IF Len(d) < 2 + 24 * U16LE(d, 0) THEN Err("EOF")
    ELSE Ok([i \in 1..U16LE(d, 0) |-> DecodeListServicesItem(d, 2 + 24 * (i - 1))])
=============================================================================
