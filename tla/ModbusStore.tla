----------------------------- MODULE ModbusStore -----------------------------
(***************************************************************************)
(* modbus/datastore.go and server_protocol.go: the in-memory store and the  *)
(* server's handler for each function code.  A store maps each area to its   *)
(* Go map, a function whose domain is the addresses written so far.  A       *)
(* handler takes the store and the request data to the store it leaves and   *)
(* the answer: response data, or a Modbus exception.                         *)
(***************************************************************************)
EXTENDS ModbusPDU, TLC

AddressSpace == 65536

Area == {"coils", "discreteInputs", "holdingRegisters", "inputRegisters"}

NewMemoryStore == [a \in Area |-> <<>>]

Absent(area) == IF area \in {"coils", "discreteInputs"} THEN FALSE ELSE 0

(* address + Address(i) wraps at 2^16 *)
At(addr, i) == (addr + i) % AddressSpace

MaxRead(area) == IF area \in {"coils", "discreteInputs"} THEN MaxCoilCount ELSE MaxRegisterCount

MaxWrite(area) == IF area = "coils" THEN MaxWriteCoilCount ELSE MaxWriteRegisterCount

StoreRead(store, area, addr, qty) ==
    IF ~InRange(qty, MaxRead(area)) THEN Err("ErrInvalidQuantity")
    ELSE Ok([i \in 1..qty |-> LET a == At(addr, i - 1)
                              IN  IF a \in DOMAIN store[area] THEN store[area][a]
                                  ELSE Absent(area)])

(* WriteSingleCoil, WriteSingleRegister and the Set methods *)
StorePut(store, area, addr, v) == [store EXCEPT ![area] = (addr :> v) @@ @]

StoreWrite(store, area, addr, vals) ==
    IF ~InRange(Len(vals), MaxWrite(area)) THEN Err("ErrInvalidQuantity")
    ELSE Ok([store EXCEPT ![area] =
                [a \in {At(addr, i - 1) : i \in 1..Len(vals)} |->
                    vals[1 + ((a - addr) % AddressSpace)]] @@ @])

-----------------------------------------------------------------------------
(* What a handler returns *)
Answer(store, data) == [store |-> store, res |-> Ok(data)]
Refuse(store, code) == [store |-> store, res |-> Exception(code)]
Invalid(store) == Refuse(store, ExceptionInvalidDataValue)

handleReadBitValues(store, area, data) ==
    IF Len(data) # 4 \/ ~InRange(U16BE(data, 2), MaxRead(area)) THEN Invalid(store)
    ELSE LET v == StoreRead(store, area, U16BE(data, 0), U16BE(data, 2))
         IN  IF ~v.ok THEN Invalid(store)
             ELSE Answer(store, <<BytesForBits(U16BE(data, 2))>> \o PackBits(v.val))

handleReadRegisterValues(store, area, data) ==
    IF Len(data) # 4 \/ ~InRange(U16BE(data, 2), MaxRead(area)) THEN Invalid(store)
    ELSE LET v == StoreRead(store, area, U16BE(data, 0), U16BE(data, 2))
         IN  IF ~v.ok THEN Invalid(store)
             ELSE Answer(store, <<2 * Len(v.val)>> \o PackWords(BE16, v.val))

HandleRead(store, area, data) ==
    IF area \in {"coils", "discreteInputs"} THEN handleReadBitValues(store, area, data)
    ELSE handleReadRegisterValues(store, area, data)

HandleWriteSingleCoil(store, data) ==
    IF Len(data) # 4 \/ U16BE(data, 2) \notin {CoilOnU16, CoilOffU16} THEN Invalid(store)
    ELSE Answer(StorePut(store, "coils", U16BE(data, 0), U16BE(data, 2) = CoilOnU16), data)

HandleWriteSingleRegister(store, data) ==
    IF Len(data) # 4 THEN Invalid(store)
    ELSE Answer(StorePut(store, "holdingRegisters", U16BE(data, 0), U16BE(data, 2)), data)

(* The checks that the two block writes share. *)
BytesFor(area, qty) == IF area = "coils" THEN BytesForBits(qty) ELSE 2 * qty

BlockWriteOK(data, area) ==
    /\ Len(data) >= 5
    /\ Len(data) = 5 + U8(data, 4)
    /\ InRange(U16BE(data, 2), MaxWrite(area))
    /\ U8(data, 4) = BytesFor(area, U16BE(data, 2))

BlockWrite(store, area, data, vals) ==
    LET w == StoreWrite(store, area, U16BE(data, 0), vals)
    IN  IF ~w.ok THEN Invalid(store) ELSE Answer(w.val, Slice(data, 0, 4))

HandleWriteMultipleCoils(store, data) ==
    IF ~BlockWriteOK(data, "coils") THEN Invalid(store)
    ELSE BlockWrite(store, "coils", data, UnpackBits(From(data, 5), U16BE(data, 2)))

HandleWriteMultipleRegisters(store, data) ==
    IF ~BlockWriteOK(data, "holdingRegisters") THEN Invalid(store)
    ELSE BlockWrite(store, "holdingRegisters", data,
                    UnpackWords(U16BE, From(data, 5), U16BE(data, 2)))

(* HandleReadWriteMultipleRegisters makes two calls of the store, each with   *)
(* the store's lock of its own: the write, then the read.                     *)
ReadWriteOK(data) ==
    /\ Len(data) >= 9
    /\ Len(data) = 9 + U8(data, 8)
    /\ InRange(U16BE(data, 2), MaxReadWriteReadCount)
    /\ InRange(U16BE(data, 6), MaxReadWriteWriteCount)
    /\ U8(data, 8) = 2 * U16BE(data, 6)

ReadWriteFirst(store, data) ==
    IF ~ReadWriteOK(data) THEN Invalid(store)
    ELSE LET w == StoreWrite(store, "holdingRegisters", U16BE(data, 4),
                             UnpackWords(U16BE, From(data, 9), U16BE(data, 6)))
         IN  IF ~w.ok THEN Invalid(store) ELSE Answer(w.val, <<>>)

ReadWriteSecond(store, data) ==
    LET v == StoreRead(store, "holdingRegisters", U16BE(data, 0), U16BE(data, 2))
    IN  IF ~v.ok THEN Invalid(store)
        ELSE Answer(store, <<2 * Len(v.val)>> \o PackWords(BE16, v.val))

HandleReadWriteMultipleRegisters(store, data) ==
    LET read(w) == IF ~w.res.ok THEN w ELSE ReadWriteSecond(w.store, data)
    IN  read(ReadWriteFirst(store, data))

(* The identification objects the server knows, by the length of their text. *)
DeviceObjects ==
    (0 :> 12) @@ (1 :> 6) @@ (2 :> 3) @@ (3 :> 40) @@ (4 :> 26) @@ (5 :> 17) @@ (6 :> 13)
      @@ (128 :> 15)

objectsToInclude(code, object) ==
    CASE code = 4 -> <<object>>
      [] code = 2 -> <<0, 1, 2, 3, 4, 5, 6>>
      [] code = 3 -> <<0, 1, 2, 3, 4, 5, 6, 128>>
      [] OTHER    -> <<0, 1, 2>>

(* The text of an object is a run of its own id. *)
EncodeObject(id) == <<id, DeviceObjects[id]>> \o [i \in 1..DeviceObjects[id] |-> id]

EncodeObjects(ids) ==
    LET upto[i \in 0..Len(ids)] ==
            IF i = 0 THEN <<>> ELSE upto[i - 1] \o EncodeObject(ids[i])
    IN  upto[Len(ids)]

HandleReadDeviceIdentification(store, data) ==
    IF Len(data) < 3 \/ data[1] # MEIReadDeviceID THEN Invalid(store)
    ELSE LET known(id) == id \in DOMAIN DeviceObjects
             ids == SelectSeq(objectsToInclude(data[2], data[3]), known)
         IN  Answer(store, <<MEIReadDeviceID, data[2], 1, 0, 0, Len(ids)>> \o EncodeObjects(ids))

(* dispatchRequest over the handlers of setupDefaultHandlers *)
ReadAreaOf ==
    (FuncReadCoils :> "coils") @@ (FuncReadDiscreteInputs :> "discreteInputs")
      @@ (FuncReadHoldingRegisters :> "holdingRegisters")
      @@ (FuncReadInputRegisters :> "inputRegisters")

DefaultHandler(store, fc, data) ==
    CASE fc \in DOMAIN ReadAreaOf            -> HandleRead(store, ReadAreaOf[fc], data)
      [] fc = FuncWriteSingleCoil            -> HandleWriteSingleCoil(store, data)
      [] fc = FuncWriteSingleRegister        -> HandleWriteSingleRegister(store, data)
      [] fc = FuncWriteMultipleCoils         -> HandleWriteMultipleCoils(store, data)
      [] fc = FuncWriteMultipleRegisters     -> HandleWriteMultipleRegisters(store, data)
      [] fc = FuncReadWriteMultipleRegisters -> HandleReadWriteMultipleRegisters(store, data)
      [] fc = FuncReadDeviceIdentification   -> HandleReadDeviceIdentification(store, data)

DefaultHandlers ==
    DOMAIN ReadAreaOf
      \cup {FuncWriteSingleCoil, FuncWriteSingleRegister, FuncWriteMultipleCoils,
            FuncWriteMultipleRegisters, FuncReadWriteMultipleRegisters,
            FuncReadDeviceIdentification}

dispatchRequest(store, fc, data) ==
    IF fc \notin DefaultHandlers THEN Refuse(store, ExceptionFunctionCodeNotSupported)
    ELSE DefaultHandler(store, fc, data)

(* handleConnection: the PDU sent back, under the same transaction and unit. *)
ResponsePDU(fc, res) ==
    IF res.ok THEN [fc |-> fc, data |-> res.val]
    ELSE [fc |-> (fc % ExceptionBit) + ExceptionBit, data |-> <<res.err[2]>>]
=============================================================================
