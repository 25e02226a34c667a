------------------------------ MODULE UnitBytes ------------------------------
(***************************************************************************)
(* The byte form of a compiled unit, src/src/unit_bytes.c: unitEncode, and *)
(* unitDecode reading bytes that may have been damaged on the way.  A byte *)
(* has Base values, 256 in the code.  The decoder is one C call; here the  *)
(* header, each function and the end are steps of it.                      *)
(*                                                                         *)
(* Simplifications: code bytes, text and the payloads of floats are        *)
(* numbers nobody interprets; the allocation of an array is the number of  *)
(* items asked for.                                                        *)
(***************************************************************************)
EXTENDS Integers, Sequences, SequencesExt

CONSTANTS
  Base,         \* values of a byte
  Magic,        \* MAGIC, a sequence of bytes
  Format,       \* UNIT_BYTES_FORMAT_VERSION
  Version,      \* KIRBY_VERSION, a sequence of bytes
  NumberKinds,  \* the kinds of number_kind.c by number: <<[size, signed, float], ...>>
  Units         \* the units that are written

VARIABLES
  source,    \* the unit that was written
  bytes,     \* what is decoded
  reader,    \* the Reader of unitDecode, with the items it asked to allocate
  unit,      \* what has been decoded of the unit
  announced, \* functionCount
  stage      \* "header", "functions", "accepted" or "rejected"

vars == <<source, bytes, reader, unit, announced, stage>>

IntMax == Base^4 \div 2 - 1

(* The numbers of CompiledConstKind.                                       *)
Number == 0  Bool == 1  Nil == 2  String == 3  Function == 4

----------------------------------------------------------------------------
(* Encoding.                                                               *)

(* putU8, putU16, putU32, putI32, putSized: little-endian.                 *)
Put(size, value) == [i \in 1..size |-> (value \div Base^(i - 1)) % Base]

Flags(fn) == (IF fn.isStatic THEN 1 ELSE 0) + (IF fn.isPublic THEN 2 ELSE 0)
Bit(b) == IF b THEN 1 ELSE 0

EncodeConstant(c) ==
  Put(1, c.kind) \o
  CASE c.kind = Number -> Put(1, c.number) \o Put(NumberKinds[c.number + 1].size, c.payload)
    [] c.kind = Bool -> Put(1, Bit(c.value))
    [] c.kind = Nil -> << >>
    [] c.kind = String -> Put(4, c.offset) \o Put(4, c.length)
    [] c.kind = Function -> Put(4, c.index)

Each(Encode(_), items) == FlattenSeq([i \in DOMAIN items |-> Encode(items[i])])

EncodeCode(fn) ==
  Put(4, Len(fn.code)) \o fn.code \o Each(LAMBDA line : Put(4, line), fn.lines)

EncodeFunction(fn) ==
  Put(4, fn.arity) \o Put(4, fn.upvalueCount) \o Put(1, Flags(fn))
  \o Put(4, fn.nameOffset) \o Put(4, fn.nameLength)
  \o EncodeCode(fn)
  \o Put(4, Len(fn.constants)) \o Each(EncodeConstant, fn.constants)
  \o Put(4, Len(fn.upvalues))
  \o Each(LAMBDA u : Put(1, Bit(u.isLocal)) \o Put(1, u.index), fn.upvalues)

UnitEncode(u) ==
  Magic \o Put(2, Format) \o Put(1, Len(Version)) \o Version
  \o Put(4, Len(u.arena)) \o u.arena
  \o Put(4, Len(u.functions)) \o Each(EncodeFunction, u.functions)

----------------------------------------------------------------------------
(* The reader.  A read gives the reader after it, with what was read in    *)
(* value; after the first problem every read gives zero.                   *)

Remaining(r) == Len(bytes) - r.position

Fail(r, status) == IF r.status = "ok" THEN [r EXCEPT !.status = status] ELSE r
FailIf(condition, r, status) == IF condition THEN Fail(r, status) ELSE r

Unsigned(b) == FoldFunctionOnSet(+, 0, [i \in DOMAIN b |-> b[i] * Base^(i - 1)], DOMAIN b)

Take(r, n) ==
  IF r.status # "ok" THEN [r EXCEPT !.value = << >>]
  ELSE IF n > Remaining(r) THEN [Fail(r, "truncated") EXCEPT !.value = << >>]
  ELSE [r EXCEPT !.position = @ + n, !.value = SubSeq(bytes, r.position + 1, r.position + n)]

(* readU8, readU16, readU32, readSized; and readI32.                       *)
Read(r, n) == [Take(r, n) EXCEPT !.value = Unsigned(@)]
ReadI32(r) == [Read(r, 4) EXCEPT !.value = IF @ > IntMax THEN @ - Base^4 ELSE @]

(* countFits; what it lets through is allocated.                           *)
CountFits(r, count, bytesEach) ==
  IF count > IntMax THEN Fail(r, "invalid")
  ELSE FailIf(count > Remaining(r) \div bytesEach, r, "truncated")

Allocate(r, count) ==
  IF r.status = "ok" /\ count > r.allocated THEN [r EXCEPT !.allocated = count] ELSE r

(* Mutant: the length is not added to the offset.                          *)
OffsetInside(offset, length, total) ==
  offset >= 0 /\ length >= 0 /\ offset <= total

RangeInside(offset, length, total) ==
  offset >= 0 /\ length >= 0 /\ offset + length <= total

----------------------------------------------------------------------------
(* Decoding.  Every operator gives the reader, with the item in value.     *)

WithValue(r, v) == [r EXCEPT !.value = v]

(* A list of count items, each read by Item.                               *)
Added(list, t) == WithValue(t, Append(list, t.value))
ReadMany(r, count, Item(_)) ==
  LET from[i \in 0..count] ==
        IF i = 0 THEN WithValue(r, << >>)
        ELSE LET before == from[i - 1] IN Added(before.value, Item(before))
  IN  from[IF r.status = "ok" THEN count ELSE 0]

(* Signed numbers and single bytes, as many as there are sizes.            *)
ReadNumbers(r, sizes) ==
  LET from[i \in 0..Len(sizes)] ==
        IF i = 0 THEN WithValue(r, << >>)
        ELSE LET before == from[i - 1]
             IN  Added(before.value, IF sizes[i] = 4 THEN ReadI32(before) ELSE Read(before, sizes[i]))
  IN  from[Len(sizes)]

SignExtended(raw, size) ==
  IF raw >= Base^size \div 2 THEN raw - Base^size + Base^8 ELSE raw

Payload(raw, info) ==
  IF info.signed /\ ~info.float /\ info.size < 8 THEN SignExtended(raw, info.size) ELSE raw
NumberOf(kind, info, t) == WithValue(t, [kind |-> Number, number |-> kind, payload |-> Payload(t.value, info)])
ReadNumber(k) ==
  IF k.value >= Len(NumberKinds) THEN Fail(k, "invalid")
  ELSE NumberOf(k.value, NumberKinds[k.value + 1], Read(k, NumberKinds[k.value + 1].size))

BoolOf(t) == WithValue(FailIf(t.value > 1, t, "invalid"), [kind |-> Bool, value |-> t.value = 1])

StringOf(t, arenaLength) ==
  WithValue(FailIf(~RangeInside(t.value[1], t.value[2], arenaLength), t, "invalid"),
            [kind |-> String, offset |-> t.value[1], length |-> t.value[2]])

IsFunction(index, count) == index >= 0 /\ index < count
FunctionOf(t) ==
  WithValue(FailIf(~IsFunction(t.value, announced), t, "invalid"), [kind |-> Function, index |-> t.value])

ConstantOf(k, arenaLength) ==
  CASE k.value = Number -> ReadNumber(Read(k, 1))
    [] k.value = Bool -> BoolOf(Read(k, 1))
    [] k.value = Nil -> WithValue(k, [kind |-> Nil])
    [] k.value = String -> StringOf(ReadNumbers(k, <<4, 4>>), arenaLength)
    [] k.value = Function -> FunctionOf(ReadI32(k))
    [] OTHER -> Fail(k, "invalid")
ReadConstant(r, arenaLength) == ConstantOf(Read(r, 1), arenaLength)

UpvalueOf(isLocal, t) == WithValue(t, [isLocal |-> isLocal, index |-> t.value])
UpvalueAfter(l) == UpvalueOf(l.value = 1, Read(FailIf(l.value > 1, l, "invalid"), 1))
ReadUpvalue(r) == UpvalueAfter(Read(r, 1))

(* The fixed fields of a function, in the order they are written.          *)
FixedOf(t, v, arenaLength) ==
  LET bad == \/ v[3] > 3 \/ v[1] < 0 \/ v[2] < 0
             \/ v[5] >= 0 /\ ~RangeInside(v[4], v[5], arenaLength)
  IN  WithValue(FailIf(bad, t, "invalid"),
        [arity |-> v[1], upvalueCount |-> v[2], isStatic |-> v[3] % 2 = 1, isPublic |-> v[3] >= 2,
         nameOffset |-> v[4], nameLength |-> v[5]])
FixedFrom(t, arenaLength) == FixedOf(t, t.value, arenaLength)
ReadFixed(r, arenaLength) == FixedFrom(ReadNumbers(r, <<4, 4, 1, 4, 4>>), arenaLength)

(* A count and, when it fits, the array that is allocated for it.          *)
CountOf(c, bytesEach) == WithValue(Allocate(CountFits(c, c.value, bytesEach), c.value), c.value)
ReadCount(r, bytesEach) == CountOf(Read(r, 4), bytesEach)

(* What is read next belongs to the function in r.value.                   *)
Into(fn, name, t) == WithValue(t, fn @@ (name :> t.value))

LinesOf(fn, count, code) == Into(fn @@ ("code" :> code.value), "lines", ReadMany(code, count, ReadI32))
CodeOf(fn, n) == LinesOf(fn, n.value, Take(n, n.value))
ThenCode(r) == CodeOf(r.value, ReadCount(r, 5))

ConstantsOf(fn, n, arenaLength) ==
  Into(fn, "constants", ReadMany(n, n.value, LAMBDA t : ReadConstant(t, arenaLength)))
ThenConstants(r, arenaLength) == ConstantsOf(r.value, ReadCount(r, 1), arenaLength)

UpvaluesOf(fn, n) == Into(fn, "upvalues", ReadMany(n, n.value, ReadUpvalue))
ThenUpvalues(r) == UpvaluesOf(r.value, ReadCount(r, 2))

ReadFunction(r, arenaLength) == ThenUpvalues(ThenConstants(ThenCode(ReadFixed(r, arenaLength)), arenaLength))

MinFunctionBytes == 29

----------------------------------------------------------------------------
(* The calls.                                                              *)

(* What a stored unit can look like when it is read: whole, cut off, with  *)
(* something after it, or with a byte changed.                             *)
Damaged(b) ==
  {SubSeq(b, 1, n) : n \in 0..Len(b) - 1}
  \cup {Append(b, x) : x \in 0..1}
  \cup {[b EXCEPT ![i] = x] : i \in DOMAIN b, x \in 0..Base - 1}

Init ==
  /\ source \in Units
  /\ bytes \in {UnitEncode(source)} \cup Damaged(UnitEncode(source))
  /\ reader = [position |-> 0, status |-> "ok", value |-> 0, allocated |-> 0]
  /\ unit = [arena |-> << >>, functions |-> << >>]
  /\ announced = 0
  /\ stage = "header"

Expect(r, value, status) == FailIf(r.value # value, r, status)
TakeSized(r) == Take(r, r.value)

AfterMagic == Expect(Take(reader, Len(Magic)), Magic, "bad magic")
AfterFormat == Expect(Read(AfterMagic, 2), Format, "bad format version")
AfterVersion == Expect(TakeSized(Read(AfterFormat, 1)), Version, "version mismatch")
ArenaAfter(l) == TakeSized(FailIf(l.value > IntMax, l, "invalid"))

(* The number of functions, at the end of the header.                      *)
EndHeader(r, arenaLength, count) ==
  /\ reader' = Allocate(Allocate(r, count), arenaLength)
  /\ announced' = count
  /\ stage' = IF r.status = "ok" THEN "functions" ELSE "rejected"
FunctionCount(c, arenaLength) ==
  EndHeader(CountFits(FailIf(c.value = 0, c, "invalid"), c.value, MinFunctionBytes), arenaLength, c.value)
StoreArena(blob) ==
  /\ unit' = [unit EXCEPT !.arena = blob.value]
  /\ FunctionCount(Read(blob, 4), Len(blob.value))

ReadHeader ==
  /\ stage = "header"
  /\ StoreArena(ArenaAfter(Read(AfterVersion, 4)))
  /\ UNCHANGED <<source, bytes>>

StoreFunction(r) ==
  /\ reader' = r
  /\ IF r.status = "ok"
       THEN unit' = [unit EXCEPT !.functions = Append(@, r.value)] /\ stage' = stage
       ELSE stage' = "rejected" /\ unit' = unit

DecodeFunction ==
  /\ stage = "functions"
  /\ Len(unit.functions) < announced
  /\ StoreFunction(ReadFunction(reader, Len(unit.arena)))
  /\ UNCHANGED <<source, bytes, announced>>

(* Mutant: what follows the last function is not looked at.                *)
EndsTheData == TRUE

EndsAtTheLastByte == reader.position = Len(bytes)

Finish ==
  /\ stage = "functions"
  /\ Len(unit.functions) = announced
  /\ stage' = IF EndsAtTheLastByte THEN "accepted" ELSE "rejected"
  /\ UNCHANGED <<source, bytes, reader, unit, announced>>

Next == ReadHeader \/ DecodeFunction \/ Finish

Spec == Init /\ [][Next]_vars

----------------------------------------------------------------------------
(* Properties.                                                             *)

(* unit_bytes.h: a unit is rebuilt from the bytes made by unitEncode.  A   *)
(* unit that was not damaged comes back as it was, and bytes are accepted  *)
(* only if they are the bytes of the unit they give: none is ignored, and  *)
(* no count, offset or flag is read in two ways.                           *)
DecodeInvertsEncode ==
  /\ bytes = UnitEncode(source) => stage # "rejected"
  /\ stage = "accepted" => bytes = UnitEncode(unit)
  /\ stage = "accepted" /\ bytes = UnitEncode(source) => unit = source

(* Damaged data is read inside its bytes and never asks for more items     *)
(* than it has bytes; in an accepted unit every offset lies in the text    *)
(* and every function that is named exists.                                *)
DecodingStaysInside ==
  /\ reader.position <= Len(bytes)
  /\ reader.allocated <= Len(bytes)
  /\ stage = "accepted" =>
       /\ Len(unit.functions) > 0
       /\ \A i \in DOMAIN unit.functions :
            LET fn == unit.functions[i]
            IN  /\ Len(fn.lines) = Len(fn.code)
                /\ fn.nameLength >= 0 => fn.nameOffset + fn.nameLength <= Len(unit.arena)
                /\ \A j \in DOMAIN fn.constants :
                     LET c == fn.constants[j]
                     IN  /\ c.kind = String => /\ c.offset \in 0..Len(unit.arena)
                                               /\ c.offset + c.length \in 0..Len(unit.arena)
                         /\ c.kind = Function => c.index + 1 \in DOMAIN unit.functions
=============================================================================
