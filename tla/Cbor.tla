-------------------------------- MODULE Cbor --------------------------------
(***************************************************************************)
(* The canonical CBOR codec of identikey-auth (cbor.rs), over which every  *)
(* payload of the protocol is signed and every fingerprint taken.          *)
(*                                                                         *)
(* Bytes are 0 .. 255.  A u64 is the sequence of its bytes without leading *)
(* zeros, <<0>> for zero, so that all 64 bits fit.  A text is its bytes,   *)
(* and valid UTF-8 when they are below 128.                                *)
(*                                                                         *)
(* Values nest.  What the code does by calling itself is a function of the *)
(* depth there is room for, made of the one for a level less.              *)
(***************************************************************************)
EXTENDS Naturals, FiniteSets, SequencesExt

CONSTANTS
    CborInputs,   \* byte strings to decode
    CborValues,   \* values to encode
    MaxDepth,     \* how deep values nest: what the stack has room for
    NoJob, NotYet

Uint(n)   == [t |-> "uint", n |-> n]
Bytes(b)  == [t |-> "bytes", b |-> b]
Text(b)   == [t |-> "text", b |-> b]
Array(is) == [t |-> "array", items |-> is]
Map(es)   == [t |-> "map", entries |-> es]     \* a sequence of <<key, value>>

CborError == [t |-> "error"]                   \* AuthError::Cbor or MissingField

-----------------------------------------------------------------------------
(* Integers. *)

Byte == 0 .. 255
U64s == {n \in Seq(Byte) : Len(n) > 0 /\ Len(n) <= 8 /\ (n[1] = 0 => Len(n) = 1)}

\* More than any input is long counts as Huge.
Huge == 256 * 256

U64(k) == IF k < 256 THEN <<k>> ELSE <<k \div 256, k % 256>>

Usize(n) == IF Len(n) > 2 THEN Huge ELSE IF Len(n) > 1 THEN 256 * n[1] + n[2] ELSE n[1]

Strip(b) ==
    LET S == {i \in 1 .. Len(b) : b[i] # 0}
    IN  IF S = {} THEN <<0>> ELSE SubSeq(b, CHOOSE i \in S : \A j \in S : i <= j, Len(b))

Pad(n, width) == [i \in 1 .. width |-> IF i <= width - Len(n) THEN 0 ELSE n[i - (width - Len(n))]]

-----------------------------------------------------------------------------
(* Values, by the depth of their nesting. *)

ByteString == {b \in Seq(Byte) : Len(b) < Huge}
Utf8(b) == \A i \in 1 .. Len(b) : b[i] < 128
Utf8String == {b \in ByteString : Utf8(b)}

Distinct(es) == \A i, j \in 1 .. Len(es) : es[i][1] = es[j][1] => i = j

Nested(sub) ==
    [t : {"uint"}, n : U64s] \cup [t : {"bytes"}, b : ByteString] \cup [t : {"text"}, b : Utf8String]
      \cup [t : {"array"}, items : {is \in Seq(sub) : Len(is) < Huge}]
      \cup [t : {"map"}, entries : {es \in Seq(Utf8String \X sub) : Len(es) < Huge /\ Distinct(es)}]

Value[d \in 0 .. MaxDepth] == IF d = 0 THEN {} ELSE Nested(Value[d - 1])

\* Inputs are shorter than Huge; a map that is encoded names no key twice.
ASSUME CborAssumption ==
    /\ MaxDepth \in Nat
    /\ \A data \in CborInputs : data \in ByteString
    /\ \A v \in CborValues : v \in Value[MaxDepth]

-----------------------------------------------------------------------------
(* Encoding. *)

encode_head(major, n) ==
    LET mt == 32 * major
    IN  IF Len(n) > 4 THEN <<mt + 27>> \o Pad(n, 8)
        ELSE IF Len(n) > 2 THEN <<mt + 26>> \o Pad(n, 4)
        ELSE IF Len(n) > 1 THEN <<mt + 25>> \o n
        ELSE IF n[1] >= 24 THEN <<mt + 24>> \o n
        ELSE <<mt + n[1]>>

encode_key(k) == encode_head(3, U64(Len(k))) \o k

\* The order of Vec<u8>: at the first place where they differ, or one ends.
Less(a, b) ==
    \E i \in 1 .. Len(b) : /\ i <= Len(a) + 1 /\ \A j \in 1 .. i - 1 : a[j] = b[j]
                           /\ i <= Len(a) => a[i] < b[i]

KeyLess(e, f) == Less(encode_key(e[1]), encode_key(f[1]))

\* The entries in the order of their keys, no two of which are the same.
Sorted(es) ==
    LET Place(i) == 1 + Cardinality({j \in 1 .. Len(es) : KeyLess(es[j], es[i])})
    IN  [p \in 1 .. Len(es) |-> es[CHOOSE i \in 1 .. Len(es) : Place(i) = p]]

WriteAll(write, s) == FlattenSeq([i \in 1 .. Len(s) |-> write[s[i]]])

EntryWriter(write) == [e \in Utf8String \X DOMAIN write |-> encode_key(e[1]) \o write[e[2]]]

ValueWriter(values, write) ==
    [v \in values |->
       IF v.t = "uint" THEN encode_head(0, v.n)
       ELSE IF v.t = "bytes" THEN encode_head(2, U64(Len(v.b))) \o v.b
       ELSE IF v.t = "text" THEN encode_key(v.b)
       ELSE IF v.t = "array" THEN encode_head(4, U64(Len(v.items))) \o WriteAll(write, v.items)
       ELSE encode_head(5, U64(Len(v.entries))) \o WriteAll(EntryWriter(write), Sorted(v.entries))]

encode[d \in 0 .. MaxDepth] == IF d = 0 THEN <<>> ELSE ValueWriter(Value[d], encode[d - 1])

to_bytes(v) == encode[MaxDepth][v]

-----------------------------------------------------------------------------
(* Decoding: what is read at a position, and the position after it.  A     *)
(* failed read is CborError.                                               *)

Has(data, pos, n) == pos + n - 1 <= Len(data)

Width(info) == IF info = 24 THEN 1 ELSE IF info = 25 THEN 2 ELSE IF info = 26 THEN 4 ELSE 8

\* Mutant: 255 is taken in two bytes (< for <= in read_head).
Minimal_OffByOne(info, n) ==
    /\ info = 24 => n[1] >= 24
    /\ info = 25 => Len(n) > 1 \/ n[1] >= 255
    /\ info = 26 => Len(n) > 2
    /\ info = 27 => Len(n) > 4

Minimal(info, n) ==
    /\ info = 24 => n[1] >= 24
    /\ info = 25 => Len(n) > 1
    /\ info = 26 => Len(n) > 2
    /\ info = 27 => Len(n) > 4

HeadOf(major, n, next) == [t |-> "head", major |-> major, arg |-> n, pos |-> next]

read_head(data, pos) ==
    IF ~Has(data, pos, 1) THEN CborError ELSE
    LET major == data[pos] \div 32
        info == data[pos] % 32
        n == Strip(SubSeq(data, pos + 1, pos + Width(info)))
    IN  IF info < 24 THEN HeadOf(major, <<info>>, pos + 1)
        ELSE IF info <= 27 /\ Has(data, pos + 1, Width(info)) /\ Minimal(info, n)
        THEN HeadOf(major, n, pos + 1 + Width(info))
        ELSE CborError

Cursors(data) == 1 .. Len(data) + 1
Read(v, next) == [t |-> "read", v |-> v, pos |-> next]

\* One read, then the rest.
Onward(read, rest) ==
    [p \in DOMAIN read |->
       LET first == read[p]
           others == rest[first.pos]
       IN  IF first = CborError THEN CborError
           ELSE IF others = CborError THEN CborError
           ELSE Read(<<first.v>> \o others.v, others.pos)]

\* The loops of read_value: n reads one after the other.
Times(read) ==
    LET times[n \in 0 .. Huge] == IF n = 0 THEN [p \in DOMAIN read |-> Read(<<>>, p)]
                            ELSE Onward(read, times[n - 1])
    IN  times

EntryReader(data, read) ==
    [p \in Cursors(data) |->
       LET h == read_head(data, p)
           n == Usize(h.arg)
           key == SubSeq(data, h.pos, h.pos + n - 1)
           r == read[h.pos + n]
       IN  IF h = CborError THEN CborError
           ELSE IF h.major # 3 \/ ~Has(data, h.pos, n) \/ ~Utf8(key) THEN CborError
           ELSE IF r = CborError THEN CborError
           ELSE Read(<<key, r.v>>, r.pos)]

\* The order of the keys is looked at once all are read: it is the same error.
Ascending(es) == \A i \in 2 .. Len(es) : KeyLess(es[i - 1], es[i])

ValueReader(data, read) ==
    [p \in Cursors(data) |->
       LET h == read_head(data, p)
           n == Usize(h.arg)
           str == SubSeq(data, h.pos, h.pos + n - 1)
           items == Times(read)[n][h.pos]
           entries == Times(EntryReader(data, read))[n][h.pos]
       IN  IF h = CborError THEN CborError
           ELSE IF h.major = 0 THEN Read(Uint(h.arg), h.pos)
           ELSE IF h.major = 2 /\ Has(data, h.pos, n) THEN Read(Bytes(str), h.pos + n)
           ELSE IF h.major = 3 /\ Has(data, h.pos, n) /\ Utf8(str) THEN Read(Text(str), h.pos + n)
           ELSE IF h.major = 4 /\ items # CborError THEN Read(Array(items.v), items.pos)
           ELSE IF h.major = 5 /\ entries # CborError /\ Ascending(entries.v)
                THEN Read(Map(entries.v), entries.pos)
           ELSE CborError]

read_value(data) ==
    LET reader[d \in 0 .. MaxDepth] == IF d = 0 THEN [p \in Cursors(data) |-> CborError]
                             ELSE ValueReader(data, reader[d - 1])
    IN  reader

from_bytes(data) ==
    LET r == read_value(data)[MaxDepth][1]
    IN  IF r = CborError THEN CborError
        ELSE IF r.pos # Len(data) + 1 THEN CborError ELSE r.v

\* Value::get and get_opt: the first entry with the key.
get(v, key) ==
    LET Named == {i \in 1 .. Len(v.entries) : v.entries[i][1] = key}
    IN  IF v.t # "map" THEN CborError
        ELSE IF Named = {} THEN CborError
        ELSE v.entries[CHOOSE i \in Named : \A j \in Named : i <= j][2]

-----------------------------------------------------------------------------
(* One call of from_bytes or to_bytes. *)

VARIABLES
    job,   \* what is to be decoded or encoded
    out    \* the result

cborVars == <<job, out>>

CborIdle == job = NoJob /\ out = NotYet

CborInit ==
    /\ job \in [op : {"decode"}, arg : CborInputs] \cup [op : {"encode"}, arg : CborValues]
    /\ out = NotYet

Decode == /\ out = NotYet /\ job.op = "decode"
          /\ out' = from_bytes(job.arg) /\ UNCHANGED job

Encode == /\ out = NotYet /\ job.op = "encode"
          /\ out' = to_bytes(job.arg) /\ UNCHANGED job

CborNext == job # NoJob /\ (Decode \/ Encode)

CborSpec == CborInit /\ [][CborNext]_cborVars

-----------------------------------------------------------------------------
\* What a value means: its maps with their entries in order, at every level.
Normalizer(values, sub) ==
    [v \in values |->
       IF v.t = "array" THEN Array([i \in 1 .. Len(v.items) |-> sub[v.items[i]]])
       ELSE IF v.t = "map" THEN LET es == Sorted(v.entries) IN
                                Map([i \in 1 .. Len(es) |-> <<es[i][1], sub[es[i][2]]>>])
       ELSE v]

normal[d \in 0 .. MaxDepth] == IF d = 0 THEN <<>> ELSE Normalizer(Value[d], normal[d - 1])

\* The entries of a map are what get finds under their keys.
Retrievable(v) ==
    v.t = "map" => \A i \in 1 .. Len(v.entries) : get(v, v.entries[i][1]) = v.entries[i][2]

\* Bytes and values determine each other: whatever from_bytes accepts is what
\* to_bytes writes for it, and whatever to_bytes writes is accepted and means
\* the same, at every level; either way every key of a map can be looked up
\* (cbor.rs).  Otherwise a signature or fingerprint over one encoding could be
\* shown with another.
Canonical ==
    out # NotYet =>
        IF job.op = "decode" THEN out # CborError => to_bytes(out) = job.arg /\ Retrievable(out)
        ELSE from_bytes(out) = normal[MaxDepth][job.arg] /\ Retrievable(from_bytes(out))
=============================================================================
