-------------------------------- MODULE Codec --------------------------------
(* The protocol buffer codec generated for the messages of api/*.proto, as the
   rules that read the tables of FieldTables, and proto.Marshal and
   proto.Unmarshal of google.golang.org/protobuf, which the MTalk connection uses
   for the same structs.

   A message is [f |-> its fields, u |-> its unknownFields].  A field is the
   sequence of its values: none, one, or as many as the slice holds; a map field
   is a set of entries [key, val] where val is a sequence of at most one message.
   How the values themselves are written and read is Varint.                   *)
EXTENDS FieldTables, Varint, TLC, SequencesExt, FiniteSetsExt

CONSTANTS
    Struct,     \* by message type: the tables T of FieldTables,
    Marshal,    \* TMarshal,
    Size,       \* TSize
    Unmarshal,  \* and TUnmarshal
    External    \* the types of other modules, which have a struct only

\* Op of every element, and of every member as a function; the empty operands
\* make TLC compute the values once.
Map(Op(_), s)   == <<>> \o [i \in DOMAIN s |-> Op(s[i])]
Table(S, Op(_)) == [x \in S |-> Op(x)] @@ NoFields

Without(fields) ==
    [f |-> Table(DOMAIN fields, LAMBDA n : IF fields[n].label = "map" THEN {} ELSE <<>>), u |-> <<>>]
Empty(t) == Without(Struct[t])

IsMessage(type) == type \notin {"int32", "int64", "uint64", "enum", "bool", "string", "bytes",
                                "fixed32", "fixed64", "varint", "const"}

Total(ns) == LET sum[i \in 0..Len(ns)] == IF i = 0 THEN 0 ELSE sum[i - 1] + ns[i] IN sum[Len(ns)]
------------------------------------------------------------------------------
\* skip: the index after the field that starts at i; groups nest.  A fixed or
\* length-delimited field may end past the buffer, which the caller checks.
AfterPayload(b, i, wireType, depth) ==
    CASE wireType = 0 -> Then(ReadVarint(b, i), LAMBDA v : Ok(v.next))
      [] wireType = 1 -> Ok(i + 8)
      [] wireType = 5 -> Ok(i + 4)
      [] wireType = 2 -> Then(ReadVarint(b, i), LAMBDA l :
                           IF Int64(l.bytes) < 0 THEN Err("ErrInvalidLength")
                           ELSE Ok(l.next + Int64(l.bytes)))
      [] wireType = 3 -> Ok(i)
      [] wireType = 4 -> IF depth = 0 THEN Err("ErrUnexpectedEndOfGroup") ELSE Ok(i)
      [] OTHER        -> Err("illegal wireType")

RECURSIVE skip(_, _, _)
skip(b, i, depth) ==
    IF i > Len(b) THEN Err("ErrUnexpectedEOF")
    ELSE Then(ReadVarint(b, i), LAMBDA key :
           LET wireType == key.bytes[1] % 8
               inside == CASE wireType = 3 -> depth + 1 [] wireType = 4 -> depth - 1 [] OTHER -> depth
           IN Then(AfterPayload(b, key.next, wireType, depth), LAMBDA next :
                IF inside = 0 THEN Ok(next) ELSE skip(b, next, inside)))

\* The field at i as it stands, for a struct that does not have it.
Skipped(b, i, end) ==
    Then(skip(b, i, 0), LAMBDA next :
      IF next > end + 1 THEN Err("ErrUnexpectedEOF")
      ELSE Ok([bytes |-> SubSeq(b, i, next - 1), next |-> next]))

------------------------------------------------------------------------------
(* MarshalVT. *)

\* A required field is nil, here or in a message inside.
RECURSIVE NotSet(_, _)
Misses(d, values) ==
    \/ d.label = "required" /\ values = <<>>
    \/ d.label = "map" /\ \E e \in values : e.val # <<>> /\ NotSet(d.type, e.val[1])
    \/ d.label # "map" /\ IsMessage(d.type) /\ \E i \in DOMAIN values : NotSet(d.type, values[i])
AnyMisses(fields, m) == \E n \in DOMAIN fields : Misses(fields[n], m.f[n])
NotSet(t, m) == AnyMisses(Struct[t], m)

\* The same, as the generated code finds it: at a block that insists.
RECURSIVE Refuses(_, _)
Refuses(t, m) ==
    \E b \in Range(Marshal[t]) :
      CASE b.rule = "must" /\ m.f[b.name] = <<>> -> TRUE
        [] b.layout \in External -> FALSE
        [] b.rule = "entries" -> \E e \in m.f[b.name] : e.val # <<>> /\ Refuses(b.layout, e.val[1])
        [] IsMessage(b.layout) -> \E k \in DOMAIN m.f[b.name] : Refuses(b.layout, m.f[b.name][k])
        [] OTHER -> FALSE

\* The names of the fields by ascending number.
ByNumber(fields) ==
    LET UpTo[k \in 0..22] ==
          IF k = 0 THEN <<>>
          ELSE UpTo[k - 1] \o SetToSeq({n \in DOMAIN fields : fields[n].num = k})
    IN UpTo[22]

\* proto.Marshal: the fields by their numbers, as the struct declares them.
WireType(type) == CASE type \in {"int32", "int64", "uint64", "enum", "bool"} -> 0
                    [] type = "fixed64" -> 1
                    [] type = "fixed32" -> 5
                    [] OTHER -> 2

RECURSIVE Reflected(_, _)
Reflected(t, m) ==
    LET Value(type, v) == CASE WireType(type) = 0 -> encodeVarint(v)
                            [] type = "fixed64"   -> LittleEndian(v, 8)
                            [] type = "fixed32"   -> LittleEndian(v, 4)
                            [] IsMessage(type)    -> Prefixed(Reflected(type, v))
                            [] OTHER              -> Prefixed(v)
        Entry(type, e) == Prefixed(encodeVarint(10) \o Prefixed(e.key) \o encodeVarint(18)
                                   \o Prefixed(IF e.val = <<>> THEN <<>> ELSE Reflected(type, e.val[1])))
        FieldBytes(d, key, values) ==
          IF d.label = "map" THEN FlattenSeq(Map(LAMBDA e : key \o Entry(d.type, e), SetToSeq(values)))
          ELSE FlattenSeq(Map(LAMBDA v : key \o Value(d.type, v), values))
        AllBytes(fields) ==
          FlattenSeq(Map(LAMBDA n : FieldBytes(fields[n], encodeVarint(fields[n].num * 8 + WireType(fields[n].type)),
                                               m.f[n]), ByNumber(fields)))
    IN AllBytes(Struct[t]) \o m.u

\* MarshalToSizedBufferVT fills the buffer from its end, so the block its code
\* puts last comes first on the wire, and unknownFields come last.
RECURSIVE Written(_, _)
Written(t, m) ==
    LET Inner(type, v) == IF type \in External THEN Reflected(type, v) ELSE Written(type, v)
        Value(layout, v) == CASE layout = "varint"  -> encodeVarint(v)
                              [] layout = "bool"    -> <<v>>
                              [] layout = "fixed64" -> LittleEndian(v, 8)
                              [] layout = "fixed32" -> LittleEndian(v, 4)
                              [] layout = "bytes"   -> Prefixed(v)
                              [] OTHER              -> Prefixed(Inner(layout, v))
        Entry(type, e) == Prefixed(<<\h0a>> \o Prefixed(e.key) \o <<\h12>>
                                   \o Prefixed(IF e.val = <<>> THEN <<>> ELSE Inner(type, e.val[1])))
        BlockBytes(b) == IF b.rule = "entries"
                         THEN FlattenSeq(Map(LAMBDA e : b.key \o Entry(b.layout, e), SetToSeq(m.f[b.name])))
                         ELSE FlattenSeq(Map(LAMBDA v : b.key \o Value(b.layout, v), m.f[b.name]))
    IN FlattenSeq(Map(BlockBytes, Reverse(Marshal[t]))) \o m.u

RECURSIVE SizeVT(_, _)
SizeVT(t, m) ==
    LET Inner(type, v) == IF type \in External THEN Len(Reflected(type, v)) ELSE SizeVT(type, v)
        Long(n, l) == n + l + sov(l)
        Counts(c, v) == CASE c.layout = "varint" -> c.n + sov(v)
                          [] c.layout = "const"  -> c.n
                          [] c.layout = "bytes"  -> Long(c.n, Len(v))
                          [] OTHER               -> Long(c.n, Inner(c.layout, v))
        EntrySize(type, e) == Long(1, Len(e.key))
                              + Long(1, IF e.val = <<>> THEN 0 ELSE Inner(type, e.val[1]))
        Part(c) == IF c.rule = "entries"
                   THEN Total(Map(LAMBDA e : Long(c.n, EntrySize(c.layout, e)), SetToSeq(m.f[c.name])))
                   ELSE Total(Map(LAMBDA v : Counts(c, v), m.f[c.name]))
    IN MapThenSumSet(Part, Size[t]) + Len(m.u)

\* The buffer is made with SizeVT bytes and filled from its end, and its FIRST
\* n bytes are returned: with a size too small the code panics, with one too
\* large the message starts with zeros and ends too early.
Filled(size, bytes) ==
    LET spare == size - Len(bytes)
    IN IF spare < 0 THEN Err("index out of range")
       ELSE Ok(SubSeq([i \in 1..spare |-> 0] \o bytes, 1, Len(bytes)))

MarshalVT(t, m) == IF Refuses(t, m) THEN Err("required field not set")
                   ELSE Filled(SizeVT(t, m), Written(t, m))

ProtoMarshal(t, m) == IF NotSet(t, m) THEN Err("required field not set")
                      ELSE Ok(Reflected(t, m))

------------------------------------------------------------------------------
(* proto.Unmarshal, by what it promises rather than step by step: the last
   value of a field that is not repeated counts, the parts of a message that is
   split over several fields are read as one, fields the struct does not have
   are kept in their order.                                                   *)

RECURSIVE RawFields(_, _, _)
RawFields(b, i, acc) ==
    IF i > Len(b) THEN Ok(acc)
    ELSE Then(Skipped(b, i, Len(b)), LAMBDA field :
           LET k == ReadVarint(b, i).val
               num == Int64(k.bytes) \div 8
               wireType == Int64(k.bytes) % 8
               value == IF wireType = 3 THEN <<>> ELSE Payload(b, k.next, wireType).val.bytes
           IN IF num = 0 THEN Err("illegal tag")
              ELSE RawFields(b, field.next,
                             Append(acc, [num |-> num, wireType |-> wireType,
                                          value |-> value, bytes |-> field.bytes])))

Scalar(type, value) ==
    CASE type \in {"int32", "enum"}   -> Int32(value)
      [] type \in {"int64", "uint64"} -> Int64(value)
      [] type = "bool"                -> IF Int64(value) = 0 THEN 0 ELSE 1
      [] type \in {"fixed32", "fixed64"} -> FixedInt(value)
      [] OTHER                        -> value

\* A proto3 value that is zero is the same as none.
Present(v, type) == IF v = (IF type \in {"string", "bytes"} THEN <<>> ELSE 0) THEN <<>> ELSE <<v>>

\* The values of a function of results, or an error if it has one.
Collect(rs) == IF \E x \in DOMAIN rs : Failed(rs[x]) THEN Err("inner message")
               ELSE Ok(Table(DOMAIN rs, LAMBDA x : rs[x].val))

Declares(d, r) == r.num = d.num /\ r.wireType = WireType(d.type)
ValuesOf(d, raw) == Map(LAMBDA r : r.value, SelectSeq(raw, LAMBDA r : Declares(d, r)))

\* The key and the value of a map entry, both the last of their kind.
Key == [num |-> 1, type |-> "string"]
Val(type) == [num |-> 2, type |-> type]
LastOr(s, default) == IF s = <<>> THEN default ELSE Last(s)

RECURSIVE Understood(_, _)
RECURSIVE ReadField(_, _)
Interpreted(fields, raw) ==
    Then(Collect(Table(DOMAIN fields, LAMBDA n : ReadField(fields[n], ValuesOf(fields[n], raw)))), LAMBDA f :
      Ok([f |-> f,
          u |-> FlattenSeq(Map(LAMBDA r : r.bytes, SelectSeq(raw, LAMBDA r :
                  \A n \in DOMAIN fields : ~Declares(fields[n], r))))]))
Understood(t, b) == Then(RawFields(b, 1, <<>>), LAMBDA raw : Interpreted(Struct[t], raw))

ReadField(d, vs) ==
    CASE d.label = "map" ->
           Then(Collect(Map(LAMBDA v : Then(RawFields(v, 1, <<>>), LAMBDA raw :
                              Then(Understood(d.type, FlattenSeq(ValuesOf(Val(d.type), raw))), LAMBDA m :
                                Ok([key |-> LastOr(ValuesOf(Key, raw), <<>>), val |-> <<m>>]))), vs)),
                LAMBDA es : Ok({es[i] : i \in {k \in DOMAIN es :
                                                 \A l \in DOMAIN es : l > k => es[l].key # es[k].key}}))
      [] vs = <<>> -> Ok(<<>>)
      [] IsMessage(d.type) -> Collect(Map(LAMBDA v : Understood(d.type, v),
                                          IF d.label = "repeated" THEN vs ELSE <<FlattenSeq(vs)>>))
      [] d.label = "repeated" -> Ok(Map(LAMBDA v : Scalar(d.type, v), vs))
      [] d.label = "implicit" -> Ok(Present(Scalar(d.type, Last(vs)), d.type))
      [] OTHER -> Ok(<<Scalar(d.type, Last(vs))>>)

ProtoUnmarshal(t, b) ==
    Then(Understood(t, b), LAMBDA m : IF NotSet(t, m) THEN Err("required field not set") ELSE Ok(m))

------------------------------------------------------------------------------
(* UnmarshalVT. *)

RECURSIVE UnmarshalVT(_, _, _)

\* One entry of a map field, between i and post: its two fields in any order,
\* whatever their wire type, bounded by the end of the buffer and not of the
\* entry; other fields are skipped and forgotten.
RECURSIVE EntryFrom(_, _, _, _, _)
EntryFrom(t, b, i, post, e) ==
    IF i >= post THEN Ok(e)
    ELSE Then(ReadVarint(b, i), LAMBDA k :
           CASE Int64(k.bytes) \div 8 = 1 ->
                  Then(Payload(b, k.next, 2), LAMBDA p :
                    EntryFrom(t, b, p.next, post, [e EXCEPT !.key = p.bytes]))
             [] Int64(k.bytes) \div 8 = 2 ->
                  Then(Payload(b, k.next, 2), LAMBDA p :
                    Then(UnmarshalVT(t, p.bytes, Empty(t)), LAMBDA m :
                      EntryFrom(t, b, p.next, post, [e EXCEPT !.val = <<m>>])))
             [] OTHER -> Then(Skipped(b, i, post - 1), LAMBDA s : EntryFrom(t, b, s.next, post, e)))

\* The new value of the field of case c, whose old value and payload are given.
Stored(c, b, p, old) ==
    CASE c.rule = "entry" ->
           Then(EntryFrom(c.type, b, p.next - Len(p.bytes), p.next, [key |-> <<>>, val |-> <<>>]), LAMBDA e :
             Ok({o \in old : o.key # e.key} \cup {e}))
      [] c.rule = "add" /\ IsMessage(c.type) ->
           Then(UnmarshalVT(c.type, p.bytes, Empty(c.type)), LAMBDA m : Ok(Append(old, m)))
      [] c.rule = "set" /\ c.type \in External ->
           Then(ProtoUnmarshal(c.type, p.bytes), LAMBDA m : Ok(<<m>>))
      [] c.rule = "set" /\ IsMessage(c.type) /\ c.type \notin External ->
           Then(UnmarshalVT(c.type, p.bytes, IF old = <<>> THEN Empty(c.type) ELSE old[1]), LAMBDA m : Ok(<<m>>))
      [] c.rule = "assign" -> Ok(Present(Scalar(c.type, p.bytes), c.type))
      [] c.rule = "add" /\ ~IsMessage(c.type) -> Ok(Append(old, Scalar(c.type, p.bytes)))
      [] c.rule = "set" /\ ~IsMessage(c.type) -> Ok(<<Scalar(c.type, p.bytes)>>)

\* The loop of UnmarshalVT with the cases of table: seen is what hasFields
\* remembers of this call.
RECURSIVE FieldsFrom(_, _, _, _, _)
FieldsFrom(table, b, i, m, seen) ==
    IF i > Len(b)
    THEN IF table.required \subseteq seen THEN Ok(m) ELSE Err("required field not set")
    ELSE Then(ReadVarint(b, i), LAMBDA k :
      LET num == Int64(k.bytes) \div 8
          wireType == Int64(k.bytes) % 8
          cases == {c \in table.cases : c.num = num}
          case == CHOOSE c \in cases : TRUE
      IN IF wireType = 4 THEN Err("end group for non-group")
         ELSE IF num <= 0 THEN Err("illegal tag")
         ELSE IF cases = {}
         THEN Then(Skipped(b, i, Len(b)), LAMBDA s :
                FieldsFrom(table, b, s.next, [m EXCEPT !.u = @ \o s.bytes], seen))
         ELSE IF case.wireType # wireType THEN Err("wrong wireType")
         ELSE Then(Payload(b, k.next, wireType), LAMBDA p :
                Then(Stored(case, b, p, m.f[case.name]), LAMBDA v :
                  FieldsFrom(table, b, p.next, [m EXCEPT !.f[case.name] = v], seen \cup {case.name}))))

UnmarshalVT(t, b, into) == FieldsFrom(Unmarshal[t], b, 1, into, {})
==============================================================================
