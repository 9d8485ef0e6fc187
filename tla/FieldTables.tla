----------------------------- MODULE FieldTables -----------------------------
(* How the generated code of a message is written down as tables.  A message
   type T has
     T          its struct: field name -> number, type and label;
     TMarshal   what MarshalToSizedBufferVT puts, in the order of its code,
                which fills the buffer from its end;
     TSize      what SizeVT counts;
     TUnmarshal the cases of UnmarshalVT and the fields it insists on.
   The tables are read by Codec.  A type is one of int32, int64, uint64, enum,
   bool, string, bytes, fixed32, fixed64, or the name of a message type.  *)
EXTENDS Integers

NoFields == [n \in {} |-> 0]

\* Labels of a struct field: a pointer that must be set, a pointer, a slice, a
\* plain proto3 value, whose zero means "not there", and a map from strings.
Field(label, num, type) == [label |-> label, num |-> num, type |-> type]
Required(num, type) == Field("required", num, type)
Optional(num, type) == Field("optional", num, type)
Repeated(num, type) == Field("repeated", num, type)
Implicit(num, type) == Field("implicit", num, type)
MapOf(num, type)    == Field("map", num, type)

\* One block of MarshalToSizedBufferVT: the literal key bytes in wire order, how
\* the value is laid out, the field, and whether its absence is an error.
Block(rule, key, layout, name) == [rule |-> rule, key |-> key, layout |-> layout, name |-> name]
Must(key, layout, name)    == Block("must", key, layout, name)
Put(key, layout, name)     == Block("put", key, layout, name)
Entries(key, layout, name) == Block("entries", key, layout, name)

\* The blocks of SizeVT that add the literal n and, unless the layout is const,
\* the size of the value.
Counted(rule, n, layout, names) == {[rule |-> rule, n |-> n, layout |-> layout, name |-> x] : x \in names}
Count(n, layout, names)        == Counted("each", n, layout, names)
CountEntries(n, layout, names) == Counted("entries", n, layout, names)

\* The cases of UnmarshalVT: the wire type a case insists on, the type of the
\* value, the fields with their numbers, and whether it overwrites, appends or
\* adds a map entry.
Cases(rule, wireType, type, nums) ==
    {[rule |-> rule, wireType |-> wireType, type |-> type, name |-> x, num |-> nums[x]] : x \in DOMAIN nums}
Sets(wireType, type, nums)      == Cases("set", wireType, type, nums)
Assigns(wireType, type, nums)   == Cases("assign", wireType, type, nums)
Adds(wireType, type, nums)      == Cases("add", wireType, type, nums)
AddsEntry(wireType, type, nums) == Cases("entry", wireType, type, nums)
Reads(required, cases) == [required |-> required, cases |-> cases]
==============================================================================
