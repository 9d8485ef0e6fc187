--------------------------------- MODULE Wire ---------------------------------
(* A message on its way between two programs of which each may use the generated
   codec (VT: the check-in request and answer, the stored device record) or the
   reflection codec of google.golang.org/protobuf (the MTalk connection and
   whoever is at the other end).  On the way the wire may be cut, be joined with
   the wire of another message of the type, or hold a field of a newer schema. *)
EXTENDS Codec

CONSTANTS
    Inputs,     \* the messages composed: records [type, m]
    Travelling, \* those to whose wires something happens on the way
    Joinable,   \* those whose wires are joined to others of their type
    Alien       \* encoded fields that no struct declares

VARIABLES
    stage,      \* idle, composed, refused, written, read or rewritten
    kind,       \* the type of the message composed
    sent,       \* the messages on the wire
    wire,       \* the bytes on the way
    event,      \* what happened to them: nothing, joined, cut or alien
    got         \* what the generated reader made of them: a result

vars == <<stage, kind, sent, wire, event, got>>

Nothing == [what |-> "nothing", bytes |-> <<>>]

Init ==
    /\ stage = "idle" /\ kind = "none" /\ sent = <<>> /\ wire = <<>>
    /\ event = Nothing /\ got = Err("nothing read")

Compose(x) ==
    /\ stage = "idle"
    /\ sent' = <<x.m>> /\ kind' = x.type /\ stage' = "composed"
    /\ UNCHANGED <<wire, event, got>>

Write(result, next) ==
    /\ stage' = IF Failed(result) THEN "refused" ELSE next
    /\ wire' = IF Failed(result) THEN <<>> ELSE result.val
    /\ UNCHANGED <<sent, kind, event, got>>

GeneratedWrites  == stage = "composed" /\ \E r \in {MarshalVT(kind, sent[1])} : Write(r, "written")
ReflectionWrites == stage = "composed" /\ \E r \in {ProtoMarshal(kind, sent[1])} : Write(r, "written")

OnTheMove == stage = "written" /\ event = Nothing /\ [type |-> kind, m |-> sent[1]] \in Travelling

\* A peer with a newer schema has put a field of its own, first or last.
AddAlien(a) ==
    /\ OnTheMove
    /\ wire' \in {a \o wire, wire \o a}
    /\ event' = [what |-> "alien", bytes |-> a]
    /\ UNCHANGED <<stage, kind, sent, got>>

\* The wires of two messages, one after the other, are the wire of their union.
Join(x) ==
    /\ OnTheMove
    /\ x.type = kind
    /\ ~NotSet(kind, x.m)
    /\ wire' = wire \o Reflected(kind, x.m)
    /\ sent' = Append(sent, x.m)
    /\ event' = [Nothing EXCEPT !.what = "joined"]
    /\ UNCHANGED <<stage, kind, got>>

Cut(n) ==
    /\ OnTheMove /\ n < Len(wire)
    /\ wire' = SubSeq(wire, 1, n)
    /\ event' = [Nothing EXCEPT !.what = "cut"]
    /\ UNCHANGED <<stage, kind, sent, got>>

GeneratedReads ==
    /\ stage = "written"
    /\ got' = UnmarshalVT(kind, wire, Empty(kind))
    /\ stage' = "read"
    /\ UNCHANGED <<kind, sent, wire, event>>

\* A stored record is loaded, and saved again.
GeneratedRewrites ==
    /\ stage = "read" /\ ~Failed(got)
    /\ \E r \in {MarshalVT(kind, got.val)} : Write(r, "rewritten")

Next ==
    \/ \E x \in Inputs : Compose(x)
    \/ GeneratedWrites
    \/ ReflectionWrites
    \/ \E a \in Alien : AddAlien(a)
    \/ \E x \in Joinable : Join(x)
    \/ \E n \in 0..(Len(wire) - 1) : Cut(n)
    \/ GeneratedReads
    \/ GeneratedRewrites

Spec == Init /\ [][Next]_vars

------------------------------------------------------------------------------
\* The union of two messages: the later value of a field, both lists, and for a
\* message field the union of the two.
RECURSIVE Merged(_, _, _)
Merged(t, x, y) ==
    LET Both(n) ==
          LET d == Struct[t][n] IN
          CASE d.label = "map" -> y.f[n] \cup {e \in x.f[n] : \A g \in y.f[n] : g.key # e.key}
            [] d.label = "repeated" -> x.f[n] \o y.f[n]
            [] IsMessage(d.type) /\ x.f[n] # <<>> /\ y.f[n] # <<>> ->
                 <<Merged(d.type, x.f[n][1], y.f[n][1])>>
            [] OTHER -> IF y.f[n] = <<>> THEN x.f[n] ELSE y.f[n]
    IN [f |-> [n \in DOMAIN Struct[t] |-> Both(n)], u |-> x.u \o y.u]

Whole == IF event.what = "joined" THEN Merged(kind, sent[1], sent[2]) ELSE sent[1]

(* SizeVT reserves exactly the bytes that are written, by either writer, for
   every message that is not refused: one byte less is a panic, one byte more
   shifts the whole message by a zero byte.                                    *)
SizeIsExact ==
    stage = "written" /\ event = Nothing => SizeVT(kind, sent[1]) = Len(wire)

\* The generated and the reflection codec read every wire alike: the same
\* message, or an error of both, whoever wrote it and whatever happened to it.
ReadersAgree ==
    stage = "read" =>
      \E theirs \in {ProtoUnmarshal(kind, wire)} :
        IF Failed(theirs) THEN Failed(got) ELSE got = theirs

\* A writer refuses a message exactly when a required field is missing in it.
RefusedOnlyIncomplete ==
    /\ stage = "refused" => NotSet(kind, sent[1]) \/ Failed(got)
    /\ stage = "written" => ~NotSet(kind, sent[1])

(* What a writer does not refuse, which is every message that has its required
   fields, is read back by both readers alike and field by field: joined wires as
   the union, the alien field kept aside and not mixed into any other.  Read and
   written again by the generated code, as a stored device record is, it loses
   nothing, not even fields of a newer schema.                                *)
ReadBack ==
    /\ RefusedOnlyIncomplete
    /\ ReadersAgree
    /\ stage = "read" /\ event.what # "cut" => got = Ok([Whole EXCEPT !.u = @ \o event.bytes])
    /\ stage = "rewritten" => UnmarshalVT(kind, wire, Empty(kind)) = got

(* A wire that is cut inside a field is refused: what is accepted of a cut wire
   is a message with whole values only, each one that was sent, and it takes
   as many bytes as were read.                                                *)
CutIsNoticed ==
    stage = "read" /\ event.what = "cut" /\ ~Failed(got) =>
      /\ SizeVT(kind, got.val) = Len(wire)
      /\ \A n \in DOMAIN Struct[kind] :
           IF Struct[kind][n].label = "map" THEN got.val.f[n] \subseteq sent[1].f[n]
           ELSE IsPrefix(got.val.f[n], sent[1].f[n])
==============================================================================
