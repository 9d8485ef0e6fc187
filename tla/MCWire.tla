------------------------------- MODULE MCWire -------------------------------
(* Model checking of Wire and of Framing, which share nothing: a behaviour takes
   one message through the codecs, or frames through a connection.           *)
EXTENDS Wire, Messages, Framing

Long == [i \in 1..130 |-> 7]

RECURSIVE Full(_, _)
RECURSIVE Minimal(_)
Sample(ty, c) ==      \* the value number c of a type
    CASE ty \in {"int32", "int64", "uint64"} -> <<1, 300, -1>>[c]
      [] ty = "enum" -> 2
      [] ty = "bool" -> IF c = 1 THEN 1 ELSE 0
      [] ty \in {"fixed32", "fixed64"} -> <<1, -1, 65536>>[c]
      [] ty \in {"string", "bytes"} -> <<<<65>>, <<>>, Long>>[c]
      [] OTHER -> IF c = 1 THEN Minimal(ty) ELSE Full(ty, 1)
Holds(d, c) ==          \* the field d with the value number c
    CASE d.label = "map" -> {[key |-> <<65>>, val |-> <<Sample(d.type, c)>>]}
      [] d.label = "repeated" -> <<Sample(d.type, c), Sample(d.type, 1)>>
      [] d.label = "implicit" -> Present(Sample(d.type, c), d.type)
      [] OTHER -> <<Sample(d.type, c)>>
Minimal(t) ==
    [Empty(t) EXCEPT !.f = Table(DOMAIN @, LAMBDA n :
       IF Struct[t][n].label = "required" THEN Holds(Struct[t][n], 1) ELSE Empty(t).f[n])]
Full(t, c) == [Empty(t) EXCEPT !.f = Table(DOMAIN @, LAMBDA n : Holds(Struct[t][n], c))]

Types == DOMAIN Marshal
MCInputs ==
    UNION {{[type |-> t, m |-> m] : m \in
              {Empty(t), Minimal(t), Full(t, 1), Full(t, 2)}
              \cup {[Minimal(t) EXCEPT !.f[n] = Holds(Struct[t][n], c)] : n \in DOMAIN Struct[t], c \in 1..3}
              \cup {[Full(t, 1) EXCEPT !.f[n] = IF Struct[t][n].label = "map" THEN {} ELSE <<>>] : n \in DOMAIN Struct[t]}}
           : t \in Types}
MCTravelling == {[type |-> t, m |-> Full(t, 1)] : t \in Types}
MCJoinable == {[type |-> t, m |-> Full(t, 2)] : t \in Types \ {"FirebaseAuthentication", "FirebaseInstallationData", "FirebaseDevice"}}
MCAlien == {<<160, 6, 5>>, <<162, 6, 2, 1, 2>>, <<163, 6, 8, 1, 164, 6>>}

Frame(tag, size, length, good) == [tag |-> tag, size |-> size, length |-> length, good |-> good]
Ours(tag, size) == Frame(tag, size, VarInt(size), TRUE)
MCFrames ==
    {Ours(0, 0), Ours(1, 127), Ours(8, 128), Ours(7, 2^25), Ours(7, 2^25 + 1), Ours(8, 2^30),
     Ours(9, 1), Frame(8, 200, VarInt(200), FALSE),
     Frame(8, 5, <<133, 128, 128, 128, 128, 0>>, TRUE),
     Frame(8, 5, <<133, 128, 128, 128, 128, 128, 0>>, TRUE)}

MCInit == Init /\ FrameInit
MCNext ==
    \/ \E x \in Inputs : begun = <<>> /\ ~broken /\ Compose(x) /\ UNCHANGED frameVars
    \/ GeneratedWrites /\ UNCHANGED frameVars
    \/ ReflectionWrites /\ UNCHANGED frameVars
    \/ \E a \in Alien : AddAlien(a) /\ UNCHANGED frameVars
    \/ OnTheMove /\ \E x \in Joinable : Join(x) /\ UNCHANGED frameVars
    \/ OnTheMove /\ \E n \in 0..(Len(wire) - 1) : Cut(n) /\ UNCHANGED frameVars
    \/ GeneratedReads /\ UNCHANGED frameVars
    \/ GeneratedRewrites /\ UNCHANGED frameVars
    \/ \E w \in Writers, f \in Frames : stage = "idle" /\ LockAndBegin(w, f) /\ UNCHANGED vars
    \/ stage = "idle" /\ WritePiece /\ UNCHANGED vars
    \/ stage = "idle" /\ WriteFails /\ UNCHANGED vars
    \/ stage = "idle" /\ Break /\ UNCHANGED vars
    \/ stage = "idle" /\ ReadTag /\ UNCHANGED vars
    \/ stage = "idle" /\ ReadLength /\ UNCHANGED vars
    \/ stage = "idle" /\ ReadBody /\ UNCHANGED vars
    \/ stage = "idle" /\ ReadEOF /\ UNCHANGED vars

MCSpec == MCInit /\ [][MCNext]_<<vars, frameVars>>
==============================================================================
