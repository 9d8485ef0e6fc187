-------------------------- MODULE ClientOptionsProofs --------------------------
(* Proofs about ClientOptions, for any number of http.Clients of the application,
   any number of FireBaseClients and any options in any order.

   That the application's http.Clients are kept needs to know where a client that
   is being built may write: a copy, a client of its own, or one that was lent to
   it.  That is OnlyLent.                                                     *)
EXTENDS ClientOptions, TLAPS

Http    == [timeout : {"original", "default", "set"}, transport : Seq(Layer), owner : {"theirs", "ours"}]
Builder == [Client : Theirs \cup Ours, ownsClient : BOOLEAN, logger : Logger, bodies : BOOLEAN]

\* A client is only being built while there is room for it.
RoomToBuild == building # {} => Len(clients) < MaxClients

\* A client that may set the timeout of an http.Client of the application was lent it.
OnlyLent == \A b \in building : b.ownsClient /\ b.Client \in Theirs => b.Client \in lent

\* An http.Client made by the library has a timeout, in use or not.
MadeWithTimeout == \A h \in Theirs \cup Ours : http[h].owner = "ours" => http[h].timeout # "original"

OptionsInv == OptionsTypeOK /\ RoomToBuild /\ OnlyLent /\ CallersClientKept /\ MadeWithTimeout

------------------------------------------------------------------------------
\* A name the library makes up is none of the application's.
LEMMA OwnIsOurs ==
    ASSUME NEW n \in 1..MaxClients
    PROVE  /\ Own(n) \in Ours /\ Own(n) \notin Theirs
           /\ Copy(n) \in Ours /\ Copy(n) \notin Theirs
  BY DEF Own, Copy, Ours, Theirs

\* The next number is within the bound.
LEMMA NumberInBound ==
    ASSUME OptionsTypeOK, Number <= MaxClients
    PROVE  Number \in 1..MaxClients
  BY OptionsAssumption DEF OptionsTypeOK, Number, OptionsAssumption

\* The http.Clients in use have names.
LEMMA UsedAreNamed ==
    ASSUME OptionsTypeOK
    PROVE  Used \subseteq Theirs \cup Ours
  BY DEF OptionsTypeOK, Used

\* Logging adds one layer and changes nothing else.
LEMMA LoggedIsHttp ==
    ASSUME NEW h \in Http, NEW b \in Builder
    PROVE  /\ Logged(b, h) \in Http
           /\ Logged(b, h).timeout = h.timeout /\ Logged(b, h).owner = h.owner
<1> DEFINE layer == [enabled |-> b.logger = "debug", bodies |-> b.bodies]
<1>1. layer \in Layer
  BY DEF Layer, Builder
<1>2. <<layer>> \o h.transport \in Seq(Layer)
  BY <1>1 DEF Http
<1> QED BY <1>2 DEF Logged, Http

LEMMA OptionsInitially == OptionsInit => OptionsInv
<1> SUFFICES ASSUME OptionsInit PROVE OptionsInv
  OBVIOUS
<1> DEFINE fresh == [timeout |-> "original", transport |-> <<>>, owner |-> "theirs"]
<1>1. fresh \in Http
  BY DEF Http
<1>2. \A h \in Theirs \cup Ours : http[h] = fresh
  BY DEF OptionsInit
<1>3. http \in [Theirs \cup Ours -> Http]
  BY <1>1 DEF OptionsInit
<1>4. OptionsTypeOK
  BY <1>3, OptionsAssumption DEF OptionsInit, OptionsTypeOK, Http, OptionsAssumption
<1>5. RoomToBuild /\ OnlyLent
  BY DEF OptionsInit, RoomToBuild, OnlyLent
<1>6. CallersClientKept /\ MadeWithTimeout
  BY <1>2 DEF CallersClientKept, MadeWithTimeout
<1> QED BY <1>4, <1>5, <1>6 DEF OptionsInv

------------------------------------------------------------------------------
LEMMA BeginWithKeeps ==
    ASSUME OptionsInv, NEW h \in Theirs \cup Used, NewFirebaseClientWith(h)
    PROVE  OptionsInv'
<1> h \in Theirs \cup Ours
  BY UsedAreNamed DEF OptionsInv
<1>1. OptionsTypeOK'
  BY DEF OptionsInv, OptionsTypeOK, NewFirebaseClientWith, Logger
<1>2. RoomToBuild'
  BY OptionsAssumption DEF OptionsInv, OptionsTypeOK, NewFirebaseClientWith, RoomToBuild, Number, OptionsAssumption
<1>3. OnlyLent'
  BY DEF OptionsInv, NewFirebaseClientWith, OnlyLent
<1>4. CallersClientKept' /\ MadeWithTimeout'
  BY DEF OptionsInv, NewFirebaseClientWith, CallersClientKept, MadeWithTimeout
<1> QED BY <1>1, <1>2, <1>3, <1>4 DEF OptionsInv

LEMMA BeginOnNilKeeps ==
    ASSUME OptionsInv, NewFirebaseClientOnNil
    PROVE  OptionsInv'
<1> DEFINE fresh == [timeout |-> "default", transport |-> <<>>, owner |-> "ours"]
<1> Number \in 1..MaxClients /\ Own(Number) \in Ours /\ Own(Number) \notin Theirs
  BY NumberInBound, OwnIsOurs DEF OptionsInv, NewFirebaseClientOnNil
<1>1. http' \in [Theirs \cup Ours -> Http]
  BY DEF OptionsInv, OptionsTypeOK, NewFirebaseClientOnNil, Http
<1>2. OptionsTypeOK'
  BY <1>1 DEF OptionsInv, OptionsTypeOK, NewFirebaseClientOnNil, Logger, Http
<1>3. RoomToBuild'
  BY OptionsAssumption DEF OptionsInv, OptionsTypeOK, NewFirebaseClientOnNil, RoomToBuild, Number, OptionsAssumption
<1>4. OnlyLent'
  BY DEF NewFirebaseClientOnNil, OnlyLent
<1>5. CallersClientKept'
  BY DEF OptionsInv, OptionsTypeOK, NewFirebaseClientOnNil, CallersClientKept
<1>6. MadeWithTimeout'
  BY DEF OptionsInv, OptionsTypeOK, NewFirebaseClientOnNil, MadeWithTimeout
<1> QED BY <1>2, <1>3, <1>4, <1>5, <1>6 DEF OptionsInv

LEMMA LendKeeps ==
    ASSUME OptionsInv, NEW h \in Theirs \cup Used, WithHTTPClient(h)
    PROVE  OptionsInv'
<1> h \in Theirs \cup Ours
  BY UsedAreNamed DEF OptionsInv
<1>1. PICK b \in building :
        /\ building' = {[b EXCEPT !.Client = h]}
        /\ lent' = IF b.ownsClient THEN lent \cup {h} ELSE lent
        /\ UNCHANGED <<http, clients>>
  BY DEF WithHTTPClient
<1>2. b \in Builder
  BY DEF OptionsInv, OptionsTypeOK, Builder
<1>3. [b EXCEPT !.Client = h] \in Builder
  BY <1>2 DEF Builder
<1>4. OptionsTypeOK'
  BY <1>1, <1>3 DEF OptionsInv, OptionsTypeOK, Builder
<1>5. RoomToBuild'
  BY <1>1 DEF OptionsInv, RoomToBuild
<1>6. OnlyLent'
  BY <1>1, <1>2 DEF OnlyLent, Builder
<1>7. CallersClientKept' /\ MadeWithTimeout'
  BY <1>1 DEF OptionsInv, CallersClientKept, MadeWithTimeout
<1> QED BY <1>4, <1>5, <1>6, <1>7 DEF OptionsInv

LEMMA TimeoutKeeps ==
    ASSUME OptionsInv, WithTimeout
    PROVE  OptionsInv'
<1>1. PICK b \in building :
        /\ b.ownsClient
        /\ http' = [http EXCEPT ![b.Client].timeout = "set"]
        /\ UNCHANGED <<building, clients, lent>>
  BY DEF WithTimeout
<1>2. b.Client \in Theirs \cup Ours /\ (b.Client \in Theirs => b.Client \in lent)
  BY <1>1 DEF OptionsInv, OptionsTypeOK, OnlyLent
<1>3. OptionsTypeOK'
  BY <1>1, <1>2 DEF OptionsInv, OptionsTypeOK
<1>4. RoomToBuild' /\ OnlyLent'
  BY <1>1 DEF OptionsInv, RoomToBuild, OnlyLent
<1>5. CallersClientKept'
  BY <1>1, <1>2 DEF OptionsInv, OptionsTypeOK, CallersClientKept
<1>6. MadeWithTimeout'
  BY <1>1, <1>2 DEF OptionsInv, OptionsTypeOK, MadeWithTimeout
<1> QED BY <1>3, <1>4, <1>5, <1>6 DEF OptionsInv

LEMMA LogOptionsKeep ==
    ASSUME OptionsInv,
           \/ \E l \in Logger : WithLogger(l)
           \/ \E on \in BOOLEAN : WithLogBodies(on)
    PROVE  OptionsInv'
<1>1. PICK b \in building, c \in Builder :
        /\ c.ownsClient = b.ownsClient /\ c.Client = b.Client
        /\ building' = {c}
        /\ UNCHANGED <<http, clients, lent>>
  <2> building \subseteq Builder
    BY DEF OptionsInv, OptionsTypeOK, Builder
  <2>1. CASE \E l \in Logger : WithLogger(l)
    <3>1. PICK l \in Logger, b \in building :
            building' = {[b EXCEPT !.logger = l]} /\ UNCHANGED <<http, clients, lent>>
      BY <2>1 DEF WithLogger
    <3>2. [b EXCEPT !.logger = l] \in Builder
      BY <3>1 DEF Builder
    <3> QED BY <3>1, <3>2 DEF Builder
  <2>2. CASE \E on \in BOOLEAN : WithLogBodies(on)
    <3>1. PICK on \in BOOLEAN, b \in building :
            building' = {[b EXCEPT !.bodies = on]} /\ UNCHANGED <<http, clients, lent>>
      BY <2>2 DEF WithLogBodies
    <3>2. [b EXCEPT !.bodies = on] \in Builder
      BY <3>1 DEF Builder
    <3> QED BY <3>1, <3>2 DEF Builder
  <2> QED BY <2>1, <2>2
<1>2. OptionsTypeOK'
  BY <1>1 DEF OptionsInv, OptionsTypeOK, Builder
<1>3. RoomToBuild' /\ OnlyLent'
  BY <1>1 DEF OptionsInv, RoomToBuild, OnlyLent
<1>4. CallersClientKept' /\ MadeWithTimeout'
  BY <1>1 DEF OptionsInv, CallersClientKept, MadeWithTimeout
<1> QED BY <1>2, <1>3, <1>4 DEF OptionsInv

LEMMA WiringKeeps ==
    ASSUME OptionsInv, WireLogging
    PROVE  OptionsInv'
<1>1. PICK b \in building :
        /\ building' = {}
        /\ clients' = Append(clients, IF b.logger = "nil" THEN b.Client ELSE Copy(Number))
        /\ http' = IF b.logger = "nil" THEN http
                   ELSE [http EXCEPT ![Copy(Number)] = Logged(b, http[b.Client])]
        /\ UNCHANGED lent
  BY DEF WireLogging
<1>2. b \in Builder /\ b.Client \in Theirs \cup Ours
  BY DEF OptionsInv, OptionsTypeOK, Builder
<1>3. Len(clients) < MaxClients
  BY <1>1 DEF OptionsInv, RoomToBuild
<1>4. Number \in 1..MaxClients /\ Copy(Number) \in Ours /\ Copy(Number) \notin Theirs
  <2>1. Number <= MaxClients
    BY <1>3, OptionsAssumption DEF OptionsInv, OptionsTypeOK, Number, OptionsAssumption
  <2> QED BY <2>1, NumberInBound, OwnIsOurs DEF OptionsInv
<1>5. http \in [Theirs \cup Ours -> Http] /\ http[b.Client] \in Http
  BY <1>2 DEF OptionsInv, OptionsTypeOK, Http
<1>6. /\ Logged(b, http[b.Client]) \in Http
      /\ Logged(b, http[b.Client]).timeout = http[b.Client].timeout
      /\ Logged(b, http[b.Client]).owner = http[b.Client].owner
  BY <1>2, <1>5, LoggedIsHttp
<1>7. http' \in [Theirs \cup Ours -> Http]
  BY <1>1, <1>4, <1>5, <1>6
<1>8. clients' \in Seq(Theirs \cup Ours) /\ Len(clients') <= MaxClients
  BY <1>1, <1>2, <1>3, <1>4, OptionsAssumption DEF OptionsInv, OptionsTypeOK, OptionsAssumption
<1>9. OptionsTypeOK'
  BY <1>1, <1>7, <1>8 DEF OptionsInv, OptionsTypeOK, Http
<1>10. RoomToBuild' /\ OnlyLent'
  BY <1>1 DEF RoomToBuild, OnlyLent
<1>11. \A h \in Theirs : http'[h] = http[h]
  BY <1>1, <1>4, <1>5
<1>12. CallersClientKept'
  BY <1>1, <1>11 DEF OptionsInv, CallersClientKept
<1>13. MadeWithTimeout'
  BY <1>1, <1>2, <1>4, <1>5, <1>6 DEF OptionsInv, MadeWithTimeout
<1> QED BY <1>9, <1>10, <1>12, <1>13 DEF OptionsInv

------------------------------------------------------------------------------
(* OptionsInv is an invariant of clients built with any options. *)
THEOREM OptionsInvariant == OptionsSpec => []OptionsInv
<1>1. OptionsInit => OptionsInv
  BY OptionsInitially
<1>2. OptionsInv /\ [OptionsNext]_optionVars => OptionsInv'
  <2> SUFFICES ASSUME OptionsInv, [OptionsNext]_optionVars PROVE OptionsInv'
    OBVIOUS
  <2>1. CASE NewFirebaseClientOnNil
    BY <2>1, BeginOnNilKeeps
  <2>2. CASE \E h \in Theirs \cup Used : NewFirebaseClientWith(h)
    BY <2>2, BeginWithKeeps
  <2>3. CASE \E h \in Theirs \cup Used : WithHTTPClient(h)
    BY <2>3, LendKeeps
  <2>4. CASE WithTimeout
    BY <2>4, TimeoutKeeps
  <2>5. CASE (\E l \in Logger : WithLogger(l)) \/ (\E on \in BOOLEAN : WithLogBodies(on))
    BY <2>5, LogOptionsKeep
  <2>6. CASE WireLogging
    BY <2>6, WiringKeeps
  <2>7. CASE UNCHANGED optionVars
    BY <2>7 DEF optionVars, OptionsInv, OptionsTypeOK, RoomToBuild, OnlyLent, CallersClientKept, MadeWithTimeout
  <2> QED BY <2>1, <2>2, <2>3, <2>4, <2>5, <2>6, <2>7 DEF OptionsNext
<1> QED BY <1>1, <1>2, PTL DEF OptionsSpec

(* The clients keep their types. *)
THEOREM OptionsTypeCorrect == OptionsSpec => []OptionsTypeOK
<1>1. OptionsInv => OptionsTypeOK
  BY DEF OptionsInv
<1> QED BY <1>1, OptionsInvariant, PTL

(* For any number of clients, built on one another with any options in any order,
   the http.Clients of the application keep their transport, and their timeout
   unless they were lent to a client built on nil (client.go:43-59, 84-97).    *)
THEOREM CallersClientIsKept == OptionsSpec => []CallersClientKept
<1>1. OptionsInv => CallersClientKept
  BY DEF OptionsInv
<1> QED BY <1>1, OptionsInvariant, PTL

(* No FireBaseClient makes its calls through an http.Client of the library that
   has no timeout (client.go:64-68), also not through a copy made to log.       *)
THEOREM TimeoutsAreSet == OptionsSpec => []OursHasTimeout
<1>1. OptionsInv => OursHasTimeout
  BY DEF OptionsInv, OptionsTypeOK, MadeWithTimeout, OursHasTimeout
<1> QED BY <1>1, OptionsInvariant, PTL
================================================================================
