---------------------------- MODULE ClientOptions ----------------------------
(* Which http.Client a FireBaseClient makes its calls with: NewFirebaseClient
   and its options (src/client/client.go, src/client/logging.go).

   An http.Client is its timeout, the layers of LoggingTransport around its own
   transport, outermost first, and whether the library made it ("ours": by
   NewFirebaseClient for a nil client, or copied from such a one).            *)
EXTENDS Integers, Sequences

CONSTANTS
    Callers,    \* how many http.Clients the application has
    MaxClients  \* bound of the model: FireBaseClients built

ASSUME OptionsAssumption == Callers \in Nat /\ MaxClients \in Nat

VARIABLES
    http,       \* the http.Clients
    building,   \* the FireBaseClients NewFirebaseClient is at: one or none
    clients,    \* the http.Clients of the FireBaseClients built
    lent        \* given by WithHTTPClient to one that was built on nil
optionVars == <<http, building, clients, lent>>

Theirs  == {<<"theirs", i>> : i \in 1..Callers}
Own(n)  == <<"own", n>>     \* made by the n-th NewFirebaseClient
Copy(n) == <<"copy", n>>    \* copied by it to log
Ours    == {Own(n) : n \in 1..MaxClients} \cup {Copy(n) : n \in 1..MaxClients}
Used    == {clients[i] : i \in DOMAIN clients}
Layer   == [enabled : BOOLEAN, bodies : BOOLEAN]
Logger  == {"nil", "info", "debug"}

Number  == Len(clients) + 1

\* NewFirebaseClient begins: given an http.Client, or nil (none).
NewFirebaseClientWith(h) ==
    /\ building = {} /\ Number <= MaxClients
    /\ building' = {[Client |-> h, ownsClient |-> FALSE, logger |-> "nil", bodies |-> FALSE]}
    /\ UNCHANGED <<http, clients, lent>>

NewFirebaseClientOnNil ==
    /\ building = {} /\ Number <= MaxClients
    /\ building' = {[Client |-> Own(Number), ownsClient |-> TRUE, logger |-> "nil", bodies |-> FALSE]}
    /\ http' = [http EXCEPT ![Own(Number)] = [timeout |-> "default", transport |-> <<>>, owner |-> "ours"]]
    /\ UNCHANGED <<clients, lent>>

\* The options, applied in the order the application gives them.
WithHTTPClient(h) ==
    \E b \in building :
      /\ building' = {[b EXCEPT !.Client = h]}
      /\ lent' = IF b.ownsClient THEN lent \cup {h} ELSE lent
      /\ UNCHANGED <<http, clients>>

WithTimeout ==
    \E b \in building :
      /\ b.ownsClient
      /\ http' = [http EXCEPT ![b.Client].timeout = "set"]
      /\ UNCHANGED <<building, clients, lent>>

WithLogger(l) ==
    \E b \in building :
      /\ building' = {[b EXCEPT !.logger = l]}
      /\ UNCHANGED <<http, clients, lent>>

WithLogBodies(on) ==
    \E b \in building :
      /\ building' = {[b EXCEPT !.bodies = on]}
      /\ UNCHANGED <<http, clients, lent>>

\* The end of NewFirebaseClient: with a logger, on a copy of the http.Client.
Logged(b, h) == [h EXCEPT !.transport = <<[enabled |-> b.logger = "debug", bodies |-> b.bodies]>> \o @]

WireLoggingInPlace == \* mutant: the http.Client itself is given the new transport
    \E b \in building :
      /\ building' = {}
      /\ clients' = Append(clients, b.Client)
      /\ http' = IF b.logger = "nil" THEN http
                 ELSE [http EXCEPT ![b.Client] = Logged(b, @)]
      /\ UNCHANGED lent

WireLogging ==
    \E b \in building :
      /\ building' = {}
      /\ clients' = Append(clients, IF b.logger = "nil" THEN b.Client ELSE Copy(Number))
      /\ http' = IF b.logger = "nil" THEN http
                 ELSE [http EXCEPT ![Copy(Number)] = Logged(b, http[b.Client])]
      /\ UNCHANGED lent

OptionsInit ==
    /\ http = [h \in Theirs \cup Ours |-> [timeout |-> "original", transport |-> <<>>, owner |-> "theirs"]]
    /\ building = {} /\ clients = <<>> /\ lent = {}

OptionsNext ==
    \/ NewFirebaseClientOnNil
    \/ \E h \in Theirs \cup Used : NewFirebaseClientWith(h)
    \/ \E h \in Theirs \cup Used : WithHTTPClient(h)
    \/ WithTimeout
    \/ \E l \in Logger : WithLogger(l)
    \/ \E on \in BOOLEAN : WithLogBodies(on)
    \/ WireLogging

OptionsSpec == OptionsInit /\ [][OptionsNext]_optionVars

------------------------------------------------------------------------------
OptionsTypeOK ==
    /\ http \in [Theirs \cup Ours -> [timeout : {"original", "default", "set"},
                                      transport : Seq(Layer), owner : {"theirs", "ours"}]]
    /\ building \in SUBSET [Client : Theirs \cup Ours, ownsClient : BOOLEAN,
                            logger : Logger, bodies : BOOLEAN]
    /\ clients \in Seq(Theirs \cup Ours) /\ Len(clients) <= MaxClients
    /\ lent \subseteq Theirs \cup Ours

(* "we never mutate something we do not own" (client.go:51-52), "The caller's
   client is copied rather than modified" (client.go:87-88): after any number of
   clients with any options in any order, an http.Client of the application has
   the transport it had, and the timeout it had unless WithHTTPClient gave it to
   a client built on nil, which still counts it as its own (client.go:46).      *)
CallersClientKept ==
    \A h \in Theirs :
      /\ http[h].transport = <<>>
      /\ http[h].timeout = "original" \/ h \in lent

(* "a hung Google endpoint would hang the caller forever" (client.go:67): an
   http.Client the library made, also when it was copied to log through it or
   handed to another FireBaseClient, never runs without a timeout.             *)
OursHasTimeout ==
    \A i \in DOMAIN clients :
      http[clients[i]].owner = "ours" => http[clients[i]].timeout # "original"
==============================================================================
