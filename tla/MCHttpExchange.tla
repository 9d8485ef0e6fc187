--------------------------- MODULE MCHttpExchange ---------------------------
(* Model checking of ClientOptions and of HttpExchange: clients are built, then
   calls are made.  Of its client a call knows the layers of the transport, and the
   calls are checked with every stack of layers that MaxClients clients can have. *)
EXTENDS HttpExchange, ClientOptions

MCStacks == UNION {[1..n -> Layer] : n \in 0..MaxClients}
MCBodies ==
    {Empty, Text, Proto(TRUE, TRUE), Proto(TRUE, FALSE)}
    \cup {Envelope(c, m) : c \in {0, 429, 503, 400}, m \in BOOLEAN}
    \cup {Json(t, life) : t \in BOOLEAN, life \in {NoLife, 0, 3600, 3601}}
    \cup {Lines(e, t, x) : e \in {"none", "BadAuthentication", "ServiceUnavailable", "PHONE_REGISTRATION_ERROR"},
                           t \in BOOLEAN, x \in {"good", "bad"}}

MCInit == OptionsInit /\ ExchangeInit

Building == call.at = "idle" /\ UNCHANGED exchangeVars
Calling  == clients = <<>> /\ building = {} /\ UNCHANGED optionVars
MCNext ==
    \/ Building /\ NewFirebaseClientOnNil
    \/ \E h \in Theirs \cup Used : Building /\ NewFirebaseClientWith(h)
    \/ \E h \in Theirs \cup Used : Building /\ WithHTTPClient(h)
    \/ Building /\ WithTimeout
    \/ \E l \in Logger : Building /\ WithLogger(l)
    \/ \E on \in BOOLEAN : Building /\ WithLogBodies(on)
    \/ Building /\ WireLogging
    \/ \E captures \in Capturing, op \in Calls : Calling /\ Call(op, captures)
    \/ \E captures \in Capturing, who \in Accounts, email, secret \in Accounts \cup {None} :
         Calling /\ {email, secret} \subseteq {None, who} /\ Auth(captures, email, secret)
    \/ \E captures \in Capturing, who \in Accounts, email, secret \in Accounts \cup {None} :
         Calling /\ {email, secret} \subseteq {None, who} /\ AuthAgain(captures, email, secret)
    \/ Calling /\ NotBuilt
    \/ Calling /\ RoundTrip
    \/ Calling /\ Redirected
    \/ Calling /\ DoFails
    \/ \E a \in Answers : Calling /\ Answered(a)
    \/ Calling /\ Save
    \/ Calling /\ Load
    \/ \E t \in Later : Calling /\ Wait(t)

MCSpec == MCInit /\ [][MCNext]_<<optionVars, exchangeVars>>
=============================================================================
