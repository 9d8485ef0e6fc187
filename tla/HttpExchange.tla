----------------------------- MODULE HttpExchange -----------------------------
(* The calls of a FireBaseClient as exchanges over HTTP: what LoggingTransport
   does to a round trip (src/client/logging.go), what a call makes of the answer
   (src/api/api_in.go, src/api/errors.go), and the expiry of the tokens it gets,
   through the JSON an application keeps them in (src/api/structs.go).

   The calls of one client share nothing but the device, which Registration
   models: here they follow one another.  A body is what its parser can tell
   apart.  Time is in seconds.                                                *)
EXTENDS Integers, Sequences

CONSTANTS
    Stacks,     \* the layers of LoggingTransport a client may have, see ClientOptions
    MaxHops,    \* bound of the model: redirects of a request, plus one
    Accounts,   \* who logs in
    None,       \* the empty string, for nobody
    Statuses,   \* of an answer
    Bodies,     \* of an answer, see below
    Start,      \* the time of a call, a Unix time
    Later       \* the times after it at which a token is saved or loaded

ASSUME ExchangeAssumption ==
    /\ MaxHops \in Nat \ {0}
    /\ Statuses \subseteq 100..599
    /\ Start \in Nat /\ Start > 3600 /\ Later \subseteq Nat
    /\ None \notin Accounts

VARIABLES
    form,       \* url.Values the application keeps for its Auth calls, and how it used them
    call,       \* the call: where it is and what it knows
    heard,      \* the request bodies the server has got for it
    token,      \* the token it got: {} or what it says and what the server said
    stored,     \* the token as JSON: {} or the number of seconds in it
    now
exchangeVars == <<form, call, heard, token, stored, now>>

------------------------------------------------------------------------------
(* The bodies of answers, and what the parsers make of them. *)

Empty          == [is |-> "empty"]
Text           == [is |-> "text"]             \* neither JSON nor key=value lines
Envelope(c, m) == [is |-> "envelope", code |-> c, message |-> m]
Json(t, life)  == [is |-> "json", token |-> t, life |-> life]
Lines(e, t, x) == [is |-> "lines", error |-> e, token |-> t, expiry |-> x]
Proto(id, sec) == [is |-> "proto", id |-> id, secret |-> sec]
NoLife         == -1                          \* no expiresIn in the JSON

\* A lifetime is less than the time since 1970.
ASSUME BodiesAssumption ==
    \A b \in Bodies :
      /\ b.is = "envelope" => b.code \in Int
      /\ b.is = "json" => b.token \in BOOLEAN /\ (b.life = NoLife \/ b.life \in 0..(Start - 1))
      /\ b.is = "lines" => b.error \in STRING /\ b.token \in BOOLEAN

JsonCalls  == {"NotifyInstallation", "VerifyPassword", "SignUpNewUser",
               "SetAccountInfo", "RefreshSecureToken"}
TokenCalls == {"VerifyPassword", "SignUpNewUser", "RefreshSecureToken"}
Calls      == JsonCalls \cup {"Auth", "Checkin", "C2DMRegister"}

Ok(t, life)       == [err |-> "nil", token |-> t, life |-> life]
Error(type, code) == [err |-> type, code |-> code]
Refusal(type, reason) == [err |-> type, reason |-> reason]
Plain             == Error("error", 0)
ErrEmptyResponse  == Error("ErrEmptyResponse", 0)
Failed(r)         == r.err # "nil"

parseGoogleAPIError(b) == b.is = "envelope" /\ (b.code # 0 \/ b.message)

\* readBodyExpecting(resp, 200) of a body that could be read.
Unexpected(a) ==
    IF parseGoogleAPIError(a.body) THEN Error("GoogleAPIError", a.body.code)
                                   ELSE Error("HTTPError", a.status)

\* json.Unmarshal leaves alone what the body does not have.
decodeJSON(op, t, life) ==
    CASE op = "NotifyInstallation" -> IF t /\ life # NoLife THEN Ok(t, life) ELSE Plain
      [] op \in {"VerifyPassword", "SignUpNewUser"} -> IF life = NoLife THEN Plain ELSE Ok(t, life)
      [] op = "RefreshSecureToken" -> Ok(t, IF life = NoLife THEN 0 ELSE life)
      [] op = "SetAccountInfo" -> Ok(t, NoLife)

JsonResult(op, a) ==
    CASE a.status # 200        -> Unexpected(a)
      [] a.status = 200 /\ a.body.is = "empty"    -> ErrEmptyResponse
      [] a.status = 200 /\ a.body.is = "json"     -> decodeJSON(op, a.body.token, a.body.life)
      [] a.status = 200 /\ a.body.is = "envelope" -> decodeJSON(op, FALSE, NoLife)
      [] OTHER -> Plain

\* ParseAuthResponse and ParseAndroidRegisterResponse: a body without lines.
NoLines(a) == IF a.status # 200 THEN Plain ELSE ErrEmptyResponse

AuthResult(a) ==
    CASE a.body.is # "lines" -> NoLines(a)
      [] a.body.is = "lines" /\ a.body.error # "none" -> Refusal("AuthError", a.body.error)
      [] OTHER -> IF a.body.token /\ a.body.expiry # "bad" THEN Ok(TRUE, NoLife) ELSE Plain

AndroidRegisterResultByToken(a) == \* mutant: a token is looked for first
    CASE a.body.is # "lines" -> NoLines(a)
      [] a.body.is = "lines" /\ a.body.token -> Ok(TRUE, NoLife)
      [] OTHER -> Refusal("RegisterError", a.body.error)

AndroidRegisterResult(a) ==
    CASE a.body.is # "lines" -> NoLines(a)
      [] a.body.is = "lines" /\ a.body.error # "none" -> Refusal("RegisterError", a.body.error)
      [] OTHER -> IF a.body.token THEN Ok(TRUE, NoLife) ELSE Plain

CheckinResult(a) ==
    CASE a.status # 200 -> Unexpected(a)
      [] a.status = 200 /\ a.body.is = "empty" -> ErrEmptyResponse
      [] a.status = 200 /\ a.body.is = "proto" -> IF a.body.id /\ a.body.secret THEN Ok(TRUE, NoLife) ELSE Plain
      [] OTHER -> Plain

\* Of a body that breaks half way, readBody gives an error and nothing else.
Result(op, a) ==
    CASE a.breaks -> Plain
      [] ~a.breaks /\ op \in JsonCalls -> JsonResult(op, a)
      [] ~a.breaks /\ op = "Auth" -> AuthResult(a)
      [] ~a.breaks /\ op = "C2DMRegister" -> AndroidRegisterResult(a)
      [] ~a.breaks /\ op = "Checkin" -> CheckinResult(a)

IsRetryableServer(r) == \* mutant: of an envelope only the server's own errors count
    \/ r.err = "HTTPError" /\ r.code \in {429, 408, 500, 502, 503, 504}
    \/ r.err = "GoogleAPIError" /\ r.code >= 500

IsRetryable(r) ==
    \/ r.err = "HTTPError" /\ r.code \in {429, 408, 500, 502, 503, 504}
    \/ r.err = "GoogleAPIError" /\ (r.code = 429 \/ r.code >= 500)
    \/ r.err = "AuthError" /\ r.reason \in {"ServiceUnavailable", "Timeout"}
    \/ r.err = "RegisterError" /\ r.reason \in {"PHONE_REGISTRATION_ERROR", "SERVICE_NOT_AVAILABLE",
                                               "INTERNAL_SERVER_ERROR", "AUTHENTICATION_FAILED"}

------------------------------------------------------------------------------
(* LoggingTransport.RoundTrip, of the layers around a transport together. *)

Captures(layers) == \E i \in DOMAIN layers : layers[i].enabled /\ layers[i].bodies
Capturing == {Captures(layers) : layers \in Stacks}

captureRequestBodyOnce(req, captures) == \* mutant: GetBody returns the one reader
    IF captures THEN [body |-> req.body, GetBody |-> "drained"] ELSE req

\* captureRequestBody reads the body and puts readers of its bytes in its place.
captureRequestBody(req, captures) ==
    IF captures THEN [body |-> req.body, GetBody |-> req.body] ELSE req

captureResponseBodyEmptied(a, captures) == \* mutant: the body is not put back
    IF captures THEN [a EXCEPT !.body = Empty, !.breaks = FALSE] ELSE a

\* captureResponseBody: of a body that breaks an empty one is left.
captureResponseBody(a, captures) ==
    IF captures /\ a.breaks THEN [a EXCEPT !.body = Empty, !.breaks = FALSE] ELSE a

Whole == [body |-> "whole", GetBody |-> "whole"]

\* A call begins: its request is built, for Auth with who logs in.
Begin(op, captures, fields) ==
    /\ call.at \in {"idle", "done"}
    /\ call' = [at |-> "built", op |-> op, captures |-> captures, fields |-> fields, request |-> Whole]
    /\ heard' = <<>> /\ token' = {} /\ stored' = {} /\ now' = Start

NoFields == [Email |-> None, Token |-> None]

Call(op, captures) == op # "Auth" /\ Begin(op, captures, NoFields) /\ UNCHANGED form

\* The url.Values of Auth keep what the call puts in.
Fill(old, new) == IF new # None THEN new ELSE old
AuthFilledOnce(f, email, secret) == \* mutant: an Email that is there is kept
    [Email |-> Fill(email, f.Email), Token |-> Fill(f.Token, secret)]
AuthFilled(f, email, secret) == [Email |-> Fill(f.Email, email), Token |-> Fill(f.Token, secret)]

Auth(captures, email, secret) ==
    Begin("Auth", captures, AuthFilled(NoFields, email, secret)) /\ UNCHANGED form

\* With the url.Values of earlier calls.  alone is history: one of the two was
\* given without the other since both were.
AuthAgain(captures, email, secret) ==
    \E filled \in {AuthFilled(form.fields, email, secret)} :
      /\ Begin("Auth", captures, filled)
      /\ form' = [fields |-> filled,
                  alone  |-> None \in {email, secret} /\ (email # secret \/ form.alone)]

Returned(result, answers) ==
    [at |-> "done", op |-> call.op, captures |-> call.captures, fields |-> call.fields,
     answers |-> answers, result |-> result]

\* The request builder refuses its arguments, or the device.
NotBuilt ==
    /\ call.at = "built" /\ heard = <<>>
    /\ call' = Returned(Plain, {})
    /\ UNCHANGED <<form, heard, token, stored, now>>

\* Every RoundTrip sends the body the request has at that time.
RoundTrip ==
    /\ call.at = "built"
    /\ \E req \in {captureRequestBody(call.request, call.captures)} :
         /\ heard' = Append(heard, req.body)
         /\ call' = [call EXCEPT !.at = "sent", !.request = [req EXCEPT !.body = "drained"]]
    /\ UNCHANGED <<form, token, stored, now>>

\* http.Client follows a redirect that keeps the method: the body once more.
Redirected ==
    /\ call.at = "sent" /\ Len(heard) < MaxHops
    /\ call' = [call EXCEPT !.at = "built", !.request.body = call.request.GetBody]
    /\ UNCHANGED <<form, heard, token, stored, now>>

\* No answer: refused, reset, timed out or cancelled.
DoFails ==
    /\ call.at = "sent"
    /\ call' = Returned(Plain, {})
    /\ UNCHANGED <<form, heard, token, stored, now>>

ExpiresAtLeast(seconds, at) == \* mutant: a lifetime of an hour is taken for a time
    IF seconds >= 3600 THEN seconds ELSE at + seconds

\* UnmarshalJSON of a number of seconds: a time that was stored, or a lifetime.
Expires(seconds, at) == IF seconds > 3600 THEN seconds ELSE at + seconds

\* The answer of the server, whose body may break half way, and its parser.
Answered(a) ==
    /\ call.at = "sent"
    /\ \E r \in {Result(call.op, captureResponseBody(a, call.captures))} :
         /\ call' = Returned(r, {a})
         /\ token' = IF call.op \in TokenCalls /\ ~Failed(r)
                     THEN {[Expires |-> Expires(r.life, now), life |-> r.life]} ELSE {}
    /\ UNCHANGED <<form, heard, stored, now>>

------------------------------------------------------------------------------
(* The application keeps the token. *)

\* MarshalJSON: Expires.Unix().
Save ==
    /\ call.at = "done" /\ token # {}
    /\ stored' = {t.Expires : t \in token}
    /\ UNCHANGED <<form, call, heard, token, now>>

\* UnmarshalJSON.
Load ==
    /\ call.at = "done" /\ stored # {}
    /\ token' = {[t EXCEPT !.Expires = Expires(s, now)] : t \in token, s \in stored}
    /\ UNCHANGED <<form, call, heard, stored, now>>

Wait(t) ==
    /\ call.at = "done" /\ token # {}
    /\ Start + t > now
    /\ now' = Start + t
    /\ UNCHANGED <<form, call, heard, token, stored>>

ExchangeInit ==
    /\ form = [fields |-> NoFields, alone |-> FALSE]
    /\ call = [at |-> "idle"] /\ heard = <<>>
    /\ token = {} /\ stored = {} /\ now = Start

Answers == [status : Statuses, body : Bodies, breaks : BOOLEAN]

ExchangeNext ==
    \/ \E captures \in Capturing, op \in Calls : Call(op, captures)
    \/ \E captures \in Capturing, who \in Accounts :
         \E email, secret \in {None, who} :
           Auth(captures, email, secret) \/ AuthAgain(captures, email, secret)
    \/ NotBuilt
    \/ RoundTrip
    \/ Redirected
    \/ DoFails
    \/ \E a \in Answers : Answered(a)
    \/ Save
    \/ Load
    \/ \E t \in Later : Wait(t)

ExchangeSpec == ExchangeInit /\ [][ExchangeNext]_exchangeVars

------------------------------------------------------------------------------
Results ==
    [err : {"nil"}, token : BOOLEAN, life : Int]
    \cup [err : {"error", "ErrEmptyResponse", "HTTPError", "GoogleAPIError"}, code : Int]
    \cup [err : {"AuthError", "RegisterError"}, reason : STRING]
Fields == [Email : Accounts \cup {None}, Token : Accounts \cup {None}]

ExchangeTypeOK ==
    /\ form \in [fields : Fields, alone : BOOLEAN]
    /\ call.at \in {"idle", "built", "sent", "done"}
    /\ call.at # "idle" => call.op \in Calls /\ call.fields \in Fields
    /\ call.at = "done" => call.result \in Results /\ call.answers \subseteq Answers
    /\ Len(heard) <= MaxHops
    /\ token \subseteq [Expires : Int, life : Int]
    /\ stored \subseteq Int /\ (stored # {} => token # {})
    /\ now \in Nat /\ now >= Start

(* However often a request is sent, through whatever transports, the server gets
   the body that was built (captureRequestBody "puts it back so the request can
   still be sent", logging.go:218-219).                                         *)
ServerSeesWholeRequest == \A i \in DOMAIN heard : heard[i] = "whole"

(* Logging does not change what a call returns (captureResponseBody "replaces it
   so the caller still receives it", logging.go:236-237).  Of a body that breaks
   half way that is only that the call fails: with bodies logged the error is
   another one, because the reader is replaced by an empty one (logging.go:246). *)
LoggingIsTransparent ==
    call.at = "done" =>
      \A a \in call.answers :
        IF a.breaks THEN Failed(call.result) ELSE call.result = Result(call.op, a)

(* A refusal is never taken for a success, although register3 and auth refuse
   with HTTP 200 (api_in.go:209-211, 278-281): a success is a whole body, of the
   calls that answer in JSON or protobuf with status 200, of the others without
   an Error line; and it has the token or the credentials the caller stores.     *)
SuccessIsReal ==
    call.at = "done" /\ ~Failed(call.result) =>
      \E a \in call.answers :
        /\ ~a.breaks
        /\ call.op \in JsonCalls \cup {"Checkin"} => a.status = 200
        /\ call.op \in {"Auth", "C2DMRegister"} => a.body.is = "lines" /\ a.body.error = "none"
        /\ call.op \in {"Auth", "C2DMRegister", "NotifyInstallation", "Checkin"} => call.result.token

(* "429s, 5xx" are worth another attempt (README.md:197-198) and refusals are
   not, whether the error came as an envelope or as a bare status, for the calls
   that look at the status and servers whose envelope repeats it.  501 and 505
   are outside: HTTPError and GoogleAPIError disagree about them (errors.go:72,
   180).                                                                        *)
RetryableFollowsStatus ==
    call.at = "done" /\ call.op \in JsonCalls \cup {"Checkin"} =>
      \A a \in call.answers :
        ~a.breaks /\ (a.body.is = "envelope" => a.body.code = a.status) =>
          /\ a.status \in {429, 500, 502, 503, 504} => IsRetryable(call.result)
          /\ a.status \in {200, 400, 401, 403, 404} => ~IsRetryable(call.result)

(* A login pairs the name of one account with the secret of another only with
   url.Values that are used again and into which one of the two was given alone
   since both were: Auth writes nothing where it is given nothing (client.go:
   311-316), so the other half stays, also in calls that give neither.  New
   url.Values, or both arguments each time, never pair two accounts.           *)
CredentialsBelongTogether ==
    call.at # "idle" =>
      \/ call.fields.Email = call.fields.Token
      \/ None \in {call.fields.Email, call.fields.Token}
      \/ form.alone /\ call.fields = form.fields

(* A token expires when the server said, however often and whenever it is saved
   and loaded: the rule that tells a time from a lifetime (structs.go:138) never
   takes one for the other.  A lifetime above an hour is the exception: it is
   taken for a time in 1970, so that the token is never used too long.          *)
TokenKeepsItsTime ==
    \A t \in token :
      IF t.life <= 3600 THEN t.Expires = Start + t.life ELSE t.Expires < Start
==============================================================================
