-------------------------- MODULE HttpExchangeProofs --------------------------
(* Proofs about HttpExchange: for every kind of answer, any number of redirects,
   any stack of logging transports, any accounts and any times.

   The parsers are pure: ResultIsSound says of every answer what its result may
   be.  The rest is an invariant of the call: what is built is whole until it is
   sent and can be had again (CallShape), the fields an application keeps belong
   to one account until it gives one of them alone (FormTogether), and what is
   stored is the time the token has (StoredIsTime).                                                            *)
EXTENDS HttpExchange, TLAPS

\* What a call may be given to parse: an answer, or one whose broken body a
\* logging transport has replaced.
Given == [status : Statuses, body : Bodies \cup {Empty}, breaks : BOOLEAN]

Idle  == {[at |-> "idle"]}
Open  == [at : {"built", "sent"}, op : Calls, captures : BOOLEAN, fields : Fields,
          request : [body : {"whole", "drained"}, GetBody : {"whole"}]]
Done  == [at : {"done"}, op : Calls, captures : BOOLEAN, fields : Fields,
          answers : SUBSET Answers, result : Results]

CallShape ==
    /\ call \in Idle \cup Open \cup Done
    /\ call.at = "built" => call.request.body = "whole"

Together(f) == f.Email = f.Token \/ None \in {f.Email, f.Token}
FormTogether ==
    /\ form \in [fields : Fields, alone : BOOLEAN]
    /\ form.alone \/ form.fields.Email = form.fields.Token
    /\ call.at # "idle" => Together(call.fields) \/ (form.alone /\ call.fields = form.fields)

HeardIsWhole ==
    /\ heard \in Seq({"whole"}) /\ Len(heard) <= MaxHops
    /\ call.at = "built" => Len(heard) < MaxHops

Lifetimes == 0..(Start - 1)
\* The time a token says it expires at, given its lifetime.
Stated(life) == IF life <= 3600 THEN Start + life ELSE life
StoredIsTime ==
    /\ token \subseteq [Expires : Int, life : Lifetimes]
    /\ \A t \in token : t.Expires = Stated(t.life)
    /\ \A t, u \in token : t = u
    /\ stored # {} => \E t \in token : stored = {t.Expires}
    /\ now \in Nat /\ now >= Start
    /\ call.at \in {"built", "sent"} => now = Start /\ token = {} /\ stored = {}
    /\ call.at = "idle" => token = {} /\ stored = {}

\* What a call that is over may say, of the answer it got.
Sound(op, a, r) ==
    /\ r \in Results
    /\ ~Failed(r) =>
         /\ ~a.breaks /\ a.body.is # "empty"
         /\ op \in JsonCalls \cup {"Checkin"} => a.status = 200
         /\ op \in {"Auth", "C2DMRegister"} => a.body.is = "lines" /\ a.body.error = "none"
         /\ op \in {"Auth", "C2DMRegister", "NotifyInstallation", "Checkin"} => r.token
         /\ op \in TokenCalls => r.life \in Lifetimes

Classified(a, r) ==
    (a.body.is = "envelope" => a.body.code = a.status) =>
       /\ a.status \in {429, 500, 502, 503, 504} => IsRetryable(r)
       /\ a.status \in {200, 400, 401, 403, 404} => ~IsRetryable(r)

CallIsSound == SuccessIsReal /\ RetryableFollowsStatus /\ LoggingIsTransparent

ExchangeInv == CallShape /\ FormTogether /\ HeardIsWhole /\ StoredIsTime /\ CallIsSound

------------------------------------------------------------------------------
(* The parsers. *)

LEMMA BodiesGiven ==
    ASSUME NEW a \in Given
    PROVE  /\ a.body.is = "envelope" => a.body.code \in Int
           /\ a.body.is = "json" =>
                a.body.token \in BOOLEAN /\ (a.body.life = NoLife \/ a.body.life \in Lifetimes)
           /\ a.body.is = "lines" => a.body.error \in STRING /\ a.body.token \in BOOLEAN
           /\ a.status \in Int /\ a.breaks \in BOOLEAN
<1>1. a.status \in Statuses /\ a.body \in Bodies \cup {Empty} /\ a.breaks \in BOOLEAN
  BY DEF Given
<1>2. a.status \in Int
  <2>1. Statuses \subseteq 100..599
    BY ExchangeAssumption DEF ExchangeAssumption
  <2>2. a.status \in 100..599
    BY <1>1, <2>1, Zenon
  <2> QED BY <2>2
<1>3. CASE a.body = Empty
  BY <1>1, <1>2, <1>3 DEF Empty
<1>4. CASE a.body \in Bodies
  BY <1>1, <1>2, <1>4, BodiesAssumption DEF Lifetimes, BodiesAssumption
<1> QED BY <1>1, <1>3, <1>4

LEMMA PlainIsSound == \A op, a : Sound(op, a, Plain) /\ Sound(op, a, ErrEmptyResponse)
  BY DEF Sound, Plain, ErrEmptyResponse, Error, Failed, Results

LEMMA UnexpectedIsSound ==
    ASSUME NEW op, NEW a \in Given
    PROVE  Sound(op, a, Unexpected(a)) /\ Failed(Unexpected(a))
  BY BodiesGiven DEF Unexpected, parseGoogleAPIError, Sound, Error, Failed, Results

LEMMA OkIsResult ==
    ASSUME NEW t \in BOOLEAN, NEW life \in Int
    PROVE  Ok(t, life) \in Results /\ ~Failed(Ok(t, life)) /\ Ok(t, life).token = t /\ Ok(t, life).life = life
  BY DEF Ok, Results, Failed

\* Of a whole answer with status 200.
LEMMA DecodeIsSound ==
    ASSUME NEW op \in JsonCalls, NEW a \in Given, ~a.breaks, a.status = 200, a.body.is # "empty",
           NEW t \in BOOLEAN, NEW life \in Lifetimes \cup {NoLife}
    PROVE  Sound(op, a, decodeJSON(op, t, life))
<1> Start \in Nat /\ Start > 3600
  BY ExchangeAssumption DEF ExchangeAssumption
<1> Lifetimes \subseteq Int /\ 0 \in Lifetimes
  BY DEF Lifetimes
<1> NoLife \in Int
  BY DEF NoLife
<1> life \in Int
  OBVIOUS
<1>1. CASE op = "NotifyInstallation"
  BY <1>1, PlainIsSound, OkIsResult DEF decodeJSON, Sound, TokenCalls
<1>2. CASE op \in {"VerifyPassword", "SignUpNewUser"}
  BY <1>2, PlainIsSound, OkIsResult DEF decodeJSON, Sound, TokenCalls
<1>3. CASE op = "RefreshSecureToken"
  BY <1>3, OkIsResult DEF decodeJSON, Sound, TokenCalls
<1>4. CASE op = "SetAccountInfo"
  BY <1>4, OkIsResult DEF decodeJSON, Sound, TokenCalls
<1> QED BY <1>1, <1>2, <1>3, <1>4 DEF JsonCalls

LEMMA JsonIsSound ==
    ASSUME NEW op \in JsonCalls, NEW a \in Given, ~a.breaks
    PROVE  Sound(op, a, JsonResult(op, a))
<1>1. CASE a.status # 200
  BY <1>1, UnexpectedIsSound DEF JsonResult
<1>2. CASE a.status = 200 /\ a.body.is = "empty"
  BY <1>2, PlainIsSound DEF JsonResult
<1>3. CASE a.status = 200 /\ a.body.is = "json"
  BY <1>3, BodiesGiven, DecodeIsSound DEF JsonResult
<1>4. CASE a.status = 200 /\ a.body.is = "envelope"
  <2>1. JsonResult(op, a) = decodeJSON(op, FALSE, NoLife)
    BY <1>4 DEF JsonResult
  <2> QED BY <1>4, <2>1, DecodeIsSound
<1>5. CASE a.status = 200 /\ a.body.is \notin {"empty", "json", "envelope"}
  <2>1. JsonResult(op, a) = Plain
    BY <1>5 DEF JsonResult
  <2> QED BY <2>1, PlainIsSound
<1> QED BY <1>1, <1>2, <1>3, <1>4, <1>5

LEMMA LinesAreSound ==
    ASSUME NEW a \in Given, ~a.breaks
    PROVE  /\ Sound("Auth", a, AuthResult(a))
           /\ Sound("C2DMRegister", a, AndroidRegisterResult(a))
<1> TRUE \in BOOLEAN /\ NoLife \in Int
  BY DEF NoLife
<1> "Auth" \notin JsonCalls \cup {"Checkin"} /\ "C2DMRegister" \notin JsonCalls \cup {"Checkin"}
  BY DEF JsonCalls
<1> "Auth" \notin TokenCalls /\ "C2DMRegister" \notin TokenCalls
  BY DEF TokenCalls
<1>1. CASE a.body.is # "lines"
  <2>1. AuthResult(a) = NoLines(a) /\ AndroidRegisterResult(a) = NoLines(a)
    BY <1>1 DEF AuthResult, AndroidRegisterResult
  <2>2. NoLines(a) \in {Plain, ErrEmptyResponse}
    BY DEF NoLines
  <2> QED BY <2>1, <2>2, PlainIsSound
<1>2. CASE a.body.is = "lines" /\ a.body.error # "none"
  <2>1. a.body.error \in STRING
    BY <1>2, BodiesGiven
  <2>2. \A type \in {"AuthError", "RegisterError"} :
          Refusal(type, a.body.error) \in Results /\ Failed(Refusal(type, a.body.error))
    BY <2>1 DEF Refusal, Results, Failed
  <2> QED BY <1>2, <2>2 DEF AuthResult, AndroidRegisterResult, Sound
<1>3. CASE a.body.is = "lines" /\ a.body.error = "none"
  <2>1. /\ Sound("Auth", a, Ok(TRUE, NoLife))
        /\ Sound("C2DMRegister", a, Ok(TRUE, NoLife))
    BY <1>3, OkIsResult DEF Sound
  <2> QED BY <1>3, <2>1, PlainIsSound DEF AuthResult, AndroidRegisterResult
<1> QED BY <1>1, <1>2, <1>3

LEMMA CheckinIsSound ==
    ASSUME NEW a \in Given, ~a.breaks
    PROVE  Sound("Checkin", a, CheckinResult(a))
<1> "Checkin" \notin TokenCalls /\ NoLife \in Int
  BY DEF TokenCalls, NoLife
<1>1. CASE a.status # 200
  BY <1>1, UnexpectedIsSound DEF CheckinResult
<1>2. CASE a.status = 200 /\ a.body.is = "proto"
  BY <1>2, PlainIsSound, OkIsResult DEF CheckinResult, Sound
<1>3. CASE a.status = 200 /\ a.body.is # "proto"
  BY <1>3, PlainIsSound DEF CheckinResult
<1> QED BY <1>1, <1>2, <1>3

\* What any call makes of any answer is sound.
LEMMA ResultIsSound ==
    ASSUME NEW op \in Calls, NEW a \in Given
    PROVE  Sound(op, a, Result(op, a))
<1>1. CASE a.breaks
  BY <1>1, PlainIsSound DEF Result
<1>2. CASE ~a.breaks /\ op \in JsonCalls
  BY <1>2, JsonIsSound DEF Result, JsonCalls
<1>3. CASE ~a.breaks /\ op = "Auth"
  BY <1>3, LinesAreSound DEF Result, JsonCalls
<1>4. CASE ~a.breaks /\ op = "C2DMRegister"
  BY <1>4, LinesAreSound DEF Result, JsonCalls
<1>5. CASE ~a.breaks /\ op = "Checkin"
  BY <1>5, CheckinIsSound DEF Result, JsonCalls
<1> a.breaks \in BOOLEAN
  BY BodiesGiven
<1> QED BY <1>1, <1>2, <1>3, <1>4, <1>5 DEF Calls

LEMMA UnexpectedIsClassified ==
    ASSUME NEW a \in Given, a.status # 200
    PROVE  Classified(a, Unexpected(a))
<1> USE BodiesGiven
<1>1. CASE parseGoogleAPIError(a.body)
  <2>1. a.body.is = "envelope" /\ Unexpected(a) = Error("GoogleAPIError", a.body.code)
    BY <1>1 DEF Unexpected, parseGoogleAPIError
  <2> QED BY <2>1 DEF Classified, Error, IsRetryable
<1>2. CASE ~parseGoogleAPIError(a.body)
  BY <1>2 DEF Unexpected, Classified, Error, IsRetryable
<1> QED BY <1>1, <1>2

LEMMA ExpectedIsClassified ==
    ASSUME NEW a \in Given, a.status = 200, NEW r, r.err \in {"nil", "error", "ErrEmptyResponse"}
    PROVE  Classified(a, r)
  BY DEF Classified, IsRetryable

\* An error that is worth another attempt is one of a status that is.
LEMMA ResultIsClassified ==
    ASSUME NEW op \in JsonCalls \cup {"Checkin"}, NEW a \in Given, ~a.breaks
    PROVE  Classified(a, Result(op, a))
<1> DEFINE quiet == {"nil", "error", "ErrEmptyResponse"}
<1>1. Plain.err \in quiet /\ ErrEmptyResponse.err \in quiet /\ \A t, life : Ok(t, life).err \in quiet
  BY DEF Plain, ErrEmptyResponse, Error, Ok
<1>2. CASE op \in JsonCalls
  <2>1. Result(op, a) = JsonResult(op, a)
    BY <1>2 DEF Result, JsonCalls
  <2>2. \A t, life : decodeJSON(op, t, life).err \in quiet
    BY <1>1, <1>2 DEF decodeJSON, JsonCalls
  <2>3. CASE a.status # 200
    BY <2>1, <2>3, UnexpectedIsClassified DEF JsonResult
  <2>4. CASE a.status = 200
    <3>1. JsonResult(op, a).err \in quiet
      BY <1>1, <2>2, <2>4 DEF JsonResult
    <3> QED BY <2>1, <2>4, <3>1, ExpectedIsClassified
  <2> QED BY <2>3, <2>4
<1>3. CASE op = "Checkin"
  <2>1. Result(op, a) = CheckinResult(a)
    BY <1>3 DEF Result, JsonCalls
  <2>2. CASE a.status # 200
    BY <2>1, <2>2, UnexpectedIsClassified DEF CheckinResult
  <2>3. CASE a.status = 200
    <3>1. CheckinResult(a).err \in quiet
      BY <1>1, <2>3 DEF CheckinResult
    <3> QED BY <2>1, <2>3, <3>1, ExpectedIsClassified
  <2> QED BY <2>2, <2>3
<1> QED BY <1>2, <1>3

\* What a logging transport hands on, and that no call takes it for a success.
LEMMA CapturedIsGiven ==
    ASSUME NEW a \in Answers, NEW captures \in BOOLEAN
    PROVE  /\ captureResponseBody(a, captures) \in Given
           /\ ~a.breaks => captureResponseBody(a, captures) = a
           /\ a.breaks => \/ captureResponseBody(a, captures).breaks
                          \/ captureResponseBody(a, captures).body.is = "empty"
<1>1. CASE captures /\ a.breaks
  BY <1>1 DEF captureResponseBody, Answers, Given, Empty
<1>2. CASE ~(captures /\ a.breaks)
  BY <1>2 DEF captureResponseBody, Answers, Given
<1> QED BY <1>1, <1>2

LEMMA AnswerIsSound ==
    ASSUME NEW op \in Calls, NEW a \in Answers, NEW captures \in BOOLEAN,
           NEW r, r = Result(op, captureResponseBody(a, captures))
    PROVE  /\ Sound(op, a, r)
           /\ IF a.breaks THEN Failed(r) ELSE r = Result(op, a)
           /\ op \in JsonCalls \cup {"Checkin"} /\ ~a.breaks => Classified(a, r)
<1> DEFINE b == captureResponseBody(a, captures)
<1>1. b \in Given /\ (~a.breaks => b = a) /\ (a.breaks => b.breaks \/ b.body.is = "empty")
  BY CapturedIsGiven
<1> HIDE DEF b
<1>2. Sound(op, b, r)
  BY <1>1, ResultIsSound DEF b
<1>3. CASE ~a.breaks
  BY <1>1, <1>2, <1>3, ResultIsClassified DEF b
<1>4. CASE a.breaks
  <2>1. Failed(r)
    BY <1>1, <1>2, <1>4 DEF Sound
  <2> QED BY <1>2, <1>4, <2>1 DEF Sound
<1> a.breaks \in BOOLEAN
  BY DEF Answers
<1> QED BY <1>3, <1>4

------------------------------------------------------------------------------
(* The invariant. *)

LEMMA CapturingIsBoolean == Capturing \subseteq BOOLEAN
  BY DEF Capturing, Captures

LEMMA NotDoneIsSound == call.at # "done" => CallIsSound
  BY DEF CallIsSound, SuccessIsReal, RetryableFollowsStatus, LoggingIsTransparent

LEMMA ShapeOfCall ==
    ASSUME CallShape
    PROVE  /\ call.at \in {"idle", "built", "sent", "done"}
           /\ call.at = "idle" => call \in Idle
           /\ call.at \in {"built", "sent"} => call \in Open
           /\ call.at = "done" => call \in Done
  BY DEF CallShape, Idle, Open, Done

LEMMA InitHolds == ExchangeInit => ExchangeInv
<1> SUFFICES ASSUME ExchangeInit PROVE ExchangeInv
  OBVIOUS
<1> USE DEF ExchangeInit
<1> Start \in Nat /\ MaxHops \in Nat
  BY ExchangeAssumption DEF ExchangeAssumption
<1>1. CallShape
  BY DEF CallShape, Idle
<1>2. FormTogether
  BY DEF FormTogether, NoFields, Fields
<1>3. HeardIsWhole
  BY DEF HeardIsWhole
<1>4. StoredIsTime
  BY DEF StoredIsTime
<1>5. CallIsSound
  BY NotDoneIsSound
<1> QED BY <1>1, <1>2, <1>3, <1>4, <1>5 DEF ExchangeInv

\* A call that begins, with fields that belong together or are the application's.
LEMMA BeginHolds ==
    ASSUME ExchangeInv, NEW op \in Calls, NEW captures \in BOOLEAN,
           NEW fields \in Fields, Begin(op, captures, fields),
           form' \in [fields : Fields, alone : BOOLEAN],
           form'.alone \/ form'.fields.Email = form'.fields.Token,
           Together(fields) \/ (form'.alone /\ fields = form'.fields)
    PROVE  ExchangeInv'
<1> USE DEF Begin
<1> Start \in Nat /\ MaxHops \in Nat \ {0}
  BY ExchangeAssumption DEF ExchangeAssumption
<1>1. call' \in Open /\ call'.at = "built" /\ call'.request.body = "whole" /\ call'.fields = fields
  BY DEF Open, Whole
<1>2. CallShape'
  BY <1>1 DEF CallShape
<1>3. FormTogether'
  BY <1>1 DEF FormTogether, Together
<1>4. HeardIsWhole'
  BY <1>1 DEF HeardIsWhole
<1>5. StoredIsTime'
  BY <1>1 DEF StoredIsTime
<1>6. CallIsSound'
  BY <1>1 DEF CallIsSound, SuccessIsReal, RetryableFollowsStatus, LoggingIsTransparent
<1> QED BY <1>2, <1>3, <1>4, <1>5, <1>6 DEF ExchangeInv

LEMMA CallHolds ==
    ASSUME ExchangeInv, NEW captures \in Capturing, NEW op \in Calls, Call(op, captures)
    PROVE  ExchangeInv'
<1>1. NoFields \in Fields /\ Together(NoFields)
  BY DEF NoFields, Fields, Together
<1>2. /\ form' \in [fields : Fields, alone : BOOLEAN]
      /\ form'.alone \/ form'.fields.Email = form'.fields.Token
  BY DEF Call, ExchangeInv, FormTogether
<1> QED BY <1>1, <1>2, BeginHolds, CapturingIsBoolean DEF Call

LEMMA AuthHolds ==
    ASSUME ExchangeInv, NEW captures \in Capturing, NEW who \in Accounts,
           NEW email \in {None, who}, NEW secret \in {None, who}, Auth(captures, email, secret)
    PROVE  ExchangeInv'
<1>1. /\ AuthFilled(NoFields, email, secret) \in Fields
      /\ Together(AuthFilled(NoFields, email, secret))
  BY DEF AuthFilled, Fill, NoFields, Fields, Together
<1>2. /\ form' \in [fields : Fields, alone : BOOLEAN]
      /\ form'.alone \/ form'.fields.Email = form'.fields.Token
  BY DEF Auth, ExchangeInv, FormTogether
<1>3. "Auth" \in Calls
  BY DEF Calls
<1> QED BY <1>1, <1>2, <1>3, BeginHolds, CapturingIsBoolean DEF Auth

\* With both arguments the two belong together, with neither they do if they did
\* before, and with one alone that is noted.
LEMMA AuthAgainHolds ==
    ASSUME ExchangeInv, NEW captures \in Capturing, NEW who \in Accounts,
           NEW email \in {None, who}, NEW secret \in {None, who}, AuthAgain(captures, email, secret)
    PROVE  ExchangeInv'
<1> DEFINE filled == AuthFilled(form.fields, email, secret)
           alone  == None \in {email, secret} /\ (email # secret \/ form.alone)
<1>1. who # None
  BY ExchangeAssumption DEF ExchangeAssumption
<1>2. /\ form.fields \in Fields /\ form.alone \in BOOLEAN
      /\ form.alone \/ form.fields.Email = form.fields.Token
  BY DEF ExchangeInv, FormTogether
<1>3. filled \in Fields
  BY <1>2 DEF AuthFilled, Fill, Fields
<1>4. Begin("Auth", captures, filled) /\ form' = [fields |-> filled, alone |-> alone]
  BY DEF AuthAgain
<1>5. alone \/ filled.Email = filled.Token
  <2>1. CASE email = who /\ secret = who
    BY <1>1, <2>1 DEF AuthFilled, Fill
  <2>2. CASE email = None /\ secret = None
    BY <1>2, <2>2 DEF AuthFilled, Fill
  <2>3. CASE email # secret
    BY <2>3
  <2> QED BY <2>1, <2>2, <2>3
<1> HIDE DEF filled
<1>6. form' \in [fields : Fields, alone : BOOLEAN] /\ form'.fields = filled /\ form'.alone = alone
  BY <1>2, <1>3, <1>4
<1>7. /\ form'.alone \/ form'.fields.Email = form'.fields.Token
      /\ Together(filled) \/ (form'.alone /\ filled = form'.fields)
  BY <1>5, <1>6 DEF Together
<1>8. "Auth" \in Calls
  BY DEF Calls
<1> QED BY <1>3, <1>4, <1>6, <1>7, <1>8, BeginHolds, CapturingIsBoolean

\* A call that is over without an answer.
LEMMA FailedHolds ==
    ASSUME ExchangeInv, call.at \in {"built", "sent"}, call' = Returned(Plain, {}),
           UNCHANGED <<form, heard, token, stored, now>>
    PROVE  ExchangeInv'
<1>1. call \in Open
  BY ShapeOfCall DEF ExchangeInv
<1>2. Plain \in Results /\ Failed(Plain)
  BY DEF Plain, Error, Results, Failed
<1>3. /\ call' \in Done /\ call'.at = "done" /\ call'.fields = call.fields
      /\ call'.answers = {} /\ call'.result = Plain
  BY <1>1, <1>2 DEF Returned, Open, Done
<1>4. CallShape'
  BY <1>3 DEF CallShape
<1>5. FormTogether'
  BY <1>1, <1>3 DEF ExchangeInv, FormTogether, Open, Together
<1>6. HeardIsWhole'
  BY <1>3 DEF ExchangeInv, HeardIsWhole
<1>7. StoredIsTime'
  BY <1>3 DEF ExchangeInv, StoredIsTime
<1>8. CallIsSound'
  BY <1>2, <1>3 DEF CallIsSound, SuccessIsReal, RetryableFollowsStatus, LoggingIsTransparent
<1> QED BY <1>4, <1>5, <1>6, <1>7, <1>8 DEF ExchangeInv

LEMMA RoundTripHolds ==
    ASSUME ExchangeInv, RoundTrip
    PROVE  ExchangeInv'
<1> DEFINE req == captureRequestBody(call.request, call.captures)
<1>1. call.at = "built" /\ call \in Open /\ call.request.body = "whole"
  BY ShapeOfCall DEF ExchangeInv, RoundTrip, CallShape
<1>2. req \in [body : {"whole"}, GetBody : {"whole"}]
  BY <1>1 DEF captureRequestBody, Open
<1>3. heard' = Append(heard, req.body) /\ call' = [call EXCEPT !.at = "sent", !.request = [req EXCEPT !.body = "drained"]]
  BY DEF RoundTrip
<1> HIDE DEF req
<1>4. call' \in Open /\ call'.at = "sent" /\ call'.fields = call.fields
  BY <1>1, <1>2, <1>3 DEF Open
<1>5. CallShape'
  BY <1>4 DEF CallShape
<1>6. FormTogether'
  BY <1>1, <1>4 DEF ExchangeInv, FormTogether, Together, RoundTrip
<1>7. HeardIsWhole'
  <2>1. heard \in Seq({"whole"}) /\ Len(heard) < MaxHops /\ MaxHops \in Nat
    BY <1>1, ExchangeAssumption DEF ExchangeInv, HeardIsWhole, ExchangeAssumption
  <2>2. req.body = "whole"
    BY <1>2
  <2>3. heard' \in Seq({"whole"}) /\ Len(heard') = Len(heard) + 1
    BY <1>3, <2>1, <2>2
  <2> QED BY <1>4, <2>1, <2>3 DEF HeardIsWhole
<1>8. StoredIsTime'
  BY <1>1, <1>4 DEF ExchangeInv, StoredIsTime, RoundTrip
<1>9. CallIsSound'
  BY <1>4 DEF CallIsSound, SuccessIsReal, RetryableFollowsStatus, LoggingIsTransparent
<1> QED BY <1>5, <1>6, <1>7, <1>8, <1>9 DEF ExchangeInv

LEMMA RedirectedHolds ==
    ASSUME ExchangeInv, Redirected
    PROVE  ExchangeInv'
<1>1. call.at = "sent" /\ call \in Open
  BY ShapeOfCall DEF ExchangeInv, Redirected
<1>2. call' = [call EXCEPT !.at = "built", !.request.body = call.request.GetBody]
  BY DEF Redirected
<1>3. call' \in Open /\ call'.at = "built" /\ call'.fields = call.fields /\ call'.request.body = "whole"
  BY <1>1, <1>2 DEF Open
<1>4. CallShape'
  BY <1>3 DEF CallShape
<1>5. FormTogether'
  BY <1>1, <1>3 DEF ExchangeInv, FormTogether, Together, Redirected
<1>6. HeardIsWhole'
  BY <1>1, <1>3 DEF ExchangeInv, HeardIsWhole, Redirected
<1>7. StoredIsTime'
  BY <1>1, <1>3 DEF ExchangeInv, StoredIsTime, Redirected
<1>8. CallIsSound'
  BY <1>3 DEF CallIsSound, SuccessIsReal, RetryableFollowsStatus, LoggingIsTransparent
<1> QED BY <1>4, <1>5, <1>6, <1>7, <1>8 DEF ExchangeInv

------------------------------------------------------------------------------
(* Times. *)

LEMMA LifetimeBecomesStated ==
    ASSUME NEW life \in Lifetimes
    PROVE  /\ Stated(life) = Expires(life, Start)
           /\ Stated(life) \in Int
           /\ \A at : Expires(Stated(life), at) = Stated(life)
  BY ExchangeAssumption DEF ExchangeAssumption, Lifetimes, Stated, Expires

LEMMA AnsweredHolds ==
    ASSUME ExchangeInv, NEW a \in Answers, Answered(a)
    PROVE  ExchangeInv'
<1> DEFINE r == Result(call.op, captureResponseBody(a, call.captures))
<1>1. call.at = "sent" /\ call \in Open
  BY ShapeOfCall DEF ExchangeInv, Answered
<1>2. call.op \in Calls /\ call.captures \in BOOLEAN /\ call.fields \in Fields
  BY <1>1 DEF Open
<1>3. /\ Sound(call.op, a, r)
      /\ IF a.breaks THEN Failed(r) ELSE r = Result(call.op, a)
      /\ call.op \in JsonCalls \cup {"Checkin"} /\ ~a.breaks => Classified(a, r)
  BY <1>2, AnswerIsSound
<1>4. /\ call' = Returned(r, {a})
      /\ token' = IF call.op \in TokenCalls /\ ~Failed(r)
                  THEN {[Expires |-> Expires(r.life, now), life |-> r.life]} ELSE {}
      /\ UNCHANGED <<form, heard, stored, now>>
  BY DEF Answered
<1> HIDE DEF r
<1>5. /\ call' \in Done /\ call'.at = "done" /\ call'.fields = call.fields
      /\ call'.op = call.op /\ call'.answers = {a} /\ call'.result = r
  BY <1>2, <1>3, <1>4 DEF Returned, Done, Sound
<1>6. CallShape'
  BY <1>5 DEF CallShape
<1>7. FormTogether'
  BY <1>1, <1>4, <1>5 DEF ExchangeInv, FormTogether, Together
<1>8. HeardIsWhole'
  BY <1>4, <1>5 DEF ExchangeInv, HeardIsWhole
<1>9. StoredIsTime'
  <2>1. now = Start /\ now \in Nat /\ token = {} /\ stored = {}
    BY <1>1 DEF ExchangeInv, StoredIsTime
  <2>2. CASE token' = {}
    BY <1>4, <1>5, <2>1, <2>2 DEF StoredIsTime
  <2>3. CASE token' # {}
    <3>1. r.life \in Lifetimes
      BY <1>3, <1>4, <2>3 DEF Sound
    <3>2. token' = {[Expires |-> Stated(r.life), life |-> r.life]} /\ Stated(r.life) \in Int
      BY <1>4, <2>1, <2>3, <3>1, LifetimeBecomesStated
    <3> QED BY <1>4, <1>5, <2>1, <3>1, <3>2 DEF StoredIsTime
  <2> QED BY <2>2, <2>3
<1>10. CallIsSound'
  <2>1. SuccessIsReal'
    BY <1>3, <1>5 DEF SuccessIsReal, Sound
  <2>2. RetryableFollowsStatus'
    BY <1>3, <1>5 DEF RetryableFollowsStatus, Classified
  <2>3. LoggingIsTransparent'
    BY <1>3, <1>5 DEF LoggingIsTransparent
  <2> QED BY <2>1, <2>2, <2>3 DEF CallIsSound
<1> QED BY <1>6, <1>7, <1>8, <1>9, <1>10 DEF ExchangeInv

\* What the application does with the token leaves the call alone.
LEMMA ApplicationLeavesCall ==
    ASSUME ExchangeInv, UNCHANGED <<form, call, heard>>, StoredIsTime'
    PROVE  ExchangeInv'
<1>1. CallShape' /\ FormTogether' /\ HeardIsWhole'
  BY DEF ExchangeInv, CallShape, FormTogether, Together, HeardIsWhole
<1>2. CallIsSound'
  BY DEF ExchangeInv, CallIsSound, SuccessIsReal, RetryableFollowsStatus, LoggingIsTransparent
<1> QED BY <1>1, <1>2 DEF ExchangeInv

LEMMA SaveHolds ==
    ASSUME ExchangeInv, Save
    PROVE  ExchangeInv'
<1>1. PICK t \in token : token = {t}
  BY DEF ExchangeInv, StoredIsTime, Save
<1>2. stored' = {t.Expires}
  BY <1>1 DEF Save
<1>3. StoredIsTime'
  BY <1>1, <1>2 DEF ExchangeInv, StoredIsTime, Save
<1> QED BY <1>3, ApplicationLeavesCall DEF Save

\* A time that was stored is above an hour, or the lifetime was.
LEMMA LoadHolds ==
    ASSUME ExchangeInv, Load
    PROVE  ExchangeInv'
<1>1. PICK t \in token : stored = {t.Expires} /\ token = {t}
  BY DEF ExchangeInv, StoredIsTime, Load
<1>2. t \in [Expires : Int, life : Lifetimes] /\ t.Expires = Stated(t.life)
  BY DEF ExchangeInv, StoredIsTime
<1>3. token' = {[t EXCEPT !.Expires = Expires(t.Expires, now)]}
  BY <1>1 DEF Load
<1>4. Expires(t.Expires, now) = t.Expires
  BY <1>2, LifetimeBecomesStated
<1>5. token' = {t}
  BY <1>2, <1>3, <1>4
<1>6. StoredIsTime'
  BY <1>1, <1>5 DEF ExchangeInv, StoredIsTime, Load
<1> QED BY <1>6, ApplicationLeavesCall DEF Load

LEMMA WaitHolds ==
    ASSUME ExchangeInv, NEW t \in Later, Wait(t)
    PROVE  ExchangeInv'
<1>1. now' \in Nat /\ now' >= Start
  BY ExchangeAssumption DEF ExchangeAssumption, Wait
<1>2. StoredIsTime'
  BY <1>1 DEF ExchangeInv, StoredIsTime, Wait
<1> QED BY <1>2, ApplicationLeavesCall DEF Wait

\* Every step keeps the invariant.
LEMMA StepHolds == ExchangeInv /\ [ExchangeNext]_exchangeVars => ExchangeInv'
<1> SUFFICES ASSUME ExchangeInv, [ExchangeNext]_exchangeVars PROVE ExchangeInv'
  OBVIOUS
<1>1. ASSUME NEW captures \in Capturing, NEW op \in Calls, Call(op, captures) PROVE ExchangeInv'
  BY <1>1, CallHolds
<1>2. ASSUME NEW captures \in Capturing, NEW who \in Accounts,
             NEW email \in {None, who}, NEW secret \in {None, who}, Auth(captures, email, secret)
      PROVE  ExchangeInv'
  BY <1>2, AuthHolds
<1>3. ASSUME NEW captures \in Capturing, NEW who \in Accounts,
             NEW email \in {None, who}, NEW secret \in {None, who}, AuthAgain(captures, email, secret)
      PROVE  ExchangeInv'
  BY <1>3, AuthAgainHolds
<1>4. CASE NotBuilt \/ DoFails
  BY <1>4, FailedHolds DEF NotBuilt, DoFails
<1>5. CASE RoundTrip
  BY <1>5, RoundTripHolds
<1>6. CASE Redirected
  BY <1>6, RedirectedHolds
<1>7. ASSUME NEW a \in Answers, Answered(a) PROVE ExchangeInv'
  BY <1>7, AnsweredHolds
<1>8. CASE Save
  BY <1>8, SaveHolds
<1>9. CASE Load
  BY <1>9, LoadHolds
<1>10. ASSUME NEW t \in Later, Wait(t) PROVE ExchangeInv'
  BY <1>10, WaitHolds
<1>11. CASE UNCHANGED exchangeVars
  <2>1. StoredIsTime'
    BY <1>11 DEF ExchangeInv, StoredIsTime, exchangeVars
  <2> QED BY <1>11, <2>1, ApplicationLeavesCall DEF exchangeVars
<1> QED
  BY <1>1, <1>2, <1>3, <1>4, <1>5, <1>6, <1>7, <1>8, <1>9, <1>10, <1>11 DEF ExchangeNext

(* The shape of a call, its fields, what the server heard, the times and what a
   call returned stay as ExchangeInv says, for every answer and every transport. *)
THEOREM ExchangeInvariant == ExchangeSpec => []ExchangeInv
  BY InitHolds, StepHolds, PTL DEF ExchangeSpec

(* The variables keep their types. *)
THEOREM ExchangeTypeCorrect == ExchangeSpec => []ExchangeTypeOK
<1>1. ExchangeInv => ExchangeTypeOK
  <2> SUFFICES ASSUME ExchangeInv PROVE ExchangeTypeOK
    OBVIOUS
  <2> Start \in Nat
    BY ExchangeAssumption DEF ExchangeAssumption
  <2>1. call.at \in {"idle", "built", "sent", "done"} /\ call \in Idle \cup Open \cup Done
    BY ShapeOfCall DEF ExchangeInv, CallShape
  <2>2. call.at # "idle" => call.op \in Calls /\ call.fields \in Fields
    BY <2>1 DEF Idle, Open, Done
  <2>3. call.at = "done" => call.result \in Results /\ call.answers \subseteq Answers
    BY <2>1 DEF Idle, Open, Done
  <2>4. token \subseteq [Expires : Int, life : Int]
    <3>1. Lifetimes \subseteq Int
      BY DEF Lifetimes
    <3> QED BY <3>1 DEF ExchangeInv, StoredIsTime
  <2>5. stored \subseteq Int /\ (stored # {} => token # {})
    BY <2>4 DEF ExchangeInv, StoredIsTime
  <2>6. form \in [fields : Fields, alone : BOOLEAN] /\ Len(heard) <= MaxHops /\ now \in Nat /\ now >= Start
    BY DEF ExchangeInv, FormTogether, HeardIsWhole, StoredIsTime
  <2> QED BY <2>1, <2>2, <2>3, <2>4, <2>5, <2>6 DEF ExchangeTypeOK
<1> QED BY <1>1, ExchangeInvariant, PTL

(* captureRequestBody leaves a request that can be sent, and sent again. *)
THEOREM RequestsAreWhole == ExchangeSpec => []ServerSeesWholeRequest
<1>1. ExchangeInv => ServerSeesWholeRequest
  BY DEF ExchangeInv, HeardIsWhole, ServerSeesWholeRequest
<1> QED BY <1>1, ExchangeInvariant, PTL

(* A call returns the same with and without a LoggingTransport. *)
THEOREM LoggingChangesNothing == ExchangeSpec => []LoggingIsTransparent
<1>1. ExchangeInv => LoggingIsTransparent
  BY DEF ExchangeInv, CallIsSound
<1> QED BY <1>1, ExchangeInvariant, PTL

(* A call that succeeds got a whole answer that says so. *)
THEOREM SuccessIsAnswered == ExchangeSpec => []SuccessIsReal
<1>1. ExchangeInv => SuccessIsReal
  BY DEF ExchangeInv, CallIsSound
<1> QED BY <1>1, ExchangeInvariant, PTL

(* IsRetryable agrees with the status, whichever error carries it. *)
THEOREM RetriesFollowStatus == ExchangeSpec => []RetryableFollowsStatus
<1>1. ExchangeInv => RetryableFollowsStatus
  BY DEF ExchangeInv, CallIsSound
<1> QED BY <1>1, ExchangeInvariant, PTL

(* What Auth writes, and leaves, pairs two accounts only in url.Values into which
   the application has given one half alone since it gave both.               *)
THEOREM LoginsAreOfOneAccount == ExchangeSpec => []CredentialsBelongTogether
<1>1. ExchangeInv => CredentialsBelongTogether
  BY DEF ExchangeInv, FormTogether, Together, CredentialsBelongTogether
<1> QED BY <1>1, ExchangeInvariant, PTL

(* The rule that tells a time from a lifetime takes neither for the other. *)
THEOREM ExpiryIsKept == ExchangeSpec => []TokenKeepsItsTime
<1>1. ExchangeInv => TokenKeepsItsTime
  BY ExchangeAssumption
     DEF ExchangeAssumption, ExchangeInv, StoredIsTime, Lifetimes, Stated, TokenKeepsItsTime
<1> QED BY <1>1, ExchangeInvariant, PTL
================================================================================
