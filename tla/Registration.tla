----------------------------- MODULE Registration -----------------------------
(***************************************************************************)
(* One FireBaseClient shared by the goroutines of an application           *)
(* (src/client/client.go): the calls that obtain and store a device's      *)
(* check-in credentials, app installations and notification tokens, and    *)
(* RegisterForNotifications, which runs them in order and retries.         *)
(*                                                                         *)
(* deviceMutex guards what the calls store; the request builders of        *)
(* src/api/api_out.go read the same fields without it.  Every access is a  *)
(* step.  The servers number what they issue: check-in n gives android id  *)
(* n and security token n, installation answer n gives auth token n and    *)
(* the FID fidOf[n].  0 stands for the empty value of a field.             *)
(***************************************************************************)
EXTENDS Naturals

CONSTANTS
  Callers,      \* goroutines of the application
  Packages,     \* package ids of the apps they register
  Retries,      \* the values of RegisterOptions.Retries in use
  Forced,       \* and of RegisterOptions.ForceCheckin
  MaxCheckins,  \* bound of the model: credentials the check-in server issues
  MaxInstalls   \* bound of the model: auth tokens the installation server issues

ASSUME RegistrationAssumption ==
  /\ Retries \subseteq Nat
  /\ Forced \subseteq BOOLEAN
  /\ MaxCheckins \in Nat
  /\ MaxInstalls \in Nat

VARIABLES
  pc,                 \* where each caller is, "idle" between two calls
  job,                \* the call it is in: operation, package, options
  attempt,            \* failed attempts of its RegisterForNotifications
  lastErr,            \* the error of the last one
  sent,               \* what its request carries
  answer,             \* the number of the answer it has still to store
  androidID,          \* Device.CheckinAndroidID
  securityToken,      \* Device.CheckinSecurityToken
  installations,      \* the keys of Device.FirebaseInstallations
  accessToken,        \* per package: InstallationAuthentication.AccessToken
  expired,            \* and whether it is within a minute of its Expires
  fid,                \* FirebaseInstallationID
  notificationToken,  \* NotificationData.NotificationToken: what it was issued for
  checkins,           \* credentials issued so far
  rejected,           \* those GCM has answered AUTHENTICATION_FAILED for
  installs,           \* installation answers so far
  fidOf,              \* the FID each of them named
  crashed             \* the Go runtime ended the process

caller  == <<pc, job, attempt, lastErr, sent, answer>>
device  == <<androidID, securityToken, installations, accessToken, expired, fid,
             notificationToken>>
servers == <<checkins, rejected, installs, fidOf>>
vars    == <<caller, device, servers, crashed>>

\* RegisterForNotifications with its options, or one of the calls it makes.
Flows == [op : {"register"}, app : Packages, force : Forced, retries : Retries]
Parts == [op : {"install", "checkin", "android", "web"}, app : Packages]
Jobs  == Flows \cup Parts
NoJob == [op |-> "none"]

Credentials   == 0..MaxCheckins
Installs      == 0..MaxInstalls
Requests      == [fid : Installs, auth : Installs, id : Credentials, token : Credentials]
Registrations == [id : Credentials, fid : Installs]

NoRequest == [fid |-> 0, auth |-> 0, id |-> 0, token |-> 0]
NoToken   == [id |-> 0, fid |-> 0]

\* The steps a caller takes while it holds deviceMutex.
Guarded == {"insert install", "store auth", "store fid", "store token",
            "insert token", "store registration"}

Steps == Guarded \cup
  {"idle", "expired", "install", "installing", "lock install", "has checkin",
   "checkin token", "checkin id", "checking in", "lock checkin", "attempt", "sleep",
   "validate", "find", "auth", "id", "token", "registering", "lock token"}

CallerTypes ==
  /\ pc \in [Callers -> Steps]
  /\ job \in [Callers -> Jobs \cup {NoJob}]
  /\ \A c \in Callers : pc[c] # "idle" => job[c] \in Jobs
  /\ attempt \in [Callers -> Nat]
  /\ lastErr \in [Callers -> {"none", "retryable", "auth"}]
  /\ sent \in [Callers -> Requests]
  /\ answer \in [Callers -> Nat]

\* An installation answer and a check-in answer are stored only when they name
\* an auth token, and an android id and a security token.
StoringInstall == {"lock install", "insert install", "store auth", "store fid"}
StoringCheckin == {"lock checkin", "store token"}

AnswersAreUsable ==
  \A c \in Callers :
    /\ pc[c] \in StoringInstall => answer[c] \in 1..installs
    /\ pc[c] \in StoringCheckin => answer[c] \in Credentials \ {0}

DeviceTypes ==
  /\ androidID \in Credentials
  /\ securityToken \in Credentials
  /\ installations \subseteq Packages
  /\ accessToken \in [Packages -> Installs]
  /\ expired \in [Packages -> BOOLEAN]
  /\ fid \in [Packages -> Installs]
  /\ notificationToken \in [Packages -> Registrations]

ServerTypes ==
  /\ checkins \in Credentials
  /\ rejected \subseteq Credentials
  /\ installs \in Installs
  /\ fidOf \in [Installs -> Installs]

TypeOK ==
  CallerTypes /\ AnswersAreUsable /\ DeviceTypes /\ ServerTypes /\ crashed \in BOOLEAN

\* A device that has never been checked in, and no call under way.
Init ==
  /\ pc = [c \in Callers |-> "idle"]
  /\ job = [c \in Callers |-> NoJob]
  /\ attempt = [c \in Callers |-> 0]
  /\ lastErr = [c \in Callers |-> "none"]
  /\ sent = [c \in Callers |-> NoRequest]
  /\ answer = [c \in Callers |-> 0]
  /\ androidID = 0
  /\ securityToken = 0
  /\ installations = {}
  /\ accessToken = [p \in Packages |-> 0]
  /\ expired = [p \in Packages |-> FALSE]
  /\ fid = [p \in Packages |-> 0]
  /\ notificationToken = [p \in Packages |-> NoToken]
  /\ checkins = 0
  /\ rejected = {}
  /\ installs = 0
  /\ fidOf = [n \in Installs |-> 0]
  /\ crashed = FALSE

-----------------------------------------------------------------------------
\* Control of a caller.
Goto(c, from, to) ==
  /\ ~crashed
  /\ pc[c] = from
  /\ pc' = [pc EXCEPT ![c] = to]

\* A step that changes nothing else of the caller.
Step(c, from, to) == Goto(c, from, to) /\ UNCHANGED <<job, attempt, lastErr, sent, answer>>

\* The call returns.
Return(c, from) ==
  /\ Goto(c, from, "idle")
  /\ job' = [job EXCEPT ![c] = NoJob]
  /\ attempt' = [attempt EXCEPT ![c] = 0]
  /\ lastErr' = [lastErr EXCEPT ![c] = "none"]
  /\ sent' = [sent EXCEPT ![c] = NoRequest]
  /\ answer' = [answer EXCEPT ![c] = 0]

\* A part of the call is done: RegisterForNotifications goes on, a call of that
\* part alone returns.
Continue(c, from, to) ==
  IF job[c].op = "register"
  THEN /\ Goto(c, from, to)
       /\ answer' = [answer EXCEPT ![c] = 0]
       /\ UNCHANGED <<job, attempt, lastErr, sent>>
  ELSE Return(c, from)

\* deviceMutex.Lock() gets through.
Unlocked == \A c \in Callers : pc[c] \notin Guarded

HasCheckin == androidID # 0 /\ securityToken # 0

-----------------------------------------------------------------------------
\* What an application calls: the whole flow, or one part of it.  appData that
\* does not validate is an error before anything is done.
Call(c) ==
  \E j \in Jobs :
    /\ Goto(c, "idle", CASE j.op = "register" -> "expired"
                         [] j.op = "install"  -> "install"
                         [] j.op = "checkin"  -> "checkin token"
                         [] OTHER             -> "validate")
    /\ job' = [job EXCEPT ![c] = j]
    /\ UNCHANGED <<attempt, lastErr, sent, answer, device, servers, crashed>>

\* InstallationExpired, under the mutex.
CheckExpiry(c) ==
  /\ Unlocked
  /\ LET p == job[c].app IN
       Step(c, "expired", IF accessToken[p] = 0 \/ expired[p] THEN "install"
                                                              ELSE "has checkin")
  /\ UNCHANGED <<device, servers, crashed>>

-----------------------------------------------------------------------------
(* NotifyInstallation.                                                     *)

\* The request asks for the FID the device has, or for a new random one.
BuildInstall(c) ==
  /\ Goto(c, "install", "installing")
  /\ sent' = [sent EXCEPT ![c].fid = fid[job[c].app]]
  /\ UNCHANGED <<job, attempt, lastErr, answer, device, servers, crashed>>

\* The request could not be built or sent, or its answer is of no use.
InstallFails(c) == Return(c, "installing") /\ UNCHANGED <<device, servers, crashed>>

\* The server may name another FID than the one it was asked for.
InstallAnswered(c) ==
  /\ installs < MaxInstalls
  /\ Goto(c, "installing", "lock install")
  /\ installs' = installs + 1
  /\ answer' = [answer EXCEPT ![c] = installs + 1]
  /\ \E f \in {installs + 1, sent[c].fid} \ {0} :
       fidOf' = [fidOf EXCEPT ![installs + 1] = f]
  /\ sent' = [sent EXCEPT ![c] = NoRequest]
  /\ UNCHANGED <<job, attempt, lastErr, device, checkins, rejected, crashed>>

\* Mutant: installationLocked does not look for an entry that is already there.
LockInstallationNew(c) ==
  /\ Unlocked
  /\ Step(c, "lock install", "insert install")
  /\ UNCHANGED <<device, servers, crashed>>

LockInstallation(c) ==
  /\ Unlocked
  /\ Step(c, "lock install", IF job[c].app \in installations THEN "store auth"
                                                            ELSE "insert install")
  /\ UNCHANGED <<device, servers, crashed>>

\* installationLocked: an empty entry for a package that has none.
InsertEntry(p) ==
  /\ installations' = installations \cup {p}
  /\ accessToken' = [accessToken EXCEPT ![p] = 0]
  /\ expired' = [expired EXCEPT ![p] = FALSE]
  /\ fid' = [fid EXCEPT ![p] = 0]
  /\ notificationToken' = [notificationToken EXCEPT ![p] = NoToken]
  /\ UNCHANGED <<androidID, securityToken>>

InsertInstallation(c) ==
  /\ Step(c, "insert install", "store auth")
  /\ InsertEntry(job[c].app)
  /\ UNCHANGED <<servers, crashed>>

\* The lifetime the server gives may be over at once.
StoreAuth(c) ==
  /\ Step(c, "store auth", "store fid")
  /\ accessToken' = [accessToken EXCEPT ![job[c].app] = answer[c]]
  /\ \E e \in BOOLEAN : expired' = [expired EXCEPT ![job[c].app] = e]
  /\ UNCHANGED <<androidID, securityToken, installations, fid, notificationToken,
                 servers, crashed>>

\* Mutant: the FID is kept once the device has one.
StoreFIDOnce(c) ==
  /\ Continue(c, "store fid", "has checkin")
  /\ LET p == job[c].app IN
       fid' = IF fid[p] = 0 THEN [fid EXCEPT ![p] = fidOf[answer[c]]] ELSE fid
  /\ UNCHANGED <<androidID, securityToken, installations, accessToken, expired,
                 notificationToken, servers, crashed>>

StoreFID(c) ==
  /\ Continue(c, "store fid", "has checkin")
  /\ fid' = [fid EXCEPT ![job[c].app] = fidOf[answer[c]]]
  /\ UNCHANGED <<androidID, securityToken, installations, accessToken, expired,
                 notificationToken, servers, crashed>>

-----------------------------------------------------------------------------
(* Checkin.                                                                *)

CheckCheckin(c) ==
  /\ Step(c, "has checkin", IF job[c].force \/ ~HasCheckin THEN "checkin token"
                                                               ELSE "attempt")
  /\ UNCHANGED <<device, servers, crashed>>

\* The request points at the fields of the device (api_out.go:222-227), which
\* MarshalVT writes from the last to the first.  That SizeVT has read them before,
\* and that an id which is not positive is left out, is not modelled.
ReadCheckinToken(c) ==
  /\ Goto(c, "checkin token", "checkin id")
  /\ sent' = [sent EXCEPT ![c].token = securityToken]
  /\ UNCHANGED <<job, attempt, lastErr, answer, device, servers, crashed>>

ReadCheckinID(c) ==
  /\ Goto(c, "checkin id", "checking in")
  /\ sent' = [sent EXCEPT ![c].id = androidID]
  /\ UNCHANGED <<job, attempt, lastErr, answer, device, servers, crashed>>

CheckinFails(c) == Return(c, "checking in") /\ UNCHANGED <<device, servers, crashed>>

\* Mutant: CheckinResult lets an answer without an android id through.
CheckinAnsweredEmpty(c) ==
  /\ Goto(c, "checking in", "lock checkin")
  /\ sent' = [sent EXCEPT ![c] = NoRequest]
  /\ UNCHANGED <<job, attempt, lastErr, answer, device, servers, crashed>>

\* The server confirms the credentials it is shown, unless GCM has rejected
\* them, or issues new ones.
CheckinAnswered(c) ==
  /\ Goto(c, "checking in", "lock checkin")
  /\ \/ /\ sent[c].id = sent[c].token
        /\ sent[c].id \notin rejected \cup {0}
        /\ answer' = [answer EXCEPT ![c] = sent[c].id]
        /\ UNCHANGED checkins
     \/ /\ checkins < MaxCheckins
        /\ answer' = [answer EXCEPT ![c] = checkins + 1]
        /\ checkins' = checkins + 1
  /\ sent' = [sent EXCEPT ![c] = NoRequest]
  /\ UNCHANGED <<job, attempt, lastErr, device, rejected, installs, fidOf, crashed>>

\* Mutant: the credentials are stored without the mutex.
StoreIDUnlocked(c) ==
  /\ Step(c, "lock checkin", "store token")
  /\ androidID' = answer[c]
  /\ UNCHANGED <<securityToken, installations, accessToken, expired, fid,
                 notificationToken, servers, crashed>>

StoreID(c) ==
  /\ Unlocked
  /\ Step(c, "lock checkin", "store token")
  /\ androidID' = answer[c]
  /\ UNCHANGED <<securityToken, installations, accessToken, expired, fid,
                 notificationToken, servers, crashed>>

StoreSecurityToken(c) ==
  /\ Continue(c, "store token", "attempt")
  /\ securityToken' = answer[c]
  /\ UNCHANGED <<androidID, installations, accessToken, expired, fid,
                 notificationToken, servers, crashed>>

-----------------------------------------------------------------------------
(* The retries of RegisterForNotifications.                                *)

\* Mutant: the last retry is not made.
GiveUpEarly(c) ==
  /\ Return(c, "attempt")
  /\ attempt[c] >= job[c].retries
  /\ UNCHANGED <<device, servers, crashed>>

\* "registration failed after Retries + 1 attempt(s)".
GiveUp(c) ==
  /\ Return(c, "attempt")
  /\ attempt[c] > job[c].retries
  /\ UNCHANGED <<device, servers, crashed>>

NextAttempt(c) ==
  /\ Step(c, "attempt", IF attempt[c] = 0 THEN "validate" ELSE "sleep")
  /\ attempt[c] <= job[c].retries
  /\ UNCHANGED <<device, servers, crashed>>

\* The context ends during the wait.
Abort(c) == Return(c, "sleep") /\ UNCHANGED <<device, servers, crashed>>

Wake(c) == Step(c, "sleep", "validate") /\ UNCHANGED <<device, servers, crashed>>

-----------------------------------------------------------------------------
(* C2DMRegisterAndroid and C2DMRegisterWeb.                                *)

\* ErrNoCheckin otherwise; the web registration needs no installation.
Validate(c) ==
  /\ IF HasCheckin
     THEN Step(c, "validate", IF job[c].op = "web" THEN "id" ELSE "find")
     ELSE Return(c, "validate")
  /\ UNCHANGED <<device, servers, crashed>>

\* ErrNoInstallation, ErrNoInstallationAuth, or the FID the device has.  That
\* there is an auth token stays true once it is, the check is one step with the
\* read of the FID that follows.
FindInstallation(c) ==
  /\ pc[c] = "find"
  /\ IF accessToken[job[c].app] # 0
     THEN /\ Goto(c, "find", "auth")
          /\ sent' = [sent EXCEPT ![c].fid = fid[job[c].app]]
          /\ UNCHANGED <<job, attempt, lastErr, answer>>
     ELSE Return(c, "find")
  /\ UNCHANGED <<device, servers, crashed>>

ReadAuth(c) ==
  /\ Goto(c, "auth", "id")
  /\ sent' = [sent EXCEPT ![c].auth = accessToken[job[c].app]]
  /\ UNCHANGED <<job, attempt, lastErr, answer, device, servers, crashed>>

\* The Authorization header; the form's device field, read just before, names
\* the android id once more and is left out.
ReadID(c) ==
  /\ Goto(c, "id", "token")
  /\ sent' = [sent EXCEPT ![c].id = androidID]
  /\ UNCHANGED <<job, attempt, lastErr, answer, device, servers, crashed>>

ReadToken(c) ==
  /\ Goto(c, "token", "registering")
  /\ sent' = [sent EXCEPT ![c].token = securityToken]
  /\ UNCHANGED <<job, attempt, lastErr, answer, device, servers, crashed>>

\* The app data lacks a field of the request, or the answer is a transport
\* error, a refusal that is final, an HTTP error or an empty body.
RegisterFails(c) == Return(c, "registering") /\ UNCHANGED <<device, servers, crashed>>

\* Mutant: a failed attempt is not counted.
RegisterRefusedUncounted(c) ==
  /\ IF job[c].op = "register"
     THEN /\ Goto(c, "registering", "attempt")
          /\ lastErr' = [lastErr EXCEPT ![c] = "retryable"]
          /\ sent' = [sent EXCEPT ![c] = NoRequest]
          /\ UNCHANGED <<job, attempt, answer>>
     ELSE Return(c, "registering")
  /\ UNCHANGED <<device, servers, crashed>>

\* PHONE_REGISTRATION_ERROR, SERVICE_NOT_AVAILABLE or INTERNAL_SERVER_ERROR.
RegisterRefused(c) ==
  /\ IF job[c].op = "register"
     THEN /\ Goto(c, "registering", "attempt")
          /\ attempt' = [attempt EXCEPT ![c] = attempt[c] + 1]
          /\ lastErr' = [lastErr EXCEPT ![c] = "retryable"]
          /\ sent' = [sent EXCEPT ![c] = NoRequest]
          /\ UNCHANGED <<job, answer>>
     ELSE Return(c, "registering")
  /\ UNCHANGED <<device, servers, crashed>>

\* Mutant: rejected credentials are tried again like any other failure.
RegisterRejectedAgain(c) ==
  /\ IF job[c].op = "register"
     THEN /\ Goto(c, "registering", "attempt")
          /\ attempt' = [attempt EXCEPT ![c] = attempt[c] + 1]
          /\ lastErr' = [lastErr EXCEPT ![c] = "auth"]
          /\ sent' = [sent EXCEPT ![c] = NoRequest]
          /\ UNCHANGED <<job, answer>>
     ELSE Return(c, "registering")
  /\ rejected' = rejected \cup ({sent[c].id} \cap {sent[c].token})
  /\ UNCHANGED <<device, checkins, installs, fidOf, crashed>>

\* AUTHENTICATION_FAILED: a check-in comes before the next attempt.
RegisterRejected(c) ==
  /\ IF job[c].op = "register"
     THEN /\ Goto(c, "registering", "checkin token")
          /\ attempt' = [attempt EXCEPT ![c] = attempt[c] + 1]
          /\ lastErr' = [lastErr EXCEPT ![c] = "auth"]
          /\ sent' = [sent EXCEPT ![c] = NoRequest]
          /\ UNCHANGED <<job, answer>>
     ELSE Return(c, "registering")
  /\ rejected' = rejected \cup ({sent[c].id} \cap {sent[c].token})
  /\ UNCHANGED <<device, checkins, installs, fidOf, crashed>>

RegisterAnswered(c) ==
  Step(c, "registering", "lock token") /\ UNCHANGED <<device, servers, crashed>>

LockToken(c) ==
  /\ Unlocked
  /\ Step(c, "lock token", IF job[c].app \in installations THEN "store registration"
                                                          ELSE "insert token")
  /\ UNCHANGED <<device, servers, crashed>>

InsertForToken(c) ==
  /\ Step(c, "insert token", "store registration")
  /\ InsertEntry(job[c].app)
  /\ UNCHANGED <<servers, crashed>>

\* Mutant: the token is returned and not stored.
StoreRegistrationNot(c) ==
  Return(c, "store registration") /\ UNCHANGED <<device, servers, crashed>>

StoreRegistration(c) ==
  /\ Return(c, "store registration")
  /\ notificationToken' = [notificationToken EXCEPT
       ![job[c].app] = [id |-> sent[c].id, fid |-> sent[c].fid]]
  /\ UNCHANGED <<androidID, securityToken, installations, accessToken, expired, fid,
                 servers, crashed>>

-----------------------------------------------------------------------------
\* A request builder looks a package up while another goroutine inserts one,
\* "fatal error: concurrent map read and map write".
MapRace(c) ==
  /\ ~crashed
  /\ pc[c] \in {"install", "find"}
  /\ \E d \in Callers : pc[d] \in {"insert install", "insert token"}
  /\ crashed' = TRUE
  /\ UNCHANGED <<caller, device, servers>>

\* The auth token of an installation comes within a minute of its Expires.
Expire(p) ==
  /\ ~crashed
  /\ accessToken[p] # 0 /\ ~expired[p]
  /\ expired' = [expired EXCEPT ![p] = TRUE]
  /\ UNCHANGED <<caller, androidID, securityToken, installations, accessToken, fid,
                 notificationToken, servers, crashed>>

Installing(c) ==
  \/ BuildInstall(c) \/ InstallFails(c) \/ InstallAnswered(c)
  \/ LockInstallation(c) \/ InsertInstallation(c) \/ StoreAuth(c) \/ StoreFID(c)

CheckingIn(c) ==
  \/ ReadCheckinToken(c) \/ ReadCheckinID(c) \/ CheckinFails(c) \/ CheckinAnswered(c)
  \/ StoreID(c) \/ StoreSecurityToken(c)

Registering(c) ==
  \/ Validate(c) \/ FindInstallation(c) \/ ReadAuth(c) \/ ReadID(c) \/ ReadToken(c)
  \/ RegisterFails(c) \/ RegisterRefused(c) \/ RegisterRejected(c)
  \/ RegisterAnswered(c) \/ LockToken(c) \/ InsertForToken(c) \/ StoreRegistration(c)

Proceeds(c) ==
  \/ CheckExpiry(c) \/ CheckCheckin(c)
  \/ GiveUp(c) \/ NextAttempt(c) \/ Abort(c) \/ Wake(c)
  \/ Installing(c) \/ CheckingIn(c) \/ Registering(c)

Next ==
  \/ \E c \in Callers : Call(c) \/ MapRace(c) \/ Proceeds(c)
  \/ \E p \in Packages : Expire(p)

Spec == Init /\ [][Next]_vars

(***************************************************************************)
(* A call goes on: goroutines are scheduled and every request gets an      *)
(* answer or an error, the client's own http.Client has a timeout.  Nobody *)
(* has to call, and no auth token has to expire.                           *)
(***************************************************************************)
FairSpec == Spec /\ \A c \in Callers : WF_vars(Proceeds(c))

-----------------------------------------------------------------------------
(* Any use.                                                                *)

\* The mutex keeps what belongs together together: while nobody holds it, the
\* android id and the security token come from one check-in, and the FID of an
\* installation is the one its auth token was issued for, however many calls
\* have overlapped.
DeviceTogether ==
  Unlocked =>
    /\ androidID = securityToken
    /\ \A p \in Packages : accessToken[p] # 0 => fidOf[accessToken[p]] = fid[p]

\* What a call has stored is replaced by another call's answer and never lost:
\* no entry of a package is made anew over an existing one, whoever else is
\* storing at the time.
NothingForgotten ==
  [][/\ androidID # 0 => androidID' # 0
     /\ securityToken # 0 => securityToken' # 0
     /\ \A p \in Packages :
          /\ accessToken[p] # 0 => accessToken'[p] # 0
          /\ notificationToken[p] # NoToken => notificationToken'[p] # NoToken]_vars

-----------------------------------------------------------------------------
(* One call at a time.                                                     *)

\* A registration shows GCM the two halves of one check-in, and the FID and
\* auth token of one installation answer: C2DMAndroidRegisterRequest and
\* AuthenticateAndroidRequest read them one by one, without the mutex.
RequestsAreConsistent ==
  \A c \in Callers : pc[c] = "registering" =>
    /\ sent[c].id = sent[c].token
    /\ job[c].op # "web" => fidOf[sent[c].auth] = sent[c].fid

\* When RegisterForNotifications returns a token, the device holds it for that
\* package, and it belongs to the credentials and the FID the device now has,
\* after any number of installations, check-ins and retries on the way.
SuccessIsUsable ==
  [][\A c \in Callers :
       pc[c] = "store registration" /\ pc'[c] = "idle" /\ job[c].op = "register" =>
         /\ HasCheckin'
         /\ androidID' = securityToken'
         /\ notificationToken'[job[c].app] = [id |-> androidID', fid |-> fid'[job[c].app]]
    ]_vars

\* After AUTHENTICATION_FAILED the next attempt of the flow does not show GCM
\* credentials it has rejected: the check-in in between has replaced them.
RejectedNotResent ==
  \A c \in Callers :
    pc[c] = "registering" /\ job[c].op = "register" /\ lastErr[c] = "auth"
      => sent[c].id \notin rejected

\* "registration failed after Retries + 1 attempt(s)" says how many requests
\* were made: the flow gives up after exactly that many failures, all of them
\* ones that may be retried.
GivesUpAfterAllAttempts ==
  [][\A c \in Callers :
       pc[c] = "attempt" /\ pc'[c] = "idle" =>
         attempt[c] = job[c].retries + 1 /\ lastErr[c] # "none"]_vars

\* RegisterForNotifications returns, whatever the servers answer.
FlowReturns ==
  \A c \in Callers : pc[c] = "expired" ~> pc[c] = "idle"

===============================================================================
