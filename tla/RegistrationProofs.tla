-------------------------- MODULE RegistrationProofs --------------------------
(***************************************************************************)
(* Proofs about Registration, for any goroutines, packages, options and    *)
(* numbers of answers: what deviceMutex guards stays paired and is never   *)
(* lost, although the requests are built without it.                       *)
(***************************************************************************)
EXTENDS Registration, TLAPS

\* deviceMutex: one caller at a time is in a guarded step.
MutualExclusion ==
  \A c, d \in Callers : pc[c] \in Guarded /\ pc[d] \in Guarded => c = d

\* The android id and the security token differ only while Checkin is between
\* storing the one and the other.
CheckinPair ==
  /\ (\A c \in Callers : pc[c] # "store token") => androidID = securityToken
  /\ \A c \in Callers : pc[c] = "store token" => androidID = answer[c]

\* The auth token and the FID of a package likewise.
StoringFID(p) == \E c \in Callers : pc[c] = "store fid" /\ job[c].app = p

InstallationPair ==
  /\ \A p \in Packages : accessToken[p] \in 0..installs
  /\ \A p \in Packages :
       accessToken[p] # 0 /\ ~StoringFID(p) => fidOf[accessToken[p]] = fid[p]
  /\ \A c \in Callers : pc[c] = "store fid" => accessToken[job[c].app] = answer[c]

\* A package without an entry has nothing stored, an entry is inserted where
\* there is none and written where there is one.
Entries ==
  /\ \A p \in Packages \ installations : accessToken[p] = 0 /\ notificationToken[p] = NoToken
  /\ \A c \in Callers : pc[c] \in {"insert install", "insert token"} =>
       job[c].app \notin installations
  /\ \A c \in Callers : pc[c] \in {"store auth", "store fid", "store registration"} =>
       job[c].app \in installations

\* A registration is of a device that has been checked in.
Asked == {"token", "registering", "lock token", "insert token", "store registration"}

CheckedIn ==
  \A c \in Callers :
    /\ pc[c] \in Asked \cup {"find", "auth", "id"} => androidID # 0
    /\ pc[c] \in Asked => sent[c].id # 0

Inv == TypeOK /\ MutualExclusion /\ CheckinPair /\ InstallationPair /\ Entries /\ CheckedIn

-----------------------------------------------------------------------------
(* Types.                                                                  *)

\* A step within a call keeps the types of the caller, given that what it
\* stores of its own has its type.
LEMMA MoveTypes ==
  ASSUME CallerTypes, AnswersAreUsable, ServerTypes,
         NEW c \in Callers, NEW from, from # "idle", NEW to \in Steps \ {"idle"},
         Goto(c, from, to), job' = job,
         attempt' \in [Callers -> Nat],
         lastErr' \in [Callers -> {"none", "retryable", "auth"}],
         sent' \in [Callers -> Requests],
         answer' \in [Callers -> Nat],
         \A d \in Callers \ {c} : answer'[d] = answer[d],
         to \in StoringInstall => answer'[c] \in 1..installs',
         to \in StoringCheckin => answer'[c] \in Credentials \ {0},
         installs' \in Nat, installs <= installs'
  PROVE  CallerTypes' /\ AnswersAreUsable'
<1>1. /\ pc' = [pc EXCEPT ![c] = to]
      /\ pc[c] = from
  BY DEF Goto
<1>2. pc' \in [Callers -> Steps] /\ pc'[c] = to /\ \A d \in Callers \ {c} : pc'[d] = pc[d]
  BY <1>1 DEF CallerTypes
<1>3. CallerTypes'
  <2>1. \A d \in Callers : pc'[d] # "idle" => job'[d] \in Jobs
    BY <1>1, <1>2 DEF CallerTypes
  <2>2. job' \in [Callers -> Jobs \cup {NoJob}]
    BY DEF CallerTypes
  <2> QED
    BY <1>2, <2>1, <2>2 DEF CallerTypes
<1>4. installs \in Nat
  BY RegistrationAssumption DEF ServerTypes, Installs
<1>5. ASSUME NEW d \in Callers
      PROVE  /\ pc'[d] \in StoringInstall => answer'[d] \in 1..installs'
             /\ pc'[d] \in StoringCheckin => answer'[d] \in Credentials \ {0}
  <2>1. CASE d = c
    BY <2>1, <1>2
  <2>2. CASE d # c
    BY <2>2, <1>2, <1>4 DEF AnswersAreUsable
  <2> QED
    BY <2>1, <2>2
<1> QED
  BY <1>3, <1>5 DEF AnswersAreUsable

\* A step that stores nothing of the caller's, within its part of the call.
LEMMA StepTypes ==
  ASSUME CallerTypes, AnswersAreUsable, ServerTypes,
         NEW c \in Callers, NEW from, from # "idle", NEW to \in Steps \ {"idle"},
         Step(c, from, to),
         to \in StoringInstall => from \in StoringInstall,
         to \in StoringCheckin => from \in StoringCheckin,
         UNCHANGED installs
  PROVE  CallerTypes' /\ AnswersAreUsable'
<1>1. Goto(c, from, to) /\ UNCHANGED <<job, attempt, lastErr, sent, answer>>
  BY DEF Step
<1>2. pc[c] = from
  BY <1>1 DEF Goto
<1>3. installs \in Nat
  BY RegistrationAssumption DEF ServerTypes, Installs
<1>4. /\ to \in StoringInstall => answer'[c] \in 1..installs'
      /\ to \in StoringCheckin => answer'[c] \in Credentials \ {0}
  BY <1>1, <1>2 DEF AnswersAreUsable
<1>5. /\ attempt' \in [Callers -> Nat]
      /\ lastErr' \in [Callers -> {"none", "retryable", "auth"}]
      /\ sent' \in [Callers -> Requests]
      /\ answer' \in [Callers -> Nat]
  BY <1>1 DEF CallerTypes
<1>6. installs' \in Nat /\ installs <= installs'
  BY <1>3
<1> QED
  BY <1>1, <1>4, <1>5, <1>6, MoveTypes

\* A call that returns.
LEMMA ReturnTypes ==
  ASSUME CallerTypes, AnswersAreUsable, NEW c \in Callers, NEW from, Return(c, from),
         UNCHANGED installs
  PROVE  CallerTypes' /\ AnswersAreUsable'
<1>1. /\ pc' = [pc EXCEPT ![c] = "idle"]
      /\ job' = [job EXCEPT ![c] = NoJob]
      /\ attempt' = [attempt EXCEPT ![c] = 0]
      /\ lastErr' = [lastErr EXCEPT ![c] = "none"]
      /\ sent' = [sent EXCEPT ![c] = NoRequest]
      /\ answer' = [answer EXCEPT ![c] = 0]
  BY DEF Return, Goto
<1>2. NoRequest \in Requests
  BY RegistrationAssumption DEF NoRequest, Requests, Installs, Credentials
<1>3. CallerTypes'
  <2>1. pc' \in [Callers -> Steps]
    BY <1>1 DEF CallerTypes, Steps
  <2>2. job' \in [Callers -> Jobs \cup {NoJob}]
    BY <1>1 DEF CallerTypes
  <2>3. \A d \in Callers : pc'[d] # "idle" => job'[d] \in Jobs
    BY <1>1 DEF CallerTypes
  <2>4. sent' \in [Callers -> Requests]
    BY <1>1, <1>2 DEF CallerTypes
  <2>5. /\ attempt' \in [Callers -> Nat]
        /\ lastErr' \in [Callers -> {"none", "retryable", "auth"}]
        /\ answer' \in [Callers -> Nat]
    BY <1>1 DEF CallerTypes
  <2> QED
    BY <2>1, <2>2, <2>3, <2>4, <2>5 DEF CallerTypes
<1>4. AnswersAreUsable'
  BY <1>1 DEF CallerTypes, AnswersAreUsable, StoringInstall, StoringCheckin
<1> QED
  BY <1>3, <1>4

\* A part of the call that is done.
LEMMA ContinueTypes ==
  ASSUME CallerTypes, AnswersAreUsable, ServerTypes,
         NEW c \in Callers, NEW from, from # "idle", NEW to \in Steps \ {"idle"},
         Continue(c, from, to),
         to \notin StoringInstall \cup StoringCheckin,
         UNCHANGED installs
  PROVE  CallerTypes' /\ AnswersAreUsable'
<1>1. CASE Return(c, from)
  BY <1>1, ReturnTypes
<1>2. CASE /\ Goto(c, from, to)
           /\ answer' = [answer EXCEPT ![c] = 0]
           /\ UNCHANGED <<job, attempt, lastErr, sent>>
  <2>1. answer' \in [Callers -> Nat] /\ \A d \in Callers \ {c} : answer'[d] = answer[d]
    BY <1>2 DEF CallerTypes
  <2>2. installs \in Nat
    BY RegistrationAssumption DEF ServerTypes, Installs
  <2>3. /\ attempt' \in [Callers -> Nat]
        /\ lastErr' \in [Callers -> {"none", "retryable", "auth"}]
        /\ sent' \in [Callers -> Requests]
    BY <1>2 DEF CallerTypes
  <2>4. installs' \in Nat /\ installs <= installs'
    BY <2>2
  <2> QED
    BY <1>2, <2>1, <2>3, <2>4, MoveTypes
<1> QED
  BY <1>1, <1>2 DEF Continue

\* What a caller reads of the device goes into its request.
LEMMA ReadTypes ==
  ASSUME CallerTypes, AnswersAreUsable, ServerTypes,
         NEW c \in Callers, NEW from, from # "idle", NEW to \in Steps \ {"idle"},
         Goto(c, from, to),
         to \notin StoringInstall \cup StoringCheckin,
         NEW r \in Requests, sent' = [sent EXCEPT ![c] = r],
         UNCHANGED <<job, attempt, lastErr, answer, installs>>
  PROVE  CallerTypes' /\ AnswersAreUsable'
<1>1. sent' \in [Callers -> Requests]
  BY DEF CallerTypes
<1>2. installs \in Nat
  BY RegistrationAssumption DEF ServerTypes, Installs
<1>3. /\ attempt' \in [Callers -> Nat]
      /\ lastErr' \in [Callers -> {"none", "retryable", "auth"}]
      /\ answer' \in [Callers -> Nat]
  BY DEF CallerTypes
<1>4. installs' \in Nat /\ installs <= installs'
  BY <1>2
<1> QED
  BY <1>1, <1>3, <1>4, MoveTypes

\* Every step keeps the types.
LEMMA TypeStep ==
  ASSUME TypeOK, Next
  PROVE  TypeOK'
<1>  CallerTypes /\ AnswersAreUsable /\ DeviceTypes /\ ServerTypes /\ crashed \in BOOLEAN
  BY DEF TypeOK
<1>1. ASSUME NEW c \in Callers, Call(c) PROVE TypeOK'
  <2>1. CallerTypes'
    <3>1. PICK j \in Jobs :
            /\ Goto(c, "idle", CASE j.op = "register" -> "expired"
                                 [] j.op = "install"  -> "install"
                                 [] j.op = "checkin"  -> "checkin token"
                                 [] OTHER             -> "validate")
            /\ job' = [job EXCEPT ![c] = j]
            /\ UNCHANGED <<attempt, lastErr, sent, answer, device, servers, crashed>>
      BY <1>1 DEF Call
    <3>2. PICK to \in {"expired", "install", "checkin token", "validate"} :
            pc' = [pc EXCEPT ![c] = to]
      BY <3>1 DEF Goto
    <3>3. pc' \in [Callers -> Steps]
      BY <3>2 DEF CallerTypes, Steps
    <3>4. \A d \in Callers : pc'[d] # "idle" => job'[d] \in Jobs
      BY <3>1, <3>2 DEF CallerTypes
    <3> QED
      BY <3>1, <3>3, <3>4 DEF CallerTypes
  <2>3. AnswersAreUsable'
    <3>1. PICK to \in {"expired", "install", "checkin token", "validate"} :
            pc' = [pc EXCEPT ![c] = to]
      BY <1>1 DEF Call, Goto
    <3>2. UNCHANGED <<answer, installs>>
      BY <1>1 DEF Call, servers
    <3> QED
      BY <3>1, <3>2 DEF AnswersAreUsable, CallerTypes, StoringInstall, StoringCheckin
  <2>2. DeviceTypes' /\ ServerTypes' /\ crashed' \in BOOLEAN
    BY <1>1 DEF Call, device, servers, DeviceTypes, ServerTypes
  <2> QED
    BY <2>1, <2>2, <2>3 DEF TypeOK
<1>2. ASSUME NEW c \in Callers, CheckExpiry(c) PROVE TypeOK'
  <2>1. CallerTypes' /\ AnswersAreUsable'
    BY <1>2, StepTypes
    DEF CheckExpiry, Steps, Guarded, StoringInstall, StoringCheckin, servers
  <2>2. DeviceTypes' /\ ServerTypes' /\ crashed' \in BOOLEAN
    BY <1>2 DEF CheckExpiry, device, servers, DeviceTypes, ServerTypes
  <2> QED
    BY <2>1, <2>2 DEF TypeOK
<1>3. ASSUME NEW c \in Callers, BuildInstall(c) PROVE TypeOK'
  <2>3. [sent[c] EXCEPT !.fid = fid[job[c].app]] \in Requests
    BY <1>3 DEF BuildInstall, Goto, CallerTypes, DeviceTypes, Requests, Jobs, Flows, Parts
  <2>4. /\ Goto(c, "install", "installing")
        /\ sent' = [sent EXCEPT ![c] = [sent[c] EXCEPT !.fid = fid[job[c].app]]]
        /\ UNCHANGED <<job, attempt, lastErr, answer, installs>>
    BY <1>3 DEF BuildInstall, servers
  <2>1. CallerTypes' /\ AnswersAreUsable'
    BY <2>3, <2>4, ReadTypes DEF Steps, Guarded, StoringInstall, StoringCheckin
  <2>2. DeviceTypes' /\ ServerTypes' /\ crashed' \in BOOLEAN
    BY <1>3 DEF BuildInstall, device, servers, DeviceTypes, ServerTypes
  <2> QED
    BY <2>1, <2>2 DEF TypeOK
<1>4. ASSUME NEW c \in Callers, InstallFails(c) PROVE TypeOK'
  <2>1. CallerTypes' /\ AnswersAreUsable'
    BY <1>4, ReturnTypes DEF InstallFails, servers
  <2>2. DeviceTypes' /\ ServerTypes' /\ crashed' \in BOOLEAN
    BY <1>4 DEF InstallFails, device, servers, DeviceTypes, ServerTypes
  <2> QED
    BY <2>1, <2>2 DEF TypeOK
<1>5. ASSUME NEW c \in Callers, InstallAnswered(c) PROVE TypeOK'
  <2>1. /\ Goto(c, "installing", "lock install")
        /\ answer' = [answer EXCEPT ![c] = installs + 1]
        /\ sent' = [sent EXCEPT ![c] = NoRequest]
        /\ UNCHANGED <<job, attempt, lastErr>>
    BY <1>5 DEF InstallAnswered
  <2>10. installs' = installs + 1 /\ installs < MaxInstalls
    BY <1>5 DEF InstallAnswered
  <2>11. installs \in 0..MaxInstalls
    BY DEF ServerTypes, Installs
  <2>2. installs \in Nat /\ installs + 1 \in Installs
    BY <2>10, <2>11, RegistrationAssumption DEF Installs
  <2>3. NoRequest \in Requests
    BY RegistrationAssumption DEF NoRequest, Requests, Installs, Credentials
  <2>4. /\ attempt' \in [Callers -> Nat]
        /\ lastErr' \in [Callers -> {"none", "retryable", "auth"}]
        /\ sent' \in [Callers -> Requests]
        /\ answer' \in [Callers -> Nat] /\ answer'[c] = installs + 1
        /\ \A d \in Callers \ {c} : answer'[d] = answer[d]
    <3>1. installs + 1 \in Nat
      BY <2>2
    <3>2. /\ answer' \in [Callers -> Nat] /\ answer'[c] = installs + 1
          /\ \A d \in Callers \ {c} : answer'[d] = answer[d]
      BY <2>1, <3>1 DEF CallerTypes
    <3> QED
      BY <2>1, <2>3, <3>2 DEF CallerTypes
  <2>5. /\ answer'[c] \in 1..installs'
        /\ installs' \in Nat /\ installs <= installs'
    BY <2>10, <2>2, <2>4
  <2>6. CallerTypes' /\ AnswersAreUsable'
    BY <2>1, <2>4, <2>5, MoveTypes DEF Steps, StoringInstall, StoringCheckin
  <2>7. PICK f \in {installs + 1, sent[c].fid} \ {0} :
          fidOf' = [fidOf EXCEPT ![installs + 1] = f]
    BY <1>5 DEF InstallAnswered
  <2>8. f \in Installs
    BY <2>2, <2>7 DEF CallerTypes, Requests
  <2>12. UNCHANGED <<device, checkins, rejected, crashed>>
    BY <1>5 DEF InstallAnswered
  <2>9. ServerTypes'
    BY <2>10, <2>2, <2>7, <2>8, <2>12 DEF ServerTypes
  <2> QED
    BY <2>6, <2>9, <2>12 DEF TypeOK, device, DeviceTypes
<1>6. ASSUME NEW c \in Callers, LockInstallation(c) PROVE TypeOK'
  <2>1. CallerTypes' /\ AnswersAreUsable'
    BY <1>6, StepTypes
    DEF LockInstallation, Steps, Guarded, StoringInstall, StoringCheckin, servers
  <2>2. DeviceTypes' /\ ServerTypes' /\ crashed' \in BOOLEAN
    BY <1>6 DEF LockInstallation, device, servers, DeviceTypes, ServerTypes
  <2> QED
    BY <2>1, <2>2 DEF TypeOK
<1>7. ASSUME NEW c \in Callers, InsertInstallation(c) PROVE TypeOK'
  <2>1. CallerTypes' /\ AnswersAreUsable'
    BY <1>7, StepTypes
    DEF InsertInstallation, Steps, Guarded, StoringInstall, StoringCheckin, servers, InsertEntry
  <2>3. job[c].app \in Packages
    BY <1>7 DEF InsertInstallation, Step, Goto, CallerTypes, Jobs, Flows, Parts
  <2>4. 0 \in Installs /\ NoToken \in Registrations
    BY RegistrationAssumption DEF Installs, Registrations, NoToken, Credentials
  <2>2. DeviceTypes' /\ ServerTypes' /\ crashed' \in BOOLEAN
    BY <1>7, <2>3, <2>4
    DEF InsertInstallation, InsertEntry, servers, DeviceTypes, ServerTypes
  <2> QED
    BY <2>1, <2>2 DEF TypeOK
<1>8. ASSUME NEW c \in Callers, StoreAuth(c) PROVE TypeOK'
  <2>1. CallerTypes' /\ AnswersAreUsable'
    BY <1>8, StepTypes
    DEF StoreAuth, Steps, Guarded, StoringInstall, StoringCheckin, servers
  <2>3. answer[c] \in 1..installs /\ installs \in Installs
    BY <1>8 DEF StoreAuth, Step, Goto, AnswersAreUsable, StoringInstall, ServerTypes
  <2>4. answer[c] \in Installs
    BY <2>3, RegistrationAssumption DEF Installs
  <2>2. DeviceTypes' /\ ServerTypes' /\ crashed' \in BOOLEAN
    BY <1>8, <2>4 DEF StoreAuth, servers, DeviceTypes, ServerTypes
  <2> QED
    BY <2>1, <2>2 DEF TypeOK
<1>9. ASSUME NEW c \in Callers, StoreFID(c) PROVE TypeOK'
  <2>1. CallerTypes' /\ AnswersAreUsable'
    BY <1>9, ContinueTypes
    DEF StoreFID, Steps, Guarded, StoringInstall, StoringCheckin, servers
  <2>3. pc[c] = "store fid"
    BY <1>9 DEF StoreFID, Continue, Goto, Return
  <2>4. answer[c] \in 1..installs /\ installs \in Installs
    BY <2>3 DEF AnswersAreUsable, StoringInstall, ServerTypes
  <2>6. answer[c] \in Installs
    BY <2>4, RegistrationAssumption DEF Installs
  <2>5. fidOf[answer[c]] \in Installs
    BY <2>6 DEF ServerTypes
  <2>2. DeviceTypes' /\ ServerTypes' /\ crashed' \in BOOLEAN
    BY <1>9, <2>5 DEF StoreFID, servers, DeviceTypes, ServerTypes
  <2> QED
    BY <2>1, <2>2 DEF TypeOK
<1>10. ASSUME NEW c \in Callers, CheckCheckin(c) PROVE TypeOK'
  <2>1. CallerTypes' /\ AnswersAreUsable'
    BY <1>10, StepTypes
    DEF CheckCheckin, Steps, Guarded, StoringInstall, StoringCheckin, servers
  <2>2. DeviceTypes' /\ ServerTypes' /\ crashed' \in BOOLEAN
    BY <1>10 DEF CheckCheckin, device, servers, DeviceTypes, ServerTypes
  <2> QED
    BY <2>1, <2>2 DEF TypeOK
<1>11. ASSUME NEW c \in Callers, ReadCheckinID(c) PROVE TypeOK'
  <2>3. [sent[c] EXCEPT !.id = androidID] \in Requests
    BY DEF CallerTypes, DeviceTypes, Requests
  <2>4. /\ Goto(c, "checkin id", "checking in")
        /\ sent' = [sent EXCEPT ![c] = [sent[c] EXCEPT !.id = androidID]]
        /\ UNCHANGED <<job, attempt, lastErr, answer, installs>>
    BY <1>11 DEF ReadCheckinID, servers
  <2>1. CallerTypes' /\ AnswersAreUsable'
    BY <2>3, <2>4, ReadTypes DEF Steps, Guarded, StoringInstall, StoringCheckin
  <2>2. DeviceTypes' /\ ServerTypes' /\ crashed' \in BOOLEAN
    BY <1>11 DEF ReadCheckinID, device, servers, DeviceTypes, ServerTypes
  <2> QED
    BY <2>1, <2>2 DEF TypeOK
<1>12. ASSUME NEW c \in Callers, ReadCheckinToken(c) PROVE TypeOK'
  <2>3. [sent[c] EXCEPT !.token = securityToken] \in Requests
    BY DEF CallerTypes, DeviceTypes, Requests
  <2>4. /\ Goto(c, "checkin token", "checkin id")
        /\ sent' = [sent EXCEPT ![c] = [sent[c] EXCEPT !.token = securityToken]]
        /\ UNCHANGED <<job, attempt, lastErr, answer, installs>>
    BY <1>12 DEF ReadCheckinToken, servers
  <2>1. CallerTypes' /\ AnswersAreUsable'
    BY <2>3, <2>4, ReadTypes DEF Steps, Guarded, StoringInstall, StoringCheckin
  <2>2. DeviceTypes' /\ ServerTypes' /\ crashed' \in BOOLEAN
    BY <1>12 DEF ReadCheckinToken, device, servers, DeviceTypes, ServerTypes
  <2> QED
    BY <2>1, <2>2 DEF TypeOK
<1>13. ASSUME NEW c \in Callers, CheckinFails(c) PROVE TypeOK'
  <2>1. CallerTypes' /\ AnswersAreUsable'
    BY <1>13, ReturnTypes DEF CheckinFails, servers
  <2>2. DeviceTypes' /\ ServerTypes' /\ crashed' \in BOOLEAN
    BY <1>13 DEF CheckinFails, device, servers, DeviceTypes, ServerTypes
  <2> QED
    BY <2>1, <2>2 DEF TypeOK
<1>14. ASSUME NEW c \in Callers, CheckinAnswered(c) PROVE TypeOK'
  <2>1. /\ Goto(c, "checking in", "lock checkin")
        /\ sent' = [sent EXCEPT ![c] = NoRequest]
        /\ UNCHANGED <<job, attempt, lastErr, installs>>
    BY <1>14 DEF CheckinAnswered
  <2>9. UNCHANGED <<device, rejected, installs, fidOf, crashed>>
    BY <1>14 DEF CheckinAnswered
  <2>2. NoRequest \in Requests
    BY RegistrationAssumption DEF NoRequest, Requests, Installs, Credentials
  <2>3. /\ sent[c].id \in Credentials
        /\ installs \in Nat /\ checkins \in Credentials
    BY RegistrationAssumption DEF CallerTypes, Requests, ServerTypes, Installs
  <2>4. PICK n \in Credentials \ {0} :
          answer' = [answer EXCEPT ![c] = n] /\ checkins' \in Credentials
    <3>1. CASE /\ sent[c].id \notin rejected \cup {0}
               /\ answer' = [answer EXCEPT ![c] = sent[c].id]
               /\ UNCHANGED checkins
      BY <3>1, <2>3
    <3>2. CASE /\ checkins < MaxCheckins
               /\ answer' = [answer EXCEPT ![c] = checkins + 1]
               /\ checkins' = checkins + 1
      <4>1. checkins \in 0..MaxCheckins
        BY <2>3 DEF Credentials
      <4>2. checkins + 1 \in Credentials \ {0}
        BY <4>1, <3>2, RegistrationAssumption DEF Credentials
      <4> QED
        BY <3>2, <4>2
    <3> QED
      BY <3>1, <3>2, <1>14 DEF CheckinAnswered
  <2>10. n \in Nat
    BY <2>4, RegistrationAssumption DEF Credentials
  <2>5. /\ attempt' \in [Callers -> Nat]
        /\ lastErr' \in [Callers -> {"none", "retryable", "auth"}]
        /\ sent' \in [Callers -> Requests]
        /\ answer' \in [Callers -> Nat] /\ answer'[c] \in Credentials \ {0}
        /\ \A d \in Callers \ {c} : answer'[d] = answer[d]
    BY <2>1, <2>2, <2>4, <2>10 DEF CallerTypes
  <2>6. installs' \in Nat /\ installs <= installs'
    BY <2>9, <2>3
  <2>7. CallerTypes' /\ AnswersAreUsable'
    BY <2>1, <2>5, <2>6, MoveTypes DEF Steps, StoringInstall, StoringCheckin
  <2>8. ServerTypes'
    BY <2>9, <2>4 DEF ServerTypes
  <2> QED
    BY <2>7, <2>8, <2>9 DEF TypeOK, device, DeviceTypes
<1>15. ASSUME NEW c \in Callers, StoreID(c) PROVE TypeOK'
  <2>1. CallerTypes' /\ AnswersAreUsable'
    BY <1>15, StepTypes
    DEF StoreID, Steps, Guarded, StoringInstall, StoringCheckin, servers
  <2>4. answer[c] \in Credentials
    BY <1>15 DEF StoreID, Step, Goto, AnswersAreUsable, StoringCheckin
  <2>2. DeviceTypes' /\ ServerTypes' /\ crashed' \in BOOLEAN
    BY <1>15, <2>4 DEF StoreID, servers, DeviceTypes, ServerTypes
  <2> QED
    BY <2>1, <2>2 DEF TypeOK
<1>16. ASSUME NEW c \in Callers, StoreSecurityToken(c) PROVE TypeOK'
  <2>1. CallerTypes' /\ AnswersAreUsable'
    BY <1>16, ContinueTypes
    DEF StoreSecurityToken, Steps, Guarded, StoringInstall, StoringCheckin, servers
  <2>3. pc[c] = "store token"
    BY <1>16 DEF StoreSecurityToken, Continue, Goto, Return
  <2>5. answer[c] \in Credentials
    BY <2>3 DEF AnswersAreUsable, StoringCheckin
  <2>2. DeviceTypes' /\ ServerTypes' /\ crashed' \in BOOLEAN
    BY <1>16, <2>5 DEF StoreSecurityToken, servers, DeviceTypes, ServerTypes
  <2> QED
    BY <2>1, <2>2 DEF TypeOK
<1>17. ASSUME NEW c \in Callers, GiveUp(c) PROVE TypeOK'
  <2>1. CallerTypes' /\ AnswersAreUsable'
    BY <1>17, ReturnTypes DEF GiveUp, servers
  <2>2. DeviceTypes' /\ ServerTypes' /\ crashed' \in BOOLEAN
    BY <1>17 DEF GiveUp, device, servers, DeviceTypes, ServerTypes
  <2> QED
    BY <2>1, <2>2 DEF TypeOK
<1>18. ASSUME NEW c \in Callers, NextAttempt(c) PROVE TypeOK'
  <2>1. CallerTypes' /\ AnswersAreUsable'
    BY <1>18, StepTypes
    DEF NextAttempt, Steps, Guarded, StoringInstall, StoringCheckin, servers
  <2>2. DeviceTypes' /\ ServerTypes' /\ crashed' \in BOOLEAN
    BY <1>18 DEF NextAttempt, device, servers, DeviceTypes, ServerTypes
  <2> QED
    BY <2>1, <2>2 DEF TypeOK
<1>19. ASSUME NEW c \in Callers, Abort(c) PROVE TypeOK'
  <2>1. CallerTypes' /\ AnswersAreUsable'
    BY <1>19, ReturnTypes DEF Abort, servers
  <2>2. DeviceTypes' /\ ServerTypes' /\ crashed' \in BOOLEAN
    BY <1>19 DEF Abort, device, servers, DeviceTypes, ServerTypes
  <2> QED
    BY <2>1, <2>2 DEF TypeOK
<1>20. ASSUME NEW c \in Callers, Wake(c) PROVE TypeOK'
  <2>1. CallerTypes' /\ AnswersAreUsable'
    BY <1>20, StepTypes
    DEF Wake, Steps, Guarded, StoringInstall, StoringCheckin, servers
  <2>2. DeviceTypes' /\ ServerTypes' /\ crashed' \in BOOLEAN
    BY <1>20 DEF Wake, device, servers, DeviceTypes, ServerTypes
  <2> QED
    BY <2>1, <2>2 DEF TypeOK
<1>21. ASSUME NEW c \in Callers, Validate(c) PROVE TypeOK'
  <2>1. CallerTypes' /\ AnswersAreUsable'
    <3>1. CASE Return(c, "validate")
      BY <3>1, <1>21, ReturnTypes DEF Validate, servers
    <3>2. CASE Step(c, "validate", IF job[c].op = "web" THEN "id" ELSE "find")
      BY <3>2, <1>21, StepTypes DEF Validate, servers, Steps, Guarded, StoringInstall, StoringCheckin
    <3> QED
      BY <3>1, <3>2, <1>21 DEF Validate
  <2>2. DeviceTypes' /\ ServerTypes' /\ crashed' \in BOOLEAN
    BY <1>21 DEF Validate, device, servers, DeviceTypes, ServerTypes
  <2> QED
    BY <2>1, <2>2 DEF TypeOK
<1>22. ASSUME NEW c \in Callers, FindInstallation(c) PROVE TypeOK'
  <2>1. CallerTypes' /\ AnswersAreUsable'
    <3>1. CASE Return(c, "find")
      BY <3>1, <1>22, ReturnTypes DEF FindInstallation, servers
    <3>2. CASE /\ Goto(c, "find", "auth")
               /\ sent' = [sent EXCEPT ![c].fid = fid[job[c].app]]
               /\ UNCHANGED <<job, attempt, lastErr, answer>>
      <4>1. [sent[c] EXCEPT !.fid = fid[job[c].app]] \in Requests
        BY <3>2 DEF Goto, CallerTypes, DeviceTypes, Requests, Jobs, Flows, Parts
      <4>2. /\ sent' = [sent EXCEPT ![c] = [sent[c] EXCEPT !.fid = fid[job[c].app]]]
            /\ UNCHANGED installs
        BY <3>2, <1>22 DEF FindInstallation, servers
      <4> QED
        BY <3>2, <4>1, <4>2, ReadTypes DEF Steps, Guarded, StoringInstall, StoringCheckin
    <3> QED
      BY <3>1, <3>2, <1>22 DEF FindInstallation
  <2>2. DeviceTypes' /\ ServerTypes' /\ crashed' \in BOOLEAN
    BY <1>22 DEF FindInstallation, device, servers, DeviceTypes, ServerTypes
  <2> QED
    BY <2>1, <2>2 DEF TypeOK
<1>23. ASSUME NEW c \in Callers, ReadAuth(c) PROVE TypeOK'
  <2>3. [sent[c] EXCEPT !.auth = accessToken[job[c].app]] \in Requests
    BY <1>23 DEF ReadAuth, Goto, CallerTypes, DeviceTypes, Requests, Jobs, Flows, Parts
  <2>4. /\ Goto(c, "auth", "id")
        /\ sent' = [sent EXCEPT ![c] = [sent[c] EXCEPT !.auth = accessToken[job[c].app]]]
        /\ UNCHANGED <<job, attempt, lastErr, answer, installs>>
    BY <1>23 DEF ReadAuth, servers
  <2>1. CallerTypes' /\ AnswersAreUsable'
    BY <2>3, <2>4, ReadTypes DEF Steps, Guarded, StoringInstall, StoringCheckin
  <2>2. DeviceTypes' /\ ServerTypes' /\ crashed' \in BOOLEAN
    BY <1>23 DEF ReadAuth, device, servers, DeviceTypes, ServerTypes
  <2> QED
    BY <2>1, <2>2 DEF TypeOK
<1>24. ASSUME NEW c \in Callers, ReadID(c) PROVE TypeOK'
  <2>3. [sent[c] EXCEPT !.id = androidID] \in Requests
    BY <1>24 DEF ReadID, Goto, CallerTypes, DeviceTypes, Requests, Jobs, Flows, Parts
  <2>4. /\ Goto(c, "id", "token")
        /\ sent' = [sent EXCEPT ![c] = [sent[c] EXCEPT !.id = androidID]]
        /\ UNCHANGED <<job, attempt, lastErr, answer, installs>>
    BY <1>24 DEF ReadID, servers
  <2>1. CallerTypes' /\ AnswersAreUsable'
    BY <2>3, <2>4, ReadTypes DEF Steps, Guarded, StoringInstall, StoringCheckin
  <2>2. DeviceTypes' /\ ServerTypes' /\ crashed' \in BOOLEAN
    BY <1>24 DEF ReadID, device, servers, DeviceTypes, ServerTypes
  <2> QED
    BY <2>1, <2>2 DEF TypeOK
<1>25. ASSUME NEW c \in Callers, ReadToken(c) PROVE TypeOK'
  <2>3. [sent[c] EXCEPT !.token = securityToken] \in Requests
    BY <1>25 DEF ReadToken, Goto, CallerTypes, DeviceTypes, Requests, Jobs, Flows, Parts
  <2>4. /\ Goto(c, "token", "registering")
        /\ sent' = [sent EXCEPT ![c] = [sent[c] EXCEPT !.token = securityToken]]
        /\ UNCHANGED <<job, attempt, lastErr, answer, installs>>
    BY <1>25 DEF ReadToken, servers
  <2>1. CallerTypes' /\ AnswersAreUsable'
    BY <2>3, <2>4, ReadTypes DEF Steps, Guarded, StoringInstall, StoringCheckin
  <2>2. DeviceTypes' /\ ServerTypes' /\ crashed' \in BOOLEAN
    BY <1>25 DEF ReadToken, device, servers, DeviceTypes, ServerTypes
  <2> QED
    BY <2>1, <2>2 DEF TypeOK
<1>26. ASSUME NEW c \in Callers, RegisterFails(c) PROVE TypeOK'
  <2>1. CallerTypes' /\ AnswersAreUsable'
    BY <1>26, ReturnTypes DEF RegisterFails, servers
  <2>2. DeviceTypes' /\ ServerTypes' /\ crashed' \in BOOLEAN
    BY <1>26 DEF RegisterFails, device, servers, DeviceTypes, ServerTypes
  <2> QED
    BY <2>1, <2>2 DEF TypeOK
<1>27. ASSUME NEW c \in Callers, RegisterRefused(c) PROVE TypeOK'
  <2>1. CallerTypes' /\ AnswersAreUsable'
    <3>1. CASE Return(c, "registering")
      BY <3>1, <1>27, ReturnTypes DEF RegisterRefused, servers
    <3>2. CASE /\ Goto(c, "registering", "attempt")
               /\ attempt' = [attempt EXCEPT ![c] = attempt[c] + 1]
               /\ lastErr' = [lastErr EXCEPT ![c] = "retryable"]
               /\ sent' = [sent EXCEPT ![c] = NoRequest]
               /\ UNCHANGED <<job, answer>>
      <4>1. NoRequest \in Requests
        BY RegistrationAssumption DEF NoRequest, Requests, Installs, Credentials
      <4>2. /\ attempt' \in [Callers -> Nat]
            /\ lastErr' \in [Callers -> {"none", "retryable", "auth"}]
            /\ sent' \in [Callers -> Requests]
            /\ answer' \in [Callers -> Nat]
        BY <3>2, <4>1 DEF CallerTypes
      <4>3. installs' \in Nat /\ installs <= installs'
        BY <1>27, RegistrationAssumption DEF RegisterRefused, servers, ServerTypes, Installs
      <4> QED
        BY <3>2, <4>2, <4>3, MoveTypes DEF Steps, Guarded, StoringInstall, StoringCheckin
    <3> QED
      BY <3>1, <3>2, <1>27 DEF RegisterRefused
  <2>2. DeviceTypes' /\ ServerTypes' /\ crashed' \in BOOLEAN
    BY <1>27 DEF RegisterRefused, device, servers, DeviceTypes, ServerTypes
  <2> QED
    BY <2>1, <2>2 DEF TypeOK
<1>28. ASSUME NEW c \in Callers, RegisterRejected(c) PROVE TypeOK'
  <2>1. CallerTypes' /\ AnswersAreUsable'
    <3>1. CASE Return(c, "registering")
      BY <3>1, <1>28, ReturnTypes DEF RegisterRejected, servers
    <3>2. CASE /\ Goto(c, "registering", "checkin token")
               /\ attempt' = [attempt EXCEPT ![c] = attempt[c] + 1]
               /\ lastErr' = [lastErr EXCEPT ![c] = "auth"]
               /\ sent' = [sent EXCEPT ![c] = NoRequest]
               /\ UNCHANGED <<job, answer>>
      <4>1. NoRequest \in Requests
        BY RegistrationAssumption DEF NoRequest, Requests, Installs, Credentials
      <4>2. /\ attempt' \in [Callers -> Nat]
            /\ lastErr' \in [Callers -> {"none", "retryable", "auth"}]
            /\ sent' \in [Callers -> Requests]
            /\ answer' \in [Callers -> Nat]
        <5>1. attempt' \in [Callers -> Nat]
          <6>1. attempt' = [attempt EXCEPT ![c] = attempt[c] + 1]
            BY <3>2
          <6>2. attempt \in [Callers -> Nat]
            BY DEF CallerTypes
          <6> QED
            BY <6>1, <6>2
        <5>2. /\ lastErr' \in [Callers -> {"none", "retryable", "auth"}]
              /\ sent' \in [Callers -> Requests]
              /\ answer' \in [Callers -> Nat]
          BY <3>2, <4>1 DEF CallerTypes
        <5> QED
          BY <5>1, <5>2
      <4>3. installs' \in Nat /\ installs <= installs'
        <5>1. UNCHANGED installs
          BY <1>28 DEF RegisterRejected
        <5> QED
          BY <5>1, RegistrationAssumption DEF ServerTypes, Installs
      <4> QED
        BY <3>2, <4>2, <4>3, MoveTypes DEF Steps, Guarded, StoringInstall, StoringCheckin
    <3> QED
      BY <3>1, <3>2, <1>28 DEF RegisterRejected
  <2>3. sent[c].id \in Credentials
    BY DEF CallerTypes, Requests
  <2>2. DeviceTypes' /\ ServerTypes' /\ crashed' \in BOOLEAN
    BY <1>28, <2>3 DEF RegisterRejected, device, DeviceTypes, ServerTypes
  <2> QED
    BY <2>1, <2>2 DEF TypeOK
<1>29. ASSUME NEW c \in Callers, RegisterAnswered(c) PROVE TypeOK'
  <2>1. CallerTypes' /\ AnswersAreUsable'
    BY <1>29, StepTypes
    DEF RegisterAnswered, Steps, Guarded, StoringInstall, StoringCheckin, servers
  <2>2. DeviceTypes' /\ ServerTypes' /\ crashed' \in BOOLEAN
    BY <1>29 DEF RegisterAnswered, device, servers, DeviceTypes, ServerTypes
  <2> QED
    BY <2>1, <2>2 DEF TypeOK
<1>30. ASSUME NEW c \in Callers, LockToken(c) PROVE TypeOK'
  <2>1. CallerTypes' /\ AnswersAreUsable'
    BY <1>30, StepTypes
    DEF LockToken, Steps, Guarded, StoringInstall, StoringCheckin, servers
  <2>2. DeviceTypes' /\ ServerTypes' /\ crashed' \in BOOLEAN
    BY <1>30 DEF LockToken, device, servers, DeviceTypes, ServerTypes
  <2> QED
    BY <2>1, <2>2 DEF TypeOK
<1>31. ASSUME NEW c \in Callers, InsertForToken(c) PROVE TypeOK'
  <2>1. CallerTypes' /\ AnswersAreUsable'
    BY <1>31, StepTypes
    DEF InsertForToken, Steps, Guarded, StoringInstall, StoringCheckin, servers, InsertEntry
  <2>3. job[c].app \in Packages
    BY <1>31 DEF InsertForToken, Step, Goto, CallerTypes, Jobs, Flows, Parts
  <2>4. 0 \in Installs /\ NoToken \in Registrations
    BY RegistrationAssumption DEF Installs, Registrations, NoToken, Credentials
  <2>2. DeviceTypes' /\ ServerTypes' /\ crashed' \in BOOLEAN
    BY <1>31, <2>3, <2>4
    DEF InsertForToken, InsertEntry, servers, DeviceTypes, ServerTypes
  <2> QED
    BY <2>1, <2>2 DEF TypeOK
<1>32. ASSUME NEW c \in Callers, StoreRegistration(c) PROVE TypeOK'
  <2>1. CallerTypes' /\ AnswersAreUsable'
    BY <1>32, ReturnTypes DEF StoreRegistration, servers
  <2>3. [id |-> sent[c].id, fid |-> sent[c].fid] \in Registrations
    BY DEF CallerTypes, Requests, Registrations
  <2>2. DeviceTypes' /\ ServerTypes' /\ crashed' \in BOOLEAN
    BY <1>32, <2>3 DEF StoreRegistration, servers, DeviceTypes, ServerTypes
  <2> QED
    BY <2>1, <2>2 DEF TypeOK
<1>33. ASSUME NEW c \in Callers, MapRace(c) PROVE TypeOK'
  BY <1>33 DEF MapRace, caller, device, servers, TypeOK, CallerTypes, AnswersAreUsable,
     DeviceTypes, ServerTypes
<1>34. ASSUME NEW p \in Packages, Expire(p) PROVE TypeOK'
  BY <1>34 DEF Expire, caller, servers, TypeOK, CallerTypes, AnswersAreUsable,
     DeviceTypes, ServerTypes
<1> QED
  BY <1>1, <1>2, <1>3, <1>4, <1>5, <1>6, <1>7, <1>8, <1>9, <1>10, <1>11,
     <1>12, <1>13, <1>14, <1>15, <1>16, <1>17, <1>18, <1>19, <1>20, <1>21,
     <1>22, <1>23, <1>24, <1>25, <1>26, <1>27, <1>28, <1>29, <1>30, <1>31,
     <1>32, <1>33, <1>34
  DEF Next, Proceeds, Installing, CheckingIn, Registering

-----------------------------------------------------------------------------
(* Whom a step moves.                                                      *)

\* Nothing changes of the callers other than c.
OthersStay(c) ==
  \A d \in Callers \ {c} :
    pc'[d] = pc[d] /\ job'[d] = job[d] /\ sent'[d] = sent[d] /\ answer'[d] = answer[d]

\* A step moves one caller.
LEMMA GotoMoves ==
  ASSUME CallerTypes, NEW c \in Callers, NEW from, NEW to, Goto(c, from, to)
  PROVE  pc[c] = from /\ pc'[c] = to /\ \A d \in Callers \ {c} : pc'[d] = pc[d]
BY DEF CallerTypes, Goto

\* A step that leaves the rest of its caller.
LEMMA StepMoves ==
  ASSUME CallerTypes, NEW c \in Callers, NEW from, NEW to, Step(c, from, to)
  PROVE  /\ pc[c] = from /\ pc'[c] = to
         /\ job' = job /\ sent' = sent /\ answer' = answer
         /\ OthersStay(c)
BY GotoMoves DEF Step, OthersStay

\* A call that returns.
LEMMA ReturnMoves ==
  ASSUME CallerTypes, NEW c \in Callers, NEW from, Return(c, from)
  PROVE  pc[c] = from /\ pc'[c] = "idle" /\ OthersStay(c)
<1>1. pc[c] = from /\ pc'[c] = "idle" /\ \A d \in Callers \ {c} : pc'[d] = pc[d]
  BY GotoMoves DEF Return
<1>2. \A d \in Callers \ {c} :
        job'[d] = job[d] /\ sent'[d] = sent[d] /\ answer'[d] = answer[d]
  BY DEF Return, CallerTypes
<1> QED
  BY <1>1, <1>2 DEF OthersStay

\* A part of the call that is done.
LEMMA ContinueMoves ==
  ASSUME CallerTypes, NEW c \in Callers, NEW from, NEW to, Continue(c, from, to)
  PROVE  pc[c] = from /\ pc'[c] \in {"idle", to} /\ OthersStay(c)
<1>1. CASE Return(c, from)
  BY <1>1, ReturnMoves
<1>2. CASE /\ Goto(c, from, to)
           /\ answer' = [answer EXCEPT ![c] = 0]
           /\ UNCHANGED <<job, attempt, lastErr, sent>>
  <2>1. pc[c] = from /\ pc'[c] = to /\ \A d \in Callers \ {c} : pc'[d] = pc[d]
    BY <1>2, GotoMoves
  <2>2. \A d \in Callers \ {c} :
          job'[d] = job[d] /\ sent'[d] = sent[d] /\ answer'[d] = answer[d]
    BY <1>2 DEF CallerTypes
  <2> QED
    BY <2>1, <2>2 DEF OthersStay
<1> QED
  BY <1>1, <1>2 DEF Continue

\* A step that neither holds the mutex nor takes it, and leaves what it guards.
Quiet(c) ==
  /\ OthersStay(c)
  /\ pc[c] \notin Guarded /\ pc'[c] \notin Guarded
  /\ UNCHANGED <<androidID, securityToken, installations, accessToken, fid,
                 notificationToken, installs, fidOf>>

\* The three forms such a step takes.
LEMMA QuietGoto ==
  ASSUME CallerTypes, NEW c \in Callers, NEW from, NEW to, Goto(c, from, to),
         from \notin Guarded, to \notin Guarded,
         \A d \in Callers \ {c} :
           job'[d] = job[d] /\ sent'[d] = sent[d] /\ answer'[d] = answer[d],
         UNCHANGED <<device, installs, fidOf>>
  PROVE  Quiet(c)
<1>1. pc[c] = from /\ pc'[c] = to /\ OthersStay(c)
  BY GotoMoves DEF OthersStay
<1>2. UNCHANGED <<androidID, securityToken, installations, accessToken, fid,
                 notificationToken, installs, fidOf>>
  BY DEF device
<1> QED
  BY <1>1, <1>2 DEF Quiet

LEMMA QuietStep ==
  ASSUME CallerTypes, NEW c \in Callers, NEW from, NEW to, Step(c, from, to),
         from \notin Guarded, to \notin Guarded, UNCHANGED <<device, servers>>
  PROVE  Quiet(c)
<1>1. Goto(c, from, to) /\ UNCHANGED <<job, sent, answer>>
  BY DEF Step
<1>2. UNCHANGED <<device, installs, fidOf>>
  BY DEF servers
<1> QED
  BY <1>1, <1>2, QuietGoto

LEMMA QuietReturn ==
  ASSUME CallerTypes, NEW c \in Callers, NEW from, Return(c, from),
         from \notin Guarded, UNCHANGED <<device, installs, fidOf>>
  PROVE  Quiet(c)
<1>1. Goto(c, from, "idle")
  BY DEF Return
<1>2. \A d \in Callers \ {c} :
        job'[d] = job[d] /\ sent'[d] = sent[d] /\ answer'[d] = answer[d]
  BY ReturnMoves DEF OthersStay
<1>3. "idle" \notin Guarded
  BY DEF Guarded
<1> QED
  BY <1>1, <1>2, <1>3, QuietGoto

\* Every step up to the mutex.
Preparing(c) ==
  \/ Call(c) \/ CheckExpiry(c) \/ CheckCheckin(c)
  \/ GiveUp(c) \/ NextAttempt(c) \/ Abort(c) \/ Wake(c)
  \/ BuildInstall(c) \/ InstallFails(c)
  \/ ReadCheckinToken(c) \/ ReadCheckinID(c) \/ CheckinFails(c) \/ CheckinAnswered(c)
  \/ Validate(c) \/ FindInstallation(c) \/ ReadAuth(c) \/ ReadID(c) \/ ReadToken(c)
  \/ RegisterFails(c) \/ RegisterRefused(c) \/ RegisterRejected(c) \/ RegisterAnswered(c)

\* What the callers do without the mutex is of that kind.
LEMMA PreparingIsQuiet ==
  ASSUME CallerTypes, NEW c \in Callers, Preparing(c)
  PROVE  Quiet(c)
<1>1. CASE Call(c)
  <2>1. PICK j \in Jobs :
          /\ Goto(c, "idle", CASE j.op = "register" -> "expired"
                               [] j.op = "install"  -> "install"
                               [] j.op = "checkin"  -> "checkin token"
                               [] OTHER             -> "validate")
          /\ job' = [job EXCEPT ![c] = j]
          /\ UNCHANGED <<attempt, lastErr, sent, answer, device, servers, crashed>>
    BY <1>1 DEF Call
  <2>2. PICK to \in {"expired", "install", "checkin token", "validate"} :
          Goto(c, "idle", to)
    BY <2>1
  <2>3. \A d \in Callers \ {c} :
          job'[d] = job[d] /\ sent'[d] = sent[d] /\ answer'[d] = answer[d]
    BY <2>1 DEF CallerTypes
  <2>4. UNCHANGED <<device, installs, fidOf>>
    BY <2>1 DEF servers
  <2> QED
    BY <2>2, <2>3, <2>4, QuietGoto DEF Guarded
<1>2. CASE CheckExpiry(c)
  BY <1>2, QuietStep DEF CheckExpiry, Guarded
<1>3. CASE CheckCheckin(c)
  BY <1>3, QuietStep DEF CheckCheckin, Guarded
<1>4. CASE NextAttempt(c)
  BY <1>4, QuietStep DEF NextAttempt, Guarded
<1>5. CASE Wake(c)
  BY <1>5, QuietStep DEF Wake, Guarded
<1>6. CASE RegisterAnswered(c)
  BY <1>6, QuietStep DEF RegisterAnswered, Guarded
<1>7. CASE GiveUp(c)
  BY <1>7, QuietReturn DEF GiveUp, Guarded, servers
<1>8. CASE Abort(c)
  BY <1>8, QuietReturn DEF Abort, Guarded, servers
<1>9. CASE InstallFails(c)
  BY <1>9, QuietReturn DEF InstallFails, Guarded, servers
<1>10. CASE CheckinFails(c)
  BY <1>10, QuietReturn DEF CheckinFails, Guarded, servers
<1>11. CASE RegisterFails(c)
  BY <1>11, QuietReturn DEF RegisterFails, Guarded, servers
<1>12. CASE BuildInstall(c)
  <2>1. \A d \in Callers \ {c} :
          job'[d] = job[d] /\ sent'[d] = sent[d] /\ answer'[d] = answer[d]
    BY <1>12 DEF BuildInstall, CallerTypes
  <2>2. Goto(c, "install", "installing") /\ UNCHANGED <<device, installs, fidOf>>
    BY <1>12 DEF BuildInstall, servers
  <2> QED
    BY <2>1, <2>2, QuietGoto DEF Guarded
<1>13. CASE ReadCheckinID(c)
  <2>1. \A d \in Callers \ {c} :
          job'[d] = job[d] /\ sent'[d] = sent[d] /\ answer'[d] = answer[d]
    BY <1>13 DEF ReadCheckinID, CallerTypes
  <2>2. Goto(c, "checkin id", "checking in") /\ UNCHANGED <<device, installs, fidOf>>
    BY <1>13 DEF ReadCheckinID, servers
  <2> QED
    BY <2>1, <2>2, QuietGoto DEF Guarded
<1>14. CASE ReadCheckinToken(c)
  <2>1. \A d \in Callers \ {c} :
          job'[d] = job[d] /\ sent'[d] = sent[d] /\ answer'[d] = answer[d]
    BY <1>14 DEF ReadCheckinToken, CallerTypes
  <2>2. Goto(c, "checkin token", "checkin id") /\ UNCHANGED <<device, installs, fidOf>>
    BY <1>14 DEF ReadCheckinToken, servers
  <2> QED
    BY <2>1, <2>2, QuietGoto DEF Guarded
<1>15. CASE ReadAuth(c)
  <2>1. \A d \in Callers \ {c} :
          job'[d] = job[d] /\ sent'[d] = sent[d] /\ answer'[d] = answer[d]
    BY <1>15 DEF ReadAuth, CallerTypes
  <2>2. Goto(c, "auth", "id") /\ UNCHANGED <<device, installs, fidOf>>
    BY <1>15 DEF ReadAuth, servers
  <2> QED
    BY <2>1, <2>2, QuietGoto DEF Guarded
<1>16. CASE ReadID(c)
  <2>1. \A d \in Callers \ {c} :
          job'[d] = job[d] /\ sent'[d] = sent[d] /\ answer'[d] = answer[d]
    BY <1>16 DEF ReadID, CallerTypes
  <2>2. Goto(c, "id", "token") /\ UNCHANGED <<device, installs, fidOf>>
    BY <1>16 DEF ReadID, servers
  <2> QED
    BY <2>1, <2>2, QuietGoto DEF Guarded
<1>17. CASE ReadToken(c)
  <2>1. \A d \in Callers \ {c} :
          job'[d] = job[d] /\ sent'[d] = sent[d] /\ answer'[d] = answer[d]
    BY <1>17 DEF ReadToken, CallerTypes
  <2>2. Goto(c, "token", "registering") /\ UNCHANGED <<device, installs, fidOf>>
    BY <1>17 DEF ReadToken, servers
  <2> QED
    BY <2>1, <2>2, QuietGoto DEF Guarded
<1>18. CASE CheckinAnswered(c)
  <2>1. \A d \in Callers \ {c} :
          job'[d] = job[d] /\ sent'[d] = sent[d] /\ answer'[d] = answer[d]
    BY <1>18 DEF CheckinAnswered, CallerTypes
  <2>2. Goto(c, "checking in", "lock checkin") /\ UNCHANGED <<device, installs, fidOf>>
    BY <1>18 DEF CheckinAnswered, servers
  <2> QED
    BY <2>1, <2>2, QuietGoto DEF Guarded
<1>19. CASE Validate(c)
  <2>1. CASE Return(c, "validate")
    BY <1>19, <2>1, QuietReturn DEF Validate, Guarded, servers
  <2>2. CASE Step(c, "validate", IF job[c].op = "web" THEN "id" ELSE "find")
    BY <1>19, <2>2, QuietStep DEF Validate, Guarded
  <2> QED
    BY <1>19, <2>1, <2>2 DEF Validate
<1>20. CASE FindInstallation(c)
  <2>1. UNCHANGED <<device, installs, fidOf>>
    BY <1>20 DEF FindInstallation, servers
  <2>2. CASE Return(c, "find")
    BY <2>1, <2>2, QuietReturn DEF Guarded
  <2>3. CASE ~Return(c, "find")
    <3>1. Goto(c, "find", "auth")
      BY <1>20, <2>3 DEF FindInstallation
    <3>2. \A d \in Callers \ {c} :
            job'[d] = job[d] /\ sent'[d] = sent[d] /\ answer'[d] = answer[d]
      BY <1>20, <2>3 DEF FindInstallation, CallerTypes
    <3> QED
      BY <2>1, <3>1, <3>2, QuietGoto DEF Guarded
  <2> QED
    BY <2>2, <2>3
<1>21. CASE RegisterRefused(c)
  <2>1. UNCHANGED <<device, installs, fidOf>>
    BY <1>21 DEF RegisterRefused, servers
  <2>2. CASE Return(c, "registering")
    BY <2>1, <2>2, QuietReturn DEF Guarded
  <2>3. CASE ~Return(c, "registering")
    <3>1. Goto(c, "registering", "attempt")
      BY <1>21, <2>3 DEF RegisterRefused
    <3>2. \A d \in Callers \ {c} :
            job'[d] = job[d] /\ sent'[d] = sent[d] /\ answer'[d] = answer[d]
      BY <1>21, <2>3 DEF RegisterRefused, CallerTypes
    <3> QED
      BY <2>1, <3>1, <3>2, QuietGoto DEF Guarded
  <2> QED
    BY <2>2, <2>3
<1>22. CASE RegisterRejected(c)
  <2>1. UNCHANGED <<device, installs, fidOf>>
    BY <1>22 DEF RegisterRejected, servers
  <2>2. CASE Return(c, "registering")
    BY <2>1, <2>2, QuietReturn DEF Guarded
  <2>3. CASE ~Return(c, "registering")
    <3>1. Goto(c, "registering", "checkin token")
      BY <1>22, <2>3 DEF RegisterRejected
    <3>2. \A d \in Callers \ {c} :
            job'[d] = job[d] /\ sent'[d] = sent[d] /\ answer'[d] = answer[d]
      BY <1>22, <2>3 DEF RegisterRejected, CallerTypes
    <3> QED
      BY <2>1, <3>1, <3>2, QuietGoto DEF Guarded
  <2> QED
    BY <2>2, <2>3
<1> QED
  BY <1>1, <1>2, <1>3, <1>4, <1>5, <1>6, <1>7, <1>8, <1>9, <1>10, <1>11,
     <1>12, <1>13, <1>14, <1>15, <1>16, <1>17, <1>18, <1>19, <1>20, <1>21,
     <1>22 DEF Preparing

-----------------------------------------------------------------------------
(* What the steps around the mutex do, in terms of the caller that takes   *)
(* them and of what the mutex guards.                                      *)

\* The steps that take the mutex or hold it, and the answer that comes before.
Storing(c) ==
  \/ InstallAnswered(c) \/ LockInstallation(c) \/ InsertInstallation(c)
  \/ StoreAuth(c) \/ StoreFID(c) \/ StoreID(c) \/ StoreSecurityToken(c)
  \/ LockToken(c) \/ InsertForToken(c) \/ StoreRegistration(c)

\* Every step is a preparing one, a storing one, the runtime's, or the clock's.
LEMMA NextSplits ==
  ASSUME Next
  PROVE  \/ \E c \in Callers : Preparing(c) \/ Storing(c) \/ MapRace(c)
         \/ \E p \in Packages : Expire(p)
BY DEF Next, Proceeds, Installing, CheckingIn, Registering, Preparing, Storing

LEMMA InstallAnsweredDoes ==
  ASSUME CallerTypes, NEW c \in Callers, InstallAnswered(c)
  PROVE  /\ pc[c] = "installing" /\ pc'[c] = "lock install" /\ OthersStay(c)
         /\ installs' = installs + 1
         /\ \E f : fidOf' = [fidOf EXCEPT ![installs + 1] = f]
         /\ UNCHANGED device
<1>1. Goto(c, "installing", "lock install")
  BY DEF InstallAnswered
<1>2. \A d \in Callers \ {c} :
        job'[d] = job[d] /\ sent'[d] = sent[d] /\ answer'[d] = answer[d]
  BY DEF InstallAnswered, CallerTypes
<1>3. pc[c] = "installing" /\ pc'[c] = "lock install" /\ OthersStay(c)
  BY <1>1, <1>2, GotoMoves DEF OthersStay
<1>4. /\ installs' = installs + 1
      /\ \E f : fidOf' = [fidOf EXCEPT ![installs + 1] = f]
      /\ UNCHANGED device
  BY DEF InstallAnswered
<1> QED
  BY <1>3, <1>4

LEMMA LockInstallationDoes ==
  ASSUME CallerTypes, NEW c \in Callers, LockInstallation(c)
  PROVE  /\ Unlocked /\ pc[c] = "lock install" /\ OthersStay(c) /\ job' = job
         /\ \/ pc'[c] = "insert install" /\ job[c].app \notin installations
            \/ pc'[c] = "store auth" /\ job[c].app \in installations
         /\ UNCHANGED <<device, installs, fidOf>>
<1>1. UNCHANGED <<device, installs, fidOf>>
  BY DEF LockInstallation, servers
<1>2. CASE job[c].app \in installations
  BY <1>1, <1>2, StepMoves DEF LockInstallation
<1>3. CASE job[c].app \notin installations
  BY <1>1, <1>3, StepMoves DEF LockInstallation
<1> QED
  BY <1>2, <1>3

LEMMA InsertInstallationDoes ==
  ASSUME CallerTypes, NEW c \in Callers, InsertInstallation(c)
  PROVE  /\ pc[c] = "insert install" /\ pc'[c] = "store auth"
         /\ OthersStay(c) /\ job' = job
         /\ InsertEntry(job[c].app) /\ UNCHANGED <<installs, fidOf>>
<1>1. UNCHANGED <<installs, fidOf>>
  BY DEF InsertInstallation, servers
<1> QED
  BY <1>1, StepMoves DEF InsertInstallation

LEMMA StoreAuthDoes ==
  ASSUME CallerTypes, NEW c \in Callers, StoreAuth(c)
  PROVE  /\ pc[c] = "store auth" /\ pc'[c] = "store fid"
         /\ OthersStay(c) /\ job' = job /\ answer' = answer
         /\ accessToken' = [accessToken EXCEPT ![job[c].app] = answer[c]]
         /\ UNCHANGED <<androidID, securityToken, installations, fid, notificationToken,
                        installs, fidOf>>
<1>1. UNCHANGED <<installs, fidOf>>
  BY DEF StoreAuth, servers
<1>2. /\ accessToken' = [accessToken EXCEPT ![job[c].app] = answer[c]]
      /\ UNCHANGED <<androidID, securityToken, installations, fid, notificationToken>>
  BY DEF StoreAuth
<1> QED
  BY <1>1, <1>2, StepMoves DEF StoreAuth

LEMMA StoreFIDDoes ==
  ASSUME CallerTypes, NEW c \in Callers, StoreFID(c)
  PROVE  /\ pc[c] = "store fid" /\ pc'[c] \in {"idle", "has checkin"} /\ OthersStay(c)
         /\ fid' = [fid EXCEPT ![job[c].app] = fidOf[answer[c]]]
         /\ UNCHANGED <<androidID, securityToken, installations, accessToken,
                        notificationToken, installs, fidOf>>
<1>1. UNCHANGED <<installs, fidOf>>
  BY DEF StoreFID, servers
<1>2. /\ fid' = [fid EXCEPT ![job[c].app] = fidOf[answer[c]]]
      /\ UNCHANGED <<androidID, securityToken, installations, accessToken,
                     notificationToken>>
  BY DEF StoreFID
<1> QED
  BY <1>1, <1>2, ContinueMoves DEF StoreFID

LEMMA StoreIDDoes ==
  ASSUME CallerTypes, NEW c \in Callers, StoreID(c)
  PROVE  /\ Unlocked /\ pc[c] = "lock checkin" /\ pc'[c] = "store token"
         /\ OthersStay(c) /\ answer' = answer
         /\ androidID' = answer[c]
         /\ UNCHANGED <<securityToken, installations, accessToken, fid, notificationToken,
                        installs, fidOf>>
<1>1. UNCHANGED <<installs, fidOf>>
  BY DEF StoreID, servers
<1>2. /\ Unlocked /\ androidID' = answer[c]
      /\ UNCHANGED <<securityToken, installations, accessToken, fid, notificationToken>>
  BY DEF StoreID
<1> QED
  BY <1>1, <1>2, StepMoves DEF StoreID

LEMMA StoreSecurityTokenDoes ==
  ASSUME CallerTypes, NEW c \in Callers, StoreSecurityToken(c)
  PROVE  /\ pc[c] = "store token" /\ pc'[c] \in {"idle", "attempt"} /\ OthersStay(c)
         /\ securityToken' = answer[c]
         /\ UNCHANGED <<androidID, installations, accessToken, fid, notificationToken,
                        installs, fidOf>>
<1>1. UNCHANGED <<installs, fidOf>>
  BY DEF StoreSecurityToken, servers
<1>2. /\ securityToken' = answer[c]
      /\ UNCHANGED <<androidID, installations, accessToken, fid, notificationToken>>
  BY DEF StoreSecurityToken
<1> QED
  BY <1>1, <1>2, ContinueMoves DEF StoreSecurityToken

LEMMA LockTokenDoes ==
  ASSUME CallerTypes, NEW c \in Callers, LockToken(c)
  PROVE  /\ Unlocked /\ pc[c] = "lock token" /\ OthersStay(c) /\ job' = job /\ sent' = sent
         /\ \/ pc'[c] = "insert token" /\ job[c].app \notin installations
            \/ pc'[c] = "store registration" /\ job[c].app \in installations
         /\ UNCHANGED <<device, installs, fidOf>>
<1>1. UNCHANGED <<device, installs, fidOf>>
  BY DEF LockToken, servers
<1>2. CASE job[c].app \in installations
  BY <1>1, <1>2, StepMoves DEF LockToken
<1>3. CASE job[c].app \notin installations
  BY <1>1, <1>3, StepMoves DEF LockToken
<1> QED
  BY <1>2, <1>3

LEMMA InsertForTokenDoes ==
  ASSUME CallerTypes, NEW c \in Callers, InsertForToken(c)
  PROVE  /\ pc[c] = "insert token" /\ pc'[c] = "store registration"
         /\ OthersStay(c) /\ job' = job /\ sent' = sent
         /\ InsertEntry(job[c].app) /\ UNCHANGED <<installs, fidOf>>
<1>1. UNCHANGED <<installs, fidOf>>
  BY DEF InsertForToken, servers
<1> QED
  BY <1>1, StepMoves DEF InsertForToken

LEMMA StoreRegistrationDoes ==
  ASSUME CallerTypes, NEW c \in Callers, StoreRegistration(c)
  PROVE  /\ pc[c] = "store registration" /\ pc'[c] = "idle" /\ OthersStay(c)
         /\ notificationToken' = [notificationToken EXCEPT
              ![job[c].app] = [id |-> sent[c].id, fid |-> sent[c].fid]]
         /\ UNCHANGED <<androidID, securityToken, installations, accessToken, fid,
                        installs, fidOf>>
<1>1. UNCHANGED <<installs, fidOf>>
  BY DEF StoreRegistration, servers
<1>2. /\ notificationToken' = [notificationToken EXCEPT
           ![job[c].app] = [id |-> sent[c].id, fid |-> sent[c].fid]]
      /\ UNCHANGED <<androidID, securityToken, installations, accessToken, fid>>
  BY DEF StoreRegistration
<1> QED
  BY <1>1, <1>2, ReturnMoves DEF StoreRegistration

-----------------------------------------------------------------------------
(* deviceMutex.                                                            *)

\* One caller moves, into a guarded step only from one or past an open mutex.
LEMMA MutexMove ==
  ASSUME MutualExclusion, NEW c \in Callers, OthersStay(c),
         pc'[c] \in Guarded => pc[c] \in Guarded \/ Unlocked
  PROVE  MutualExclusion'
BY DEF MutualExclusion, OthersStay, Unlocked

\* A guarded step follows another of the same caller, or finds nobody in one.
LEMMA MutexStep ==
  ASSUME TypeOK, MutualExclusion, Next
  PROVE  MutualExclusion'
<1>  CallerTypes
  BY DEF TypeOK
<1>1. ASSUME NEW c \in Callers, Preparing(c) PROVE MutualExclusion'
  BY <1>1, PreparingIsQuiet, MutexMove DEF Quiet
<1>2. ASSUME NEW c \in Callers, Storing(c) PROVE MutualExclusion'
  <2>1. CASE InstallAnswered(c)
    BY <2>1, InstallAnsweredDoes, MutexMove DEF Guarded
  <2>2. CASE LockInstallation(c)
    BY <2>2, LockInstallationDoes, MutexMove
  <2>3. CASE InsertInstallation(c)
    BY <2>3, InsertInstallationDoes, MutexMove DEF Guarded
  <2>4. CASE StoreAuth(c)
    BY <2>4, StoreAuthDoes, MutexMove DEF Guarded
  <2>5. CASE StoreFID(c)
    BY <2>5, StoreFIDDoes, MutexMove DEF Guarded
  <2>6. CASE StoreID(c)
    BY <2>6, StoreIDDoes, MutexMove
  <2>7. CASE StoreSecurityToken(c)
    BY <2>7, StoreSecurityTokenDoes, MutexMove DEF Guarded
  <2>8. CASE LockToken(c)
    BY <2>8, LockTokenDoes, MutexMove
  <2>9. CASE InsertForToken(c)
    BY <2>9, InsertForTokenDoes, MutexMove DEF Guarded
  <2>10. CASE StoreRegistration(c)
    BY <2>10, StoreRegistrationDoes, MutexMove DEF Guarded
  <2> QED
    BY <1>2, <2>1, <2>2, <2>3, <2>4, <2>5, <2>6, <2>7, <2>8, <2>9, <2>10 DEF Storing
<1>3. ASSUME NEW c \in Callers, MapRace(c) PROVE MutualExclusion'
  BY <1>3 DEF MapRace, caller, MutualExclusion
<1>4. ASSUME NEW p \in Packages, Expire(p) PROVE MutualExclusion'
  BY <1>4 DEF Expire, caller, MutualExclusion
<1> QED
  BY <1>1, <1>2, <1>3, <1>4, NextSplits

-----------------------------------------------------------------------------
(* The check-in credentials.                                               *)

\* A step of a caller that is not between the two stores, and makes neither.
LEMMA CheckinPairMove ==
  ASSUME CheckinPair, NEW c \in Callers, OthersStay(c),
         pc[c] # "store token", pc'[c] # "store token",
         UNCHANGED <<androidID, securityToken>>
  PROVE  CheckinPair'
BY DEF CheckinPair, OthersStay

\* The holder of the mutex stores the one half, and nobody else anything before the other.
LEMMA CheckinPairStep ==
  ASSUME TypeOK, MutualExclusion, CheckinPair, Next
  PROVE  CheckinPair'
<1>  CallerTypes
  BY DEF TypeOK
<1>1. ASSUME NEW c \in Callers, Preparing(c) PROVE CheckinPair'
  BY <1>1, PreparingIsQuiet, CheckinPairMove DEF Quiet, Guarded
<1>2. ASSUME NEW c \in Callers, Storing(c) PROVE CheckinPair'
  <2>1. CASE InstallAnswered(c)
    BY <2>1, InstallAnsweredDoes, CheckinPairMove DEF device
  <2>2. CASE LockInstallation(c)
    BY <2>2, LockInstallationDoes, CheckinPairMove DEF device
  <2>3. CASE InsertInstallation(c)
    BY <2>3, InsertInstallationDoes, CheckinPairMove DEF InsertEntry
  <2>4. CASE StoreAuth(c)
    BY <2>4, StoreAuthDoes, CheckinPairMove
  <2>5. CASE StoreFID(c)
    BY <2>5, StoreFIDDoes, CheckinPairMove
  <2>6. CASE StoreID(c)
    <3>1. \A d \in Callers \ {c} : pc'[d] # "store token"
      BY <2>6, StoreIDDoes DEF Unlocked, OthersStay, Guarded
    <3>2. pc'[c] = "store token" /\ androidID' = answer'[c]
      BY <2>6, StoreIDDoes
    <3> QED
      BY <3>1, <3>2 DEF CheckinPair
  <2>7. CASE StoreSecurityToken(c)
    <3>1. pc[c] = "store token" /\ pc'[c] # "store token" /\ OthersStay(c)
      BY <2>7, StoreSecurityTokenDoes
    <3>2. \A d \in Callers : pc'[d] # "store token"
      BY <3>1 DEF MutualExclusion, OthersStay, Guarded
    <3>3. androidID' = answer[c] /\ securityToken' = answer[c]
      BY <2>7, <3>1, StoreSecurityTokenDoes DEF CheckinPair
    <3> QED
      BY <3>2, <3>3 DEF CheckinPair
  <2>8. CASE LockToken(c)
    BY <2>8, LockTokenDoes, CheckinPairMove DEF device
  <2>9. CASE InsertForToken(c)
    BY <2>9, InsertForTokenDoes, CheckinPairMove DEF InsertEntry
  <2>10. CASE StoreRegistration(c)
    BY <2>10, StoreRegistrationDoes, CheckinPairMove
  <2> QED
    BY <1>2, <2>1, <2>2, <2>3, <2>4, <2>5, <2>6, <2>7, <2>8, <2>9, <2>10 DEF Storing
<1>3. ASSUME NEW c \in Callers, MapRace(c) PROVE CheckinPair'
  BY <1>3 DEF MapRace, caller, device, CheckinPair
<1>4. ASSUME NEW p \in Packages, Expire(p) PROVE CheckinPair'
  BY <1>4 DEF Expire, caller, CheckinPair
<1> QED
  BY <1>1, <1>2, <1>3, <1>4, NextSplits

-----------------------------------------------------------------------------
(* The installations.                                                      *)

\* A step that leaves the auth tokens and FIDs, of a caller not between the two.
LEMMA InstallationPairMove ==
  ASSUME InstallationPair, NEW c \in Callers, OthersStay(c),
         pc[c] # "store fid", pc'[c] # "store fid",
         UNCHANGED <<accessToken, fid, installs, fidOf>>
  PROVE  InstallationPair'
<1>1. \A p \in Packages : StoringFID(p)' <=> StoringFID(p)
  BY DEF StoringFID, OthersStay
<1>2. \A d \in Callers : pc'[d] = "store fid" => accessToken'[job'[d].app] = answer'[d]
  BY DEF InstallationPair, OthersStay
<1> QED
  BY <1>1, <1>2 DEF InstallationPair

\* Installation answers are counted.
LEMMA InstallsCount ==
  ASSUME TypeOK
  PROVE  installs \in Nat /\ 0 \in 0..installs
BY RegistrationAssumption DEF TypeOK, ServerTypes, Installs

\* An entry is inserted for a package without an auth token.
LEMMA InstallationPairInsert ==
  ASSUME TypeOK, InstallationPair, NEW c \in Callers, OthersStay(c),
         pc[c] \in {"insert install", "insert token"}, pc'[c] # "store fid",
         MutualExclusion, InsertEntry(job[c].app), UNCHANGED <<installs, fidOf>>
  PROVE  InstallationPair'
<1>1. \A d \in Callers : pc[d] # "store fid" /\ pc'[d] # "store fid"
  BY DEF MutualExclusion, OthersStay, Guarded
<1>2. \A p \in Packages : \/ accessToken'[p] = 0
                          \/ accessToken'[p] = accessToken[p] /\ fid'[p] = fid[p]
  BY DEF InsertEntry, TypeOK, DeviceTypes
<1>3. 0 \in 0..installs
  BY InstallsCount
<1>4. \A p \in Packages : ~StoringFID(p) /\ ~StoringFID(p)'
  BY <1>1 DEF StoringFID
<1>5. \A p \in Packages : accessToken'[p] \in 0..installs'
  BY <1>2, <1>3 DEF InstallationPair
<1>6. \A p \in Packages : accessToken'[p] # 0 => fidOf'[accessToken'[p]] = fid'[p]
  BY <1>2, <1>4 DEF InstallationPair
<1> QED
  BY <1>1, <1>5, <1>6 DEF InstallationPair

\* The holder of the mutex stores the auth token and then the FID of one answer.
LEMMA InstallationPairStep ==
  ASSUME TypeOK, MutualExclusion, InstallationPair, Next
  PROVE  InstallationPair'
<1>  CallerTypes /\ AnswersAreUsable /\ DeviceTypes /\ ServerTypes
  BY DEF TypeOK
<1>0. installs \in Nat
  BY RegistrationAssumption DEF ServerTypes, Installs
<1>1. ASSUME NEW c \in Callers, Preparing(c) PROVE InstallationPair'
  BY <1>1, PreparingIsQuiet, InstallationPairMove DEF Quiet, Guarded
<1>2. ASSUME NEW c \in Callers, Storing(c) PROVE InstallationPair'
  <2>1. CASE InstallAnswered(c)
    <3>1. /\ pc[c] = "installing" /\ pc'[c] = "lock install" /\ OthersStay(c)
          /\ installs' = installs + 1
          /\ UNCHANGED <<accessToken, fid>>
      BY <2>1, InstallAnsweredDoes DEF device
    <3>2. PICK f : fidOf' = [fidOf EXCEPT ![installs + 1] = f]
      BY <2>1, InstallAnsweredDoes
    <3>3. \A p \in Packages : accessToken[p] \in 0..installs /\ accessToken[p] \in Installs
      BY DEF DeviceTypes, InstallationPair
    <3>4. \A n \in 0..installs : n # installs + 1 /\ n \in 0..(installs + 1)
      BY <1>0
    <3>5. \A p \in Packages : fidOf'[accessToken'[p]] = fidOf[accessToken[p]]
      BY <3>1, <3>2, <3>3, <3>4 DEF ServerTypes
    <3>6. \A p \in Packages : accessToken'[p] \in 0..installs'
      BY <3>1, <3>3, <3>4
    <3>7. \A p \in Packages : StoringFID(p)' <=> StoringFID(p)
      BY <3>1 DEF StoringFID, OthersStay
    <3>8. \A d \in Callers : pc'[d] = "store fid" => accessToken'[job'[d].app] = answer'[d]
      BY <3>1 DEF InstallationPair, OthersStay
    <3> QED
      BY <3>1, <3>5, <3>6, <3>7, <3>8 DEF InstallationPair
  <2>2. CASE LockInstallation(c)
    BY <2>2, LockInstallationDoes, InstallationPairMove DEF device
  <2>3. CASE InsertInstallation(c)
    BY <2>3, InsertInstallationDoes, InstallationPairInsert
  <2>4. CASE StoreAuth(c)
    <3>1. /\ pc[c] = "store auth" /\ pc'[c] = "store fid"
          /\ OthersStay(c) /\ job' = job /\ answer' = answer
          /\ accessToken' = [accessToken EXCEPT ![job[c].app] = answer[c]]
          /\ UNCHANGED <<fid, installs, fidOf>>
      BY <2>4, StoreAuthDoes
    <3>2. \A d \in Callers \ {c} : pc[d] # "store fid" /\ pc'[d] # "store fid"
      BY <3>1 DEF MutualExclusion, OthersStay, Guarded
    <3>3. answer[c] \in 1..installs
      BY <3>1 DEF AnswersAreUsable, StoringInstall
    <3>4. job[c].app \in Packages
      BY <3>1 DEF CallerTypes, Jobs, Flows, Parts
    <3>5. accessToken'[job[c].app] = answer[c]
      BY <3>1, <3>4 DEF DeviceTypes
    <3>6. \A p \in Packages \ {job[c].app} : accessToken'[p] = accessToken[p]
      BY <3>1 DEF DeviceTypes
    <3>10. answer[c] \in 0..installs
      BY <3>3, <1>0
    <3>7. \A p \in Packages : accessToken'[p] \in 0..installs'
      BY <3>1, <3>5, <3>6, <3>10 DEF InstallationPair
    <3>8. StoringFID(job[c].app)' /\ \A p \in Packages : ~StoringFID(p)
      BY <3>1, <3>2 DEF StoringFID
    <3>9. \A p \in Packages :
            accessToken'[p] # 0 /\ ~StoringFID(p)' => fidOf'[accessToken'[p]] = fid'[p]
      BY <3>1, <3>6, <3>8 DEF InstallationPair
    <3> QED
      BY <3>1, <3>2, <3>5, <3>7, <3>9 DEF InstallationPair
  <2>5. CASE StoreFID(c)
    <3>1. /\ pc[c] = "store fid" /\ pc'[c] # "store fid" /\ OthersStay(c)
          /\ fid' = [fid EXCEPT ![job[c].app] = fidOf[answer[c]]]
          /\ UNCHANGED <<accessToken, installs, fidOf>>
      BY <2>5, StoreFIDDoes
    <3>2. \A d \in Callers \ {c} : pc[d] # "store fid" /\ pc'[d] # "store fid"
      BY <3>1 DEF MutualExclusion, OthersStay, Guarded
    <3>3. job[c].app \in Packages /\ accessToken[job[c].app] = answer[c]
      BY <3>1 DEF CallerTypes, Jobs, Flows, Parts, InstallationPair
    <3>4. fid'[job[c].app] = fidOf'[accessToken'[job[c].app]]
      BY <3>1, <3>3 DEF DeviceTypes
    <3>5. \A p \in Packages \ {job[c].app} : fid'[p] = fid[p]
      BY <3>1 DEF DeviceTypes
    <3>7. \A p \in Packages \ {job[c].app} : ~StoringFID(p)
      BY <3>2 DEF StoringFID
    <3>6. \A p \in Packages : accessToken'[p] # 0 => fidOf'[accessToken'[p]] = fid'[p]
      BY <3>1, <3>4, <3>5, <3>7 DEF InstallationPair
    <3> QED
      BY <3>1, <3>2, <3>6 DEF InstallationPair
  <2>6. CASE StoreID(c)
    BY <2>6, StoreIDDoes, InstallationPairMove
  <2>7. CASE StoreSecurityToken(c)
    BY <2>7, StoreSecurityTokenDoes, InstallationPairMove
  <2>8. CASE LockToken(c)
    BY <2>8, LockTokenDoes, InstallationPairMove DEF device
  <2>9. CASE InsertForToken(c)
    BY <2>9, InsertForTokenDoes, InstallationPairInsert
  <2>10. CASE StoreRegistration(c)
    BY <2>10, StoreRegistrationDoes, InstallationPairMove
  <2> QED
    BY <1>2, <2>1, <2>2, <2>3, <2>4, <2>5, <2>6, <2>7, <2>8, <2>9, <2>10 DEF Storing
<1>3. ASSUME NEW c \in Callers, MapRace(c) PROVE InstallationPair'
  BY <1>3 DEF MapRace, caller, device, servers, InstallationPair, StoringFID
<1>4. ASSUME NEW p \in Packages, Expire(p) PROVE InstallationPair'
  BY <1>4 DEF Expire, caller, servers, InstallationPair, StoringFID
<1> QED
  BY <1>1, <1>2, <1>3, <1>4, NextSplits

-----------------------------------------------------------------------------
(* The entries of FirebaseInstallations.                                   *)

\* The caller will write an entry, or make one.
Writing == {"insert install", "insert token", "store auth", "store fid",
            "store registration"}

\* A step of a caller to where it does not write.
LEMMA EntriesMove ==
  ASSUME Entries, NEW c \in Callers, OthersStay(c), pc'[c] \notin Writing,
         UNCHANGED <<installations, accessToken, notificationToken>>
  PROVE  Entries'
BY DEF Entries, OthersStay, Writing

\* The mutex has been taken: the caller goes on as the entry is there or not.
LEMMA EntriesLock ==
  ASSUME Entries, NEW c \in Callers, OthersStay(c), job' = job,
         \/ /\ pc'[c] \in {"insert install", "insert token"}
            /\ job[c].app \notin installations
         \/ /\ pc'[c] \in {"store auth", "store fid", "store registration"}
            /\ job[c].app \in installations,
         UNCHANGED device
  PROVE  Entries'
BY DEF Entries, OthersStay, device

\* The entry has been inserted.
LEMMA EntriesInsert ==
  ASSUME TypeOK, MutualExclusion, Entries, NEW c \in Callers, OthersStay(c), job' = job,
         pc[c] \in {"insert install", "insert token"},
         pc'[c] \in {"store auth", "store registration"},
         InsertEntry(job[c].app)
  PROVE  Entries'
<1>1. \A d \in Callers \ {c} : pc'[d] \notin Writing
  BY DEF MutualExclusion, OthersStay, Guarded, Writing
<1>2. /\ installations' = installations \cup {job[c].app}
      /\ \A p \in Packages \ {job[c].app} :
           accessToken'[p] = accessToken[p] /\ notificationToken'[p] = notificationToken[p]
  BY DEF InsertEntry, TypeOK, DeviceTypes
<1>3. \A p \in Packages \ installations' :
        accessToken'[p] = 0 /\ notificationToken'[p] = NoToken
  BY <1>2 DEF Entries
<1>4. job'[c].app \in installations'
  BY <1>2
<1> QED
  BY <1>1, <1>3, <1>4 DEF Entries, Writing

\* Whether the entry is there is looked up and acted upon by one holder of the mutex.
LEMMA EntriesStep ==
  ASSUME TypeOK, MutualExclusion, Entries, Next
  PROVE  Entries'
<1>  CallerTypes /\ DeviceTypes
  BY DEF TypeOK
<1>1. ASSUME NEW c \in Callers, Preparing(c) PROVE Entries'
  BY <1>1, PreparingIsQuiet, EntriesMove DEF Quiet, Guarded, Writing
<1>2. ASSUME NEW c \in Callers, Storing(c) PROVE Entries'
  <2>1. CASE InstallAnswered(c)
    BY <2>1, InstallAnsweredDoes, EntriesMove DEF device, Writing
  <2>2. CASE LockInstallation(c)
    BY <2>2, LockInstallationDoes, EntriesLock
  <2>3. CASE InsertInstallation(c)
    BY <2>3, InsertInstallationDoes, EntriesInsert
  <2>4. CASE StoreAuth(c)
    <3>1. /\ pc[c] = "store auth" /\ pc'[c] = "store fid" /\ OthersStay(c) /\ job' = job
          /\ accessToken' = [accessToken EXCEPT ![job[c].app] = answer[c]]
          /\ UNCHANGED <<installations, notificationToken>>
      BY <2>4, StoreAuthDoes
    <3>2. job[c].app \in installations
      BY <3>1 DEF Entries
    <3>3. \A p \in Packages \ installations : accessToken'[p] = accessToken[p]
      BY <3>1, <3>2 DEF DeviceTypes
    <3> QED
      BY <3>1, <3>2, <3>3 DEF Entries, OthersStay
  <2>5. CASE StoreFID(c)
    BY <2>5, StoreFIDDoes, EntriesMove DEF Writing
  <2>6. CASE StoreID(c)
    BY <2>6, StoreIDDoes, EntriesMove DEF Writing
  <2>7. CASE StoreSecurityToken(c)
    BY <2>7, StoreSecurityTokenDoes, EntriesMove DEF Writing
  <2>8. CASE LockToken(c)
    BY <2>8, LockTokenDoes, EntriesLock
  <2>9. CASE InsertForToken(c)
    BY <2>9, InsertForTokenDoes, EntriesInsert
  <2>10. CASE StoreRegistration(c)
    <3>1. /\ pc[c] = "store registration" /\ pc'[c] = "idle" /\ OthersStay(c)
          /\ UNCHANGED <<installations, accessToken>>
      BY <2>10, StoreRegistrationDoes
    <3>2. notificationToken' = [notificationToken EXCEPT
            ![job[c].app] = [id |-> sent[c].id, fid |-> sent[c].fid]]
      BY <2>10, StoreRegistrationDoes
    <3>3. job[c].app \in installations
      BY <3>1 DEF Entries
    <3>4. \A p \in Packages \ installations : notificationToken'[p] = notificationToken[p]
      BY <3>2, <3>3 DEF DeviceTypes
    <3> QED
      BY <3>1, <3>4 DEF Entries, OthersStay
  <2> QED
    BY <1>2, <2>1, <2>2, <2>3, <2>4, <2>5, <2>6, <2>7, <2>8, <2>9, <2>10 DEF Storing
<1>3. ASSUME NEW c \in Callers, MapRace(c) PROVE Entries'
  BY <1>3 DEF MapRace, caller, device, Entries
<1>4. ASSUME NEW p \in Packages, Expire(p) PROVE Entries'
  BY <1>4 DEF Expire, caller, Entries
<1> QED
  BY <1>1, <1>2, <1>3, <1>4, NextSplits

-----------------------------------------------------------------------------
(* Registrations are of a device that has been checked in.                 *)

\* One caller moves, and no android id is lost.
LEMMA CheckedInMove ==
  ASSUME CheckedIn, NEW c \in Callers, OthersStay(c),
         androidID # 0 => androidID' # 0,
         pc'[c] \in Asked \cup {"find", "auth", "id"} => androidID' # 0,
         pc'[c] \in Asked => sent'[c].id # 0
  PROVE  CheckedIn'
BY DEF CheckedIn, OthersStay

\* A quiet step away from the registration.
LEMMA CheckedInElsewhere ==
  ASSUME CheckedIn, NEW c \in Callers, Quiet(c),
         pc'[c] \notin Asked \cup {"find", "auth", "id"}
  PROVE  CheckedIn'
BY CheckedInMove DEF Quiet

\* The same, by where it goes.
LEMMA CheckedInGoto ==
  ASSUME CallerTypes, CheckedIn, NEW c \in Callers, Quiet(c),
         NEW from, NEW to, Goto(c, from, to), to \notin Asked \cup {"find", "auth", "id"}
  PROVE  CheckedIn'
BY GotoMoves, CheckedInElsewhere

\* A request is built after the check that there are credentials.
LEMMA CheckedInPreparing ==
  ASSUME CallerTypes, CheckedIn, NEW c \in Callers, Preparing(c)
  PROVE  CheckedIn'
<1>  Quiet(c)
  BY PreparingIsQuiet
<1>1. CASE Call(c)
  <2>1. PICK to \in {"expired", "install", "checkin token", "validate"} : Goto(c, "idle", to)
    BY <1>1 DEF Call
  <2> QED
    BY <2>1, CheckedInGoto DEF Asked
<1>2. CASE CheckExpiry(c)
  BY <1>2, CheckedInGoto DEF CheckExpiry, Step, Asked
<1>3. CASE CheckCheckin(c)
  BY <1>3, CheckedInGoto DEF CheckCheckin, Step, Asked
<1>4. CASE GiveUp(c) \/ Abort(c) \/ InstallFails(c) \/ CheckinFails(c) \/ RegisterFails(c)
  <2>1. pc'[c] = "idle"
    BY <1>4, ReturnMoves DEF GiveUp, Abort, InstallFails, CheckinFails, RegisterFails
  <2> QED
    BY <2>1, CheckedInElsewhere DEF Asked
<1>5. CASE NextAttempt(c)
  BY <1>5, CheckedInGoto DEF NextAttempt, Step, Asked
<1>6. CASE Wake(c)
  BY <1>6, CheckedInGoto DEF Wake, Step, Asked
<1>7. CASE BuildInstall(c)
  BY <1>7, CheckedInGoto DEF BuildInstall, Asked
<1>8. CASE ReadCheckinID(c)
  BY <1>8, CheckedInGoto DEF ReadCheckinID, Asked
<1>9. CASE ReadCheckinToken(c)
  BY <1>9, CheckedInGoto DEF ReadCheckinToken, Asked
<1>10. CASE CheckinAnswered(c)
  BY <1>10, CheckedInGoto DEF CheckinAnswered, Asked
<1>11. CASE Validate(c)
  <2>1. CASE HasCheckin
    <3>1. pc'[c] \in {"id", "find"}
      BY <1>11, <2>1, StepMoves DEF Validate
    <3>2. OthersStay(c) /\ androidID # 0 /\ androidID' = androidID
      BY <2>1 DEF HasCheckin, Quiet
    <3> QED
      BY <3>1, <3>2, CheckedInMove DEF Asked
  <2>2. CASE ~HasCheckin
    BY <1>11, <2>2, ReturnMoves, CheckedInElsewhere DEF Validate, Asked
  <2> QED
    BY <2>1, <2>2
<1>12. CASE FindInstallation(c)
  <2>1. pc[c] = "find" /\ pc'[c] \in {"idle", "auth"}
    BY <1>12, ReturnMoves, GotoMoves DEF FindInstallation
  <2>2. OthersStay(c) /\ androidID # 0 /\ androidID' = androidID
    BY <2>1 DEF CheckedIn, Quiet
  <2> QED
    BY <2>1, <2>2, CheckedInMove DEF Asked
<1>13. CASE ReadAuth(c)
  <2>1. pc[c] = "auth" /\ pc'[c] = "id"
    BY <1>13, GotoMoves DEF ReadAuth
  <2>2. OthersStay(c) /\ androidID # 0 /\ androidID' = androidID
    BY <2>1 DEF CheckedIn, Quiet
  <2> QED
    BY <2>1, <2>2, CheckedInMove DEF Asked
<1>14. CASE ReadID(c)
  <2>1. pc[c] = "id" /\ pc'[c] = "token"
    BY <1>14, GotoMoves DEF ReadID
  <2>2. OthersStay(c) /\ androidID # 0 /\ androidID' = androidID
    BY <2>1 DEF CheckedIn, Quiet
  <2>3. sent'[c].id = androidID
    BY <1>14 DEF ReadID, CallerTypes, Requests
  <2> QED
    BY <2>2, <2>3, CheckedInMove
<1>15. CASE ReadToken(c)
  <2>1. pc[c] = "token" /\ pc'[c] = "registering"
    BY <1>15, GotoMoves DEF ReadToken
  <2>2. OthersStay(c) /\ androidID # 0 /\ androidID' = androidID
    BY <2>1 DEF CheckedIn, Quiet, Asked
  <2>3. sent'[c].id = sent[c].id
    BY <1>15 DEF ReadToken, CallerTypes, Requests
  <2>4. sent[c].id # 0
    BY <2>1 DEF CheckedIn, Asked
  <2> QED
    BY <2>2, <2>3, <2>4, CheckedInMove
<1>16. CASE RegisterRefused(c)
  <2>1. pc'[c] \in {"idle", "attempt"}
    BY <1>16, ReturnMoves, GotoMoves DEF RegisterRefused
  <2> QED
    BY <2>1, CheckedInElsewhere DEF Asked
<1>17. CASE RegisterRejected(c)
  <2>1. pc'[c] \in {"idle", "checkin token"}
    BY <1>17, ReturnMoves, GotoMoves DEF RegisterRejected
  <2> QED
    BY <2>1, CheckedInElsewhere DEF Asked
<1>18. CASE RegisterAnswered(c)
  <2>1. pc[c] = "registering" /\ sent' = sent
    BY <1>18, StepMoves DEF RegisterAnswered
  <2>2. OthersStay(c) /\ androidID # 0 /\ androidID' = androidID /\ sent[c].id # 0
    BY <2>1 DEF CheckedIn, Quiet, Asked
  <2> QED
    BY <2>1, <2>2, CheckedInMove
<1> QED
  BY <1>1, <1>2, <1>3, <1>4, <1>5, <1>6, <1>7, <1>8, <1>9, <1>10, <1>11, <1>12,
     <1>13, <1>14, <1>15, <1>16, <1>17, <1>18 DEF Preparing

\* No step takes the android id away.
LEMMA CheckedInStep ==
  ASSUME TypeOK, CheckedIn, Next
  PROVE  CheckedIn'
<1>  CallerTypes /\ AnswersAreUsable
  BY DEF TypeOK
<1>1. ASSUME NEW c \in Callers, Preparing(c) PROVE CheckedIn'
  BY <1>1, CheckedInPreparing
<1>2. ASSUME NEW c \in Callers, Storing(c) PROVE CheckedIn'
  <2>1. CASE InstallAnswered(c)
    BY <2>1, InstallAnsweredDoes, CheckedInMove DEF device, Asked
  <2>2. CASE LockInstallation(c)
    BY <2>2, LockInstallationDoes, CheckedInMove DEF device, Asked
  <2>3. CASE InsertInstallation(c)
    BY <2>3, InsertInstallationDoes, CheckedInMove DEF InsertEntry, Asked
  <2>4. CASE StoreAuth(c)
    BY <2>4, StoreAuthDoes, CheckedInMove DEF Asked
  <2>5. CASE StoreFID(c)
    BY <2>5, StoreFIDDoes, CheckedInMove DEF Asked
  <2>6. CASE StoreID(c)
    <3>1. pc[c] = "lock checkin" /\ pc'[c] = "store token" /\ OthersStay(c)
          /\ androidID' = answer[c]
      BY <2>6, StoreIDDoes
    <3>2. answer[c] # 0
      BY <3>1 DEF AnswersAreUsable, StoringCheckin
    <3> QED
      BY <3>1, <3>2, CheckedInMove DEF Asked
  <2>7. CASE StoreSecurityToken(c)
    BY <2>7, StoreSecurityTokenDoes, CheckedInMove DEF Asked
  <2>8. CASE LockToken(c)
    <3>1. pc[c] = "lock token" /\ OthersStay(c) /\ sent' = sent /\ androidID' = androidID
      BY <2>8, LockTokenDoes DEF device
    <3>2. androidID # 0 /\ sent[c].id # 0
      BY <3>1 DEF CheckedIn, Asked
    <3> QED
      BY <3>1, <3>2, CheckedInMove
  <2>9. CASE InsertForToken(c)
    <3>1. pc[c] = "insert token" /\ OthersStay(c) /\ sent' = sent /\ androidID' = androidID
      BY <2>9, InsertForTokenDoes DEF InsertEntry
    <3>2. androidID # 0 /\ sent[c].id # 0
      BY <3>1 DEF CheckedIn, Asked
    <3> QED
      BY <3>1, <3>2, CheckedInMove
  <2>10. CASE StoreRegistration(c)
    BY <2>10, StoreRegistrationDoes, CheckedInMove DEF Asked
  <2> QED
    BY <1>2, <2>1, <2>2, <2>3, <2>4, <2>5, <2>6, <2>7, <2>8, <2>9, <2>10 DEF Storing
<1>3. ASSUME NEW c \in Callers, MapRace(c) PROVE CheckedIn'
  BY <1>3 DEF MapRace, caller, device, CheckedIn
<1>4. ASSUME NEW p \in Packages, Expire(p) PROVE CheckedIn'
  BY <1>4 DEF Expire, caller, CheckedIn
<1> QED
  BY <1>1, <1>2, <1>3, <1>4, NextSplits

-----------------------------------------------------------------------------
(* The invariant and what follows from it.                                 *)

\* A device that has never been checked in.
LEMMA InitInv ==
  ASSUME Init
  PROVE  Inv
<1>1. 0 \in Credentials /\ 0 \in Installs /\ NoRequest \in Requests /\ NoToken \in Registrations
  BY RegistrationAssumption
  DEF Credentials, Installs, NoRequest, Requests, NoToken, Registrations
<1>2. CallerTypes
  BY <1>1 DEF Init, CallerTypes, Steps
<1>3. AnswersAreUsable
  BY DEF Init, AnswersAreUsable, StoringInstall, StoringCheckin
<1>4. DeviceTypes /\ ServerTypes
  BY <1>1 DEF Init, DeviceTypes, ServerTypes
<1>5. TypeOK
  BY <1>2, <1>3, <1>4 DEF Init, TypeOK
<1>6. MutualExclusion /\ CheckinPair /\ CheckedIn
  BY DEF Init, MutualExclusion, CheckinPair, CheckedIn, Guarded, Asked
<1>7. InstallationPair
  <2>1. \A p \in Packages : accessToken[p] = 0
    BY DEF Init
  <2>2. \A c \in Callers : pc[c] # "store fid"
    BY DEF Init
  <2> QED
    BY <1>5, <2>1, <2>2, InstallsCount DEF InstallationPair
<1>8. Entries
  BY DEF Init, Entries
<1> QED
  BY <1>5, <1>6, <1>7, <1>8 DEF Inv

\* Every step keeps the invariant.
LEMMA InvStep ==
  ASSUME Inv, [Next]_vars
  PROVE  Inv'
<1>1. CASE Next
  <2>1. TypeOK'
    BY <1>1, TypeStep DEF Inv
  <2>2. MutualExclusion' /\ CheckinPair'
    BY <1>1, MutexStep, CheckinPairStep DEF Inv
  <2>3. InstallationPair' /\ Entries' /\ CheckedIn'
    BY <1>1, InstallationPairStep, EntriesStep, CheckedInStep DEF Inv
  <2> QED
    BY <2>1, <2>2, <2>3 DEF Inv
<1>2. CASE UNCHANGED vars
  <2>1. TypeOK'
    BY <1>2 DEF Inv, vars, caller, device, servers, TypeOK, CallerTypes, AnswersAreUsable,
       DeviceTypes, ServerTypes
  <2>2. MutualExclusion' /\ CheckinPair' /\ Entries' /\ CheckedIn'
    BY <1>2 DEF Inv, vars, caller, device, MutualExclusion, CheckinPair, Entries, CheckedIn
  <2>3. InstallationPair'
    BY <1>2 DEF Inv, vars, caller, device, servers, InstallationPair, StoringFID
  <2> QED
    BY <2>1, <2>2, <2>3 DEF Inv
<1> QED
  BY <1>1, <1>2

\* deviceMutex does its work for any number of goroutines: one at a time writes,
\* and what each of them has half written is accounted for.
THEOREM SharedInvariant == Spec => []Inv
<1>1. Init => Inv
  BY InitInv
<1>2. Inv /\ [Next]_vars => Inv'
  BY InvStep
<1> QED
  BY <1>1, <1>2, PTL DEF Spec

\* The types of the fields of the device and of the steps of the calls; a call
\* stores only answers that name what it stores (CheckinResult and
\* NotifyInstallationResult return an error for the others).
THEOREM TypeCorrect == Spec => []TypeOK
<1>1. Inv => TypeOK
  BY DEF Inv
<1> QED
  BY <1>1, SharedInvariant, PTL

\* While nobody holds deviceMutex the two halves of the check-in credentials come
\* from one answer, and the FID of an installation is that of its auth token.
THEOREM TogetherUnderMutex == Spec => []DeviceTogether
<1>1. Inv => DeviceTogether
  <2> SUFFICES ASSUME Inv, Unlocked
               PROVE  /\ androidID = securityToken
                      /\ \A p \in Packages : accessToken[p] # 0 => fidOf[accessToken[p]] = fid[p]
    BY DEF DeviceTogether
  <2>1. \A c \in Callers : pc[c] # "store token" /\ pc[c] # "store fid"
    BY DEF Unlocked, Guarded
  <2>2. androidID = securityToken
    BY <2>1 DEF Inv, CheckinPair
  <2>3. \A p \in Packages : accessToken[p] # 0 => fidOf[accessToken[p]] = fid[p]
    BY <2>1 DEF Inv, InstallationPair, StoringFID
  <2> QED
    BY <2>2, <2>3
<1> QED
  BY <1>1, SharedInvariant, PTL

\* No step empties what is stored.
Keeps ==
  /\ androidID # 0 => androidID' # 0
  /\ securityToken # 0 => securityToken' # 0
  /\ \A p \in Packages :
       /\ accessToken[p] # 0 => accessToken'[p] # 0
       /\ notificationToken[p] # NoToken => notificationToken'[p] # NoToken

\* An entry is inserted where nothing is stored.
LEMMA InsertKeeps ==
  ASSUME Inv, NEW c \in Callers, pc[c] \in {"insert install", "insert token"},
         InsertEntry(job[c].app)
  PROVE  Keeps
<1>1. accessToken \in [Packages -> Installs] /\ notificationToken \in [Packages -> Registrations]
  BY DEF Inv, TypeOK, DeviceTypes
<1>2. job[c].app \notin installations
  BY DEF Inv, Entries
<1>3. job[c].app \in Packages =>
        accessToken[job[c].app] = 0 /\ notificationToken[job[c].app] = NoToken
  BY <1>2 DEF Inv, Entries
<1>4. \A p \in Packages \ {job[c].app} :
        accessToken'[p] = accessToken[p] /\ notificationToken'[p] = notificationToken[p]
  BY <1>1 DEF InsertEntry
<1>5. UNCHANGED <<androidID, securityToken>>
  BY DEF InsertEntry
<1> QED
  BY <1>3, <1>4, <1>5 DEF Keeps

\* Every other store is of an answer that names something.
LEMMA StepKeeps ==
  ASSUME Inv, Next
  PROVE  Keeps
<1>  CallerTypes /\ AnswersAreUsable /\ DeviceTypes
  BY DEF Inv, TypeOK
<1>1. ASSUME NEW c \in Callers, Preparing(c) PROVE Keeps
  BY <1>1, PreparingIsQuiet DEF Quiet, Keeps
<1>2. ASSUME NEW c \in Callers, Storing(c) PROVE Keeps
  <2>1. CASE InstallAnswered(c)
    BY <2>1, InstallAnsweredDoes DEF device, Keeps
  <2>2. CASE LockInstallation(c)
    BY <2>2, LockInstallationDoes DEF device, Keeps
  <2>3. CASE InsertInstallation(c)
    BY <2>3, InsertInstallationDoes, InsertKeeps
  <2>4. CASE StoreAuth(c)
    <3>1. /\ pc[c] = "store auth"
          /\ accessToken' = [accessToken EXCEPT ![job[c].app] = answer[c]]
          /\ UNCHANGED <<androidID, securityToken, notificationToken>>
      BY <2>4, StoreAuthDoes
    <3>4. answer[c] \in 1..installs /\ installs \in Nat
      BY <3>1, InstallsCount DEF Inv, AnswersAreUsable, StoringInstall
    <3>2. answer[c] # 0
      BY <3>4
    <3>3. \A p \in Packages : accessToken'[p] \in {accessToken[p], answer[c]}
      BY <3>1 DEF DeviceTypes
    <3> QED
      BY <3>1, <3>2, <3>3 DEF Keeps
  <2>5. CASE StoreFID(c)
    BY <2>5, StoreFIDDoes DEF Keeps
  <2>6. CASE StoreID(c)
    <3>1. pc[c] = "lock checkin" /\ androidID' = answer[c]
          /\ UNCHANGED <<securityToken, accessToken, notificationToken>>
      BY <2>6, StoreIDDoes
    <3>2. answer[c] # 0
      BY <3>1 DEF AnswersAreUsable, StoringCheckin
    <3> QED
      BY <3>1, <3>2 DEF Keeps
  <2>7. CASE StoreSecurityToken(c)
    <3>1. pc[c] = "store token" /\ securityToken' = answer[c]
          /\ UNCHANGED <<androidID, accessToken, notificationToken>>
      BY <2>7, StoreSecurityTokenDoes
    <3>2. answer[c] # 0
      BY <3>1 DEF AnswersAreUsable, StoringCheckin
    <3> QED
      BY <3>1, <3>2 DEF Keeps
  <2>8. CASE LockToken(c)
    BY <2>8, LockTokenDoes DEF device, Keeps
  <2>9. CASE InsertForToken(c)
    BY <2>9, InsertForTokenDoes, InsertKeeps
  <2>10. CASE StoreRegistration(c)
    <3>1. /\ pc[c] = "store registration"
          /\ UNCHANGED <<androidID, securityToken, accessToken>>
      BY <2>10, StoreRegistrationDoes
    <3>2. notificationToken' = [notificationToken EXCEPT
            ![job[c].app] = [id |-> sent[c].id, fid |-> sent[c].fid]]
      BY <2>10, StoreRegistrationDoes
    <3>3. sent[c].id # 0
      BY <3>1 DEF Inv, CheckedIn, Asked
    <3>4. [id |-> sent[c].id, fid |-> sent[c].fid] # NoToken
      BY <3>3 DEF NoToken
    <3>5. \A p \in Packages : notificationToken'[p] \in
            {notificationToken[p], [id |-> sent[c].id, fid |-> sent[c].fid]}
      BY <3>2 DEF DeviceTypes
    <3> QED
      BY <3>1, <3>4, <3>5 DEF Keeps
  <2> QED
    BY <1>2, <2>1, <2>2, <2>3, <2>4, <2>5, <2>6, <2>7, <2>8, <2>9, <2>10 DEF Storing
<1>3. ASSUME NEW c \in Callers, MapRace(c) PROVE Keeps
  BY <1>3 DEF MapRace, device, Keeps
<1>4. ASSUME NEW p \in Packages, Expire(p) PROVE Keeps
  BY <1>4 DEF Expire, Keeps
<1> QED
  BY <1>1, <1>2, <1>3, <1>4, NextSplits

\* No call loses what another has stored: installationLocked inserts an entry only
\* where there is none, and nothing empty is ever written over a value.
THEOREM StoredIsKept == Spec => NothingForgotten
<1>1. Inv /\ [Next]_vars => [Keeps]_vars
  BY StepKeeps
<1>2. Spec => [][Keeps]_vars
  BY <1>1, SharedInvariant, PTL DEF Spec
<1> QED
  BY <1>2 DEF NothingForgotten, Keeps
===============================================================================
