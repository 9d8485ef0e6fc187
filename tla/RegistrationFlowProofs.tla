----------------------- MODULE RegistrationFlowProofs -------------------------
(***************************************************************************)
(* Proofs about the calls of Registration beyond the mutex: how many       *)
(* attempts RegisterForNotifications makes and where a registration can be *)
(* torn, whoever else is calling, and what a registration shows and stores *)
(* when no two calls overlap.                                              *)
(***************************************************************************)
EXTENDS RegistrationProofs

\* Before the first attempt.
Fresh == {"idle", "expired", "install", "installing", "lock install", "insert install",
          "store auth", "store fid", "has checkin"}

\* Steps of RegisterForNotifications itself.
FlowOnly == {"expired", "has checkin", "attempt", "sleep"}

\* After a failed attempt and before the next is decided.
Between == {"checkin token", "checkin id", "checking in", "lock checkin", "store token",
            "attempt"}

\* The count of a call: one failure more than Retries at most, and that only
\* until the flow looks at it.
CountOf(c) ==
  /\ pc[c] \in Fresh => attempt[c] = 0 /\ lastErr[c] = "none"
  /\ pc[c] \in FlowOnly => job[c].op = "register"
  /\ pc[c] # "idle" /\ job[c].op = "register" =>
       attempt[c] <= job[c].retries + (IF pc[c] \in Between THEN 1 ELSE 0)
  /\ attempt[c] # 0 => lastErr[c] # "none"

Counting == \A c \in Callers : CountOf(c)

\* One call at a time, whichever goroutines make them.
OneAtATime == \A c, d \in Callers : pc[c] # "idle" /\ pc[d] # "idle" => c = d

\* From the reads of a registration to its answer's storing.
Reading == {"auth", "id"} \cup Asked

\* What has been read is what the device still holds.
UpToDate(c) ==
  /\ pc[c] \in Reading /\ job[c].op # "web" =>
       /\ accessToken[job[c].app] # 0
       /\ sent[c].fid = fid[job[c].app]
       /\ pc[c] # "auth" => sent[c].auth = accessToken[job[c].app]
  /\ pc[c] \in Asked =>
       /\ sent[c].id = androidID
       /\ pc[c] # "token" => sent[c].token = securityToken

\* Credentials in use were issued, and only those can have been rejected.
Issued ==
  /\ rejected \subseteq 0..checkins
  /\ androidID <= checkins
  /\ \A c \in Callers : sent[c].id <= checkins
  /\ \A c \in Callers : pc[c] \in StoringCheckin => answer[c] <= checkins

\* A check-in replaces credentials that were rejected.
Trying == {"attempt", "sleep", "validate", "find", "auth", "id", "token", "registering"}

Replaced(c) ==
  /\ pc[c] \in StoringCheckin => answer[c] \notin rejected
  /\ pc[c] \in Trying /\ lastErr[c] = "auth" => androidID \notin rejected

FlowInv == Issued /\ \A c \in Callers : UpToDate(c) /\ Replaced(c)

-----------------------------------------------------------------------------
(* The count of attempts.                                                  *)

\* Nothing of the count changes of the callers other than c.
OthersCount(c) ==
  \A d \in Callers \ {c} :
    pc'[d] = pc[d] /\ job'[d] = job[d] /\ attempt'[d] = attempt[d] /\ lastErr'[d] = lastErr[d]

LEMMA CountingMove ==
  ASSUME Counting, NEW c \in Callers, OthersCount(c), CountOf(c)'
  PROVE  Counting'
<1>1. ASSUME NEW d \in Callers \ {c} PROVE CountOf(d)'
  BY <1>1 DEF Counting, CountOf, OthersCount
<1> QED
  BY <1>1 DEF Counting

\* The options of a flow.
LEMMA RetriesAreNumbers ==
  ASSUME NEW j \in Jobs, j.op = "register"
  PROVE  j.retries \in Nat /\ 0 <= j.retries + 0 /\ 0 <= j.retries + 1
<1>1. j.retries \in Nat
  BY RegistrationAssumption DEF Jobs, Flows, Parts
<1>2. \A n \in Nat : 0 <= n + 0 /\ 0 <= n + 1
  OBVIOUS
<1> QED
  BY <1>1, <1>2

\* A step within a call that leaves its count.
LEMMA MoveCounts ==
  ASSUME CallerTypes, Counting, NEW c \in Callers, NEW from, NEW to,
         from # "idle", to # "idle", Goto(c, from, to), UNCHANGED <<job, attempt, lastErr>>,
         to \in Fresh => from \in Fresh,
         to \in FlowOnly => job[c].op = "register",
         from \in Between /\ to \notin Between /\ job[c].op = "register" =>
           attempt[c] <= job[c].retries
  PROVE  Counting'
<1>1. pc[c] = from /\ pc'[c] = to /\ \A d \in Callers \ {c} : pc'[d] = pc[d]
  BY GotoMoves
<1>2. attempt[c] \in Nat /\ job[c] \in Jobs
  BY <1>1 DEF CallerTypes
<1>3. CountOf(c)
  BY DEF Counting
<1>4. job[c].op = "register" =>
        attempt[c] <= job[c].retries + (IF to \in Between THEN 1 ELSE 0)
  <2> SUFFICES ASSUME job[c].op = "register"
               PROVE  attempt[c] <= job[c].retries + (IF to \in Between THEN 1 ELSE 0)
    OBVIOUS
  <2>1. job[c].retries \in Nat
    BY <1>2, RetriesAreNumbers
  <2>2. attempt[c] <= job[c].retries + (IF from \in Between THEN 1 ELSE 0)
    BY <1>1, <1>3 DEF CountOf
  <2> QED
    BY <1>2, <2>1, <2>2
<1>5. CountOf(c)'
  BY <1>1, <1>3, <1>4 DEF CountOf
<1>6. OthersCount(c)
  BY <1>1 DEF OthersCount
<1> QED
  BY <1>5, <1>6, CountingMove

LEMMA StepCounts ==
  ASSUME CallerTypes, Counting, NEW c \in Callers, NEW from, NEW to,
         from # "idle", to # "idle", Step(c, from, to),
         to \in Fresh => from \in Fresh,
         to \in FlowOnly => job[c].op = "register",
         from \in Between /\ to \notin Between /\ job[c].op = "register" =>
           attempt[c] <= job[c].retries
  PROVE  Counting'
BY MoveCounts DEF Step

\* A call that returns forgets its count.
LEMMA ReturnCounts ==
  ASSUME CallerTypes, Counting, NEW c \in Callers, NEW from, Return(c, from)
  PROVE  Counting'
<1>1. /\ pc'[c] = "idle" /\ attempt'[c] = 0 /\ lastErr'[c] = "none"
      /\ OthersCount(c)
  BY DEF Return, Goto, CallerTypes, OthersCount
<1>2. CountOf(c)'
  BY <1>1 DEF CountOf, FlowOnly
<1> QED
  BY <1>1, <1>2, CountingMove

LEMMA ContinueCounts ==
  ASSUME CallerTypes, Counting, NEW c \in Callers, NEW from, NEW to,
         from # "idle", to # "idle", Continue(c, from, to),
         to \in Fresh => from \in Fresh,
         from \in Between => to \in Between
  PROVE  Counting'
<1>1. CASE job[c].op = "register"
  BY <1>1, MoveCounts DEF Continue
<1>2. CASE job[c].op # "register"
  BY <1>2, ReturnCounts DEF Continue
<1> QED
  BY <1>1, <1>2

\* A failed attempt is one more, of a flow that had one left.
LEMMA FailureCounts ==
  ASSUME CallerTypes, Counting, NEW c \in Callers, NEW to \in Between,
         to \in FlowOnly => job[c].op = "register",
         NEW e \in {"retryable", "auth"},
         job[c].op = "register",
         Goto(c, "registering", to),
         attempt' = [attempt EXCEPT ![c] = attempt[c] + 1],
         lastErr' = [lastErr EXCEPT ![c] = e],
         job' = job
  PROVE  Counting'
<1>1. pc[c] = "registering" /\ pc'[c] = to /\ \A d \in Callers \ {c} : pc'[d] = pc[d]
  BY GotoMoves
<1>2. attempt[c] \in Nat /\ job[c] \in Jobs
  BY <1>1 DEF CallerTypes
<1>3. job[c].retries \in Nat
  BY <1>2, RetriesAreNumbers
<1>4. attempt[c] <= job[c].retries
  <2>1. CountOf(c)
    BY DEF Counting
  <2>2. attempt[c] <= job[c].retries + 0
    BY <1>1, <2>1 DEF CountOf, Between
  <2> QED
    BY <1>2, <1>3, <2>2
<1>5. attempt'[c] = attempt[c] + 1 /\ lastErr'[c] = e /\ OthersCount(c)
  BY <1>1 DEF CallerTypes, OthersCount
<1>6. attempt'[c] <= job'[c].retries + 1
  BY <1>2, <1>3, <1>4, <1>5
<1>7. to # "idle" /\ to \notin Fresh
  BY DEF Between, Fresh
<1>8. CountOf(c)'
  BY <1>1, <1>5, <1>6, <1>7 DEF CountOf
<1> QED
  BY <1>5, <1>8, CountingMove

\* Every step keeps the count.
LEMMA CountingStep ==
  ASSUME CallerTypes, Counting, Next
  PROVE  Counting'
<1>1. ASSUME NEW c \in Callers, Call(c) PROVE Counting'
  <2>1. PICK j \in Jobs :
          /\ Goto(c, "idle", CASE j.op = "register" -> "expired"
                               [] j.op = "install"  -> "install"
                               [] j.op = "checkin"  -> "checkin token"
                               [] OTHER             -> "validate")
          /\ job' = [job EXCEPT ![c] = j]
          /\ UNCHANGED <<attempt, lastErr>>
    BY <1>1 DEF Call
  <2>2. PICK to \in {"expired", "install", "checkin token", "validate"} :
          Goto(c, "idle", to) /\ (to = "expired" <=> j.op = "register")
    BY <2>1
  <2>3. pc[c] = "idle" /\ pc'[c] = to /\ \A d \in Callers \ {c} : pc'[d] = pc[d]
    BY <2>2, GotoMoves
  <2>4. job'[c] = j /\ OthersCount(c)
    BY <2>1, <2>3 DEF CallerTypes, OthersCount
  <2>5. attempt'[c] = 0 /\ lastErr'[c] = "none"
    BY <2>1, <2>3 DEF Counting, CountOf, Fresh
  <2>6. j.op = "register" => 0 <= j.retries + (IF to \in Between THEN 1 ELSE 0)
    BY RetriesAreNumbers
  <2>7. to \in FlowOnly => j.op = "register"
    BY <2>2 DEF FlowOnly
  <2>8. CountOf(c)'
    BY <2>3, <2>4, <2>5, <2>6, <2>7 DEF CountOf
  <2> QED
    BY <2>4, <2>8, CountingMove
<1>2. ASSUME NEW c \in Callers, Preparing(c) \/ Storing(c), ~Call(c) PROVE Counting'
  <2>  USE DEF Fresh, FlowOnly, Between
  <2>0. pc[c] \in FlowOnly => job[c].op = "register"
    BY DEF Counting, CountOf
  <2>1. CASE GiveUp(c) \/ Abort(c) \/ InstallFails(c) \/ CheckinFails(c) \/ RegisterFails(c)
             \/ StoreRegistration(c)
    BY <2>1, ReturnCounts
    DEF GiveUp, Abort, InstallFails, CheckinFails, RegisterFails, StoreRegistration
  <2>2. CASE CheckExpiry(c)
    BY <2>2, <2>0, StepCounts DEF CheckExpiry, Step, Goto
  <2>3. CASE CheckCheckin(c)
    BY <2>3, <2>0, StepCounts DEF CheckCheckin, Step, Goto
  <2>4. CASE NextAttempt(c)
    BY <2>4, <2>0, StepCounts DEF NextAttempt, Step, Goto
  <2>5. CASE Wake(c)
    BY <2>5, StepCounts DEF Wake
  <2>6. CASE BuildInstall(c)
    BY <2>6, MoveCounts DEF BuildInstall
  <2>7. CASE InstallAnswered(c)
    BY <2>7, MoveCounts DEF InstallAnswered
  <2>8. CASE LockInstallation(c)
    BY <2>8, StepCounts DEF LockInstallation
  <2>9. CASE InsertInstallation(c)
    BY <2>9, StepCounts DEF InsertInstallation
  <2>10. CASE StoreAuth(c)
    BY <2>10, StepCounts DEF StoreAuth
  <2>11. CASE StoreFID(c)
    BY <2>11, ContinueCounts DEF StoreFID
  <2>12. CASE ReadCheckinID(c)
    BY <2>12, MoveCounts DEF ReadCheckinID
  <2>13. CASE ReadCheckinToken(c)
    BY <2>13, MoveCounts DEF ReadCheckinToken
  <2>14. CASE CheckinAnswered(c)
    BY <2>14, MoveCounts DEF CheckinAnswered
  <2>15. CASE StoreID(c)
    BY <2>15, StepCounts DEF StoreID
  <2>16. CASE StoreSecurityToken(c)
    BY <2>16, ContinueCounts DEF StoreSecurityToken
  <2>17. CASE Validate(c)
    <3>1. CASE HasCheckin
      BY <2>17, <3>1, StepCounts DEF Validate
    <3>2. CASE ~HasCheckin
      BY <2>17, <3>2, ReturnCounts DEF Validate
    <3> QED
      BY <3>1, <3>2
  <2>18. CASE FindInstallation(c)
    <3>1. CASE accessToken[job[c].app] # 0
      BY <2>18, <3>1, MoveCounts DEF FindInstallation
    <3>2. CASE accessToken[job[c].app] = 0
      BY <2>18, <3>2, ReturnCounts DEF FindInstallation
    <3> QED
      BY <3>1, <3>2
  <2>19. CASE ReadAuth(c)
    BY <2>19, MoveCounts DEF ReadAuth
  <2>20. CASE ReadID(c)
    BY <2>20, MoveCounts DEF ReadID
  <2>21. CASE ReadToken(c)
    BY <2>21, MoveCounts DEF ReadToken
  <2>22. CASE RegisterRefused(c)
    <3>1. CASE job[c].op = "register"
      BY <2>22, <3>1, FailureCounts DEF RegisterRefused
    <3>2. CASE job[c].op # "register"
      BY <2>22, <3>2, ReturnCounts DEF RegisterRefused
    <3> QED
      BY <3>1, <3>2
  <2>23. CASE RegisterRejected(c)
    <3>1. CASE job[c].op = "register"
      BY <2>23, <3>1, FailureCounts DEF RegisterRejected
    <3>2. CASE job[c].op # "register"
      BY <2>23, <3>2, ReturnCounts DEF RegisterRejected
    <3> QED
      BY <3>1, <3>2
  <2>24. CASE RegisterAnswered(c)
    BY <2>24, StepCounts DEF RegisterAnswered
  <2>25. CASE LockToken(c)
    BY <2>25, StepCounts DEF LockToken
  <2>26. CASE InsertForToken(c)
    BY <2>26, StepCounts DEF InsertForToken
  <2> QED
    BY <1>2, <2>1, <2>2, <2>3, <2>4, <2>5, <2>6, <2>7, <2>8, <2>9, <2>10, <2>11, <2>12,
       <2>13, <2>14, <2>15, <2>16, <2>17, <2>18, <2>19, <2>20, <2>21, <2>22, <2>23, <2>24,
       <2>25, <2>26 DEF Preparing, Storing
<1>3. ASSUME NEW c \in Callers, MapRace(c) PROVE Counting'
  BY <1>3 DEF MapRace, caller, Counting, CountOf
<1>4. ASSUME NEW p \in Packages, Expire(p) PROVE Counting'
  BY <1>4 DEF Expire, caller, Counting, CountOf
<1> QED
  BY <1>1, <1>2, <1>3, <1>4, NextSplits

\* No call.
LEMMA CountingInit ==
  ASSUME Init
  PROVE  Counting
BY DEF Init, Counting, CountOf, FlowOnly

\* A flow that looks at its count goes on or gives up.
LEMMA LeavesAttempt ==
  ASSUME CallerTypes, Next, NEW c \in Callers, pc[c] = "attempt", pc'[c] = "idle"
  PROVE  GiveUp(c)
<1>1. ASSUME NEW d \in Callers, Preparing(d) PROVE GiveUp(c)
  <2>1. OthersStay(d)
    BY <1>1, PreparingIsQuiet DEF Quiet
  <2>2. c = d
    BY <2>1 DEF OthersStay
  <2>3. CASE NextAttempt(c)
    BY <2>3, StepMoves DEF NextAttempt
  <2>4. CASE ~NextAttempt(c)
    BY <1>1, <2>2, <2>4
    DEF Preparing, Call, CheckExpiry, CheckCheckin, Abort, Wake, BuildInstall, InstallFails,
        ReadCheckinID, ReadCheckinToken, CheckinFails, CheckinAnswered, Validate,
        FindInstallation, ReadAuth, ReadID, ReadToken, RegisterFails, RegisterRefused,
        RegisterRejected, RegisterAnswered, Step, Return, Goto
  <2> QED
    BY <2>3, <2>4
<1>2. ASSUME NEW d \in Callers, Storing(d) PROVE FALSE
  <2>1. OthersStay(d) /\ pc[d] # "attempt"
    BY <1>2, InstallAnsweredDoes, LockInstallationDoes, InsertInstallationDoes, StoreAuthDoes,
       StoreFIDDoes, StoreIDDoes, StoreSecurityTokenDoes, LockTokenDoes, InsertForTokenDoes,
       StoreRegistrationDoes DEF Storing
  <2> QED
    BY <2>1 DEF OthersStay
<1>3. ASSUME NEW d \in Callers, MapRace(d) PROVE FALSE
  BY <1>3 DEF MapRace, caller
<1>4. ASSUME NEW p \in Packages, Expire(p) PROVE FALSE
  BY <1>4 DEF Expire, caller
<1> QED
  BY <1>1, <1>2, <1>3, <1>4, NextSplits

\* RegisterForNotifications counts its failed attempts, for any goroutines that use
\* the client: never more than Retries + 1 of them, and an error is kept of the last.
THEOREM AttemptsAreCounted == Spec => []Counting
<1>1. Init => Counting
  BY CountingInit
<1>2. TypeOK /\ Counting /\ [Next]_vars => Counting'
  <2> SUFFICES ASSUME TypeOK, Counting, [Next]_vars
               PROVE  Counting'
    OBVIOUS
  <2>1. CASE Next
    BY <2>1, CountingStep DEF TypeOK
  <2>2. CASE UNCHANGED vars
    BY <2>2 DEF vars, caller, Counting, CountOf
  <2> QED
    BY <2>1, <2>2
<1> QED
  BY <1>1, <1>2, TypeCorrect, PTL DEF Spec

\* What a step that gives up has behind it.
AllAttemptsMade ==
  \A c \in Callers :
    pc[c] = "attempt" /\ pc'[c] = "idle" =>
      attempt[c] = job[c].retries + 1 /\ lastErr[c] # "none"

\* "registration failed after Retries + 1 attempt(s)": exactly that many were made,
\* and each of them failed in a way that may be retried.
THEOREM AllAttemptsBeforeGivingUp == Spec => GivesUpAfterAllAttempts
<1>1. TypeOK /\ Counting /\ [Next]_vars => [AllAttemptsMade]_vars
  <2> SUFFICES ASSUME TypeOK, Counting, Next, NEW c \in Callers,
                      pc[c] = "attempt", pc'[c] = "idle"
               PROVE  attempt[c] = job[c].retries + 1 /\ lastErr[c] # "none"
    BY DEF AllAttemptsMade
  <2>1. GiveUp(c)
    BY LeavesAttempt DEF TypeOK
  <2>2. attempt[c] \in Nat /\ job[c] \in Jobs
    BY DEF TypeOK, CallerTypes
  <2>3. job[c].op = "register" /\ attempt[c] <= job[c].retries + 1
    BY DEF Counting, CountOf, FlowOnly, Between
  <2>4. job[c].retries \in Nat
    BY <2>2, <2>3, RetriesAreNumbers
  <2>5. attempt[c] > job[c].retries
    BY <2>1 DEF GiveUp
  <2>6. attempt[c] = job[c].retries + 1
    BY <2>2, <2>3, <2>4, <2>5
  <2>7. lastErr[c] # "none"
    BY <2>4, <2>6 DEF Counting, CountOf
  <2> QED
    BY <2>6, <2>7
<1>2. Spec => [][AllAttemptsMade]_vars
  BY <1>1, TypeCorrect, AttemptsAreCounted, PTL DEF Spec
<1> QED
  BY <1>2 DEF GivesUpAfterAllAttempts, AllAttemptsMade

-----------------------------------------------------------------------------
(* Credentials are issued before they are used or rejected.                *)

\* One caller moves, with credentials that were issued.
LEMMA IssuedMove ==
  ASSUME CallerTypes, ServerTypes, Issued, NEW c \in Callers, OthersStay(c),
         checkins' \in {checkins, checkins + 1},
         rejected' \subseteq 0..checkins,
         androidID' <= checkins',
         sent'[c].id <= checkins',
         pc'[c] \in StoringCheckin => answer'[c] <= checkins'
  PROVE  Issued'
<1>1. checkins \in Nat /\ checkins' \in Nat /\ checkins <= checkins'
  BY RegistrationAssumption DEF ServerTypes, Credentials
<1>2. rejected' \subseteq 0..checkins'
  BY <1>1
<1>3. \A d \in Callers : sent[d].id \in Nat /\ answer[d] \in Nat
  BY RegistrationAssumption DEF CallerTypes, Requests, Credentials
<1>4. \A d \in Callers \ {c} :
        /\ sent'[d].id <= checkins'
        /\ pc'[d] \in StoringCheckin => answer'[d] <= checkins'
  BY <1>1, <1>3 DEF Issued, OthersStay
<1> QED
  BY <1>2, <1>4 DEF Issued

\* A step that brings no credentials of its own.
LEMMA IssuedKept ==
  ASSUME CallerTypes, ServerTypes, Issued, NEW c \in Callers, OthersStay(c),
         UNCHANGED <<androidID, checkins, rejected>>,
         sent'[c].id \in {sent[c].id, 0},
         pc'[c] \notin StoringCheckin
  PROVE  Issued'
<1>1. checkins \in Nat
  BY RegistrationAssumption DEF ServerTypes, Credentials
<1>2. sent'[c].id <= checkins
  BY <1>1 DEF Issued
<1> QED
  BY <1>2, IssuedMove DEF Issued

LEMMA IssuedGoto ==
  ASSUME CallerTypes, ServerTypes, Issued, NEW c \in Callers, NEW from, NEW to,
         Goto(c, from, to), OthersStay(c), to \notin StoringCheckin,
         UNCHANGED <<androidID, checkins, rejected>>,
         sent'[c].id \in {sent[c].id, 0}
  PROVE  Issued'
BY GotoMoves, IssuedKept

LEMMA IssuedStepOf ==
  ASSUME CallerTypes, ServerTypes, Issued, NEW c \in Callers, NEW from, NEW to,
         Step(c, from, to), to \notin StoringCheckin,
         UNCHANGED <<androidID, checkins, rejected>>
  PROVE  Issued'
BY StepMoves, IssuedKept

LEMMA IssuedReturn ==
  ASSUME CallerTypes, ServerTypes, Issued, NEW c \in Callers, NEW from, Return(c, from),
         UNCHANGED <<androidID, checkins, rejected>>
  PROVE  Issued'
<1>1. pc'[c] = "idle" /\ OthersStay(c)
  BY ReturnMoves
<1>2. sent'[c].id = 0
  BY DEF Return, CallerTypes, NoRequest
<1> QED
  BY <1>1, <1>2, IssuedKept DEF StoringCheckin

LEMMA IssuedContinue ==
  ASSUME CallerTypes, ServerTypes, Issued, NEW c \in Callers, NEW from, NEW to,
         Continue(c, from, to), to \notin StoringCheckin,
         UNCHANGED <<androidID, checkins, rejected>>
  PROVE  Issued'
<1>1. OthersStay(c)
  BY ContinueMoves
<1>2. CASE job[c].op = "register"
  BY <1>1, <1>2, IssuedGoto DEF Continue
<1>3. CASE job[c].op # "register"
  BY <1>3, IssuedReturn DEF Continue
<1> QED
  BY <1>2, <1>3

\* The steps of a call up to the mutex.
LEMMA IssuedPreparing ==
  ASSUME TypeOK, Issued, NEW c \in Callers, Preparing(c)
  PROVE  Issued'
<1>  CallerTypes /\ ServerTypes
  BY DEF TypeOK
<1>  OthersStay(c) /\ androidID' = androidID
  BY PreparingIsQuiet DEF Quiet
<1>  USE DEF servers, device, StoringCheckin
<1>0. checkins \in Nat
  BY RegistrationAssumption DEF ServerTypes, Credentials
<1>14. sent[c].id \in Nat /\ sent[c].id <= checkins
  <2>1. sent[c] \in Requests /\ sent[c].id <= checkins
    BY DEF CallerTypes, Issued
  <2> QED
    BY <2>1, RegistrationAssumption DEF Requests, Credentials
<1>15. androidID \in Nat /\ androidID <= checkins
  <2>1. androidID \in Credentials
    BY DEF TypeOK, DeviceTypes
  <2>2. androidID \in Nat
    BY <2>1, RegistrationAssumption DEF Credentials
  <2> QED
    BY <2>2 DEF Issued
<1>1. CASE Call(c)
  <2>1. PICK to \in {"expired", "install", "checkin token", "validate"} : Goto(c, "idle", to)
    BY <1>1 DEF Call
  <2> QED
    BY <1>1, <2>1, IssuedGoto DEF Call
<1>2. CASE CheckExpiry(c) \/ CheckCheckin(c) \/ NextAttempt(c) \/ Wake(c) \/ RegisterAnswered(c)
  BY <1>2, IssuedStepOf DEF CheckExpiry, CheckCheckin, NextAttempt, Wake, RegisterAnswered
<1>3. CASE GiveUp(c) \/ Abort(c) \/ InstallFails(c) \/ CheckinFails(c) \/ RegisterFails(c)
  BY <1>3, IssuedReturn DEF GiveUp, Abort, InstallFails, CheckinFails, RegisterFails
<1>4. CASE BuildInstall(c)
  <2>1. sent'[c].id = sent[c].id
    BY <1>4 DEF BuildInstall, CallerTypes, Requests
  <2> QED
    BY <1>4, <2>1, IssuedGoto DEF BuildInstall
<1>5. CASE ReadCheckinID(c) \/ ReadID(c)
  <2>3. pc'[c] \in {"checking in", "token"}
    BY <1>5, GotoMoves DEF ReadCheckinID, ReadID
  <2>4. sent' = [sent EXCEPT ![c].id = androidID]
    BY <1>5 DEF ReadCheckinID, ReadID
  <2>5. sent'[c].id = androidID
    BY <2>4 DEF CallerTypes, Requests
  <2>1. sent'[c].id = androidID /\ pc'[c] \in {"checking in", "token"}
    BY <2>3, <2>5
  <2>2. UNCHANGED <<checkins, rejected>>
    BY <1>5 DEF ReadCheckinID, ReadID
  <2> QED
    BY <2>1, <2>2, IssuedMove DEF Issued
<1>6. CASE ReadCheckinToken(c)
  <2>1. sent'[c].id = sent[c].id
    BY <1>6 DEF ReadCheckinToken, CallerTypes, Requests
  <2> QED
    BY <1>6, <2>1, IssuedGoto DEF ReadCheckinToken
<1>7. CASE CheckinAnswered(c)
  <2>1. pc'[c] = "lock checkin" /\ rejected' = rejected
    BY <1>7, GotoMoves DEF CheckinAnswered
  <2>2. sent'[c].id = 0
    BY <1>7 DEF CheckinAnswered, CallerTypes, NoRequest
  <2>3. \/ answer'[c] = sent[c].id /\ checkins' = checkins
        \/ answer'[c] = checkins + 1 /\ checkins' = checkins + 1
    BY <1>7 DEF CheckinAnswered, CallerTypes
  <2>4. answer'[c] <= checkins'
    BY <1>0, <1>14, <2>3
  <2>6. androidID' <= checkins' /\ 0 <= checkins'
    BY <1>0, <1>15, <2>3
  <2> QED
    BY <2>1, <2>2, <2>3, <2>4, <2>6, IssuedMove DEF Issued
<1>8. CASE Validate(c)
  BY <1>8, IssuedStepOf, IssuedReturn DEF Validate
<1>9. CASE FindInstallation(c)
  <2>1. CASE accessToken[job[c].app] # 0
    <3>1. sent'[c].id = sent[c].id
      BY <1>9, <2>1 DEF FindInstallation, CallerTypes, Requests
    <3> QED
      BY <1>9, <2>1, <3>1, IssuedGoto DEF FindInstallation
  <2>2. CASE accessToken[job[c].app] = 0
    BY <1>9, <2>2, IssuedReturn DEF FindInstallation
  <2> QED
    BY <2>1, <2>2
<1>10. CASE ReadAuth(c)
  <2>1. sent'[c].id = sent[c].id
    BY <1>10 DEF ReadAuth, CallerTypes, Requests
  <2> QED
    BY <1>10, <2>1, IssuedGoto DEF ReadAuth
<1>11. CASE ReadToken(c)
  <2>1. sent'[c].id = sent[c].id
    BY <1>11 DEF ReadToken, CallerTypes, Requests
  <2> QED
    BY <1>11, <2>1, IssuedGoto DEF ReadToken
<1>12. CASE RegisterRefused(c)
  <2>1. CASE job[c].op = "register"
    <3>1. sent'[c].id = 0
      BY <1>12, <2>1 DEF RegisterRefused, CallerTypes, NoRequest
    <3> QED
      BY <1>12, <2>1, <3>1, IssuedGoto DEF RegisterRefused
  <2>2. CASE job[c].op # "register"
    BY <1>12, <2>2, IssuedReturn DEF RegisterRefused
  <2> QED
    BY <2>1, <2>2
<1>13. CASE RegisterRejected(c)
  <2>1. sent' = [sent EXCEPT ![c] = NoRequest]
    BY <1>13 DEF RegisterRejected, Return
  <2>2. sent'[c].id = 0
    BY <2>1 DEF CallerTypes, NoRequest
  <2>3. pc'[c] \in {"idle", "checkin token"}
    BY <1>13, GotoMoves, ReturnMoves DEF RegisterRejected
  <2>4. checkins' = checkins /\ rejected' \subseteq rejected \cup {sent[c].id}
    BY <1>13 DEF RegisterRejected
  <2>5. rejected \subseteq 0..checkins
    BY DEF Issued
  <2>6. sent[c].id \in 0..checkins
    BY <1>0, <1>14
  <2>7. rejected' \subseteq 0..checkins
    BY <2>4, <2>5, <2>6
  <2>8. 0 <= checkins' /\ checkins' \in {checkins, checkins + 1} /\ androidID' <= checkins'
    BY <1>0, <1>15, <2>4
  <2> QED
    BY <2>2, <2>3, <2>7, <2>8, IssuedMove
<1> QED
  BY <1>1, <1>2, <1>3, <1>4, <1>5, <1>6, <1>7, <1>8, <1>9, <1>10, <1>11, <1>12, <1>13
  DEF Preparing

\* And around it: what is stored was answered.
LEMMA IssuedStoring ==
  ASSUME TypeOK, Issued, NEW c \in Callers, Storing(c)
  PROVE  Issued'
<1>  CallerTypes /\ ServerTypes
  BY DEF TypeOK
<1>  USE DEF servers, device, StoringCheckin
<1>0. checkins \in Nat
  BY RegistrationAssumption DEF ServerTypes, Credentials
<1>1. CASE InstallAnswered(c)
  <2>1. sent'[c].id = 0
    BY <1>1 DEF InstallAnswered, CallerTypes, NoRequest
  <2>2. OthersStay(c)
    BY <1>1, InstallAnsweredDoes
  <2> QED
    BY <1>1, <2>1, <2>2, IssuedGoto DEF InstallAnswered
<1>2. CASE LockInstallation(c) \/ LockToken(c)
  BY <1>2, IssuedStepOf DEF LockInstallation, LockToken
<1>3. CASE InsertInstallation(c) \/ InsertForToken(c)
  BY <1>3, IssuedStepOf DEF InsertInstallation, InsertForToken, InsertEntry
<1>4. CASE StoreAuth(c)
  BY <1>4, IssuedStepOf DEF StoreAuth
<1>5. CASE StoreFID(c)
  BY <1>5, IssuedContinue DEF StoreFID
<1>6. CASE StoreID(c)
  <2>1. /\ OthersStay(c) /\ androidID' = answer[c] /\ answer' = answer
        /\ pc[c] = "lock checkin"
    BY <1>6, StoreIDDoes
  <2>2. UNCHANGED <<sent, checkins, rejected>>
    BY <1>6 DEF StoreID, Step
  <2>3. answer[c] <= checkins
    BY <2>1 DEF Issued
  <2> QED
    BY <2>1, <2>2, <2>3, IssuedMove DEF Issued
<1>7. CASE StoreSecurityToken(c)
  BY <1>7, IssuedContinue DEF StoreSecurityToken
<1>8. CASE StoreRegistration(c)
  BY <1>8, IssuedReturn DEF StoreRegistration
<1> QED
  BY <1>1, <1>2, <1>3, <1>4, <1>5, <1>6, <1>7, <1>8 DEF Storing

LEMMA IssuedStep ==
  ASSUME TypeOK, Issued, Next
  PROVE  Issued'
<1>1. ASSUME NEW c \in Callers, MapRace(c) PROVE Issued'
  BY <1>1 DEF MapRace, caller, device, servers, Issued
<1>2. ASSUME NEW p \in Packages, Expire(p) PROVE Issued'
  BY <1>2 DEF Expire, caller, servers, Issued
<1> QED
  BY <1>1, <1>2, NextSplits, IssuedPreparing, IssuedStoring

-----------------------------------------------------------------------------
(* Any calls: where exactly a registration can be torn.                    *)

\* No registration is between its two reads of the credentials while a check-in
\* is between its two stores, nor of an installation while that is stored.  One
\* call at a time satisfies it, and so would builders that took deviceMutex.
ReadsApart ==
  \A c, d \in Callers :
    /\ ~(pc[c] = "token" /\ pc[d] = "store token")
    /\ ~(pc[c] = "auth" /\ pc[d] = "store fid" /\ job[d].app = job[c].app)

\* What a registration has read in part is still there, what it has read in full
\* is of one answer.
Whole(c) ==
  /\ pc[c] = "token" => sent[c].id = androidID
  /\ pc[c] \in Asked \ {"token"} => sent[c].id = sent[c].token
  /\ pc[c] = "auth" => accessToken[job[c].app] # 0 /\ sent[c].fid = fid[job[c].app]
  /\ pc[c] \in {"id"} \cup Asked /\ job[c].op # "web" =>
       sent[c].auth \in 1..installs /\ fidOf[sent[c].auth] = sent[c].fid

\* What an answer named stays what it named.
AnswersStay ==
  /\ 1..installs \subseteq 1..installs'
  /\ \A n \in 1..installs : fidOf'[n] = fidOf[n]

LEMMA WholeElsewhere ==
  ASSUME NEW c \in Callers, pc'[c] \notin Reading
  PROVE  Whole(c)'
BY DEF Whole, Reading, Asked

LEMMA WholeGoto ==
  ASSUME CallerTypes, NEW c \in Callers, NEW from, NEW to, Goto(c, from, to), to \notin Reading
  PROVE  Whole(c)'
BY GotoMoves, WholeElsewhere

LEMMA WholeReturn ==
  ASSUME CallerTypes, NEW c \in Callers, NEW from, Return(c, from)
  PROVE  Whole(c)'
BY ReturnMoves, WholeElsewhere DEF Reading, Asked

\* A step that reads and stores nothing.
LEMMA WholeStepOf ==
  ASSUME CallerTypes, NEW c \in Callers, Whole(c), NEW from, NEW to, Step(c, from, to),
         UNCHANGED <<installs, fidOf>>,
         to \in Reading => from \in Asked \ {"token"} /\ to \in Asked \ {"token"}
  PROVE  Whole(c)'
<1>1. pc[c] = from /\ pc'[c] = to /\ UNCHANGED <<job, sent>>
  BY StepMoves
<1>2. CASE to \in Reading
  BY <1>1, <1>2 DEF Whole, Asked
<1>3. CASE to \notin Reading
  BY <1>1, <1>3, WholeElsewhere
<1> QED
  BY <1>2, <1>3

\* The two pairs of reads, and every step that is not one.
LEMMA WholePreparing ==
  ASSUME Inv, ReadsApart, NEW c \in Callers, Whole(c), Preparing(c)
  PROVE  Whole(c)'
<1>  CallerTypes
  BY DEF Inv, TypeOK
<1>  UNCHANGED <<androidID, securityToken, accessToken, fid, installs, fidOf>>
  BY PreparingIsQuiet DEF Quiet, Inv, TypeOK
<1>  USE DEF Reading, Asked
<1>1. CASE Call(c)
  <2>1. PICK to \in {"expired", "install", "checkin token", "validate"} : Goto(c, "idle", to)
    BY <1>1 DEF Call
  <2> QED
    BY <2>1, WholeGoto
<1>2. CASE CheckExpiry(c) \/ CheckCheckin(c) \/ NextAttempt(c) \/ Wake(c) \/ RegisterAnswered(c)
  BY <1>2, WholeStepOf DEF CheckExpiry, CheckCheckin, NextAttempt, Wake, RegisterAnswered
<1>3. CASE GiveUp(c) \/ Abort(c) \/ InstallFails(c) \/ CheckinFails(c) \/ RegisterFails(c)
  BY <1>3, WholeReturn DEF GiveUp, Abort, InstallFails, CheckinFails, RegisterFails
<1>4. CASE BuildInstall(c) \/ ReadCheckinID(c) \/ ReadCheckinToken(c) \/ CheckinAnswered(c)
  BY <1>4, WholeGoto DEF BuildInstall, ReadCheckinID, ReadCheckinToken, CheckinAnswered
<1>5. CASE RegisterRefused(c) \/ RegisterRejected(c)
  BY <1>5, WholeGoto, WholeReturn DEF RegisterRefused, RegisterRejected
<1>6. CASE Validate(c)
  <2>1. CASE HasCheckin
    <3>1. pc'[c] = (IF job[c].op = "web" THEN "id" ELSE "find") /\ job' = job
      BY <1>6, <2>1, StepMoves DEF Validate
    <3> QED
      BY <3>1 DEF Whole
  <2>2. CASE ~HasCheckin
    BY <1>6, <2>2, WholeReturn DEF Validate
  <2> QED
    BY <2>1, <2>2
<1>7. CASE FindInstallation(c)
  <2>1. CASE accessToken[job[c].app] # 0
    <3>1. /\ Goto(c, "find", "auth") /\ job' = job
          /\ sent' = [sent EXCEPT ![c].fid = fid[job[c].app]]
      BY <1>7, <2>1 DEF FindInstallation
    <3>2. pc'[c] = "auth" /\ sent'[c].fid = fid[job[c].app]
      BY <3>1, GotoMoves DEF CallerTypes, Requests
    <3> QED
      BY <2>1, <3>1, <3>2 DEF Whole
  <2>2. CASE accessToken[job[c].app] = 0
    BY <1>7, <2>2, WholeReturn DEF FindInstallation
  <2> QED
    BY <2>1, <2>2
<1>8. CASE ReadAuth(c)
  <2>1. /\ Goto(c, "auth", "id") /\ job' = job
        /\ sent' = [sent EXCEPT ![c].auth = accessToken[job[c].app]]
    BY <1>8 DEF ReadAuth
  <2>2. pc[c] = "auth" /\ pc'[c] = "id"
    BY <2>1, GotoMoves
  <2>3. sent'[c].auth = accessToken[job[c].app] /\ sent'[c].fid = sent[c].fid
    BY <2>1 DEF CallerTypes, Requests
  <2>4. job[c].app \in Packages
    BY <2>2 DEF CallerTypes, Jobs, Flows, Parts
  <2>5. accessToken[job[c].app] # 0 /\ sent[c].fid = fid[job[c].app]
    BY <2>2 DEF Whole
  <2>6. ~StoringFID(job[c].app)
    BY <2>2 DEF ReadsApart, StoringFID
  <2>7. fidOf[accessToken[job[c].app]] = fid[job[c].app]
    BY <2>4, <2>5, <2>6 DEF Inv, InstallationPair
  <2>8. accessToken[job[c].app] \in 1..installs
    <3>1. accessToken[job[c].app] \in 0..installs /\ installs \in Nat
      BY <2>4, InstallsCount DEF Inv, InstallationPair
    <3> QED
      BY <2>5, <3>1
  <2> QED
    BY <2>1, <2>2, <2>3, <2>5, <2>7, <2>8 DEF Whole
<1>9. CASE ReadID(c)
  <2>1. /\ Goto(c, "id", "token") /\ job' = job
        /\ sent' = [sent EXCEPT ![c].id = androidID]
    BY <1>9 DEF ReadID
  <2>2. pc[c] = "id" /\ pc'[c] = "token"
    BY <2>1, GotoMoves
  <2>3. sent'[c].id = androidID /\ sent'[c].auth = sent[c].auth /\ sent'[c].fid = sent[c].fid
    BY <2>1 DEF CallerTypes, Requests
  <2> QED
    BY <2>1, <2>2, <2>3 DEF Whole
<1>10. CASE ReadToken(c)
  <2>1. /\ Goto(c, "token", "registering") /\ job' = job
        /\ sent' = [sent EXCEPT ![c].token = securityToken]
    BY <1>10 DEF ReadToken
  <2>2. pc[c] = "token" /\ pc'[c] = "registering"
    BY <2>1, GotoMoves
  <2>3. /\ sent'[c].token = securityToken /\ sent'[c].id = sent[c].id
        /\ sent'[c].auth = sent[c].auth /\ sent'[c].fid = sent[c].fid
    BY <2>1 DEF CallerTypes, Requests
  <2>4. \A d \in Callers : pc[d] # "store token"
    BY <2>2 DEF ReadsApart
  <2>5. androidID = securityToken
    BY <2>4 DEF Inv, CheckinPair
  <2> QED
    BY <2>1, <2>2, <2>3, <2>5 DEF Whole
<1> QED
  BY <1>1, <1>2, <1>3, <1>4, <1>5, <1>6, <1>7, <1>8, <1>9, <1>10 DEF Preparing

\* A registration's own steps around the mutex come after its reads.
LEMMA WholeStoring ==
  ASSUME CallerTypes, NEW c \in Callers, Whole(c), Storing(c)
  PROVE  Whole(c)'
<1>  USE DEF Reading, Asked
<1>1. CASE InstallAnswered(c)
  BY <1>1, WholeGoto DEF InstallAnswered
<1>2. CASE LockInstallation(c)
  BY <1>2, WholeGoto DEF LockInstallation, Step
<1>3. CASE InsertInstallation(c)
  BY <1>3, WholeGoto DEF InsertInstallation, Step
<1>4. CASE StoreAuth(c)
  BY <1>4, WholeGoto DEF StoreAuth, Step
<1>5. CASE StoreFID(c)
  BY <1>5, StoreFIDDoes, WholeElsewhere
<1>6. CASE StoreID(c)
  BY <1>6, WholeGoto DEF StoreID, Step
<1>7. CASE StoreSecurityToken(c)
  BY <1>7, StoreSecurityTokenDoes, WholeElsewhere
<1>8. CASE LockToken(c)
  BY <1>8, WholeStepOf DEF LockToken, servers
<1>9. CASE InsertForToken(c)
  BY <1>9, WholeStepOf DEF InsertForToken, servers
<1>10. CASE StoreRegistration(c)
  BY <1>10, WholeReturn DEF StoreRegistration
<1> QED
  BY <1>1, <1>2, <1>3, <1>4, <1>5, <1>6, <1>7, <1>8, <1>9, <1>10 DEF Storing

\* Only the next answer is numbered, whoever gets it.
LEMMA AnswersStayStep ==
  ASSUME TypeOK, Next
  PROVE  AnswersStay
<1>  CallerTypes /\ ServerTypes
  BY DEF TypeOK
<1>0. installs \in Nat
  BY InstallsCount
<1>1. ASSUME NEW d \in Callers, InstallAnswered(d) PROVE AnswersStay
  <2>1. PICK f : installs' = installs + 1 /\ fidOf' = [fidOf EXCEPT ![installs + 1] = f]
    BY <1>1, InstallAnsweredDoes
  <2>2. \A n \in 1..installs : n # installs + 1 /\ n \in Installs
    BY <1>0, RegistrationAssumption DEF ServerTypes, Installs
  <2>3. \A n \in 1..installs : fidOf'[n] = fidOf[n]
    BY <2>1, <2>2 DEF ServerTypes
  <2>4. 1..installs \subseteq 1..installs'
    BY <1>0, <2>1
  <2> QED
    BY <2>3, <2>4 DEF AnswersStay
<1>2. ASSUME UNCHANGED <<installs, fidOf>> PROVE AnswersStay
  BY <1>2 DEF AnswersStay
<1>3. ASSUME NEW d \in Callers, Preparing(d) \/ Storing(d), ~InstallAnswered(d) PROVE AnswersStay
  BY <1>2, <1>3, PreparingIsQuiet, LockInstallationDoes, InsertInstallationDoes,
     StoreAuthDoes, StoreFIDDoes, StoreIDDoes, StoreSecurityTokenDoes, LockTokenDoes,
     InsertForTokenDoes, StoreRegistrationDoes DEF Quiet, Storing
<1>4. ASSUME NEW d \in Callers, MapRace(d) PROVE AnswersStay
  BY <1>2, <1>4 DEF MapRace, servers
<1>5. ASSUME NEW p \in Packages, Expire(p) PROVE AnswersStay
  BY <1>2, <1>5 DEF Expire, servers
<1> QED
  BY <1>1, <1>3, <1>4, <1>5, NextSplits

\* The android id changes only under a check-in's two stores.
LEMMA OnlyStoreID ==
  ASSUME CallerTypes, NEW d \in Callers, Preparing(d) \/ Storing(d), androidID' # androidID
  PROVE  pc'[d] = "store token"
BY PreparingIsQuiet, InstallAnsweredDoes, LockInstallationDoes, InsertInstallationDoes,
   StoreAuthDoes, StoreFIDDoes, StoreIDDoes, StoreSecurityTokenDoes, LockTokenDoes,
   InsertForTokenDoes, StoreRegistrationDoes DEF Quiet, Storing, device, InsertEntry

\* And the FID of an installation only with its auth token.
LEMMA OnlyStoreFID ==
  ASSUME Inv, NEW d \in Callers, Preparing(d) \/ Storing(d), NEW p \in Packages,
         accessToken[p] # 0, fid'[p] # fid[p]
  PROVE  pc[d] = "store fid" /\ job[d].app = p
<1>  CallerTypes /\ DeviceTypes /\ Entries
  BY DEF Inv, TypeOK
<1>1. CASE StoreFID(d)
  <2>1. pc[d] = "store fid" /\ fid' = [fid EXCEPT ![job[d].app] = fidOf[answer[d]]]
    BY <1>1, StoreFIDDoes
  <2> QED
    BY <2>1 DEF DeviceTypes
<1>2. CASE InsertInstallation(d) \/ InsertForToken(d)
  <2>1. pc[d] \in {"insert install", "insert token"} /\ fid' = [fid EXCEPT ![job[d].app] = 0]
    BY <1>2, InsertInstallationDoes, InsertForTokenDoes DEF InsertEntry
  <2>2. job[d].app = p
    BY <2>1 DEF DeviceTypes
  <2>3. p \notin installations
    BY <2>1, <2>2 DEF Entries
  <2> QED
    BY <2>3 DEF Entries
<1>3. CASE ~(StoreFID(d) \/ InsertInstallation(d) \/ InsertForToken(d))
  <2>1. fid' = fid
    BY <1>3, PreparingIsQuiet, InstallAnsweredDoes, LockInstallationDoes, StoreAuthDoes,
       StoreIDDoes, StoreSecurityTokenDoes, LockTokenDoes, StoreRegistrationDoes
    DEF Quiet, Storing, device
  <2> QED
    BY <2>1
<1> QED
  BY <1>1, <1>2, <1>3

\* What somebody else does leaves it whole.
LEMMA WholeOthers ==
  ASSUME Inv, ReadsApart, ReadsApart', Next, NEW c \in Callers, Whole(c),
         NEW d \in Callers \ {c}, Preparing(d) \/ Storing(d)
  PROVE  Whole(c)'
<1>  CallerTypes
  BY DEF Inv, TypeOK
<1>1. OthersStay(d)
  BY PreparingIsQuiet, InstallAnsweredDoes, LockInstallationDoes, InsertInstallationDoes,
     StoreAuthDoes, StoreFIDDoes, StoreIDDoes, StoreSecurityTokenDoes, LockTokenDoes,
     InsertForTokenDoes, StoreRegistrationDoes DEF Quiet, Storing
<1>2. pc'[c] = pc[c] /\ job'[c] = job[c] /\ sent'[c] = sent[c]
  BY <1>1 DEF OthersStay
<1>3. pc[c] = "token" => androidID' = androidID
  BY <1>2, OnlyStoreID DEF ReadsApart
<1>4. ASSUME pc[c] = "auth"
      PROVE  accessToken'[job[c].app] # 0 /\ fid'[job[c].app] = fid[job[c].app]
  <2>1. job[c].app \in Packages
    BY <1>4 DEF CallerTypes, Jobs, Flows, Parts
  <2>2. accessToken[job[c].app] # 0
    BY <1>4 DEF Whole
  <2>3. accessToken'[job[c].app] # 0
    BY <2>1, <2>2, StepKeeps DEF Keeps
  <2>4. ~(pc[d] = "store fid" /\ job[d].app = job[c].app)
    BY <1>4 DEF ReadsApart
  <2>5. fid'[job[c].app] = fid[job[c].app]
    BY <2>1, <2>2, <2>4, OnlyStoreFID
  <2> QED
    BY <2>3, <2>5
<1>5. 1..installs \subseteq 1..installs' /\ \A n \in 1..installs : fidOf'[n] = fidOf[n]
  BY AnswersStayStep DEF AnswersStay, Inv
<1> QED
  BY <1>2, <1>3, <1>4, <1>5 DEF Whole

LEMMA WholeStep ==
  ASSUME Inv, ReadsApart, ReadsApart', NEW c \in Callers, Whole(c), [Next]_vars
  PROVE  Whole(c)'
<1>  CallerTypes
  BY DEF Inv, TypeOK
<1>1. ASSUME Next, NEW d \in Callers, Preparing(d) \/ Storing(d) PROVE Whole(c)'
  <2>1. CASE d = c
    BY <1>1, <2>1, WholePreparing, WholeStoring
  <2>2. CASE d # c
    BY <1>1, <2>2, WholeOthers
  <2> QED
    BY <2>1, <2>2
<1>2. ASSUME NEW d \in Callers, MapRace(d) PROVE Whole(c)'
  BY <1>2 DEF MapRace, caller, device, servers, Whole
<1>3. ASSUME NEW p \in Packages, Expire(p) PROVE Whole(c)'
  BY <1>3 DEF Expire, caller, servers, Whole
<1>4. CASE UNCHANGED vars
  BY <1>4 DEF vars, caller, device, servers, Whole
<1> QED
  BY <1>1, <1>2, <1>3, <1>4, NextSplits

\* However many calls overlap, of however many goroutines and packages: a
\* registration that is torn has read one half of a pair while another call was
\* storing the other.  Nothing else that runs at the same time, registrations of the
\* same package and installations of other ones included, can mix what it shows GCM.
THEOREM TornOnlyBetweenReads == Spec /\ []ReadsApart => []RequestsAreConsistent
<1>1. Init => \A c \in Callers : Whole(c)
  BY DEF Init, Whole, Asked
<1>2. /\ Inv /\ ReadsApart /\ ReadsApart' /\ (\A c \in Callers : Whole(c)) /\ [Next]_vars
      => (\A c \in Callers : Whole(c))'
  BY WholeStep
<1>3. (\A c \in Callers : Whole(c)) => RequestsAreConsistent
  BY DEF RequestsAreConsistent, Whole, Asked
<1> QED
  BY <1>1, <1>2, <1>3, SharedInvariant, PTL DEF Spec

\* The builders of a registration read its four fields one after another without
\* deviceMutex; with one call at a time they still show GCM one check-in and one
\* installation answer.
THEOREM RegistrationsAreConsistent == Spec /\ []OneAtATime => []RequestsAreConsistent
<1>1. OneAtATime => ReadsApart
  BY DEF OneAtATime, ReadsApart
<1> QED
  BY <1>1, TornOnlyBetweenReads, PTL

-----------------------------------------------------------------------------
(* One call at a time: what a registration has read stays what the device  *)
(* holds.                                                                  *)

\* A call that reads nothing more.
LEMMA UpToDateElsewhere ==
  ASSUME NEW c \in Callers, pc'[c] \notin Reading
  PROVE  UpToDate(c)'
BY DEF UpToDate, Reading

LEMMA UpToDateGoto ==
  ASSUME CallerTypes, NEW c \in Callers, NEW from, NEW to, Goto(c, from, to), to \notin Reading
  PROVE  UpToDate(c)'
BY GotoMoves, UpToDateElsewhere

LEMMA UpToDateReturn ==
  ASSUME CallerTypes, NEW c \in Callers, NEW from, Return(c, from)
  PROVE  UpToDate(c)'
BY ReturnMoves, UpToDateElsewhere DEF Reading, Asked

\* A step of a registration that reads nothing and stores nothing.
LEMMA UpToDateStepOf ==
  ASSUME CallerTypes, NEW c \in Callers, UpToDate(c), NEW from, NEW to, Step(c, from, to),
         UNCHANGED <<androidID, securityToken, accessToken, fid>>,
         to \in Reading => from \in Asked \ {"token"}
  PROVE  UpToDate(c)'
<1>1. /\ pc[c] = from /\ pc'[c] = to
      /\ UNCHANGED <<job, sent, androidID, securityToken, accessToken, fid>>
  BY StepMoves
<1>2. CASE to \in Reading
  <2>1. pc[c] \in Asked \ {"token"}
    BY <1>1, <1>2
  <2>2. /\ job[c].op # "web" =>
             /\ accessToken[job[c].app] # 0
             /\ sent[c].fid = fid[job[c].app]
             /\ sent[c].auth = accessToken[job[c].app]
        /\ sent[c].id = androidID
        /\ sent[c].token = securityToken
    BY <2>1 DEF UpToDate, Reading, Asked
  <2> QED
    BY <1>1, <2>2 DEF UpToDate
<1>3. CASE to \notin Reading
  BY <1>1, <1>3, UpToDateElsewhere
<1> QED
  BY <1>2, <1>3

\* The reads of a registration, and every step that is not one.
LEMMA UpToDatePreparing ==
  ASSUME TypeOK, NEW c \in Callers, UpToDate(c), Preparing(c)
  PROVE  UpToDate(c)'
<1>  CallerTypes
  BY DEF TypeOK
<1>  UNCHANGED <<androidID, securityToken, accessToken, fid>>
  BY PreparingIsQuiet DEF Quiet
<1>  USE DEF Reading, Asked
<1>1. CASE Call(c)
  <2>1. PICK to \in {"expired", "install", "checkin token", "validate"} : Goto(c, "idle", to)
    BY <1>1 DEF Call
  <2> QED
    BY <2>1, UpToDateGoto
<1>2. CASE CheckExpiry(c) \/ CheckCheckin(c) \/ NextAttempt(c) \/ Wake(c) \/ RegisterAnswered(c)
  BY <1>2, UpToDateStepOf DEF CheckExpiry, CheckCheckin, NextAttempt, Wake, RegisterAnswered
<1>3. CASE GiveUp(c) \/ Abort(c) \/ InstallFails(c) \/ CheckinFails(c) \/ RegisterFails(c)
  BY <1>3, UpToDateReturn DEF GiveUp, Abort, InstallFails, CheckinFails, RegisterFails
<1>4. CASE BuildInstall(c) \/ ReadCheckinID(c) \/ ReadCheckinToken(c) \/ CheckinAnswered(c)
  BY <1>4, UpToDateGoto DEF BuildInstall, ReadCheckinID, ReadCheckinToken, CheckinAnswered
<1>5. CASE RegisterRefused(c) \/ RegisterRejected(c)
  BY <1>5, UpToDateGoto, UpToDateReturn DEF RegisterRefused, RegisterRejected
<1>6. CASE Validate(c)
  <2>1. CASE HasCheckin
    <3>1. pc'[c] = (IF job[c].op = "web" THEN "id" ELSE "find") /\ job' = job
      BY <1>6, <2>1, StepMoves DEF Validate
    <3> QED
      BY <3>1 DEF UpToDate
  <2>2. CASE ~HasCheckin
    BY <1>6, <2>2, UpToDateReturn DEF Validate
  <2> QED
    BY <2>1, <2>2
<1>7. CASE FindInstallation(c)
  <2>1. CASE accessToken[job[c].app] # 0
    <3>1. /\ Goto(c, "find", "auth") /\ job' = job
          /\ sent' = [sent EXCEPT ![c].fid = fid[job[c].app]]
      BY <1>7, <2>1 DEF FindInstallation
    <3>2. pc'[c] = "auth" /\ sent'[c].fid = fid[job[c].app]
      BY <3>1, GotoMoves DEF CallerTypes, Requests
    <3> QED
      BY <2>1, <3>1, <3>2 DEF UpToDate
  <2>2. CASE accessToken[job[c].app] = 0
    BY <1>7, <2>2, UpToDateReturn DEF FindInstallation
  <2> QED
    BY <2>1, <2>2
<1>8. CASE ReadAuth(c)
  <2>1. /\ Goto(c, "auth", "id") /\ job' = job
        /\ sent' = [sent EXCEPT ![c].auth = accessToken[job[c].app]]
    BY <1>8 DEF ReadAuth
  <2>2. pc[c] = "auth" /\ pc'[c] = "id"
    BY <2>1, GotoMoves
  <2>3. sent'[c].auth = accessToken[job[c].app] /\ sent'[c].fid = sent[c].fid
    BY <2>1 DEF CallerTypes, Requests
  <2> QED
    BY <2>1, <2>2, <2>3 DEF UpToDate
<1>9. CASE ReadID(c)
  <2>1. /\ Goto(c, "id", "token") /\ job' = job
        /\ sent' = [sent EXCEPT ![c].id = androidID]
    BY <1>9 DEF ReadID
  <2>2. pc[c] = "id" /\ pc'[c] = "token"
    BY <2>1, GotoMoves
  <2>3. sent'[c].id = androidID /\ sent'[c].auth = sent[c].auth /\ sent'[c].fid = sent[c].fid
    BY <2>1 DEF CallerTypes, Requests
  <2> QED
    BY <2>1, <2>2, <2>3 DEF UpToDate
<1>10. CASE ReadToken(c)
  <2>1. /\ Goto(c, "token", "registering") /\ job' = job
        /\ sent' = [sent EXCEPT ![c].token = securityToken]
    BY <1>10 DEF ReadToken
  <2>2. pc[c] = "token" /\ pc'[c] = "registering"
    BY <2>1, GotoMoves
  <2>3. /\ sent'[c].token = securityToken /\ sent'[c].id = sent[c].id
        /\ sent'[c].auth = sent[c].auth /\ sent'[c].fid = sent[c].fid
    BY <2>1 DEF CallerTypes, Requests
  <2> QED
    BY <2>1, <2>2, <2>3 DEF UpToDate
<1> QED
  BY <1>1, <1>2, <1>3, <1>4, <1>5, <1>6, <1>7, <1>8, <1>9, <1>10 DEF Preparing

\* A package a registration was made for has an entry, so none is inserted under it.
LEMMA UpToDateInsert ==
  ASSUME Inv, NEW c \in Callers, UpToDate(c), InsertForToken(c)
  PROVE  UpToDate(c)'
<1>1. CallerTypes /\ DeviceTypes /\ Entries
  BY DEF Inv, TypeOK
<1>2. /\ pc[c] = "insert token" /\ pc'[c] = "store registration" /\ job' = job /\ sent' = sent
      /\ UNCHANGED <<androidID, securityToken>>
  BY <1>1, InsertForTokenDoes DEF InsertEntry
<1>3. job[c].app \in Packages
  BY <1>1, <1>2 DEF CallerTypes, Jobs, Flows, Parts
<1>4. accessToken[job[c].app] = 0
  BY <1>1, <1>2, <1>3 DEF Entries
<1>5. job[c].op = "web"
  BY <1>2, <1>4 DEF UpToDate, Reading, Asked
<1>6. sent[c].id = androidID /\ sent[c].token = securityToken
  BY <1>2 DEF UpToDate, Asked
<1> QED
  BY <1>2, <1>5, <1>6 DEF UpToDate

\* Around the mutex: a registration stores nothing before its last step.
LEMMA UpToDateStoring ==
  ASSUME Inv, NEW c \in Callers, UpToDate(c), Storing(c)
  PROVE  UpToDate(c)'
<1>  CallerTypes
  BY DEF Inv, TypeOK
<1>  USE DEF Reading, Asked
<1>1. CASE InstallAnswered(c)
  BY <1>1, UpToDateGoto DEF InstallAnswered
<1>2. CASE LockInstallation(c)
  BY <1>2, UpToDateGoto DEF LockInstallation, Step
<1>3. CASE InsertInstallation(c)
  BY <1>3, UpToDateGoto DEF InsertInstallation, Step
<1>4. CASE StoreAuth(c)
  BY <1>4, UpToDateGoto DEF StoreAuth, Step
<1>5. CASE StoreFID(c)
  BY <1>5, StoreFIDDoes, UpToDateElsewhere
<1>6. CASE StoreID(c)
  BY <1>6, UpToDateGoto DEF StoreID, Step
<1>7. CASE StoreSecurityToken(c)
  BY <1>7, StoreSecurityTokenDoes, UpToDateElsewhere
<1>8. CASE LockToken(c)
  BY <1>8, UpToDateStepOf DEF LockToken, device
<1>9. CASE InsertForToken(c)
  BY <1>9, UpToDateInsert
<1>10. CASE StoreRegistration(c)
  BY <1>10, UpToDateReturn DEF StoreRegistration
<1> QED
  BY <1>1, <1>2, <1>3, <1>4, <1>5, <1>6, <1>7, <1>8, <1>9, <1>10 DEF Storing

\* Whoever else moves has no call before and none after.
LEMMA OthersAreIdle ==
  ASSUME CallerTypes, OneAtATime, OneAtATime', NEW c \in Callers, NEW d \in Callers \ {c},
         Preparing(d) \/ Storing(d)
  PROVE  pc'[c] = "idle"
<1>1. OthersStay(d)
  BY PreparingIsQuiet, InstallAnsweredDoes, LockInstallationDoes, InsertInstallationDoes,
     StoreAuthDoes, StoreFIDDoes, StoreIDDoes, StoreSecurityTokenDoes, LockTokenDoes,
     InsertForTokenDoes, StoreRegistrationDoes DEF Quiet, Storing
<1>2. pc'[c] = pc[c]
  BY <1>1 DEF OthersStay
<1>3. pc[d] # "idle" \/ pc'[d] # "idle"
  <2>1. CASE Call(d)
    <3>1. PICK to \in {"expired", "install", "checkin token", "validate"} : Goto(d, "idle", to)
      BY <2>1 DEF Call
    <3> QED
      BY <3>1, GotoMoves
  <2>2. CASE ~Call(d)
    BY <2>2 DEF Preparing, Storing, CheckExpiry, CheckCheckin, GiveUp, NextAttempt, Abort, Wake,
       BuildInstall, InstallFails, InstallAnswered, LockInstallation, InsertInstallation,
       StoreAuth, StoreFID, ReadCheckinID, ReadCheckinToken, CheckinFails, CheckinAnswered,
       StoreID, StoreSecurityToken, Validate, FindInstallation, ReadAuth, ReadID, ReadToken,
       RegisterFails, RegisterRefused, RegisterRejected, RegisterAnswered, LockToken,
       InsertForToken, StoreRegistration, Step, Continue, Return, Goto
  <2> QED
    BY <2>1, <2>2
<1> QED
  BY <1>2, <1>3 DEF OneAtATime

\* Nobody else is there to store anything.
LEMMA UpToDateStep ==
  ASSUME OneAtATime, OneAtATime', Inv, NEW c \in Callers, UpToDate(c), Next
  PROVE  UpToDate(c)'
<1>  CallerTypes
  BY DEF Inv, TypeOK
<1>1. ASSUME NEW d \in Callers, Preparing(d) \/ Storing(d) PROVE UpToDate(c)'
  <2>1. CASE d = c
    BY <1>1, <2>1, UpToDatePreparing, UpToDateStoring DEF Inv
  <2>2. CASE d # c
    BY <1>1, <2>2, OthersAreIdle, UpToDateElsewhere DEF Reading, Asked
  <2> QED
    BY <2>1, <2>2
<1>2. ASSUME NEW d \in Callers, MapRace(d) PROVE UpToDate(c)'
  BY <1>2 DEF MapRace, caller, device, UpToDate
<1>3. ASSUME NEW p \in Packages, Expire(p) PROVE UpToDate(c)'
  BY <1>3 DEF Expire, caller, UpToDate
<1> QED
  BY <1>1, <1>2, <1>3, NextSplits

-----------------------------------------------------------------------------
(* One call at a time: a check-in replaces what GCM has rejected.          *)

LEMMA ReplacedElsewhere ==
  ASSUME NEW c \in Callers, pc'[c] \notin StoringCheckin \cup Trying
  PROVE  Replaced(c)'
BY DEF Replaced

LEMMA ReplacedGoto ==
  ASSUME CallerTypes, NEW c \in Callers, NEW from, NEW to, Goto(c, from, to),
         to \notin StoringCheckin \cup Trying
  PROVE  Replaced(c)'
BY GotoMoves, ReplacedElsewhere

LEMMA ReplacedReturn ==
  ASSUME CallerTypes, NEW c \in Callers, NEW from, Return(c, from)
  PROVE  Replaced(c)'
BY ReturnMoves, ReplacedElsewhere DEF StoringCheckin, Trying

\* An attempt goes on with the credentials it has.
LEMMA ReplacedOnwards ==
  ASSUME CallerTypes, NEW c \in Callers, Replaced(c), NEW from, NEW to, Goto(c, from, to),
         UNCHANGED <<lastErr, androidID, rejected>>,
         to \notin StoringCheckin,
         to \in Trying => from \in Trying
  PROVE  Replaced(c)'
<1>1. pc[c] = from /\ pc'[c] = to
  BY GotoMoves
<1> QED
  BY <1>1 DEF Replaced

\* No credentials of an attempt after a rejection are ones that were rejected.
LEMMA ReplacedPreparing ==
  ASSUME TypeOK, Counting, Issued, NEW c \in Callers, Replaced(c), Preparing(c)
  PROVE  Replaced(c)'
<1>  CallerTypes
  BY DEF TypeOK
<1>  androidID' = androidID
  BY PreparingIsQuiet DEF Quiet
<1>  USE DEF Trying, StoringCheckin, servers
<1>1. CASE Call(c)
  <2>1. PICK to \in {"expired", "install", "checkin token", "validate"} : Goto(c, "idle", to)
    BY <1>1 DEF Call
  <2>2. pc[c] = "idle" /\ pc'[c] = to
    BY <2>1, GotoMoves
  <2>3. lastErr' = lastErr /\ lastErr[c] = "none"
    BY <1>1, <2>2 DEF Call, Counting, CountOf, Fresh
  <2> QED
    BY <2>2, <2>3 DEF Replaced
<1>2. CASE CheckExpiry(c)
  BY <1>2, ReplacedGoto DEF CheckExpiry, Step
<1>3. CASE CheckCheckin(c)
  <2>1. pc[c] = "has checkin" /\ pc'[c] \in {"attempt", "checkin token"}
    BY <1>3, StepMoves DEF CheckCheckin
  <2>2. lastErr' = lastErr /\ lastErr[c] = "none"
    BY <1>3, <2>1 DEF CheckCheckin, Step, Counting, CountOf, Fresh
  <2> QED
    BY <2>1, <2>2 DEF Replaced
<1>4. CASE NextAttempt(c)
  BY <1>4, ReplacedOnwards DEF NextAttempt, Step
<1>5. CASE Wake(c)
  BY <1>5, ReplacedOnwards DEF Wake, Step
<1>6. CASE RegisterAnswered(c)
  BY <1>6, ReplacedOnwards DEF RegisterAnswered, Step
<1>7. CASE GiveUp(c) \/ Abort(c) \/ InstallFails(c) \/ CheckinFails(c) \/ RegisterFails(c)
  BY <1>7, ReplacedReturn DEF GiveUp, Abort, InstallFails, CheckinFails, RegisterFails
<1>8. CASE BuildInstall(c) \/ ReadCheckinID(c) \/ ReadCheckinToken(c)
  BY <1>8, ReplacedGoto DEF BuildInstall, ReadCheckinID, ReadCheckinToken
<1>9. CASE CheckinAnswered(c)
  <2>1. pc'[c] = "lock checkin" /\ rejected' = rejected
    BY <1>9, GotoMoves DEF CheckinAnswered
  <2>2. \/ answer'[c] = sent[c].id /\ sent[c].id \notin rejected
        \/ answer'[c] = checkins + 1
    BY <1>9 DEF CheckinAnswered, CallerTypes
  <2>3. checkins \in Nat
    BY RegistrationAssumption DEF TypeOK, ServerTypes, Credentials
  <2>5. checkins + 1 \notin 0..checkins
    BY <2>3
  <2>6. rejected \subseteq 0..checkins
    BY DEF Issued
  <2>4. checkins + 1 \notin rejected
    BY <2>5, <2>6
  <2> QED
    BY <2>1, <2>2, <2>4 DEF Replaced
<1>10. CASE Validate(c)
  <2>1. CASE HasCheckin
    BY <1>10, <2>1, ReplacedOnwards DEF Validate, Step
  <2>2. CASE ~HasCheckin
    BY <1>10, <2>2, ReplacedReturn DEF Validate
  <2> QED
    BY <2>1, <2>2
<1>11. CASE FindInstallation(c)
  <2>1. CASE accessToken[job[c].app] # 0
    BY <1>11, <2>1, ReplacedOnwards DEF FindInstallation
  <2>2. CASE accessToken[job[c].app] = 0
    BY <1>11, <2>2, ReplacedReturn DEF FindInstallation
  <2> QED
    BY <2>1, <2>2
<1>12. CASE ReadAuth(c)
  BY <1>12, ReplacedOnwards DEF ReadAuth
<1>13. CASE ReadID(c)
  BY <1>13, ReplacedOnwards DEF ReadID
<1>14. CASE ReadToken(c)
  BY <1>14, ReplacedOnwards DEF ReadToken
<1>15. CASE RegisterRefused(c)
  <2>1. CASE job[c].op = "register"
    <3>1. pc'[c] = "attempt" /\ lastErr'[c] = "retryable"
      BY <1>15, <2>1, GotoMoves DEF RegisterRefused, CallerTypes
    <3> QED
      BY <3>1 DEF Replaced
  <2>2. CASE job[c].op # "register"
    BY <1>15, <2>2, ReplacedReturn DEF RegisterRefused
  <2> QED
    BY <2>1, <2>2
<1>16. CASE RegisterRejected(c)
  BY <1>16, ReplacedGoto, ReplacedReturn DEF RegisterRejected
<1> QED
  BY <1>1, <1>2, <1>3, <1>4, <1>5, <1>6, <1>7, <1>8, <1>9, <1>10, <1>11, <1>12, <1>13,
     <1>14, <1>15, <1>16 DEF Preparing

\* A check-in stores what it was answered.
LEMMA ReplacedStoring ==
  ASSUME Inv, NEW c \in Callers, Replaced(c), Storing(c)
  PROVE  Replaced(c)'
<1>  CallerTypes
  BY DEF Inv, TypeOK
<1>  USE DEF Trying, StoringCheckin, servers
<1>1. CASE InstallAnswered(c)
  BY <1>1, ReplacedGoto DEF InstallAnswered
<1>2. CASE LockInstallation(c) \/ LockToken(c)
  BY <1>2, ReplacedGoto DEF LockInstallation, LockToken, Step
<1>3. CASE InsertInstallation(c) \/ InsertForToken(c)
  BY <1>3, ReplacedGoto DEF InsertInstallation, InsertForToken, Step
<1>4. CASE StoreAuth(c)
  BY <1>4, ReplacedGoto DEF StoreAuth, Step
<1>5. CASE StoreFID(c)
  BY <1>5, StoreFIDDoes, ReplacedElsewhere
<1>6. CASE StoreID(c)
  <2>1. pc[c] = "lock checkin" /\ pc'[c] = "store token" /\ answer' = answer
    BY <1>6, StoreIDDoes
  <2>2. rejected' = rejected
    BY <1>6 DEF StoreID
  <2> QED
    BY <2>1, <2>2 DEF Replaced
<1>7. CASE StoreSecurityToken(c)
  <2>1. pc[c] = "store token" /\ pc'[c] \in {"idle", "attempt"} /\ androidID' = androidID
    BY <1>7, StoreSecurityTokenDoes
  <2>2. androidID = answer[c]
    BY <2>1 DEF Inv, CheckinPair
  <2>3. rejected' = rejected
    BY <1>7 DEF StoreSecurityToken
  <2> QED
    BY <2>1, <2>2, <2>3 DEF Replaced
<1>8. CASE StoreRegistration(c)
  BY <1>8, ReplacedReturn DEF StoreRegistration
<1> QED
  BY <1>1, <1>2, <1>3, <1>4, <1>5, <1>6, <1>7, <1>8 DEF Storing

\* Nobody else is there to have credentials rejected.
LEMMA ReplacedStep ==
  ASSUME OneAtATime, OneAtATime', Inv, Counting, Issued, NEW c \in Callers, Replaced(c), Next
  PROVE  Replaced(c)'
<1>  CallerTypes
  BY DEF Inv, TypeOK
<1>1. ASSUME NEW d \in Callers, Preparing(d) \/ Storing(d) PROVE Replaced(c)'
  <2>1. CASE d = c
    BY <1>1, <2>1, ReplacedPreparing, ReplacedStoring DEF Inv
  <2>2. CASE d # c
    BY <1>1, <2>2, OthersAreIdle, ReplacedElsewhere DEF StoringCheckin, Trying
  <2> QED
    BY <2>1, <2>2
<1>2. ASSUME NEW d \in Callers, MapRace(d) PROVE Replaced(c)'
  BY <1>2 DEF MapRace, caller, device, servers, Replaced
<1>3. ASSUME NEW p \in Packages, Expire(p) PROVE Replaced(c)'
  BY <1>3 DEF Expire, caller, servers, Replaced
<1> QED
  BY <1>1, <1>2, <1>3, NextSplits

-----------------------------------------------------------------------------
(* The invariant of one call at a time and what follows from it.           *)

LEMMA FlowInit ==
  ASSUME Init
  PROVE  FlowInv
<1>1. Issued
  BY DEF Init, Issued, NoRequest, StoringCheckin
<1>2. \A c \in Callers : UpToDate(c) /\ Replaced(c)
  BY DEF Init, UpToDate, Replaced, Reading, Asked, StoringCheckin, Trying
<1> QED
  BY <1>1, <1>2 DEF FlowInv

LEMMA FlowStep ==
  ASSUME OneAtATime, OneAtATime', Inv, Counting, FlowInv, [Next]_vars
  PROVE  FlowInv'
<1>1. CASE Next
  <2>1. Issued'
    BY <1>1, IssuedStep DEF Inv, FlowInv
  <2>2. ASSUME NEW c \in Callers PROVE UpToDate(c)' /\ Replaced(c)'
    <3>1. Issued /\ UpToDate(c) /\ Replaced(c)
      BY DEF FlowInv
    <3> QED
      BY <1>1, <3>1, UpToDateStep, ReplacedStep
  <2> QED
    BY <2>1, <2>2 DEF FlowInv
<1>2. CASE UNCHANGED vars
  <2>1. UNCHANGED <<caller, device, servers>>
    BY <1>2 DEF vars
  <2>2. Issued'
    BY <2>1 DEF caller, device, servers, FlowInv, Issued
  <2>3. \A c \in Callers : UpToDate(c)' /\ Replaced(c)'
    BY <2>1 DEF caller, device, servers, FlowInv, UpToDate, Replaced
  <2> QED
    BY <2>2, <2>3 DEF FlowInv
<1> QED
  BY <1>1, <1>2

\* With one call at a time the credentials in use are ones that were issued, a
\* registration's reads agree with the device until its answer is stored, and a
\* check-in never leaves rejected credentials behind.
THEOREM OneCallAtATime == Spec /\ []OneAtATime => []FlowInv
<1>1. Init => FlowInv
  BY FlowInit
<1>2. OneAtATime /\ OneAtATime' /\ Inv /\ Counting /\ FlowInv /\ [Next]_vars => FlowInv'
  BY FlowStep
<1> QED
  BY <1>1, <1>2, SharedInvariant, AttemptsAreCounted, PTL DEF Spec

\* After AUTHENTICATION_FAILED RegisterForNotifications checks in again, and what it
\* then shows GCM is not what GCM has rejected.
THEOREM RejectedIsReplaced == Spec /\ []OneAtATime => []RejectedNotResent
<1>1. FlowInv => RejectedNotResent
  BY DEF FlowInv, RejectedNotResent, UpToDate, Replaced, Asked, Trying
<1> QED
  BY <1>1, OneCallAtATime, PTL

\* A call that holds the mutex for its token does nothing but store it.
LEMMA OnlyStoreRegistration ==
  ASSUME CallerTypes, Next, NEW c \in Callers,
         pc[c] = "store registration", pc'[c] = "idle"
  PROVE  StoreRegistration(c)
<1>1. ASSUME NEW d \in Callers, Preparing(d) PROVE FALSE
  <2>1. OthersStay(d) /\ pc[d] \notin Guarded
    BY <1>1, PreparingIsQuiet DEF Quiet
  <2> QED
    BY <2>1 DEF OthersStay, Guarded
<1>2. ASSUME NEW d \in Callers, Storing(d), ~StoreRegistration(d) PROVE FALSE
  <2>1. OthersStay(d) /\ pc[d] # "store registration"
    BY <1>2, InstallAnsweredDoes, LockInstallationDoes, InsertInstallationDoes, StoreAuthDoes,
       StoreFIDDoes, StoreIDDoes, StoreSecurityTokenDoes, LockTokenDoes, InsertForTokenDoes
    DEF Storing
  <2> QED
    BY <2>1 DEF OthersStay
<1>3. ASSUME NEW d \in Callers, StoreRegistration(d) PROVE d = c
  BY <1>3, StoreRegistrationDoes DEF OthersStay
<1>4. ASSUME NEW d \in Callers, MapRace(d) PROVE FALSE
  BY <1>4 DEF MapRace, caller
<1>5. ASSUME NEW p \in Packages, Expire(p) PROVE FALSE
  BY <1>5 DEF Expire, caller
<1> QED
  BY <1>1, <1>2, <1>3, <1>4, <1>5, NextSplits

\* What a step that returns a token leaves.
TokenIsUsable ==
  \A c \in Callers :
    pc[c] = "store registration" /\ pc'[c] = "idle" /\ job[c].op = "register" =>
      /\ HasCheckin'
      /\ androidID' = securityToken'
      /\ notificationToken'[job[c].app] = [id |-> androidID', fid |-> fid'[job[c].app]]

\* A token RegisterForNotifications returns belongs to the credentials and the FID
\* the device has when it returns, with one call at a time.
THEOREM ReturnedTokenIsUsable == Spec /\ []OneAtATime => SuccessIsUsable
<1>1. OneAtATime /\ Inv /\ FlowInv /\ [Next]_vars => [TokenIsUsable]_vars
  <2> SUFFICES ASSUME OneAtATime, Inv, FlowInv, Next, NEW c \in Callers,
                      pc[c] = "store registration", pc'[c] = "idle", job[c].op = "register"
               PROVE  /\ HasCheckin'
                      /\ androidID' = securityToken'
                      /\ notificationToken'[job[c].app] =
                           [id |-> androidID', fid |-> fid'[job[c].app]]
    BY DEF TokenIsUsable
  <2>  CallerTypes /\ DeviceTypes
    BY DEF Inv, TypeOK
  <2>1. StoreRegistration(c)
    BY OnlyStoreRegistration
  <2>2. /\ notificationToken' = [notificationToken EXCEPT
             ![job[c].app] = [id |-> sent[c].id, fid |-> sent[c].fid]]
        /\ UNCHANGED <<androidID, securityToken, fid>>
    BY <2>1, StoreRegistrationDoes
  <2>3. job[c].app \in Packages
    BY DEF CallerTypes, Jobs, Flows, Parts
  <2>4. /\ sent[c].fid = fid[job[c].app]
        /\ sent[c].id = androidID
    BY DEF FlowInv, UpToDate, Reading, Asked
  <2>5. \A d \in Callers : pc[d] # "store token"
    BY DEF OneAtATime
  <2>6. androidID # 0 /\ androidID = securityToken
    BY <2>5 DEF Inv, CheckedIn, CheckinPair, Asked
  <2>7. notificationToken'[job[c].app] = [id |-> androidID, fid |-> fid[job[c].app]]
    BY <2>2, <2>3, <2>4 DEF DeviceTypes
  <2> QED
    BY <2>2, <2>6, <2>7 DEF HasCheckin
<1>2. Spec /\ []OneAtATime => [][TokenIsUsable]_vars
  BY <1>1, SharedInvariant, OneCallAtATime, PTL DEF Spec
<1> QED
  BY <1>2 DEF SuccessIsUsable, TokenIsUsable
=============================================================================
