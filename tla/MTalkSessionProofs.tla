-------------------------- MODULE MTalkSessionProofs --------------------------
(***************************************************************************)
(* Proofs about MTalkSession, for any number of messages, keys, faults,    *)
(* heartbeats and frames in flight, and for both readings of a login's     *)
(* persistent id.  The invariants build on one another:                    *)
(*   Shape       types, and what is left of a connection that is over;     *)
(*   InOrder     before a message comes everything that arrived earlier;   *)
(*   Safe        so an id that is stored stands for handled messages only; *)
(*   Deliverable what is under way or in work is pending, or was handled;  *)
(*   KeysKept    the keys that were given are those of every process;      *)
(*   Onwards     what is on its way is newer than what was handled;        *)
(*   Counted     the stream ids of the two sides say where each frame is.  *)
(* Each has one lemma over all actions, and the theorems about NothingLost,*)
(* OnlyBrokenDropped, LoopKeepsConnection, NoRepeatInProcess,              *)
(* AckedWasHandled and the mailbox follow.                                 *)
(***************************************************************************)
EXTENDS MTalkSession, SequenceTheorems, TLAPS

USE DEF world, proc, ledger, stream, server, fates, bounds

\* Between two connections nothing is left of the last one.
Resting ==
  pc \in {"down", "idle"} =>
    /\ link = "none" /\ ~cut /\ down = <<>>
    /\ cursor = 0 /\ sentHere = 0 /\ acked = 0
    /\ \A m \in Messages : sentAs[m] = 0

\* The server answers no login it has not heard.
LoginUnheard == link = "login" => pc = "login" /\ down = <<>>

\* connected is set as long as there is a loop.
LoopIsConnected == connected <=> pc \notin {"down", "idle", "login"}

\* Only messages that have arrived are anywhere.
OnlyArrived ==
  /\ pending \subseteq 1..arrived
  /\ \A i \in 1..Len(down) : down[i].id <= arrived
  /\ current <= arrived

Positions == Resting /\ LoginUnheard /\ LoopIsConnected /\ OnlyArrived

Shape == TypeOK /\ Positions

-----------------------------------------------------------------------------
(* The order of arrival.  Before a message comes everything that arrived earlier
   and is not settled: handled, or acknowledged and gone from the server.      *)

Gone    == {m \in Kept : m <= arrived /\ m \notin pending}
Settled == Handled \cup Gone

\* The message whose id is stored and whose handler has not returned.
InWork == IF pc \in {"decode", "notify", "stuck"} THEN {current} ELSE {}
Done   == Settled \cup InWork

Ordered(queue, done) ==
  \A i \in 1..Len(queue), m \in Kept :
    m < queue[i].id => m \in done \/ \E j \in 1..(i - 1) : queue[j].id = m

\* Every message up to a number is done or in the queue.
Reached(queue, done, last) ==
  \A m \in Kept : m <= last => m \in done \/ \E j \in 1..Len(queue) : queue[j].id = m

AllBelow(last, done) == \A m \in Kept : m < last => m \in done

InOrder ==
  /\ AllBelow(device.lastId, Settled)
  /\ AllBelow(disk.lastId, Settled)
  /\ Ordered(down, Done)
  /\ ~cut => Reached(down, Done, cursor)

\* What is on its way or in work can still be handled, or has been.
Ids(queue) == {queue[i].id : i \in 1..Len(queue)}
Alive      == pending \cup Handled

\* OnError for the end of the connection is about no message.
IdleHands == pc = "failing" => current = 0

Deliverable ==
  /\ Ids(down) \cap Kept \subseteq Alive
  /\ InWork \cap Kept \subseteq Alive
  /\ Handled \subseteq 1..arrived

-----------------------------------------------------------------------------
(* A careful application: no id is stored, but of a message in work, before the
   message is handled.                                                        *)

AllHandled(last, done) == \A m \in Kept : m <= last => m \in done

Safe ==
  careful =>
    /\ NothingLost
    /\ AllHandled(device.lastId, Handled \cup InWork)
    /\ AllHandled(disk.lastId, Handled)
    /\ pc # "stuck"

-----------------------------------------------------------------------------
(* The push keys.  Once the keys of a careful application are given they are
   those on the disk and those of every process.                            *)

Complete(d) == d.secret \in Keys /\ d.private \in Keys

KeysKept ==
  /\ pc # "down" => Complete(device)
  /\ careful =>
       /\ given # NoKeys => Complete(disk) /\ PushKeys(disk) = given
       /\ given # NoKeys /\ pc # "down" => PushKeys(device) = given
       /\ \A m \in Sealed : m <= arrived => given # NoKeys /\ sealedFor[m] = given
       /\ OnlyBrokenDropped

-----------------------------------------------------------------------------
(* Nothing twice.  Messages are sent in the order of arrival, so what is on its
   way is newer than what is in work; one without an id is sent only once; and
   after a login that acknowledged all up to the last id nothing older is sent. *)

Rising(queue) ==
  \A i, j \in 1..Len(queue) : i < j => queue[j].id = 0 \/ queue[i].id < queue[j].id

SentOnce ==
  /\ Rising(down)
  /\ \A i \in 1..Len(down) : down[i].id <= cursor
  /\ \A i \in 1..Len(down) : down[i].id \in Ephemeral => down[i].id \notin seen /\ down[i].id \notin pending
  /\ pc \in Window =>
       /\ current <= cursor
       /\ \A i \in 1..Len(down) : down[i].id # 0 => current < down[i].id
       /\ current \in Ephemeral => current \notin pending
  /\ \A m \in seen : m <= arrived /\ (m \in Ephemeral => m \notin pending)

Newer ==
  cumulative =>
    /\ pc # "down" => \A m \in seen : m \in Kept => m <= device.lastId
    /\ \A i \in 1..Len(down) : down[i].id \in Kept => device.lastId < down[i].id
    /\ link \in {"heard", "up"} => \A m \in pending : m <= device.lastId => m <= cursor
    /\ pc \in Window =>
         /\ current \in Kept => current = device.lastId
         /\ current \notin seen

Remembered == device.lastId <= arrived /\ disk.lastId <= arrived

Onwards == SentOnce /\ Newer /\ Remembered

-----------------------------------------------------------------------------
(* The stream ids.  On an MTalkCon's first connection the device's counter and
   the frames on their way add up to the server's counter, so the number a
   message was sent as says where it is: in the queue at that place, or read. *)

CountedHere ==
  /\ streamId + Len(down) <= sentHere
  /\ ~cut => streamId + Len(down) = sentHere
  /\ acked <= streamId
  /\ \A m \in Messages : sentAs[m] <= sentHere
  /\ \A m \in Messages, i \in 1..Len(down) : sentAs[m] = streamId + i => down[i].id = m
  /\ \A m \in Messages : sentAs[m] \in 1..streamId => m \in seen \cup InWork
  /\ \A m \in Messages : sentAs[m] \in 1..acked => m \in seen

Counted == first => CountedHere

-----------------------------------------------------------------------------
(* Queues of frames. *)

LEMMA Prefix ==
  ASSUME NEW s \in Seq(Frames), NEW n \in 0..Len(s)
  PROVE  /\ SubSeq(s, 1, n) \in Seq(Frames)
         /\ Len(SubSeq(s, 1, n)) = n
         /\ \A i \in 1..n : SubSeq(s, 1, n)[i] = s[i]
<1>1. \A i \in 1..n : s[i] \in Frames
  BY ElementOfSeq
<1>2. Len(s) \in Nat /\ n \in Int
  OBVIOUS
<1> QED BY <1>1, <1>2, SubSeqProperties

LEMMA Rest ==
  ASSUME NEW s \in Seq(Frames), s # <<>>
  PROVE  /\ Head(s) = s[1] /\ Head(s) \in Frames
         /\ Tail(s) \in Seq(Frames)
         /\ Len(s) \in Nat /\ Len(s) > 0 /\ Len(Tail(s)) = Len(s) - 1
         /\ \A i \in 1..(Len(s) - 1) : Tail(s)[i] = s[i + 1]
  OBVIOUS

LEMMA FrameShape ==
  ASSUME NEW f \in Frames
  PROVE  /\ f.kind \in {"welcome", "refusal", "ping", "close", "data"}
         /\ f.kind = "data" => f.id \in Messages
         /\ f.kind # "data" => f.id = 0
  BY DEF Frames, Control, Data

LEMMA FramesOf ==
  /\ \A k \in {"welcome", "refusal", "ping", "close"} : Control(k) \in Frames
  /\ \A m \in Messages : Data(m) \in Frames
  BY DEF Frames

LEMMA MessagesAre == N \in Nat /\ Messages = 1..N /\ 0 \in 0..N /\ Messages \subseteq 0..N
  BY SessionAssumption DEF SessionAssumption, Messages

LEMMA NoneIs == 0 \in 0..N /\ <<>> \in Seq(Frames)
  BY SessionAssumption DEF SessionAssumption

LEMMA LimitsAre == MaxFaults \in Nat /\ MaxPings \in Nat
  BY SessionAssumption DEF SessionAssumption

\* There is always a key nobody has.
LEMMA FreshKey ==
  ASSUME NEW key \in {0} \cup Keys, NEW f \in [Messages -> {0} \cup Keys], NEW g \in {0} \cup Keys
  PROVE  /\ Restored(key, {g} \cup {f[m] : m \in Messages}) \in Keys
         /\ key # 0 => Restored(key, {g} \cup {f[m] : m \in Messages}) = key
<1> DEFINE used == [i \in 0..N |-> IF i = 0 THEN g ELSE f[i]]
<1>1. used \in [0..N -> {0} \cup Keys]
  BY MessagesAre
<1>2. Keys \ {used[i] : i \in 0..N} # {}
  BY <1>1, SessionAssumption DEF SessionAssumption
<1>3. {used[i] : i \in 0..N} = {g} \cup {f[m] : m \in Messages}
  <2>1. 0 \in 0..N /\ Messages \subseteq 0..N /\ \A i \in 0..N : i = 0 \/ i \in Messages
    BY MessagesAre
  <2>2. used[0] = g /\ \A m \in Messages : used[m] = f[m]
    BY <2>1, MessagesAre
  <2> HIDE DEF used
  <2> QED BY <2>1, <2>2
<1>4. \E k \in Keys : k \notin {g} \cup {f[m] : m \in Messages}
  BY <1>2, <1>3
<1> QED BY <1>4 DEF Restored

-----------------------------------------------------------------------------
(* Types and positions. *)

\* A process that starts has push keys, those of the device if it had any.
LEMMA NewKeys ==
  ASSUME disk \in Devices,
         sealedFor \in [Messages -> [secret : {0} \cup Keys, private : {0} \cup Keys]],
         given \in [secret : {0} \cup Keys, private : {0} \cup Keys]
  PROVE  /\ LoadOrCreateAuthSecret(disk) \in Keys
         /\ LoadOrCreatePrivateKey(disk) \in Keys
         /\ disk.secret # 0 => LoadOrCreateAuthSecret(disk) = disk.secret
         /\ disk.private # 0 => LoadOrCreatePrivateKey(disk) = disk.private
<1> DEFINE f == [m \in Messages |-> sealedFor[m].secret]
<1> DEFINE g == [m \in Messages |-> sealedFor[m].private]
<1>1. f \in [Messages -> {0} \cup Keys] /\ g \in [Messages -> {0} \cup Keys]
  OBVIOUS
<1>2. /\ {sealedFor[m].secret : m \in Messages} = {f[m] : m \in Messages}
      /\ {sealedFor[m].private : m \in Messages} = {g[m] : m \in Messages}
  OBVIOUS
<1>3. disk.secret \in {0} \cup Keys /\ disk.private \in {0} \cup Keys
  BY DEF Devices
<1>4. given.secret \in {0} \cup Keys /\ given.private \in {0} \cup Keys
  OBVIOUS
<1> HIDE DEF f, g
<1>5. /\ LoadOrCreateAuthSecret(disk) = Restored(disk.secret, {given.secret} \cup {f[m] : m \in Messages})
      /\ LoadOrCreatePrivateKey(disk) = Restored(disk.private, {given.private} \cup {g[m] : m \in Messages})
  BY <1>2 DEF LoadOrCreateAuthSecret, LoadOrCreatePrivateKey
<1>6. /\ LoadOrCreateAuthSecret(disk) \in Keys
      /\ disk.secret # 0 => LoadOrCreateAuthSecret(disk) = disk.secret
  BY <1>1, <1>3, <1>4, <1>5, FreshKey
<1>7. /\ LoadOrCreatePrivateKey(disk) \in Keys
      /\ disk.private # 0 => LoadOrCreatePrivateKey(disk) = disk.private
  BY <1>1, <1>3, <1>4, <1>5, FreshKey
<1> QED BY <1>6, <1>7

LEMMA HungUp == HangUp => ConnectionOK'
<1> SUFFICES ASSUME HangUp PROVE ConnectionOK'
  OBVIOUS
<1>1. sentAs' \in [Messages -> Nat]
  BY DEF HangUp
<1>2. down' \in Seq(Frames) /\ cursor' \in 0..N
  BY NoneIs DEF HangUp
<1> QED BY <1>1, <1>2 DEF HangUp, ConnectionOK

LEMMA Died == Die => ProcessOK'
<1> SUFFICES ASSUME Die PROVE ProcessOK'
  OBVIOUS
<1>1. pc' = "down" /\ ~connected' /\ ~stop' /\ first' /\ current' = 0
  BY DEF Die
<1>2. streamId' = 0 /\ streamIdReported' = 0 /\ connected' \in BOOLEAN /\ stop' \in BOOLEAN /\ first' \in BOOLEAN
  BY DEF Die
<1> QED BY <1>1, <1>2, NoneIs DEF ProcessOK, Window

LEMMA ProcessStep == TypeOK /\ [Next]_vars => ProcessOK'
<1>1. TypeOK /\ Crash => ProcessOK'
  BY Died DEF Crash
<1>2. TypeOK /\ PingAckFails => ProcessOK'
  BY Died DEF PingAckFails
<1>3. TypeOK /\ ReceiveClose => ProcessOK'
  BY Died DEF ReceiveClose, Receive, Onward, TypeOK, ProcessOK, Window
<1>4. TypeOK /\ DecryptFails => ProcessOK'
  BY Died, NoneIs DEF DecryptFails, Reports, Onward, TypeOK, ProcessOK, Window
<1>5. TypeOK /\ Notified => ProcessOK'
  BY Died, NoneIs DEF Notified, Reports, Onward, TypeOK, ProcessOK, Window
<1>6. TypeOK /\ ReadFails => ProcessOK'
  BY Died, NoneIs DEF ReadFails, Reports, TypeOK, ProcessOK, Window
<1>7. TypeOK /\ LoginSucceeds => ProcessOK'
  BY DEF LoginSucceeds, TypeOK, ProcessOK, Window
<1>8. TypeOK /\ ReceivePing => ProcessOK'
  BY DEF ReceivePing, Receive, Onward, TypeOK, ProcessOK, Window
<1>9. TypeOK /\ ReceiveData => ProcessOK'
  <2> SUFFICES ASSUME TypeOK, ReceiveData PROVE ProcessOK'
    OBVIOUS
  <2>1. Head(down).id \in Messages
    BY Rest, FrameShape DEF ReceiveData, Receive, TypeOK, ConnectionOK
  <2>2. current' \in 0..N /\ current' # 0
    BY <2>1, MessagesAre DEF ReceiveData
  <2> QED BY <2>2 DEF ReceiveData, TypeOK, ProcessOK
<1>10. TypeOK /\ Start => ProcessOK'
  <2> SUFFICES ASSUME TypeOK, Start PROVE ProcessOK'
    OBVIOUS
  <2>1. pc' = "idle" /\ first' = TRUE /\ streamId' = 0 /\ streamIdReported' = 0
    BY DEF Start
  <2>2. UNCHANGED <<connected, stop, current>>
    BY DEF Start
  <2>3. first' \in BOOLEAN /\ pc' \notin Window
    BY <2>1 DEF Window
  <2> QED BY <2>1, <2>2, <2>3 DEF TypeOK, ProcessOK
<1>11. TypeOK /\ Connect => ProcessOK'
  <2> SUFFICES ASSUME TypeOK, Connect PROVE ProcessOK'
    OBVIOUS
  <2>1. pc' = "login" /\ stop' = FALSE /\ current' = 0
    BY DEF Connect
  <2>2. UNCHANGED <<connected, first, streamId, streamIdReported>>
    BY DEF Connect
  <2>3. stop' \in BOOLEAN /\ pc' \notin Window
    BY <2>1 DEF Window
  <2> QED BY <2>1, <2>2, <2>3, NoneIs DEF TypeOK, ProcessOK
<1>12. TypeOK /\ LoginRefused => ProcessOK'
  <2> SUFFICES ASSUME TypeOK, LoginRefused PROVE ProcessOK'
    OBVIOUS
  <2>1. pc' = "idle" /\ first' = FALSE /\ streamId' = streamId + 1
    BY DEF LoginRefused
  <2>2. UNCHANGED <<connected, stop, current, streamIdReported>>
    BY DEF LoginRefused
  <2>3. first' \in BOOLEAN /\ pc' \notin Window
    BY <2>1 DEF Window
  <2>4. streamId \in Nat
    BY DEF TypeOK, ProcessOK
  <2>5. streamId' \in Nat
    BY <2>1, <2>4
  <2> QED BY <2>1, <2>2, <2>3, <2>5 DEF TypeOK, ProcessOK
<1>13. TypeOK /\ LoginFails => ProcessOK'
  <2> SUFFICES ASSUME TypeOK, LoginFails PROVE ProcessOK'
    OBVIOUS
  <2>1. pc' = "idle" /\ first' = FALSE /\ UNCHANGED streamId
    BY DEF LoginFails
  <2>2. UNCHANGED <<connected, stop, current, streamIdReported>>
    BY DEF LoginFails
  <2> QED BY <2>1, <2>2 DEF TypeOK, ProcessOK, Window
<1>14. TypeOK /\ (Close \/ HandlerCloses) => ProcessOK'
  BY DEF Close, HandlerCloses, TypeOK, ProcessOK, Window
<1>15. TypeOK /\ Decrypt => ProcessOK'
  BY DEF Decrypt, TypeOK, ProcessOK, Window
<1>16. TypeOK /\ Reported => ProcessOK'
  BY DEF Reported, TypeOK, ProcessOK, Window
<1>17. TypeOK /\ Exit => ProcessOK'
  BY DEF Exit, TypeOK, ProcessOK, Window
<1>18. TypeOK /\ (Save \/ GiveKeys \/ Arrive \/ ServerHearsLogin \/
      ServerAccepts \/ ServerRefuses \/ ServerPings \/ ServerSends \/
      ConnectionDrops) => ProcessOK'
  BY DEF Save, GiveKeys, Arrive, ServerHearsLogin, ServerAccepts,
     ServerRefuses, ServerPings, ServerSends, ConnectionDrops, Send, Break,
     TypeOK, ProcessOK, Window
<1>19. TypeOK /\ UNCHANGED vars => ProcessOK'
  BY DEF vars, TypeOK, ProcessOK, Window
<1> QED
  BY <1>1, <1>2, <1>3, <1>4, <1>5, <1>6, <1>7, <1>8, <1>9, <1>10, <1>11,
     <1>12, <1>13, <1>14, <1>15, <1>16, <1>17, <1>18, <1>19 DEF Next, Loop,
     Application, Server

LEMMA ConnectionStep == TypeOK /\ [Next]_vars => ConnectionOK'
<1>1. TypeOK /\ Crash => ConnectionOK'
  BY HungUp DEF Crash, Die
<1>2. TypeOK /\ LoginRefused => ConnectionOK'
  BY HungUp DEF LoginRefused
<1>3. TypeOK /\ LoginFails => ConnectionOK'
  BY HungUp DEF LoginFails
<1>4. TypeOK /\ Exit => ConnectionOK'
  BY HungUp DEF Exit
<1>5. TypeOK /\ PingAckFails => ConnectionOK'
  BY HungUp DEF PingAckFails, Die
<1>6. TypeOK /\ ReceiveClose => ConnectionOK'
  BY HungUp, Rest DEF ReceiveClose, Receive, Die, TypeOK, ConnectionOK
<1>7. TypeOK /\ DecryptFails => ConnectionOK'
  BY HungUp DEF DecryptFails, Reports, Die, TypeOK, ConnectionOK
<1>8. TypeOK /\ Notified => ConnectionOK'
  BY HungUp DEF Notified, Reports, Die, TypeOK, ConnectionOK
<1>9. TypeOK /\ ReadFails => ConnectionOK'
  BY HungUp DEF ReadFails, Reports, Die, TypeOK, ConnectionOK
<1>10. TypeOK /\ ServerAccepts => ConnectionOK'
  BY FramesOf DEF ServerAccepts, Send, TypeOK, ConnectionOK
<1>11. TypeOK /\ ServerRefuses => ConnectionOK'
  BY FramesOf DEF ServerRefuses, Send, TypeOK, ConnectionOK
<1>12. TypeOK /\ ServerPings => ConnectionOK'
  BY FramesOf DEF ServerPings, Send, TypeOK, ConnectionOK
<1>13. TypeOK /\ ServerSends => ConnectionOK'
  BY FramesOf, MessagesAre DEF ServerSends, Send, LedgersOK, TypeOK,
     ConnectionOK
<1>14. TypeOK /\ ConnectionDrops => ConnectionOK'
  BY Prefix DEF ConnectionDrops, Break, TypeOK, ConnectionOK
<1>15. TypeOK /\ Close => ConnectionOK'
  BY Prefix DEF Close, Break, TypeOK, ConnectionOK
<1>16. TypeOK /\ HandlerCloses => ConnectionOK'
  BY Prefix DEF HandlerCloses, Break, InHandler, TypeOK, ConnectionOK
<1>17. TypeOK /\ LoginSucceeds => ConnectionOK'
  BY Rest DEF LoginSucceeds, TypeOK, ConnectionOK
<1>18. TypeOK /\ ReceivePing => ConnectionOK'
  BY Rest DEF ReceivePing, Receive, Onward, ProcessOK, TypeOK, ConnectionOK
<1>19. TypeOK /\ ReceiveData => ConnectionOK'
  BY Rest DEF ReceiveData, Receive, TypeOK, ConnectionOK
<1>20. TypeOK /\ Connect => ConnectionOK'
  BY NoneIs DEF Connect, InHandler, TypeOK, ConnectionOK
<1>21. TypeOK /\ (Start \/ Save \/ GiveKeys \/ Arrive \/ ServerHearsLogin \/
      Decrypt \/ Reported) => ConnectionOK'
  BY DEF Start, Save, GiveKeys, Arrive, ServerHearsLogin, Decrypt, Reported,
     TypeOK, ConnectionOK
<1>22. TypeOK /\ UNCHANGED vars => ConnectionOK'
  BY DEF vars, TypeOK, ConnectionOK
<1> QED
  BY <1>1, <1>2, <1>3, <1>4, <1>5, <1>6, <1>7, <1>8, <1>9, <1>10, <1>11,
     <1>12, <1>13, <1>14, <1>15, <1>16, <1>17, <1>18, <1>19, <1>20, <1>21,
     <1>22 DEF Next, Loop, Application, Server

LEMMA KeysStep == TypeOK /\ [Next]_vars => KeysOK'
<1>1. TypeOK /\ Start => KeysOK'
  BY NewKeys DEF Start, TypeOK, KeysOK, Devices
<1>2. TypeOK /\ Arrive => KeysOK'
  BY DEF Arrive, TypeOK, KeysOK, Devices
<1>3. TypeOK /\ GiveKeys => KeysOK'
  BY DEF GiveKeys, PushKeys, TypeOK, KeysOK, Devices
<1>4. TypeOK /\ ReceiveData => KeysOK'
  BY Rest, FrameShape, MessagesAre DEF ReceiveData, Receive, ConnectionOK,
     TypeOK, KeysOK, Devices
<1>5. TypeOK /\ (Crash \/ PingAckFails \/ ReceiveClose \/ DecryptFails \/
      Notified \/ ReadFails) => KeysOK'
  BY MessagesAre DEF Crash, PingAckFails, ReceiveClose, DecryptFails,
     Notified, ReadFails, Die, HangUp, Receive, Reports, Onward, Blank,
     TypeOK, KeysOK, Devices
<1>6. TypeOK /\ (Save \/ ServerHearsLogin \/ ServerAccepts \/ ServerRefuses \/
      ServerPings \/ ServerSends \/ ConnectionDrops \/ Connect \/
      LoginSucceeds \/ LoginRefused \/ LoginFails \/ Close \/ HandlerCloses \/
      ReceivePing \/ Decrypt \/ Reported \/ Exit) => KeysOK'
  BY DEF Save, ServerHearsLogin, ServerAccepts, ServerRefuses, ServerPings,
     ServerSends, ConnectionDrops, Connect, LoginSucceeds, LoginRefused,
     LoginFails, Close, HandlerCloses, ReceivePing, Decrypt, Reported, Exit,
     Send, Break, InHandler, HangUp, Receive, Onward, TypeOK, KeysOK, Devices
<1>7. TypeOK /\ UNCHANGED vars => KeysOK'
  BY DEF vars, TypeOK, KeysOK, Devices
<1> QED
  BY <1>1, <1>2, <1>3, <1>4, <1>5, <1>6, <1>7 DEF Next, Loop, Application,
     Server

LEMMA LedgersStep == TypeOK /\ [Next]_vars => LedgersOK'
<1>1. TypeOK /\ Arrive => LedgersOK'
  BY MessagesAre DEF Arrive, TypeOK, LedgersOK, Fault
<1>2. TypeOK /\ ServerHearsLogin => LedgersOK'
  BY DEF ServerHearsLogin, Unacknowledged, TypeOK, LedgersOK, Fault
<1>3. TypeOK /\ ServerSends => LedgersOK'
  BY DEF ServerSends, Send, TypeOK, LedgersOK, Fault
<1>4. TypeOK /\ DecryptFails => LedgersOK'
  BY MessagesAre DEF DecryptFails, Die, HangUp, Reports, Onward, ProcessOK,
     Window, TypeOK, LedgersOK, Fault
<1>5. TypeOK /\ Notified => LedgersOK'
  BY MessagesAre DEF Notified, Die, HangUp, Reports, Onward, ProcessOK,
     Window, TypeOK, LedgersOK, Fault
<1>6. TypeOK /\ (Crash \/ ConnectionDrops \/ ServerRefuses \/ ServerPings \/
      Close \/ HandlerCloses) => LedgersOK'
  BY LimitsAre DEF Crash, ConnectionDrops, ServerRefuses, ServerPings, Close,
     HandlerCloses, Die, HangUp, Break, Send, InHandler, TypeOK, LedgersOK,
     Fault
<1>7. TypeOK /\ (Start \/ Save \/ GiveKeys \/ ServerAccepts \/ Connect \/
      LoginSucceeds \/ LoginRefused \/ LoginFails \/ ReceivePing \/
      PingAckFails \/ ReceiveClose \/ ReceiveData \/ Decrypt \/ ReadFails \/
      Reported \/ Exit) => LedgersOK'
  BY DEF Start, Save, GiveKeys, ServerAccepts, Connect, LoginSucceeds,
     LoginRefused, LoginFails, ReceivePing, PingAckFails, ReceiveClose,
     ReceiveData, Decrypt, ReadFails, Reported, Exit, Send, InHandler, HangUp,
     Receive, Onward, Die, Reports, TypeOK, LedgersOK, Fault
<1>8. TypeOK /\ UNCHANGED vars => LedgersOK'
  BY DEF vars, TypeOK, LedgersOK, Fault
<1> QED
  BY <1>1, <1>2, <1>3, <1>4, <1>5, <1>6, <1>7, <1>8 DEF Next, Loop,
     Application, Server

LEMMA TypeStep == TypeOK /\ [Next]_vars => TypeOK'
  BY ProcessStep, ConnectionStep, KeysStep, LedgersStep DEF TypeOK

-----------------------------------------------------------------------------
(* Where the process, the connection and the messages are. *)

LEMMA NothingLeft ==
  HangUp => /\ link' = "none" /\ ~cut' /\ down' = <<>>
            /\ cursor' = 0 /\ sentHere' = 0 /\ acked' = 0
            /\ \A m \in Messages : sentAs'[m] = 0
  BY DEF HangUp

LEMMA RestingStep == Shape /\ [Next]_vars => Resting'
<1>1. Shape /\ Crash => Resting'
  BY NothingLeft DEF Crash, Die, Resting
<1>2. Shape /\ PingAckFails => Resting'
  BY NothingLeft DEF PingAckFails, Die, Resting
<1>3. Shape /\ LoginRefused => Resting'
  BY NothingLeft DEF LoginRefused, Resting
<1>4. Shape /\ LoginFails => Resting'
  BY NothingLeft DEF LoginFails, Resting
<1>5. Shape /\ Exit => Resting'
  BY NothingLeft DEF Exit, Resting
<1>6. Shape /\ ReceiveClose => Resting'
  BY NothingLeft DEF ReceiveClose, Receive, Onward, Die, Resting
<1>7. Shape /\ DecryptFails => Resting'
  BY NothingLeft DEF DecryptFails, Reports, Onward, Die, Resting
<1>8. Shape /\ Notified => Resting'
  BY NothingLeft DEF Notified, Reports, Onward, Die, Resting
<1>9. Shape /\ ReadFails => Resting'
  BY NothingLeft DEF ReadFails, Reports, Die, Resting
<1>10. Shape /\ Start => Resting'
  BY DEF Start, Shape, Positions, Resting
<1>11. Shape /\ (Connect \/ LoginSucceeds \/ ReceivePing \/ ReceiveData \/
      Decrypt \/ Reported \/ HandlerCloses) => Resting'
  BY DEF Connect, LoginSucceeds, ReceivePing, Onward, ReceiveData, Decrypt, Reported,
     HandlerCloses, Resting
<1>12. Shape /\ Close => Resting'
  BY DEF Close, Shape, Positions, LoopIsConnected, Resting
<1>13. Shape /\ ConnectionDrops => Resting'
  BY DEF ConnectionDrops, Resting
<1>14. Shape /\ (Save \/ GiveKeys \/ Arrive) => Resting'
  BY DEF Save, GiveKeys, Arrive, Shape, Positions, Resting
<1>15. Shape /\ (ServerHearsLogin \/ ServerAccepts \/ ServerRefuses \/
      ServerPings \/ ServerSends) => Resting'
  BY DEF ServerHearsLogin, ServerAccepts, ServerRefuses, ServerPings,
     ServerSends, Send, Shape, Positions, Resting
<1>16. Shape /\ UNCHANGED vars => Resting'
  BY DEF vars, Shape, Positions, Resting
<1> QED
  BY <1>1, <1>2, <1>3, <1>4, <1>5, <1>6, <1>7, <1>8, <1>9, <1>10, <1>11,
     <1>12, <1>13, <1>14, <1>15, <1>16 DEF Next, Loop, Application, Server

LEMMA LoginUnheardStep == Shape /\ [Next]_vars => LoginUnheard'
<1>1. Shape /\ Crash => LoginUnheard'
  BY NothingLeft DEF Crash, Die, LoginUnheard
<1>2. Shape /\ PingAckFails => LoginUnheard'
  BY NothingLeft DEF PingAckFails, Die, LoginUnheard
<1>3. Shape /\ LoginRefused => LoginUnheard'
  BY NothingLeft DEF LoginRefused, LoginUnheard
<1>4. Shape /\ LoginFails => LoginUnheard'
  BY NothingLeft DEF LoginFails, LoginUnheard
<1>5. Shape /\ Exit => LoginUnheard'
  BY NothingLeft DEF Exit, LoginUnheard
<1>6. Shape /\ ReceiveClose => LoginUnheard'
  BY NothingLeft DEF ReceiveClose, Receive, Die, Shape, Positions, LoginUnheard
<1>7. Shape /\ DecryptFails => LoginUnheard'
  BY NothingLeft DEF DecryptFails, Reports, Die, Shape, Positions, LoginUnheard
<1>8. Shape /\ Notified => LoginUnheard'
  BY NothingLeft DEF Notified, Reports, Die, Shape, Positions, LoginUnheard
<1>9. Shape /\ ReadFails => LoginUnheard'
  BY NothingLeft DEF ReadFails, Reports, Die, Shape, Positions, LoginUnheard
<1>10. Shape /\ Start => LoginUnheard'
  BY DEF Start, Resting, Shape, Positions, LoginUnheard
<1>11. Shape /\ (Connect \/ ServerHearsLogin) => LoginUnheard'
  BY DEF Connect, ServerHearsLogin, LoginUnheard
<1>12. Shape /\ (ServerAccepts \/ ServerRefuses \/ ServerPings \/ ServerSends)
      => LoginUnheard'
  BY DEF ServerAccepts, ServerRefuses, ServerPings, ServerSends, LoginUnheard
<1>13. Shape /\ ConnectionDrops => LoginUnheard'
  <2> SUFFICES ASSUME Shape, ConnectionDrops, link = "login" PROVE pc' = "login" /\ down' = <<>>
    BY DEF ConnectionDrops, LoginUnheard
  <2>1. pc = "login" /\ down = <<>>
    BY DEF Shape, Positions, LoginUnheard
  <2>2. PICK n \in 0..Len(down) : down' = SubSeq(down, 1, n)
    BY DEF ConnectionDrops, Break
  <2>3. n = 0
    BY <2>1, <2>2
  <2> QED BY <2>1, <2>2, <2>3 DEF ConnectionDrops
<1>14. Shape /\ (Close \/ HandlerCloses) => LoginUnheard'
  BY DEF Close, HandlerCloses, InHandler, Shape, Positions, LoopIsConnected, LoginUnheard
<1>15. Shape /\ (LoginSucceeds \/ ReceivePing \/ ReceiveData) => LoginUnheard'
  BY DEF LoginSucceeds, Receive, ReceivePing, ReceiveData, Shape, Positions, LoginUnheard
<1>16. Shape /\ (Save \/ GiveKeys \/ Arrive \/ Decrypt \/ Reported) =>
      LoginUnheard'
  BY DEF Save, GiveKeys, Arrive, Decrypt, Reported, Shape, Positions,
     LoginUnheard
<1>17. Shape /\ UNCHANGED vars => LoginUnheard'
  BY DEF vars, Shape, Positions, LoginUnheard
<1> QED
  BY <1>1, <1>2, <1>3, <1>4, <1>5, <1>6, <1>7, <1>8, <1>9, <1>10, <1>11,
     <1>12, <1>13, <1>14, <1>15, <1>16, <1>17 DEF Next, Loop, Application,
     Server

LEMMA LoopIsConnectedStep == Shape /\ [Next]_vars => LoopIsConnected'
<1>1. Shape /\ Crash => LoopIsConnected'
  BY DEF Crash, Die, LoopIsConnected
<1>2. Shape /\ PingAckFails => LoopIsConnected'
  BY DEF PingAckFails, Die, LoopIsConnected
<1>3. Shape /\ (LoginRefused \/ LoginFails \/ Exit) => LoopIsConnected'
  BY DEF LoginRefused, LoginFails, Exit, Shape, Positions, LoopIsConnected
<1>4. Shape /\ ReceiveClose => LoopIsConnected'
  BY DEF ReceiveClose, Receive, Onward, Die, Shape, Positions, LoopIsConnected
<1>5. Shape /\ DecryptFails => LoopIsConnected'
  BY DEF DecryptFails, Reports, Onward, Die, Shape, Positions, LoopIsConnected
<1>6. Shape /\ Notified => LoopIsConnected'
  BY DEF Notified, Reports, Onward, Die, Shape, Positions, LoopIsConnected
<1>7. Shape /\ ReadFails => LoopIsConnected'
  BY DEF ReadFails, Reports, Die, Shape, Positions, LoopIsConnected
<1>8. Shape /\ (LoginSucceeds \/ ReceivePing \/ ReceiveData) =>
      LoopIsConnected'
  BY DEF LoginSucceeds, Receive, ReceivePing, Onward, ReceiveData, Shape, Positions, LoopIsConnected
<1>9. Shape /\ (Start \/ Connect \/ Close \/ HandlerCloses \/ Decrypt \/
      Reported) => LoopIsConnected'
  BY DEF Start, Connect, Close, HandlerCloses, InHandler, Decrypt, Reported, Shape,
     Positions, LoopIsConnected
<1>10. Shape /\ (Save \/ GiveKeys \/ Arrive \/ ServerHearsLogin \/
      ServerAccepts \/ ServerRefuses \/ ServerPings \/ ServerSends \/
      ConnectionDrops) => LoopIsConnected'
  BY DEF Save, GiveKeys, Arrive, ServerHearsLogin, ServerAccepts,
     ServerRefuses, ServerPings, ServerSends, ConnectionDrops, Send, Break,
     Shape, Positions, LoopIsConnected
<1>11. Shape /\ UNCHANGED vars => LoopIsConnected'
  BY DEF vars, Shape, Positions, LoopIsConnected
<1> QED
  BY <1>1, <1>2, <1>3, <1>4, <1>5, <1>6, <1>7, <1>8, <1>9, <1>10, <1>11 DEF
     Next, Loop, Application, Server

LEMMA Queued ==
  ASSUME NEW s \in Seq(Frames), NEW f \in Frames
  PROVE  /\ Append(s, f) \in Seq(Frames)
         /\ Len(s) \in Nat /\ Len(Append(s, f)) = Len(s) + 1
         /\ \A i \in 1..Len(s) : Append(s, f)[i] = s[i]
         /\ Append(s, f)[Len(s) + 1] = f
  BY AppendProperties, LenProperties

\* A connection that is over.
LEMMA Ended ==
  ASSUME Shape, HangUp, current' = current \/ current' = 0, UNCHANGED <<arrived, pending>>
  PROVE  OnlyArrived'
<1>1. arrived \in 0..N /\ OnlyArrived
  BY DEF Shape, Positions, TypeOK, LedgersOK
<1>2. down' = <<>>
  BY DEF HangUp
<1>3. arrived \in Nat
  BY <1>1, MessagesAre
<1> QED BY <1>1, <1>2, <1>3 DEF OnlyArrived

LEMMA OnlyArrivedStep == Shape /\ [Next]_vars => OnlyArrived'
<1>1. Shape /\ Crash => OnlyArrived'
  BY Ended DEF Crash, Die
<1>2. Shape /\ PingAckFails => OnlyArrived'
  BY Ended DEF PingAckFails, Die
<1>3. Shape /\ LoginRefused => OnlyArrived'
  BY Ended DEF LoginRefused
<1>4. Shape /\ LoginFails => OnlyArrived'
  BY Ended DEF LoginFails
<1>5. Shape /\ Exit => OnlyArrived'
  BY Ended DEF Exit
<1>6. Shape /\ ReceiveClose => OnlyArrived'
  <2> SUFFICES ASSUME Shape, ReceiveClose PROVE OnlyArrived'
    OBVIOUS
  <2>1. down \in Seq(Frames) /\ arrived \in 0..N /\ OnlyArrived
    BY DEF Shape, Positions, TypeOK, ConnectionOK, LedgersOK
  <2>2. CASE fragile
    BY <2>2, Ended DEF ReceiveClose, Die
  <2>3. CASE ~fragile
    <3>1. down' = Tail(down) /\ down # <<>> /\ UNCHANGED <<arrived, pending, current>>
      BY <2>3 DEF ReceiveClose, Receive
    <3> QED BY <2>1, <3>1, Rest DEF OnlyArrived
  <2> QED BY <2>2, <2>3
<1>7. Shape /\ DecryptFails => OnlyArrived'
  <2> SUFFICES ASSUME Shape, DecryptFails PROVE OnlyArrived'
    OBVIOUS
  <2>1. down \in Seq(Frames) /\ arrived \in 0..N /\ OnlyArrived
    BY DEF Shape, Positions, TypeOK, ConnectionOK, LedgersOK
  <2>2. CASE Die
    BY <2>2, Ended DEF DecryptFails, Die
  <2>3. CASE ~Die
    <3>1. down' = down /\ (current' = current \/ current' = 0) /\ UNCHANGED <<arrived, pending>>
      BY <2>3 DEF DecryptFails, Reports
    <3>2. arrived \in Nat
      BY <2>1, MessagesAre
    <3> QED BY <2>1, <3>1, <3>2 DEF OnlyArrived
  <2> QED BY <2>2, <2>3
<1>8. Shape /\ Notified => OnlyArrived'
  <2> SUFFICES ASSUME Shape, Notified PROVE OnlyArrived'
    OBVIOUS
  <2>1. down \in Seq(Frames) /\ arrived \in 0..N /\ OnlyArrived
    BY DEF Shape, Positions, TypeOK, ConnectionOK, LedgersOK
  <2>2. CASE Die
    BY <2>2, Ended DEF Notified, Die
  <2>3. CASE ~Die
    <3>1. down' = down /\ (current' = current \/ current' = 0) /\ UNCHANGED <<arrived, pending>>
      BY <2>3 DEF Notified, Reports
    <3>2. arrived \in Nat
      BY <2>1, MessagesAre
    <3> QED BY <2>1, <3>1, <3>2 DEF OnlyArrived
  <2> QED BY <2>2, <2>3
<1>9. Shape /\ ReadFails => OnlyArrived'
  <2> SUFFICES ASSUME Shape, ReadFails PROVE OnlyArrived'
    OBVIOUS
  <2>1. down \in Seq(Frames) /\ arrived \in 0..N /\ OnlyArrived
    BY DEF Shape, Positions, TypeOK, ConnectionOK, LedgersOK
  <2>2. CASE Die
    BY <2>2, Ended DEF ReadFails, Die
  <2>3. CASE ~Die
    <3>1. down' = down /\ (current' = current \/ current' = 0) /\ UNCHANGED <<arrived, pending>>
      BY <2>3 DEF ReadFails, Reports
    <3>2. arrived \in Nat
      BY <2>1, MessagesAre
    <3> QED BY <2>1, <3>1, <3>2 DEF OnlyArrived
  <2> QED BY <2>2, <2>3
<1>10. Shape /\ LoginSucceeds => OnlyArrived'
  <2> SUFFICES ASSUME Shape, LoginSucceeds PROVE OnlyArrived'
    OBVIOUS
  <2>1. down \in Seq(Frames) /\ arrived \in 0..N /\ OnlyArrived
    BY DEF Shape, Positions, TypeOK, ConnectionOK, LedgersOK
  <2>2. down' = Tail(down) /\ down # <<>> /\ UNCHANGED <<arrived, pending>>
    BY DEF LoginSucceeds
  <2>3. current' <= arrived
    BY <2>1, Rest DEF LoginSucceeds, OnlyArrived
  <2> QED BY <2>1, <2>2, <2>3, Rest DEF OnlyArrived
<1>11. Shape /\ ReceivePing => OnlyArrived'
  <2> SUFFICES ASSUME Shape, ReceivePing PROVE OnlyArrived'
    OBVIOUS
  <2>1. down \in Seq(Frames) /\ arrived \in 0..N /\ OnlyArrived
    BY DEF Shape, Positions, TypeOK, ConnectionOK, LedgersOK
  <2>2. down' = Tail(down) /\ down # <<>> /\ UNCHANGED <<arrived, pending>>
    BY DEF ReceivePing, Receive
  <2>3. current' <= arrived
    BY <2>1, Rest DEF ReceivePing, Receive, OnlyArrived
  <2> QED BY <2>1, <2>2, <2>3, Rest DEF OnlyArrived
<1>12. Shape /\ ReceiveData => OnlyArrived'
  <2> SUFFICES ASSUME Shape, ReceiveData PROVE OnlyArrived'
    OBVIOUS
  <2>1. down \in Seq(Frames) /\ arrived \in 0..N /\ OnlyArrived
    BY DEF Shape, Positions, TypeOK, ConnectionOK, LedgersOK
  <2>2. down' = Tail(down) /\ down # <<>> /\ UNCHANGED <<arrived, pending>>
    BY DEF ReceiveData, Receive
  <2>3. current' <= arrived
    BY <2>1, Rest DEF ReceiveData, Receive, OnlyArrived
  <2> QED BY <2>1, <2>2, <2>3, Rest DEF OnlyArrived
<1>13. Shape /\ ConnectionDrops => OnlyArrived'
  <2> SUFFICES ASSUME Shape, ConnectionDrops PROVE OnlyArrived'
    OBVIOUS
  <2>1. down \in Seq(Frames) /\ arrived \in 0..N /\ OnlyArrived
    BY DEF Shape, Positions, TypeOK, ConnectionOK, LedgersOK
  <2>2. down' = down \/ \E n \in 0..Len(down) : down' = SubSeq(down, 1, n)
    BY DEF ConnectionDrops, Break
  <2>3. UNCHANGED <<arrived, pending, current>>
    BY DEF ConnectionDrops
  <2> QED BY <2>1, <2>2, <2>3, Prefix DEF OnlyArrived
<1>14. Shape /\ Close => OnlyArrived'
  <2> SUFFICES ASSUME Shape, Close PROVE OnlyArrived'
    OBVIOUS
  <2>1. down \in Seq(Frames) /\ arrived \in 0..N /\ OnlyArrived
    BY DEF Shape, Positions, TypeOK, ConnectionOK, LedgersOK
  <2>2. down' = down \/ \E n \in 0..Len(down) : down' = SubSeq(down, 1, n)
    BY DEF Close, Break
  <2>3. UNCHANGED <<arrived, pending, current>>
    BY DEF Close
  <2> QED BY <2>1, <2>2, <2>3, Prefix DEF OnlyArrived
<1>15. Shape /\ HandlerCloses => OnlyArrived'
  <2> SUFFICES ASSUME Shape, HandlerCloses PROVE OnlyArrived'
    OBVIOUS
  <2>1. down \in Seq(Frames) /\ arrived \in 0..N /\ OnlyArrived
    BY DEF Shape, Positions, TypeOK, ConnectionOK, LedgersOK
  <2>2. down' = down \/ \E n \in 0..Len(down) : down' = SubSeq(down, 1, n)
    BY DEF HandlerCloses, Break
  <2>3. UNCHANGED <<arrived, pending, current>>
    BY DEF HandlerCloses
  <2> QED BY <2>1, <2>2, <2>3, Prefix DEF OnlyArrived
<1>16. Shape /\ ServerAccepts => OnlyArrived'
  <2> SUFFICES ASSUME Shape, ServerAccepts PROVE OnlyArrived'
    OBVIOUS
  <2>1. down \in Seq(Frames) /\ arrived \in 0..N /\ OnlyArrived
    BY DEF Shape, Positions, TypeOK, ConnectionOK, LedgersOK
  <2>2. PICK f \in Frames : down' = Append(down, f) /\ f.id = 0
    BY FramesOf DEF ServerAccepts, Send, Control
  <2>3. UNCHANGED <<arrived, pending, current>>
    BY DEF ServerAccepts
  <2> QED BY <2>1, <2>2, <2>3, Queued DEF OnlyArrived
<1>17. Shape /\ ServerRefuses => OnlyArrived'
  <2> SUFFICES ASSUME Shape, ServerRefuses PROVE OnlyArrived'
    OBVIOUS
  <2>1. down \in Seq(Frames) /\ arrived \in 0..N /\ OnlyArrived
    BY DEF Shape, Positions, TypeOK, ConnectionOK, LedgersOK
  <2>2. PICK f \in Frames : down' = Append(down, f) /\ f.id = 0
    BY FramesOf DEF ServerRefuses, Send, Control
  <2>3. UNCHANGED <<arrived, pending, current>>
    BY DEF ServerRefuses
  <2> QED BY <2>1, <2>2, <2>3, Queued DEF OnlyArrived
<1>18. Shape /\ ServerPings => OnlyArrived'
  <2> SUFFICES ASSUME Shape, ServerPings PROVE OnlyArrived'
    OBVIOUS
  <2>1. down \in Seq(Frames) /\ arrived \in 0..N /\ OnlyArrived
    BY DEF Shape, Positions, TypeOK, ConnectionOK, LedgersOK
  <2>2. PICK f \in Frames : down' = Append(down, f) /\ f.id = 0
    BY FramesOf DEF ServerPings, Send, Control
  <2>3. UNCHANGED <<arrived, pending, current>>
    BY DEF ServerPings
  <2> QED BY <2>1, <2>2, <2>3, Queued DEF OnlyArrived
<1>19. Shape /\ ServerSends => OnlyArrived'
  <2> SUFFICES ASSUME Shape, ServerSends PROVE OnlyArrived'
    OBVIOUS
  <2>1. down \in Seq(Frames) /\ arrived \in 0..N /\ OnlyArrived
    BY DEF Shape, Positions, TypeOK, ConnectionOK, LedgersOK
  <2>2. PICK m \in pending : down' = Append(down, Data(m)) /\ pending' \subseteq pending
    BY DEF ServerSends, Send
  <2>3. m \in Messages /\ m <= arrived
    BY <2>1, <2>2 DEF Shape, TypeOK, LedgersOK, OnlyArrived
  <2>4. Data(m) \in Frames /\ Data(m).id = m
    BY <2>3, FramesOf DEF Data
  <2>5. UNCHANGED <<arrived, current>>
    BY DEF ServerSends
  <2> QED BY <2>1, <2>2, <2>3, <2>4, <2>5, Queued DEF OnlyArrived
<1>20. Shape /\ Connect => OnlyArrived'
  <2> SUFFICES ASSUME Shape, Connect PROVE OnlyArrived'
    OBVIOUS
  <2>1. down \in Seq(Frames) /\ arrived \in 0..N /\ OnlyArrived
    BY DEF Shape, Positions, TypeOK, ConnectionOK, LedgersOK
  <2>2. down' = <<>> /\ current' = 0 /\ UNCHANGED <<arrived, pending>>
    BY DEF Connect
  <2> QED BY <2>1, <2>2, MessagesAre DEF OnlyArrived
<1>21. Shape /\ Arrive => OnlyArrived'
  <2> SUFFICES ASSUME Shape, Arrive PROVE OnlyArrived'
    OBVIOUS
  <2>1. down \in Seq(Frames) /\ arrived \in 0..N /\ OnlyArrived
    BY DEF Shape, Positions, TypeOK, ConnectionOK, LedgersOK
  <2>2. UNCHANGED <<down, current>> /\ arrived' = arrived + 1 /\ pending' = pending \cup {arrived + 1}
    BY DEF Arrive
  <2>3. arrived \in Nat /\ current \in Nat
    BY <2>1, MessagesAre DEF Shape, TypeOK, ProcessOK
  <2>4. \A i \in 1..Len(down) : down[i].id \in Nat
    BY <2>1, ElementOfSeq, FrameShape, MessagesAre
  <2> QED BY <2>1, <2>2, <2>3, <2>4 DEF OnlyArrived
<1>22. Shape /\ ServerHearsLogin => OnlyArrived'
  BY DEF ServerHearsLogin, Unacknowledged, Shape, Positions, OnlyArrived
<1>23. Shape /\ (Start \/ Save \/ GiveKeys \/ Decrypt \/ Reported) =>
      OnlyArrived'
  BY DEF Start, Save, GiveKeys, Decrypt, Reported, Shape, Positions,
     OnlyArrived
<1>24. Shape /\ UNCHANGED vars => OnlyArrived'
  BY DEF vars, Shape, Positions, OnlyArrived
<1> QED
  BY <1>1, <1>2, <1>3, <1>4, <1>5, <1>6, <1>7, <1>8, <1>9, <1>10, <1>11,
     <1>12, <1>13, <1>14, <1>15, <1>16, <1>17, <1>18, <1>19, <1>20, <1>21,
     <1>22, <1>23, <1>24 DEF Next, Loop, Application, Server

LEMMA ShapeStep == Shape /\ [Next]_vars => Shape'
  BY TypeStep, RestingStep, LoginUnheardStep, LoopIsConnectedStep, OnlyArrivedStep
     DEF Shape, Positions

LEMMA ShapeInit == Init => Shape
<1> SUFFICES ASSUME Init PROVE Shape
  OBVIOUS
<1>1. ProcessOK
  BY NoneIs DEF Init, ProcessOK, Window
<1>2. ConnectionOK
  BY NoneIs DEF Init, ConnectionOK
<1>3. KeysOK
  BY NoneIs DEF Init, KeysOK, Blank, NoKeys, Devices
<1>4. LedgersOK
  BY NoneIs, LimitsAre DEF Init, LedgersOK
<1>5. Resting /\ LoginUnheard /\ LoopIsConnected
  BY DEF Init, Resting, LoginUnheard, LoopIsConnected
<1>6. OnlyArrived
  BY DEF Init, OnlyArrived
<1> QED BY <1>1, <1>2, <1>3, <1>4, <1>5, <1>6 DEF Shape, Positions, TypeOK

\* The variables keep their types, connected is set exactly while there is a loop, and
\* nothing is left of a connection that is over.
THEOREM SessionShape == Spec => []Shape
  BY ShapeInit, ShapeStep, PTL DEF Spec

\* Every variable keeps its type; in particular handleDataMessage's stages always have
\* a message to work on.
THEOREM SessionTypeCorrect == Spec => []TypeOK
<1>1. Shape => TypeOK
  BY DEF Shape
<1> QED BY <1>1, SessionShape, PTL

-----------------------------------------------------------------------------
(* Queues in the order of arrival. *)

LEMMA KeptAre == \A m \in Kept : m \in Messages /\ m \in Nat /\ m >= 1
  BY MessagesAre DEF Kept

LEMMA MoreDone ==
  ASSUME NEW s, NEW d, NEW e, d \subseteq e
  PROVE  /\ Ordered(s, d) => Ordered(s, e)
         /\ \A c : Reached(s, d, c) => Reached(s, e, c)
         /\ \A c : AllBelow(c, d) => AllBelow(c, e)
  BY DEF Ordered, Reached, AllBelow

LEMMA EmptyOrdered ==
  ASSUME NEW d
  PROVE  Ordered(<<>>, d) /\ Reached(<<>>, d, 0) /\ AllBelow(0, d)
  BY KeptAre DEF Ordered, Reached, AllBelow

LEMMA PrefixOrdered ==
  ASSUME NEW s \in Seq(Frames), NEW n \in 0..Len(s), NEW d, Ordered(s, d)
  PROVE  Ordered(SubSeq(s, 1, n), d)
<1> SUFFICES ASSUME NEW i \in 1..n, NEW m \in Kept, m < s[i].id, m \notin d
             PROVE  \E j \in 1..(i - 1) : SubSeq(s, 1, n)[j].id = m
  BY Prefix DEF Ordered
<1>1. Len(s) \in Nat /\ n \in Nat /\ n <= Len(s)
  OBVIOUS
<1>2. i \in 1..Len(s)
  BY <1>1
<1>3. PICK j \in 1..(i - 1) : s[j].id = m
  BY <1>2 DEF Ordered
<1>4. j \in 1..n
  BY <1>1
<1> QED BY <1>3, <1>4, Prefix

\* The head of a queue is done, or it is no message.
LEMMA RestOrdered ==
  ASSUME NEW s \in Seq(Frames), s # <<>>, NEW d, NEW e, d \subseteq e,
         Head(s).id \in e \/ Head(s).id \notin Kept
  PROVE  /\ Ordered(s, d) => Ordered(Tail(s), e)
         /\ \A c : Reached(s, d, c) => Reached(Tail(s), e, c)
<1>1. /\ Head(s) = s[1] /\ Len(s) \in Nat /\ Len(s) > 0 /\ Len(Tail(s)) = Len(s) - 1
      /\ \A i \in 1..(Len(s) - 1) : Tail(s)[i] = s[i + 1]
  BY Rest
<1>2. ASSUME NEW m \in Kept, NEW j \in 1..Len(s), s[j].id = m, m \notin e
      PROVE  j - 1 \in 1..(Len(s) - 1) /\ Tail(s)[j - 1].id = m
  <2>1. j # 1
    BY <1>1, <1>2
  <2>2. j - 1 \in 1..(Len(s) - 1) /\ (j - 1) + 1 = j
    BY <1>1, <2>1
  <2> QED BY <1>1, <1>2, <2>2
<1>3. ASSUME Ordered(s, d) PROVE Ordered(Tail(s), e)
  <2> SUFFICES ASSUME NEW i \in 1..Len(Tail(s)), NEW m \in Kept, m < Tail(s)[i].id, m \notin e
               PROVE  \E j \in 1..(i - 1) : Tail(s)[j].id = m
    BY DEF Ordered
  <2>1. i + 1 \in 1..Len(s) /\ m < s[i + 1].id
    BY <1>1
  <2>2. PICK j \in 1..((i + 1) - 1) : s[j].id = m
    BY <1>3, <2>1 DEF Ordered
  <2>3. j \in 1..Len(s)
    BY <1>1, <2>1
  <2>4. Tail(s)[j - 1].id = m /\ j # 1
    BY <1>1, <1>2, <2>2, <2>3
  <2>5. j - 1 \in 1..(i - 1)
    BY <1>1, <2>4
  <2> QED BY <2>4, <2>5
<1>4. ASSUME NEW c, Reached(s, d, c) PROVE Reached(Tail(s), e, c)
  <2> SUFFICES ASSUME NEW m \in Kept, m <= c, m \notin e
               PROVE  \E j \in 1..Len(Tail(s)) : Tail(s)[j].id = m
    BY DEF Reached
  <2>1. PICK j \in 1..Len(s) : s[j].id = m
    BY <1>4 DEF Reached
  <2> QED BY <1>1, <1>2, <2>1
<1> QED BY <1>3, <1>4

\* Of the head of a queue that is ordered everything earlier is done.
LEMMA HeadOrdered ==
  ASSUME NEW s \in Seq(Frames), s # <<>>, NEW d, Ordered(s, d), NEW m \in Kept, m < Head(s).id
  PROVE  m \in d
<1>1. Head(s) = s[1] /\ 1 \in 1..Len(s)
  BY Rest
<1> QED BY <1>1 DEF Ordered

LEMMA QueuedOrdered ==
  ASSUME NEW s \in Seq(Frames), NEW f \in Frames, NEW d, Ordered(s, d),
         \A m \in Kept : m < f.id => m \in d \/ \E j \in 1..Len(s) : s[j].id = m
  PROVE  /\ Ordered(Append(s, f), d)
         /\ \A c : Reached(s, d, c) => Reached(Append(s, f), d, c)
<1> DEFINE q == Append(s, f)
<1>1. /\ Len(s) \in Nat /\ Len(q) = Len(s) + 1
      /\ \A i \in 1..Len(s) : q[i] = s[i]
      /\ q[Len(s) + 1] = f
  BY Queued
<1> HIDE DEF q
<1>2. Ordered(q, d)
  <2> SUFFICES ASSUME NEW i \in 1..Len(q), NEW m \in Kept, m < q[i].id, m \notin d
               PROVE  \E j \in 1..(i - 1) : q[j].id = m
    BY DEF Ordered
  <2>1. CASE i \in 1..Len(s)
    <3>1. PICK j \in 1..(i - 1) : s[j].id = m
      BY <1>1, <2>1 DEF Ordered
    <3>2. j \in 1..Len(s)
      BY <1>1, <2>1
    <3> QED BY <1>1, <3>1, <3>2
  <2>2. CASE i = Len(s) + 1
    <3>1. PICK j \in 1..Len(s) : s[j].id = m
      BY <1>1, <2>2
    <3> QED BY <1>1, <2>2, <3>1
  <2> QED BY <1>1, <2>1, <2>2
<1>3. \A c : Reached(s, d, c) => Reached(q, d, c)
  BY <1>1 DEF Reached
<1> QED BY <1>2, <1>3 DEF q

-----------------------------------------------------------------------------
(* Every step keeps the order of arrival. *)

LEMMA QueueIs == Shape => down \in Seq(Frames) /\ Len(down) \in Nat
  BY LenProperties DEF Shape, TypeOK, ConnectionOK

LEMMA StillSettled ==
  ASSUME UNCHANGED <<arrived, pending>>, Handled \subseteq Handled'
  PROVE  Settled \subseteq Settled'
  BY DEF Settled, Gone

\* What is done stays done, whatever leaves the message in work alone.
LEMMA StillDone ==
  ASSUME Settled \subseteq Settled', UNCHANGED current,
         pc \in {"decode", "notify", "stuck"} => pc' \in {"decode", "notify", "stuck"}
  PROVE  Done \subseteq Done'
  BY DEF Done, InWork

LEMMA QuietInOrder ==
  ASSUME InOrder, Settled \subseteq Settled', Done \subseteq Done',
         UNCHANGED <<device, disk, down, cut, cursor>>
  PROVE  InOrder'
<1>1. AllBelow(device'.lastId, Settled') /\ AllBelow(disk'.lastId, Settled')
  BY MoreDone DEF InOrder
<1>2. Ordered(down', Done') /\ (~cut' => Reached(down', Done', cursor'))
  BY MoreDone DEF InOrder
<1> QED BY <1>1, <1>2 DEF InOrder

\* The end of a connection, and of a process.
LEMMA HungUpInOrder ==
  ASSUME InOrder, HangUp, device'.lastId \in {0, device.lastId}, Settled \subseteq Settled',
         UNCHANGED disk
  PROVE  InOrder'
<1>1. AllBelow(device'.lastId, Settled') /\ AllBelow(disk'.lastId, Settled')
  BY MoreDone, EmptyOrdered DEF InOrder
<1>2. Ordered(down', Done') /\ Reached(down', Done', cursor')
  BY EmptyOrdered, NothingLeft
<1> QED BY <1>1, <1>2 DEF InOrder

LEMMA DiedInOrder ==
  ASSUME InOrder, Die, Handled \subseteq Handled', UNCHANGED <<disk, arrived, pending>>
  PROVE  InOrder'
<1>1. HangUp /\ device'.lastId = 0
  BY DEF Die, Blank
<1> QED BY <1>1, HungUpInOrder, StillSettled

\* A connection that breaks.
LEMMA BrokenInOrder ==
  ASSUME Shape, InOrder, Break, Settled \subseteq Settled', Done \subseteq Done',
         UNCHANGED <<device, disk>>
  PROVE  InOrder'
<1>1. AllBelow(device'.lastId, Settled') /\ AllBelow(disk'.lastId, Settled')
  BY MoreDone DEF InOrder
<1>2. PICK n \in 0..Len(down) : down' = SubSeq(down, 1, n)
  BY DEF Break
<1>3. Ordered(down', Done)
  BY <1>2, QueueIs, PrefixOrdered DEF InOrder
<1>4. Ordered(down', Done') /\ cut'
  BY <1>3, MoreDone DEF Break
<1> QED BY <1>1, <1>4 DEF InOrder

\* A frame is read; if it is a message, that is in work now.
LEMMA ReadInOrder ==
  ASSUME Shape, InOrder, down # <<>>, down' = Tail(down), Settled \subseteq Settled',
         Done \subseteq Done', Done = Settled,
         Head(down).id \in Done' \/ Head(down).id \notin Kept,
         device'.lastId \in {device.lastId, Head(down).id},
         UNCHANGED <<disk, cut, cursor>>
  PROVE  InOrder'
<1>1. AllBelow(disk'.lastId, Settled')
  BY MoreDone DEF InOrder
<1>2. down \in Seq(Frames) /\ Ordered(down, Done)
  BY QueueIs DEF InOrder
<1>3. Ordered(down', Done') /\ \A c : Reached(down, Done, c) => Reached(down', Done', c)
  BY <1>2, RestOrdered
<1>4. AllBelow(device'.lastId, Settled')
  <2>1. CASE device'.lastId = device.lastId
    BY <2>1, MoreDone DEF InOrder
  <2>2. CASE device'.lastId = Head(down).id
    <3>1. \A m \in Kept : m < Head(down).id => m \in Settled'
      BY <1>2, HeadOrdered
    <3> QED BY <2>2, <3>1 DEF AllBelow
  <2> QED BY <2>1, <2>2
<1> QED BY <1>1, <1>3, <1>4 DEF InOrder

\* A frame that is no message is sent.
LEMMA ControlInOrder ==
  ASSUME Shape, InOrder, NEW k \in {"welcome", "refusal", "ping", "close"},
         down' = Append(down, Control(k)), Settled \subseteq Settled', Done \subseteq Done',
         UNCHANGED <<device, disk, cut, cursor>>
  PROVE  InOrder'
<1>1. AllBelow(device'.lastId, Settled') /\ AllBelow(disk'.lastId, Settled')
  BY MoreDone DEF InOrder
<1>2. down \in Seq(Frames) /\ Ordered(down, Done)
  BY QueueIs DEF InOrder
<1>3. Control(k) \in Frames /\ \A m \in Kept : ~(m < Control(k).id)
  BY FramesOf, KeptAre DEF Control
<1>4. Ordered(down', Done) /\ \A c : Reached(down, Done, c) => Reached(down', Done, c)
  BY <1>2, <1>3, QueuedOrdered
<1>5. Ordered(down', Done') /\ \A c : Reached(down, Done, c) => Reached(down', Done', c)
  BY <1>4, MoreDone
<1> QED BY <1>1, <1>5 DEF InOrder

LEMMA InOrderStep == Shape /\ InOrder /\ [Next]_vars => InOrder'
<1>1. Shape /\ InOrder /\ GiveKeys => InOrder'
  <2> SUFFICES ASSUME Shape, InOrder, GiveKeys PROVE InOrder'
    OBVIOUS
  <2>1. Settled \subseteq Settled'
    BY StillSettled DEF GiveKeys, Handled
  <2>2. Done \subseteq Done'
    BY <2>1, StillDone DEF GiveKeys
  <2>3. UNCHANGED <<device, disk, down, cut, cursor>>
    BY DEF GiveKeys
  <2> QED BY <2>1, <2>2, <2>3, QuietInOrder
<1>2. Shape /\ InOrder /\ Decrypt => InOrder'
  <2> SUFFICES ASSUME Shape, InOrder, Decrypt PROVE InOrder'
    OBVIOUS
  <2>1. Settled \subseteq Settled'
    BY StillSettled DEF Decrypt, Handled
  <2>2. Done \subseteq Done'
    BY <2>1, StillDone DEF Decrypt
  <2>3. UNCHANGED <<device, disk, down, cut, cursor>>
    BY DEF Decrypt
  <2> QED BY <2>1, <2>2, <2>3, QuietInOrder
<1>3. Shape /\ InOrder /\ Reported => InOrder'
  <2> SUFFICES ASSUME Shape, InOrder, Reported PROVE InOrder'
    OBVIOUS
  <2>1. Settled \subseteq Settled'
    BY StillSettled DEF Reported, Handled
  <2>2. Done \subseteq Done'
    BY <2>1, StillDone DEF Reported
  <2>3. UNCHANGED <<device, disk, down, cut, cursor>>
    BY DEF Reported
  <2> QED BY <2>1, <2>2, <2>3, QuietInOrder
<1>4. Shape /\ InOrder /\ LoginRefused => InOrder'
  <2> SUFFICES ASSUME Shape, InOrder, LoginRefused PROVE InOrder'
    OBVIOUS
  <2>1. Settled \subseteq Settled'
    BY StillSettled DEF LoginRefused, Handled
  <2>2. HangUp /\ UNCHANGED <<device, disk>>
    BY DEF LoginRefused
  <2> QED BY <2>1, <2>2, HungUpInOrder
<1>5. Shape /\ InOrder /\ LoginFails => InOrder'
  <2> SUFFICES ASSUME Shape, InOrder, LoginFails PROVE InOrder'
    OBVIOUS
  <2>1. Settled \subseteq Settled'
    BY StillSettled DEF LoginFails, Handled
  <2>2. HangUp /\ UNCHANGED <<device, disk>>
    BY DEF LoginFails
  <2> QED BY <2>1, <2>2, HungUpInOrder
<1>6. Shape /\ InOrder /\ Exit => InOrder'
  <2> SUFFICES ASSUME Shape, InOrder, Exit PROVE InOrder'
    OBVIOUS
  <2>1. Settled \subseteq Settled'
    BY StillSettled DEF Exit, Handled
  <2>2. HangUp /\ UNCHANGED <<device, disk>>
    BY DEF Exit
  <2> QED BY <2>1, <2>2, HungUpInOrder
<1>7. Shape /\ InOrder /\ ServerAccepts => InOrder'
  <2> SUFFICES ASSUME Shape, InOrder, ServerAccepts PROVE InOrder'
    OBVIOUS
  <2>1. Settled \subseteq Settled'
    BY StillSettled DEF ServerAccepts, Handled
  <2>2. Done \subseteq Done'
    BY <2>1, StillDone DEF ServerAccepts
  <2>3. down' = Append(down, Control("welcome"))
    BY DEF ServerAccepts, Send
  <2>4. UNCHANGED <<device, disk, cut, cursor>>
    BY DEF ServerAccepts
  <2> QED BY <2>1, <2>2, <2>3, <2>4, ControlInOrder
<1>8. Shape /\ InOrder /\ ServerRefuses => InOrder'
  <2> SUFFICES ASSUME Shape, InOrder, ServerRefuses PROVE InOrder'
    OBVIOUS
  <2>1. Settled \subseteq Settled'
    BY StillSettled DEF ServerRefuses, Handled
  <2>2. Done \subseteq Done'
    BY <2>1, StillDone DEF ServerRefuses
  <2>3. down' = Append(down, Control("refusal"))
    BY DEF ServerRefuses, Send
  <2>4. UNCHANGED <<device, disk, cut, cursor>>
    BY DEF ServerRefuses
  <2> QED BY <2>1, <2>2, <2>3, <2>4, ControlInOrder
<1>9. Shape /\ InOrder /\ ServerPings => InOrder'
  <2> SUFFICES ASSUME Shape, InOrder, ServerPings PROVE InOrder'
    OBVIOUS
  <2>1. Settled \subseteq Settled'
    BY StillSettled DEF ServerPings, Handled
  <2>2. Done \subseteq Done'
    BY <2>1, StillDone DEF ServerPings
  <2>3. PICK k \in {"ping", "close"} : down' = Append(down, Control(k))
    BY DEF ServerPings, Send
  <2>4. UNCHANGED <<device, disk, cut, cursor>>
    BY DEF ServerPings
  <2> QED BY <2>1, <2>2, <2>3, <2>4, ControlInOrder
<1>10. Shape /\ InOrder /\ ConnectionDrops => InOrder'
  <2> SUFFICES ASSUME Shape, InOrder, ConnectionDrops PROVE InOrder'
    OBVIOUS
  <2>1. Settled \subseteq Settled'
    BY StillSettled DEF ConnectionDrops, Handled
  <2>2. Done \subseteq Done'
    BY <2>1, StillDone DEF ConnectionDrops
  <2>3. UNCHANGED <<device, disk>>
    BY DEF ConnectionDrops
  <2>4. CASE Break
    BY <2>1, <2>2, <2>3, <2>4, BrokenInOrder
  <2>5. CASE UNCHANGED <<cut, down, cursor>>
    BY <2>1, <2>2, <2>3, <2>5, QuietInOrder
  <2> QED BY <2>4, <2>5 DEF ConnectionDrops
<1>11. Shape /\ InOrder /\ Close => InOrder'
  <2> SUFFICES ASSUME Shape, InOrder, Close PROVE InOrder'
    OBVIOUS
  <2>1. Settled \subseteq Settled'
    BY StillSettled DEF Close, Handled
  <2>2. Done \subseteq Done'
    BY <2>1, StillDone DEF Close
  <2>3. UNCHANGED <<device, disk>>
    BY DEF Close
  <2>4. CASE Break
    BY <2>1, <2>2, <2>3, <2>4, BrokenInOrder
  <2>5. CASE UNCHANGED <<cut, down, cursor>>
    BY <2>1, <2>2, <2>3, <2>5, QuietInOrder
  <2> QED BY <2>4, <2>5 DEF Close
<1>12. Shape /\ InOrder /\ HandlerCloses => InOrder'
  <2> SUFFICES ASSUME Shape, InOrder, HandlerCloses PROVE InOrder'
    OBVIOUS
  <2>1. Settled \subseteq Settled'
    BY StillSettled DEF HandlerCloses, Handled
  <2>2. Done \subseteq Done'
    BY <2>1, StillDone DEF HandlerCloses, InHandler
  <2>3. UNCHANGED <<device, disk>>
    BY DEF HandlerCloses
  <2>4. CASE Break
    BY <2>1, <2>2, <2>3, <2>4, BrokenInOrder
  <2>5. CASE UNCHANGED <<cut, down, cursor>>
    BY <2>1, <2>2, <2>3, <2>5, QuietInOrder
  <2> QED BY <2>4, <2>5 DEF HandlerCloses
<1>13. Shape /\ InOrder /\ Crash => InOrder'
  BY DiedInOrder DEF Crash, Handled
<1>14. Shape /\ InOrder /\ PingAckFails => InOrder'
  BY DiedInOrder DEF PingAckFails, Handled
<1>15. Shape /\ InOrder /\ DecryptFails => InOrder'
  <2> SUFFICES ASSUME Shape, InOrder, DecryptFails PROVE InOrder'
    OBVIOUS
  <2>1. UNCHANGED <<disk, arrived, pending>> /\ Handled \subseteq Handled'
    BY DEF DecryptFails, Handled
  <2>2. CASE Die
    BY <2>1, <2>2, DiedInOrder
  <2>3. CASE ~Die
    <3>1. UNCHANGED <<device, down, cut, cursor>>
      BY <2>3 DEF DecryptFails, Reports
    <3>2. Settled \subseteq Settled'
      BY <2>1, StillSettled
    <3>3. InWork \subseteq Handled' \cup InWork'
      BY <2>3 DEF DecryptFails, InWork, Handled
    <3>4. Done \subseteq Done'
      BY <3>2, <3>3 DEF Done, Settled
    <3> QED BY <2>1, <3>1, <3>2, <3>4, QuietInOrder
  <2> QED BY <2>2, <2>3
<1>16. Shape /\ InOrder /\ Notified => InOrder'
  <2> SUFFICES ASSUME Shape, InOrder, Notified PROVE InOrder'
    OBVIOUS
  <2>1. UNCHANGED <<disk, arrived, pending>> /\ Handled \subseteq Handled'
    BY DEF Notified, Handled
  <2>2. CASE Die
    BY <2>1, <2>2, DiedInOrder
  <2>3. CASE ~Die
    <3>1. UNCHANGED <<device, down, cut, cursor>>
      BY <2>3 DEF Notified, Reports
    <3>2. Settled \subseteq Settled'
      BY <2>1, StillSettled
    <3>3. InWork \subseteq Handled' \cup InWork'
      BY <2>3 DEF Notified, InWork, Handled
    <3>4. Done \subseteq Done'
      BY <3>2, <3>3 DEF Done, Settled
    <3> QED BY <2>1, <3>1, <3>2, <3>4, QuietInOrder
  <2> QED BY <2>2, <2>3
<1>17. Shape /\ InOrder /\ ReadFails => InOrder'
  <2> SUFFICES ASSUME Shape, InOrder, ReadFails PROVE InOrder'
    OBVIOUS
  <2>1. UNCHANGED <<disk, arrived, pending>> /\ Handled \subseteq Handled'
    BY DEF ReadFails, Handled
  <2>2. CASE Die
    BY <2>1, <2>2, DiedInOrder
  <2>3. CASE ~Die
    <3>1. UNCHANGED <<device, down, cut, cursor>>
      BY <2>3 DEF ReadFails, Reports
    <3>2. Settled \subseteq Settled'
      BY <2>1, StillSettled
    <3>3. InWork \subseteq Handled' \cup InWork'
      BY <2>3 DEF ReadFails, InWork, Handled
    <3>4. Done \subseteq Done'
      BY <3>2, <3>3 DEF Done, Settled
    <3> QED BY <2>1, <3>1, <3>2, <3>4, QuietInOrder
  <2> QED BY <2>2, <2>3
<1>18. Shape /\ InOrder /\ LoginSucceeds => InOrder'
  <2> SUFFICES ASSUME Shape, InOrder, LoginSucceeds PROVE InOrder'
    OBVIOUS
  <2>1. Settled \subseteq Settled' /\ Done = Settled
    BY StillSettled DEF LoginSucceeds, Handled, Done, InWork
  <2>2. Done \subseteq Done'
    BY <2>1 DEF Done
  <2>3. down' = Tail(down) /\ down # <<>> /\ Head(down).kind = "welcome"
    BY DEF LoginSucceeds
  <2>4. UNCHANGED <<device, disk, cut, cursor>>
    BY DEF LoginSucceeds
  <2>5. Head(down).id \notin Kept
    BY <2>3, Rest, FrameShape, KeptAre, QueueIs
  <2> QED BY <2>1, <2>2, <2>3, <2>4, <2>5, ReadInOrder
<1>19. Shape /\ InOrder /\ ReceivePing => InOrder'
  <2> SUFFICES ASSUME Shape, InOrder, ReceivePing PROVE InOrder'
    OBVIOUS
  <2>1. Settled \subseteq Settled' /\ Done = Settled
    BY StillSettled DEF ReceivePing, Receive, Handled, Done, InWork
  <2>2. Done \subseteq Done'
    BY <2>1 DEF Done
  <2>3. down' = Tail(down) /\ down # <<>> /\ Head(down).kind = "ping"
    BY DEF ReceivePing, Receive
  <2>4. UNCHANGED <<device, disk, cut, cursor>>
    BY DEF ReceivePing, Receive
  <2>5. Head(down).id \notin Kept
    BY <2>3, Rest, FrameShape, KeptAre, QueueIs
  <2> QED BY <2>1, <2>2, <2>3, <2>4, <2>5, ReadInOrder
<1>20. Shape /\ InOrder /\ ReceiveClose => InOrder'
  <2> SUFFICES ASSUME Shape, InOrder, ReceiveClose PROVE InOrder'
    OBVIOUS
  <2>1. CASE fragile
    BY <2>1, DiedInOrder DEF ReceiveClose, Handled
  <2>2. CASE ~fragile
    <3>1. Settled \subseteq Settled' /\ Done = Settled
      BY <2>2, StillSettled DEF ReceiveClose, Receive, Handled, Done, InWork
    <3>2. Done \subseteq Done'
      BY <3>1 DEF Done
    <3>3. down' = Tail(down) /\ down # <<>> /\ Head(down).kind = "close"
      BY <2>2 DEF ReceiveClose, Receive
    <3>4. UNCHANGED <<device, disk, cut, cursor>>
      BY <2>2 DEF ReceiveClose, Receive
    <3>5. Head(down).id \notin Kept
      BY <3>3, Rest, FrameShape, KeptAre, QueueIs
    <3> QED BY <3>1, <3>2, <3>3, <3>4, <3>5, ReadInOrder
  <2> QED BY <2>1, <2>2
<1>21. Shape /\ InOrder /\ ReceiveData => InOrder'
  <2> SUFFICES ASSUME Shape, InOrder, ReceiveData PROVE InOrder'
    OBVIOUS
  <2>1. pc = "reading" /\ pc' = "decode" /\ current' = Head(down).id
    BY DEF ReceiveData, Receive
  <2>2. Settled \subseteq Settled'
    BY StillSettled DEF ReceiveData, Handled
  <2>3. Done = Settled /\ Done \subseteq Done' /\ Head(down).id \in Done'
    BY <2>1, <2>2 DEF Done, InWork
  <2>4. down # <<>> /\ down' = Tail(down) /\ UNCHANGED <<disk, cut, cursor>>
    BY DEF ReceiveData, Receive
  <2>5. device'.lastId \in {device.lastId, Head(down).id}
    BY <2>1 DEF ReceiveData, Shape, TypeOK, KeysOK, Devices
  <2> QED BY <2>2, <2>3, <2>4, <2>5, ReadInOrder
<1>22. Shape /\ InOrder /\ Start => InOrder'
  <2> SUFFICES ASSUME Shape, InOrder, Start PROVE InOrder'
    OBVIOUS
  <2>1. Settled \subseteq Settled'
    BY StillSettled DEF Start, Handled
  <2>2. Done \subseteq Done'
    BY <2>1, StillDone DEF Start
  <2>3. UNCHANGED <<disk, down, cut, cursor>> /\ device'.lastId = disk.lastId
    BY DEF Start
  <2> QED BY <2>1, <2>2, <2>3, MoreDone DEF InOrder
<1>23. Shape /\ InOrder /\ Save => InOrder'
  <2> SUFFICES ASSUME Shape, InOrder, Save PROVE InOrder'
    OBVIOUS
  <2>1. Settled \subseteq Settled'
    BY StillSettled DEF Save, Handled
  <2>2. Done \subseteq Done'
    BY <2>1, StillDone DEF Save
  <2>3. UNCHANGED <<device, down, cut, cursor>> /\ disk' = device
    BY DEF Save
  <2> QED BY <2>1, <2>2, <2>3, MoreDone DEF InOrder
<1>24. Shape /\ InOrder /\ Arrive => InOrder'
  <2> SUFFICES ASSUME Shape, InOrder, Arrive PROVE InOrder'
    OBVIOUS
  <2>1. UNCHANGED <<device, disk, down, cut, cursor, pc, current, delivered, dropped>>
    BY DEF Arrive
  <2>2. arrived' = arrived + 1 /\ pending' = pending \cup {arrived + 1} /\ arrived \in Nat
    BY MessagesAre DEF Arrive, Shape, TypeOK, LedgersOK
  <2>3. Settled \subseteq Settled'
    BY <2>1, <2>2, KeptAre DEF Settled, Gone, Handled
  <2>4. Done \subseteq Done'
    BY <2>1, <2>3, StillDone
  <2> QED BY <2>1, <2>3, <2>4, QuietInOrder
<1>25. Shape /\ InOrder /\ ServerHearsLogin => InOrder'
  <2> SUFFICES ASSUME Shape, InOrder, ServerHearsLogin PROVE InOrder'
    OBVIOUS
  <2>1. UNCHANGED <<device, disk, down, cut, cursor, arrived, pc, current, delivered, dropped>>
    BY DEF ServerHearsLogin
  <2>2. pending' \subseteq pending
    BY DEF ServerHearsLogin, Unacknowledged
  <2>3. Settled \subseteq Settled'
    BY <2>1, <2>2 DEF Settled, Gone, Handled
  <2>4. Done \subseteq Done'
    BY <2>1, <2>3, StillDone
  <2> QED BY <2>1, <2>3, <2>4, QuietInOrder
<1>26. Shape /\ InOrder /\ ServerSends => InOrder'
  <2> SUFFICES ASSUME Shape, InOrder, ServerSends PROVE InOrder'
    OBVIOUS
  <2>1. UNCHANGED <<device, disk, cut, arrived, delivered, dropped, pc, current>> /\ ~cut
    BY DEF ServerSends
  <2>2. PICK m \in pending :
          /\ m > cursor /\ \A n \in pending : n > cursor => m <= n
          /\ cursor' = m /\ down' = Append(down, Data(m))
          /\ pending' \subseteq pending
    BY DEF ServerSends, Send
  <2>3. m \in Messages /\ m \in Nat /\ cursor \in Nat /\ arrived \in Nat /\ m <= arrived
    BY <2>2, MessagesAre DEF Shape, Positions, OnlyArrived, TypeOK, ConnectionOK, LedgersOK
  <2>4. Data(m) \in Frames /\ Data(m).id = m
    BY <2>3, FramesOf DEF Data
  <2>5. Settled \subseteq Settled'
    BY <2>1, <2>2 DEF Settled, Gone, Handled
  <2>6. Done \subseteq Done'
    BY <2>1, <2>5, StillDone
  <2>7. \A n \in Kept : n < m => n \in Done \/ \E j \in 1..Len(down) : down[j].id = n
    <3> SUFFICES ASSUME NEW n \in Kept, n < m, n \notin Done
                 PROVE  \E j \in 1..Len(down) : down[j].id = n
      OBVIOUS
    <3>1. n \in Nat /\ n <= arrived
      BY <2>3, KeptAre
    <3>2. n \in pending
      BY <3>1 DEF Done, Settled, Gone
    <3>3. n <= cursor
      BY <2>2, <2>3, <3>1, <3>2
    <3> QED BY <2>1, <3>3 DEF InOrder, Reached
  <2>8. down \in Seq(Frames) /\ Ordered(down, Done)
    BY QueueIs DEF InOrder
  <2>9. Ordered(down', Done)
    BY <2>2, <2>4, <2>7, <2>8, QueuedOrdered
  <2>10. Reached(down', Done, cursor')
    <3>1. /\ Len(down) \in Nat /\ Len(down') = Len(down) + 1
          /\ \A i \in 1..Len(down) : down'[i] = down[i]
          /\ down'[Len(down) + 1].id = m
      BY <2>2, <2>4, <2>8, Queued
    <3> SUFFICES ASSUME NEW n \in Kept, n <= m, n \notin Done
                 PROVE  \E j \in 1..Len(down') : down'[j].id = n
      BY <2>2 DEF Reached
    <3>2. CASE n = m
      BY <3>1, <3>2
    <3>3. CASE n < m
      <4>1. PICK j \in 1..Len(down) : down[j].id = n
        BY <2>7, <3>3
      <4> QED BY <3>1, <4>1
    <3> QED BY <2>3, <3>2, <3>3, KeptAre
  <2>11. Ordered(down', Done') /\ Reached(down', Done', cursor')
    BY <2>6, <2>9, <2>10, MoreDone
  <2>12. AllBelow(device'.lastId, Settled') /\ AllBelow(disk'.lastId, Settled')
    BY <2>1, <2>5, MoreDone DEF InOrder
  <2> QED BY <2>11, <2>12 DEF InOrder
<1>27. Shape /\ InOrder /\ Connect => InOrder'
  <2> SUFFICES ASSUME Shape, InOrder, Connect PROVE InOrder'
    OBVIOUS
  <2>1. pc = "idle" /\ pc' = "login"
    BY DEF Connect, InHandler, Shape, Positions, LoopIsConnected
  <2>2. cursor' = 0 /\ down' = <<>>
    BY <2>1 DEF Connect, Shape, Positions, Resting
  <2>3. UNCHANGED <<device, disk>> /\ Settled \subseteq Settled'
    BY StillSettled DEF Connect, Handled
  <2>4. Ordered(down', Done') /\ Reached(down', Done', cursor')
    BY <2>2, EmptyOrdered
  <2> QED BY <2>3, <2>4, MoreDone DEF InOrder
<1>28. Shape /\ InOrder /\ UNCHANGED vars => InOrder'
  <2> SUFFICES ASSUME InOrder, UNCHANGED vars PROVE InOrder'
    OBVIOUS
  <2>1. Settled \subseteq Settled'
    BY StillSettled DEF vars, Handled
  <2>2. Done \subseteq Done'
    BY <2>1, StillDone DEF vars
  <2> QED BY <2>1, <2>2, QuietInOrder DEF vars
<1> QED
  BY <1>1, <1>2, <1>3, <1>4, <1>5, <1>6, <1>7, <1>8, <1>9, <1>10, <1>11,
     <1>12, <1>13, <1>14, <1>15, <1>16, <1>17, <1>18, <1>19, <1>20, <1>21,
     <1>22, <1>23, <1>24, <1>25, <1>26, <1>27, <1>28 DEF Next, Loop,
     Application, Server

-----------------------------------------------------------------------------
(* Every step keeps messages alive until they are handled. *)

LEMMA IdsOf ==
  ASSUME NEW s \in Seq(Frames)
  PROVE  /\ Ids(<<>>) = {}
         /\ s # <<>> => Ids(Tail(s)) \subseteq Ids(s) /\ Head(s).id \in Ids(s)
         /\ \A n \in 0..Len(s) : Ids(SubSeq(s, 1, n)) \subseteq Ids(s)
         /\ \A f \in Frames : Ids(Append(s, f)) \subseteq Ids(s) \cup {f.id}
<1>1. Ids(<<>>) = {}
  BY DEF Ids
<1>2. ASSUME s # <<>> PROVE Ids(Tail(s)) \subseteq Ids(s) /\ Head(s).id \in Ids(s)
  BY <1>2, Rest DEF Ids
<1>3. ASSUME NEW n \in 0..Len(s) PROVE Ids(SubSeq(s, 1, n)) \subseteq Ids(s)
  <2>1. n \in Nat /\ Len(s) \in Nat /\ n <= Len(s)
    OBVIOUS
  <2> QED BY <2>1, Prefix DEF Ids
<1>4. ASSUME NEW f \in Frames PROVE Ids(Append(s, f)) \subseteq Ids(s) \cup {f.id}
  <2> SUFFICES ASSUME NEW i \in 1..Len(Append(s, f)) PROVE Append(s, f)[i].id \in Ids(s) \cup {f.id}
    BY DEF Ids
  <2>1. i \in 1..Len(s) \/ i = Len(s) + 1
    BY Queued
  <2> QED BY <2>1, Queued DEF Ids
<1> QED BY <1>1, <1>2, <1>3, <1>4

\* Where a message can go that is not the answer to a login.
LEMMA AliveFrom ==
  ASSUME Deliverable, Ids(down') \subseteq Ids(down) \cup pending,
         InWork' \subseteq InWork \cup Ids(down),
         pending \cap Kept \subseteq pending', Handled \subseteq Handled',
         Handled' \subseteq 1..arrived'
  PROVE  Deliverable'
  BY DEF Deliverable, Alive

LEMMA HandledArrived ==
  ASSUME Shape, Deliverable, arrived' = arrived, pc \in Window,
         Handled' \subseteq Handled \cup {current}
  PROVE  Handled' \subseteq 1..arrived'
<1>1. current \in 1..arrived
  BY MessagesAre DEF Shape, Positions, OnlyArrived, TypeOK, ProcessOK, LedgersOK
<1> QED BY <1>1 DEF Deliverable

LEMMA IdleHandsStep == IdleHands /\ [Next]_vars => IdleHands'
<1>1. IdleHands /\ Start => IdleHands'
  BY DEF Start, IdleHands
<1>2. IdleHands /\ Crash => IdleHands'
  BY DEF Crash, Die, IdleHands
<1>3. IdleHands /\ PingAckFails => IdleHands'
  BY DEF PingAckFails, Die, IdleHands
<1>4. IdleHands /\ Connect => IdleHands'
  BY DEF Connect, IdleHands
<1>5. IdleHands /\ LoginSucceeds => IdleHands'
  BY DEF LoginSucceeds, IdleHands
<1>6. IdleHands /\ LoginRefused => IdleHands'
  BY DEF LoginRefused, IdleHands
<1>7. IdleHands /\ LoginFails => IdleHands'
  BY DEF LoginFails, IdleHands
<1>8. IdleHands /\ HandlerCloses => IdleHands'
  BY DEF HandlerCloses, IdleHands
<1>9. IdleHands /\ ReceivePing => IdleHands'
  BY DEF ReceivePing, Onward, IdleHands
<1>10. IdleHands /\ ReceiveClose => IdleHands'
  BY DEF ReceiveClose, Onward, Die, IdleHands
<1>11. IdleHands /\ ReceiveData => IdleHands'
  BY DEF ReceiveData, IdleHands
<1>12. IdleHands /\ Decrypt => IdleHands'
  BY DEF Decrypt, IdleHands
<1>13. IdleHands /\ DecryptFails => IdleHands'
  BY DEF DecryptFails, Reports, Onward, Die, IdleHands
<1>14. IdleHands /\ Notified => IdleHands'
  BY DEF Notified, Reports, Onward, Die, IdleHands
<1>15. IdleHands /\ ReadFails => IdleHands'
  BY DEF ReadFails, Reports, Die, IdleHands
<1>16. IdleHands /\ Reported => IdleHands'
  BY DEF Reported, IdleHands
<1>17. IdleHands /\ Exit => IdleHands'
  BY DEF Exit, IdleHands
<1>18. IdleHands /\ (Save \/ GiveKeys \/ Arrive \/ ServerHearsLogin \/
      ServerAccepts \/ ServerRefuses \/ ServerPings \/ ServerSends \/
      ConnectionDrops \/ Close) => IdleHands'
  BY DEF Save, GiveKeys, Arrive, ServerHearsLogin, ServerAccepts,
     ServerRefuses, ServerPings, ServerSends, ConnectionDrops, Close, Send,
     Break, IdleHands
<1>19. IdleHands /\ UNCHANGED vars => IdleHands'
  BY DEF vars, IdleHands
<1> QED
  BY <1>1, <1>2, <1>3, <1>4, <1>5, <1>6, <1>7, <1>8, <1>9, <1>10, <1>11,
     <1>12, <1>13, <1>14, <1>15, <1>16, <1>17, <1>18, <1>19 DEF Next, Loop,
     Application, Server

LEMMA DeliverableStep == Shape /\ IdleHands /\ Deliverable /\ [Next]_vars => Deliverable'
<1>1. Shape /\ IdleHands /\ Deliverable /\ Start => Deliverable'
  <2> SUFFICES ASSUME Shape, IdleHands, Deliverable, Start PROVE Deliverable'
    OBVIOUS
  <2>1. Ids(down') \subseteq Ids(down) \cup pending
    BY DEF Start, Ids
  <2>2. InWork' \subseteq InWork \cup Ids(down)
    BY DEF Start, InWork
  <2>3. UNCHANGED pending
    BY DEF Start
  <2>4. Handled' = Handled /\ Handled' \subseteq 1..arrived'
    BY DEF Start, Handled, Deliverable
  <2> QED BY <2>1, <2>2, <2>3, <2>4, AliveFrom
<1>2. Shape /\ IdleHands /\ Deliverable /\ GiveKeys => Deliverable'
  <2> SUFFICES ASSUME Shape, IdleHands, Deliverable, GiveKeys PROVE Deliverable'
    OBVIOUS
  <2>1. Ids(down') \subseteq Ids(down) \cup pending
    BY DEF GiveKeys, Ids
  <2>2. InWork' \subseteq InWork \cup Ids(down)
    BY DEF GiveKeys, InWork
  <2>3. UNCHANGED pending
    BY DEF GiveKeys
  <2>4. Handled' = Handled /\ Handled' \subseteq 1..arrived'
    BY DEF GiveKeys, Handled, Deliverable
  <2> QED BY <2>1, <2>2, <2>3, <2>4, AliveFrom
<1>3. Shape /\ IdleHands /\ Deliverable /\ Save => Deliverable'
  <2> SUFFICES ASSUME Shape, IdleHands, Deliverable, Save PROVE Deliverable'
    OBVIOUS
  <2>1. Ids(down') \subseteq Ids(down) \cup pending
    BY DEF Save, Ids
  <2>2. InWork' \subseteq InWork \cup Ids(down)
    BY DEF Save, InWork
  <2>3. UNCHANGED pending
    BY DEF Save
  <2>4. Handled' = Handled /\ Handled' \subseteq 1..arrived'
    BY DEF Save, Handled, Deliverable
  <2> QED BY <2>1, <2>2, <2>3, <2>4, AliveFrom
<1>4. Shape /\ IdleHands /\ Deliverable /\ Decrypt => Deliverable'
  <2> SUFFICES ASSUME Shape, IdleHands, Deliverable, Decrypt PROVE Deliverable'
    OBVIOUS
  <2>1. Ids(down') \subseteq Ids(down) \cup pending
    BY DEF Decrypt, Ids
  <2>2. InWork' \subseteq InWork \cup Ids(down)
    BY DEF Decrypt, InWork
  <2>3. UNCHANGED pending
    BY DEF Decrypt
  <2>4. Handled' = Handled /\ Handled' \subseteq 1..arrived'
    BY DEF Decrypt, Handled, Deliverable
  <2> QED BY <2>1, <2>2, <2>3, <2>4, AliveFrom
<1>5. Shape /\ IdleHands /\ Deliverable /\ Reported => Deliverable'
  <2> SUFFICES ASSUME Shape, IdleHands, Deliverable, Reported PROVE Deliverable'
    OBVIOUS
  <2>1. Ids(down') \subseteq Ids(down) \cup pending
    BY DEF Reported, Ids
  <2>2. InWork' \subseteq InWork \cup Ids(down)
    BY DEF Reported, InWork
  <2>3. UNCHANGED pending
    BY DEF Reported
  <2>4. Handled' = Handled /\ Handled' \subseteq 1..arrived'
    BY DEF Reported, Handled, Deliverable
  <2> QED BY <2>1, <2>2, <2>3, <2>4, AliveFrom
<1>6. Shape /\ IdleHands /\ Deliverable /\ LoginRefused => Deliverable'
  <2> SUFFICES ASSUME Shape, IdleHands, Deliverable, LoginRefused PROVE Deliverable'
    OBVIOUS
  <2>1. Ids(down') \subseteq Ids(down) \cup pending
    BY NothingLeft, QueueIs, IdsOf DEF LoginRefused
  <2>2. InWork' \subseteq InWork \cup Ids(down)
    BY DEF LoginRefused, InWork
  <2>3. UNCHANGED pending
    BY DEF LoginRefused
  <2>4. Handled' = Handled /\ Handled' \subseteq 1..arrived'
    BY DEF LoginRefused, Handled, Deliverable
  <2> QED BY <2>1, <2>2, <2>3, <2>4, AliveFrom
<1>7. Shape /\ IdleHands /\ Deliverable /\ LoginFails => Deliverable'
  <2> SUFFICES ASSUME Shape, IdleHands, Deliverable, LoginFails PROVE Deliverable'
    OBVIOUS
  <2>1. Ids(down') \subseteq Ids(down) \cup pending
    BY NothingLeft, QueueIs, IdsOf DEF LoginFails
  <2>2. InWork' \subseteq InWork \cup Ids(down)
    BY DEF LoginFails, InWork
  <2>3. UNCHANGED pending
    BY DEF LoginFails
  <2>4. Handled' = Handled /\ Handled' \subseteq 1..arrived'
    BY DEF LoginFails, Handled, Deliverable
  <2> QED BY <2>1, <2>2, <2>3, <2>4, AliveFrom
<1>8. Shape /\ IdleHands /\ Deliverable /\ Exit => Deliverable'
  <2> SUFFICES ASSUME Shape, IdleHands, Deliverable, Exit PROVE Deliverable'
    OBVIOUS
  <2>1. Ids(down') \subseteq Ids(down) \cup pending
    BY NothingLeft, QueueIs, IdsOf DEF Exit
  <2>2. InWork' \subseteq InWork \cup Ids(down)
    BY DEF Exit, InWork
  <2>3. UNCHANGED pending
    BY DEF Exit
  <2>4. Handled' = Handled /\ Handled' \subseteq 1..arrived'
    BY DEF Exit, Handled, Deliverable
  <2> QED BY <2>1, <2>2, <2>3, <2>4, AliveFrom
<1>9. Shape /\ IdleHands /\ Deliverable /\ Crash => Deliverable'
  <2> SUFFICES ASSUME Shape, IdleHands, Deliverable, Crash PROVE Deliverable'
    OBVIOUS
  <2>1. Ids(down') \subseteq Ids(down) \cup pending
    BY NothingLeft, QueueIs, IdsOf DEF Crash, Die
  <2>2. InWork' \subseteq InWork \cup Ids(down)
    BY DEF Crash, Die, InWork
  <2>3. UNCHANGED pending
    BY DEF Crash
  <2>4. Handled' = Handled /\ Handled' \subseteq 1..arrived'
    BY DEF Crash, Handled, Deliverable
  <2> QED BY <2>1, <2>2, <2>3, <2>4, AliveFrom
<1>10. Shape /\ IdleHands /\ Deliverable /\ PingAckFails => Deliverable'
  <2> SUFFICES ASSUME Shape, IdleHands, Deliverable, PingAckFails PROVE Deliverable'
    OBVIOUS
  <2>1. Ids(down') \subseteq Ids(down) \cup pending
    BY NothingLeft, QueueIs, IdsOf DEF PingAckFails, Die
  <2>2. InWork' \subseteq InWork \cup Ids(down)
    BY DEF PingAckFails, Die, InWork
  <2>3. UNCHANGED pending
    BY DEF PingAckFails
  <2>4. Handled' = Handled /\ Handled' \subseteq 1..arrived'
    BY DEF PingAckFails, Handled, Deliverable
  <2> QED BY <2>1, <2>2, <2>3, <2>4, AliveFrom
<1>11. Shape /\ IdleHands /\ Deliverable /\ Connect => Deliverable'
  <2> SUFFICES ASSUME Shape, IdleHands, Deliverable, Connect PROVE Deliverable'
    OBVIOUS
  <2>1. Ids(down') \subseteq Ids(down) \cup pending
    BY QueueIs, IdsOf DEF Connect
  <2>2. InWork' \subseteq InWork \cup Ids(down)
    BY DEF Connect, InWork
  <2>3. UNCHANGED pending
    BY DEF Connect
  <2>4. Handled' = Handled /\ Handled' \subseteq 1..arrived'
    BY DEF Connect, Handled, Deliverable
  <2> QED BY <2>1, <2>2, <2>3, <2>4, AliveFrom
<1>12. Shape /\ IdleHands /\ Deliverable /\ ConnectionDrops => Deliverable'
  <2> SUFFICES ASSUME Shape, IdleHands, Deliverable, ConnectionDrops PROVE Deliverable'
    OBVIOUS
  <2>1. Ids(down') \subseteq Ids(down) \cup pending
    BY QueueIs, IdsOf DEF ConnectionDrops, Break
  <2>2. InWork' \subseteq InWork \cup Ids(down)
    BY DEF ConnectionDrops, InWork
  <2>3. UNCHANGED pending
    BY DEF ConnectionDrops
  <2>4. Handled' = Handled /\ Handled' \subseteq 1..arrived'
    BY DEF ConnectionDrops, Handled, Deliverable
  <2> QED BY <2>1, <2>2, <2>3, <2>4, AliveFrom
<1>13. Shape /\ IdleHands /\ Deliverable /\ Close => Deliverable'
  <2> SUFFICES ASSUME Shape, IdleHands, Deliverable, Close PROVE Deliverable'
    OBVIOUS
  <2>1. Ids(down') \subseteq Ids(down) \cup pending
    BY QueueIs, IdsOf DEF Close, Break
  <2>2. InWork' \subseteq InWork \cup Ids(down)
    BY DEF Close, InWork
  <2>3. UNCHANGED pending
    BY DEF Close
  <2>4. Handled' = Handled /\ Handled' \subseteq 1..arrived'
    BY DEF Close, Handled, Deliverable
  <2> QED BY <2>1, <2>2, <2>3, <2>4, AliveFrom
<1>14. Shape /\ IdleHands /\ Deliverable /\ HandlerCloses => Deliverable'
  <2> SUFFICES ASSUME Shape, IdleHands, Deliverable, HandlerCloses PROVE Deliverable'
    OBVIOUS
  <2>1. Ids(down') \subseteq Ids(down)
    BY QueueIs, IdsOf DEF HandlerCloses, Break
  <2>2. UNCHANGED <<pending, arrived, delivered, dropped, current>>
    BY DEF HandlerCloses
  <2>3. CASE pc = "notify"
    <3>1. InWork' = InWork
      BY <2>2, <2>3 DEF HandlerCloses, InWork
    <3> QED BY <2>1, <2>2, <3>1, AliveFrom DEF Handled, Deliverable
  <2>4. CASE pc = "failing"
    <3>1. InWork' = {0}
      BY <2>2, <2>4 DEF HandlerCloses, InWork, IdleHands
    <3> QED BY <2>1, <2>2, <3>1, KeptAre DEF Handled, Deliverable, Alive
  <2> QED BY <2>3, <2>4 DEF HandlerCloses, InHandler
<1>15. Shape /\ IdleHands /\ Deliverable /\ LoginSucceeds => Deliverable'
  <2> SUFFICES ASSUME Shape, IdleHands, Deliverable, LoginSucceeds PROVE Deliverable'
    OBVIOUS
  <2>1. Ids(down') \subseteq Ids(down) \cup pending
    BY QueueIs, IdsOf DEF LoginSucceeds, Receive
  <2>2. InWork' \subseteq InWork \cup Ids(down)
    BY DEF LoginSucceeds, Onward, InWork
  <2>3. UNCHANGED pending
    BY DEF LoginSucceeds
  <2>4. Handled' = Handled /\ Handled' \subseteq 1..arrived'
    BY DEF LoginSucceeds, Handled, Deliverable
  <2> QED BY <2>1, <2>2, <2>3, <2>4, AliveFrom
<1>16. Shape /\ IdleHands /\ Deliverable /\ ReceivePing => Deliverable'
  <2> SUFFICES ASSUME Shape, IdleHands, Deliverable, ReceivePing PROVE Deliverable'
    OBVIOUS
  <2>1. Ids(down') \subseteq Ids(down) \cup pending
    BY QueueIs, IdsOf DEF ReceivePing, Receive
  <2>2. InWork' \subseteq InWork \cup Ids(down)
    BY DEF ReceivePing, Onward, InWork
  <2>3. UNCHANGED pending
    BY DEF ReceivePing
  <2>4. Handled' = Handled /\ Handled' \subseteq 1..arrived'
    BY DEF ReceivePing, Handled, Deliverable
  <2> QED BY <2>1, <2>2, <2>3, <2>4, AliveFrom
<1>17. Shape /\ IdleHands /\ Deliverable /\ ReceiveData => Deliverable'
  <2> SUFFICES ASSUME Shape, IdleHands, Deliverable, ReceiveData PROVE Deliverable'
    OBVIOUS
  <2>1. Ids(down') \subseteq Ids(down) \cup pending
    BY QueueIs, IdsOf DEF ReceiveData, Receive
  <2>2. InWork' \subseteq InWork \cup Ids(down)
    BY QueueIs, IdsOf DEF ReceiveData, Receive, InWork
  <2>3. UNCHANGED pending
    BY DEF ReceiveData
  <2>4. Handled' = Handled /\ Handled' \subseteq 1..arrived'
    BY DEF ReceiveData, Handled, Deliverable
  <2> QED BY <2>1, <2>2, <2>3, <2>4, AliveFrom
<1>18. Shape /\ IdleHands /\ Deliverable /\ ReceiveClose => Deliverable'
  <2> SUFFICES ASSUME Shape, IdleHands, Deliverable, ReceiveClose PROVE Deliverable'
    OBVIOUS
  <2>1. Ids(down') \subseteq Ids(down) \cup pending
    <3>1. CASE fragile
      BY <3>1, NothingLeft, QueueIs, IdsOf DEF ReceiveClose, Die
    <3>2. CASE ~fragile
      BY <3>2, QueueIs, IdsOf DEF ReceiveClose, Receive
    <3> QED BY <3>1, <3>2
  <2>2. InWork' \subseteq InWork \cup Ids(down)
    BY DEF ReceiveClose, Receive, Onward, Die, InWork
  <2>3. UNCHANGED pending
    BY DEF ReceiveClose
  <2>4. Handled' = Handled /\ Handled' \subseteq 1..arrived'
    BY DEF ReceiveClose, Handled, Deliverable
  <2> QED BY <2>1, <2>2, <2>3, <2>4, AliveFrom
<1>19. Shape /\ IdleHands /\ Deliverable /\ ServerAccepts => Deliverable'
  <2> SUFFICES ASSUME Shape, IdleHands, Deliverable, ServerAccepts PROVE Deliverable'
    OBVIOUS
  <2>1. PICK f \in Frames : down' = Append(down, f) /\ f.id = 0
    BY FramesOf DEF ServerAccepts, Send, Control
  <2>2. Ids(down') \subseteq Ids(down) \cup {0}
    BY <2>1, QueueIs, IdsOf
  <2>3. UNCHANGED <<pending, arrived, delivered, dropped, pc, current>>
    BY DEF ServerAccepts
  <2> QED BY <2>2, <2>3, KeptAre DEF Deliverable, Alive, Handled, InWork
<1>20. Shape /\ IdleHands /\ Deliverable /\ ServerRefuses => Deliverable'
  <2> SUFFICES ASSUME Shape, IdleHands, Deliverable, ServerRefuses PROVE Deliverable'
    OBVIOUS
  <2>1. PICK f \in Frames : down' = Append(down, f) /\ f.id = 0
    BY FramesOf DEF ServerRefuses, Send, Control
  <2>2. Ids(down') \subseteq Ids(down) \cup {0}
    BY <2>1, QueueIs, IdsOf
  <2>3. UNCHANGED <<pending, arrived, delivered, dropped, pc, current>>
    BY DEF ServerRefuses
  <2> QED BY <2>2, <2>3, KeptAre DEF Deliverable, Alive, Handled, InWork
<1>21. Shape /\ IdleHands /\ Deliverable /\ ServerPings => Deliverable'
  <2> SUFFICES ASSUME Shape, IdleHands, Deliverable, ServerPings PROVE Deliverable'
    OBVIOUS
  <2>1. PICK f \in Frames : down' = Append(down, f) /\ f.id = 0
    BY FramesOf DEF ServerPings, Send, Control
  <2>2. Ids(down') \subseteq Ids(down) \cup {0}
    BY <2>1, QueueIs, IdsOf
  <2>3. UNCHANGED <<pending, arrived, delivered, dropped, pc, current>>
    BY DEF ServerPings
  <2> QED BY <2>2, <2>3, KeptAre DEF Deliverable, Alive, Handled, InWork
<1>22. Shape /\ IdleHands /\ Deliverable /\ DecryptFails => Deliverable'
  <2> SUFFICES ASSUME Shape, IdleHands, Deliverable, DecryptFails PROVE Deliverable'
    OBVIOUS
  <2>1. Ids(down') \subseteq Ids(down) \cup pending
    <3>1. CASE Die
      BY <3>1, NothingLeft, QueueIs, IdsOf DEF Die
    <3>2. CASE ~Die
      BY <3>2 DEF DecryptFails, Reports, Ids
    <3> QED BY <3>1, <3>2
  <2>2. InWork' \subseteq InWork \cup Ids(down)
    BY DEF DecryptFails, Reports, Onward, Die, InWork
  <2>3. UNCHANGED <<pending, arrived>> /\ Handled \subseteq Handled'
    BY DEF DecryptFails, Handled
  <2>4. Handled' \subseteq 1..arrived'
    BY <2>3, HandledArrived DEF DecryptFails, Handled, Window
  <2> QED BY <2>1, <2>2, <2>3, <2>4, AliveFrom
<1>23. Shape /\ IdleHands /\ Deliverable /\ Notified => Deliverable'
  <2> SUFFICES ASSUME Shape, IdleHands, Deliverable, Notified PROVE Deliverable'
    OBVIOUS
  <2>1. Ids(down') \subseteq Ids(down) \cup pending
    <3>1. CASE Die
      BY <3>1, NothingLeft, QueueIs, IdsOf DEF Die
    <3>2. CASE ~Die
      BY <3>2 DEF Notified, Reports, Ids
    <3> QED BY <3>1, <3>2
  <2>2. InWork' \subseteq InWork \cup Ids(down)
    BY DEF Notified, Reports, Onward, Die, InWork
  <2>3. UNCHANGED <<pending, arrived>> /\ Handled \subseteq Handled'
    BY DEF Notified, Handled
  <2>4. Handled' \subseteq 1..arrived'
    BY <2>3, HandledArrived DEF Notified, Handled, Window
  <2> QED BY <2>1, <2>2, <2>3, <2>4, AliveFrom
<1>24. Shape /\ IdleHands /\ Deliverable /\ ReadFails => Deliverable'
  <2> SUFFICES ASSUME Shape, IdleHands, Deliverable, ReadFails PROVE Deliverable'
    OBVIOUS
  <2>1. Ids(down') \subseteq Ids(down) \cup pending
    <3>1. CASE Die
      BY <3>1, NothingLeft, QueueIs, IdsOf DEF Die
    <3>2. CASE ~Die
      BY <3>2 DEF ReadFails, Reports, Ids
    <3> QED BY <3>1, <3>2
  <2>2. InWork' \subseteq InWork \cup Ids(down)
    BY DEF ReadFails, Reports, Onward, Die, InWork
  <2>3. UNCHANGED <<pending, arrived>> /\ Handled \subseteq Handled'
    BY DEF ReadFails, Handled
  <2>4. Handled' \subseteq 1..arrived'
    BY <2>3 DEF ReadFails, Handled, Deliverable
  <2> QED BY <2>1, <2>2, <2>3, <2>4, AliveFrom
<1>25. Shape /\ IdleHands /\ Deliverable /\ Arrive => Deliverable'
  <2> SUFFICES ASSUME Shape, IdleHands, Deliverable, Arrive PROVE Deliverable'
    OBVIOUS
  <2>1. UNCHANGED <<down, pc, current, delivered, dropped>>
    BY DEF Arrive
  <2>2. arrived' = arrived + 1 /\ pending \subseteq pending' /\ arrived \in Nat
    BY MessagesAre DEF Arrive, Shape, TypeOK, LedgersOK
  <2> QED BY <2>1, <2>2 DEF Deliverable, Alive, Handled, InWork, Ids
<1>26. Shape /\ IdleHands /\ Deliverable /\ ServerHearsLogin => Deliverable'
  <2> SUFFICES ASSUME Shape, IdleHands, Deliverable, ServerHearsLogin PROVE Deliverable'
    OBVIOUS
  <2>1. pc = "login" /\ down = <<>>
    BY DEF ServerHearsLogin, Shape, Positions, LoginUnheard
  <2>2. UNCHANGED <<down, pc, arrived, delivered, dropped>>
    BY DEF ServerHearsLogin
  <2>3. Ids(down') = {} /\ InWork' = {}
    BY <2>1, <2>2, QueueIs, IdsOf DEF InWork
  <2> QED BY <2>2, <2>3 DEF Deliverable, Handled
<1>27. Shape /\ IdleHands /\ Deliverable /\ ServerSends => Deliverable'
  <2> SUFFICES ASSUME Shape, IdleHands, Deliverable, ServerSends PROVE Deliverable'
    OBVIOUS
  <2>1. PICK m \in pending :
          down' = Append(down, Data(m)) /\ pending' = IF m \in Ephemeral THEN pending \ {m} ELSE pending
    BY DEF ServerSends, Send
  <2>2. Data(m) \in Frames /\ Data(m).id = m
    BY <2>1, FramesOf DEF Data, Shape, TypeOK, LedgersOK
  <2>3. Ids(down') \subseteq Ids(down) \cup pending
    BY <2>1, <2>2, QueueIs, IdsOf
  <2>4. UNCHANGED <<pc, current, arrived, delivered, dropped>>
    BY DEF ServerSends
  <2>5. pending \cap Kept \subseteq pending'
    BY <2>1 DEF Kept
  <2>6. InWork' = InWork /\ Handled' = Handled
    BY <2>4 DEF InWork, Handled
  <2>7. Handled' \subseteq 1..arrived'
    BY <2>4, <2>6 DEF Deliverable
  <2> QED BY <2>3, <2>5, <2>6, <2>7, AliveFrom
<1>28. Shape /\ IdleHands /\ Deliverable /\ UNCHANGED vars => Deliverable'
  BY DEF vars, Deliverable, Alive, Handled, InWork, Ids
<1> QED
  BY <1>1, <1>2, <1>3, <1>4, <1>5, <1>6, <1>7, <1>8, <1>9, <1>10, <1>11,
     <1>12, <1>13, <1>14, <1>15, <1>16, <1>17, <1>18, <1>19, <1>20, <1>21,
     <1>22, <1>23, <1>24, <1>25, <1>26, <1>27, <1>28 DEF Next, Loop,
     Application, Server

-----------------------------------------------------------------------------
(* Every step of a careful application is safe. *)

LEMMA MoreHandled ==
  ASSUME NEW d, NEW e, d \subseteq e
  PROVE  \A c : AllHandled(c, d) => AllHandled(c, e)
  BY DEF AllHandled

LEMMA NoneHandled == \A d : AllHandled(0, d)
  BY KeptAre DEF AllHandled

\* A step that hands nothing over but the message in work.
LEMMA StillSafe ==
  ASSUME Safe, UNCHANGED <<careful, arrived, disk>>,
         \A m \in Kept : m \in pending => m \in pending',
         Handled \subseteq Handled',
         \/ device'.lastId = 0
         \/ device'.lastId = device.lastId /\ InWork \subseteq Handled' \cup InWork',
         careful => pc' # "stuck"
  PROVE  Safe'
<1> SUFFICES ASSUME careful PROVE Safe'
  BY DEF Safe
<1>1. NothingLost'
  BY DEF Safe, NothingLost
<1>2. AllHandled(disk'.lastId, Handled')
  BY MoreHandled DEF Safe
<1>3. AllHandled(device'.lastId, Handled' \cup InWork')
  <2>1. CASE device'.lastId = 0
    BY <2>1, NoneHandled
  <2>2. CASE device'.lastId = device.lastId /\ InWork \subseteq Handled' \cup InWork'
    <3>1. Handled \cup InWork \subseteq Handled' \cup InWork'
      BY <2>2
    <3> QED BY <2>2, <3>1, MoreHandled DEF Safe
  <2> QED BY <2>1, <2>2
<1> QED BY <1>1, <1>2, <1>3 DEF Safe

\* With a careful application what has gone from the server was handled.
LEMMA SettledHandled ==
  ASSUME Safe, careful
  PROVE  Settled = Handled
  BY DEF Safe, NothingLost, Settled, Gone

LEMMA SafeStep == Shape /\ InOrder /\ Safe /\ [Next]_vars => Safe'
<1>1. Shape /\ InOrder /\ Safe /\ GiveKeys => Safe'
  <2> SUFFICES ASSUME Shape, InOrder, Safe, GiveKeys PROVE Safe'
    OBVIOUS
  <2>1. UNCHANGED <<careful, arrived, disk, pending>>
    BY DEF GiveKeys
  <2>2. Handled \subseteq Handled'
    BY DEF GiveKeys, Handled
  <2>3. device'.lastId = device.lastId /\ InWork \subseteq Handled' \cup InWork'
    BY DEF GiveKeys, InWork, Handled
  <2>4. careful => pc' # "stuck"
    BY DEF GiveKeys, Safe
  <2> QED BY <2>1, <2>2, <2>3, <2>4, StillSafe
<1>2. Shape /\ InOrder /\ Safe /\ Decrypt => Safe'
  <2> SUFFICES ASSUME Shape, InOrder, Safe, Decrypt PROVE Safe'
    OBVIOUS
  <2>1. UNCHANGED <<careful, arrived, disk, pending>>
    BY DEF Decrypt
  <2>2. Handled \subseteq Handled'
    BY DEF Decrypt, Handled
  <2>3. device'.lastId = device.lastId /\ InWork \subseteq Handled' \cup InWork'
    BY DEF Decrypt, InWork, Handled
  <2>4. careful => pc' # "stuck"
    BY DEF Decrypt, Safe
  <2> QED BY <2>1, <2>2, <2>3, <2>4, StillSafe
<1>3. Shape /\ InOrder /\ Safe /\ Reported => Safe'
  <2> SUFFICES ASSUME Shape, InOrder, Safe, Reported PROVE Safe'
    OBVIOUS
  <2>1. UNCHANGED <<careful, arrived, disk, pending>>
    BY DEF Reported
  <2>2. Handled \subseteq Handled'
    BY DEF Reported, Handled
  <2>3. device'.lastId = device.lastId /\ InWork \subseteq Handled' \cup InWork'
    BY DEF Reported, InWork, Handled
  <2>4. careful => pc' # "stuck"
    BY DEF Reported, Safe
  <2> QED BY <2>1, <2>2, <2>3, <2>4, StillSafe
<1>4. Shape /\ InOrder /\ Safe /\ LoginRefused => Safe'
  <2> SUFFICES ASSUME Shape, InOrder, Safe, LoginRefused PROVE Safe'
    OBVIOUS
  <2>1. UNCHANGED <<careful, arrived, disk, pending>>
    BY DEF LoginRefused
  <2>2. Handled \subseteq Handled'
    BY DEF LoginRefused, Handled
  <2>3. device'.lastId = device.lastId /\ InWork \subseteq Handled' \cup InWork'
    BY DEF LoginRefused, InWork, Handled
  <2>4. careful => pc' # "stuck"
    BY DEF LoginRefused, Safe
  <2> QED BY <2>1, <2>2, <2>3, <2>4, StillSafe
<1>5. Shape /\ InOrder /\ Safe /\ LoginFails => Safe'
  <2> SUFFICES ASSUME Shape, InOrder, Safe, LoginFails PROVE Safe'
    OBVIOUS
  <2>1. UNCHANGED <<careful, arrived, disk, pending>>
    BY DEF LoginFails
  <2>2. Handled \subseteq Handled'
    BY DEF LoginFails, Handled
  <2>3. device'.lastId = device.lastId /\ InWork \subseteq Handled' \cup InWork'
    BY DEF LoginFails, InWork, Handled
  <2>4. careful => pc' # "stuck"
    BY DEF LoginFails, Safe
  <2> QED BY <2>1, <2>2, <2>3, <2>4, StillSafe
<1>6. Shape /\ InOrder /\ Safe /\ Exit => Safe'
  <2> SUFFICES ASSUME Shape, InOrder, Safe, Exit PROVE Safe'
    OBVIOUS
  <2>1. UNCHANGED <<careful, arrived, disk, pending>>
    BY DEF Exit
  <2>2. Handled \subseteq Handled'
    BY DEF Exit, Handled
  <2>3. device'.lastId = device.lastId /\ InWork \subseteq Handled' \cup InWork'
    BY DEF Exit, InWork, Handled
  <2>4. careful => pc' # "stuck"
    BY DEF Exit, Safe
  <2> QED BY <2>1, <2>2, <2>3, <2>4, StillSafe
<1>7. Shape /\ InOrder /\ Safe /\ ConnectionDrops => Safe'
  <2> SUFFICES ASSUME Shape, InOrder, Safe, ConnectionDrops PROVE Safe'
    OBVIOUS
  <2>1. UNCHANGED <<careful, arrived, disk, pending>>
    BY DEF ConnectionDrops
  <2>2. Handled \subseteq Handled'
    BY DEF ConnectionDrops, Handled
  <2>3. device'.lastId = device.lastId /\ InWork \subseteq Handled' \cup InWork'
    BY DEF ConnectionDrops, InWork, Handled
  <2>4. careful => pc' # "stuck"
    BY DEF ConnectionDrops, Safe
  <2> QED BY <2>1, <2>2, <2>3, <2>4, StillSafe
<1>8. Shape /\ InOrder /\ Safe /\ Close => Safe'
  <2> SUFFICES ASSUME Shape, InOrder, Safe, Close PROVE Safe'
    OBVIOUS
  <2>1. UNCHANGED <<careful, arrived, disk, pending>>
    BY DEF Close
  <2>2. Handled \subseteq Handled'
    BY DEF Close, Handled
  <2>3. device'.lastId = device.lastId /\ InWork \subseteq Handled' \cup InWork'
    BY DEF Close, InWork, Handled
  <2>4. careful => pc' # "stuck"
    BY DEF Close, Safe
  <2> QED BY <2>1, <2>2, <2>3, <2>4, StillSafe
<1>9. Shape /\ InOrder /\ Safe /\ ServerAccepts => Safe'
  <2> SUFFICES ASSUME Shape, InOrder, Safe, ServerAccepts PROVE Safe'
    OBVIOUS
  <2>1. UNCHANGED <<careful, arrived, disk, pending>>
    BY DEF ServerAccepts
  <2>2. Handled \subseteq Handled'
    BY DEF ServerAccepts, Handled
  <2>3. device'.lastId = device.lastId /\ InWork \subseteq Handled' \cup InWork'
    BY DEF ServerAccepts, InWork, Handled
  <2>4. careful => pc' # "stuck"
    BY DEF ServerAccepts, Safe
  <2> QED BY <2>1, <2>2, <2>3, <2>4, StillSafe
<1>10. Shape /\ InOrder /\ Safe /\ ServerRefuses => Safe'
  <2> SUFFICES ASSUME Shape, InOrder, Safe, ServerRefuses PROVE Safe'
    OBVIOUS
  <2>1. UNCHANGED <<careful, arrived, disk, pending>>
    BY DEF ServerRefuses
  <2>2. Handled \subseteq Handled'
    BY DEF ServerRefuses, Handled
  <2>3. device'.lastId = device.lastId /\ InWork \subseteq Handled' \cup InWork'
    BY DEF ServerRefuses, InWork, Handled
  <2>4. careful => pc' # "stuck"
    BY DEF ServerRefuses, Safe
  <2> QED BY <2>1, <2>2, <2>3, <2>4, StillSafe
<1>11. Shape /\ InOrder /\ Safe /\ ServerPings => Safe'
  <2> SUFFICES ASSUME Shape, InOrder, Safe, ServerPings PROVE Safe'
    OBVIOUS
  <2>1. UNCHANGED <<careful, arrived, disk, pending>>
    BY DEF ServerPings
  <2>2. Handled \subseteq Handled'
    BY DEF ServerPings, Handled
  <2>3. device'.lastId = device.lastId /\ InWork \subseteq Handled' \cup InWork'
    BY DEF ServerPings, InWork, Handled
  <2>4. careful => pc' # "stuck"
    BY DEF ServerPings, Safe
  <2> QED BY <2>1, <2>2, <2>3, <2>4, StillSafe
<1>12. Shape /\ InOrder /\ Safe /\ LoginSucceeds => Safe'
  <2> SUFFICES ASSUME Shape, InOrder, Safe, LoginSucceeds PROVE Safe'
    OBVIOUS
  <2>1. UNCHANGED <<careful, arrived, disk, pending>>
    BY DEF LoginSucceeds
  <2>2. Handled \subseteq Handled'
    BY DEF LoginSucceeds, Handled
  <2>3. device'.lastId = device.lastId /\ InWork \subseteq Handled' \cup InWork'
    BY DEF LoginSucceeds, InWork, Handled
  <2>4. careful => pc' # "stuck"
    BY DEF LoginSucceeds, Safe
  <2> QED BY <2>1, <2>2, <2>3, <2>4, StillSafe
<1>13. Shape /\ InOrder /\ Safe /\ ReceivePing => Safe'
  <2> SUFFICES ASSUME Shape, InOrder, Safe, ReceivePing PROVE Safe'
    OBVIOUS
  <2>1. UNCHANGED <<careful, arrived, disk, pending>>
    BY DEF ReceivePing
  <2>2. Handled \subseteq Handled'
    BY DEF ReceivePing, Handled
  <2>3. device'.lastId = device.lastId /\ InWork \subseteq Handled' \cup InWork'
    BY DEF ReceivePing, Receive, Onward, InWork, Handled
  <2>4. careful => pc' # "stuck"
    BY DEF ReceivePing, Receive, Onward, Safe
  <2> QED BY <2>1, <2>2, <2>3, <2>4, StillSafe
<1>14. Shape /\ InOrder /\ Safe /\ Connect => Safe'
  <2> SUFFICES ASSUME Shape, InOrder, Safe, Connect PROVE Safe'
    OBVIOUS
  <2>1. UNCHANGED <<careful, arrived, disk, pending>>
    BY DEF Connect
  <2>2. Handled \subseteq Handled'
    BY DEF Connect, Handled
  <2>3. device'.lastId = device.lastId /\ InWork \subseteq Handled' \cup InWork'
    BY DEF Connect, InWork, InHandler, Shape, Positions, LoopIsConnected
  <2>4. careful => pc' # "stuck"
    BY DEF Connect, Safe
  <2> QED BY <2>1, <2>2, <2>3, <2>4, StillSafe
<1>15. Shape /\ InOrder /\ Safe /\ Crash => Safe'
  <2> SUFFICES ASSUME Shape, InOrder, Safe, Crash PROVE Safe'
    OBVIOUS
  <2>1. UNCHANGED <<careful, arrived, disk, pending>>
    BY DEF Crash
  <2>2. Handled \subseteq Handled'
    BY DEF Crash, Handled
  <2>3. device'.lastId = 0
    BY DEF Crash, Die, Blank
  <2>4. careful => pc' # "stuck"
    BY DEF Crash, Die, Safe
  <2> QED BY <2>1, <2>2, <2>3, <2>4, StillSafe
<1>16. Shape /\ InOrder /\ Safe /\ PingAckFails => Safe'
  <2> SUFFICES ASSUME Shape, InOrder, Safe, PingAckFails PROVE Safe'
    OBVIOUS
  <2>1. UNCHANGED <<careful, arrived, disk, pending>>
    BY DEF PingAckFails
  <2>2. Handled \subseteq Handled'
    BY DEF PingAckFails, Handled
  <2>3. device'.lastId = 0
    BY DEF PingAckFails, Die, Blank
  <2>4. careful => pc' # "stuck"
    BY DEF PingAckFails, Die, Safe
  <2> QED BY <2>1, <2>2, <2>3, <2>4, StillSafe
<1>17. Shape /\ InOrder /\ Safe /\ ReceiveClose => Safe'
  <2> SUFFICES ASSUME Shape, InOrder, Safe, ReceiveClose PROVE Safe'
    OBVIOUS
  <2>1. UNCHANGED <<careful, arrived, disk, pending>>
    BY DEF ReceiveClose
  <2>2. Handled \subseteq Handled'
    BY DEF ReceiveClose, Handled
  <2>3. \/ device'.lastId = 0
        \/ device'.lastId = device.lastId /\ InWork \subseteq Handled' \cup InWork'
    <3>1. CASE fragile
      BY <3>1 DEF ReceiveClose, Die, Blank
    <3>2. CASE ~fragile
      BY <3>2 DEF ReceiveClose, Receive, InWork, Handled
    <3> QED BY <3>1, <3>2
  <2>4. careful => pc' # "stuck"
    BY DEF ReceiveClose, Receive, Onward, Die, Safe
  <2> QED BY <2>1, <2>2, <2>3, <2>4, StillSafe
<1>18. Shape /\ InOrder /\ Safe /\ DecryptFails => Safe'
  <2> SUFFICES ASSUME Shape, InOrder, Safe, DecryptFails PROVE Safe'
    OBVIOUS
  <2>1. UNCHANGED <<careful, arrived, disk, pending>>
    BY DEF DecryptFails
  <2>2. Handled \subseteq Handled'
    BY DEF DecryptFails, Handled
  <2>3. \/ device'.lastId = 0
        \/ device'.lastId = device.lastId /\ InWork \subseteq Handled' \cup InWork'
    <3>1. CASE Die
      BY <3>1 DEF DecryptFails, Die, Blank
    <3>2. CASE ~Die
      BY <3>2 DEF DecryptFails, Reports, InWork, Handled
    <3> QED BY <3>1, <3>2
  <2>4. careful => pc' # "stuck"
    BY DEF DecryptFails, Reports, Onward, Die, Safe
  <2> QED BY <2>1, <2>2, <2>3, <2>4, StillSafe
<1>19. Shape /\ InOrder /\ Safe /\ Notified => Safe'
  <2> SUFFICES ASSUME Shape, InOrder, Safe, Notified PROVE Safe'
    OBVIOUS
  <2>1. UNCHANGED <<careful, arrived, disk, pending>>
    BY DEF Notified
  <2>2. Handled \subseteq Handled'
    BY DEF Notified, Handled
  <2>3. \/ device'.lastId = 0
        \/ device'.lastId = device.lastId /\ InWork \subseteq Handled' \cup InWork'
    <3>1. CASE Die
      BY <3>1 DEF Notified, Die, Blank
    <3>2. CASE ~Die
      BY <3>2 DEF Notified, Reports, InWork, Handled
    <3> QED BY <3>1, <3>2
  <2>4. careful => pc' # "stuck"
    BY DEF Notified, Reports, Onward, Die, Safe
  <2> QED BY <2>1, <2>2, <2>3, <2>4, StillSafe
<1>20. Shape /\ InOrder /\ Safe /\ ReadFails => Safe'
  <2> SUFFICES ASSUME Shape, InOrder, Safe, ReadFails PROVE Safe'
    OBVIOUS
  <2>1. UNCHANGED <<careful, arrived, disk, pending>>
    BY DEF ReadFails
  <2>2. Handled \subseteq Handled'
    BY DEF ReadFails, Handled
  <2>3. \/ device'.lastId = 0
        \/ device'.lastId = device.lastId /\ InWork \subseteq Handled' \cup InWork'
    <3>1. CASE Die
      BY <3>1 DEF ReadFails, Die, Blank
    <3>2. CASE ~Die
      BY <3>2 DEF ReadFails, Reports, InWork, Handled
    <3> QED BY <3>1, <3>2
  <2>4. careful => pc' # "stuck"
    BY DEF ReadFails, Reports, Onward, Die, Safe
  <2> QED BY <2>1, <2>2, <2>3, <2>4, StillSafe
<1>21. Shape /\ InOrder /\ Safe /\ HandlerCloses => Safe'
  BY DEF HandlerCloses, Safe
<1>22. Shape /\ InOrder /\ Safe /\ Start => Safe'
  <2> SUFFICES ASSUME Shape, InOrder, Safe, Start PROVE Safe'
    OBVIOUS
  <2> SUFFICES ASSUME careful, careful' PROVE Safe'
    BY DEF Start, Safe
  <2>1. UNCHANGED <<arrived, pending, delivered, dropped, disk>> /\ device'.lastId = disk.lastId /\ pc' = "idle"
    BY DEF Start
  <2>2. Handled' = Handled /\ NothingLost'
    BY <2>1 DEF Handled, NothingLost, Safe
  <2>3. AllHandled(disk.lastId, Handled) /\ AllHandled(disk.lastId, Handled \cup InWork')
    BY MoreHandled DEF Safe
  <2> QED BY <2>1, <2>2, <2>3 DEF Safe
<1>23. Shape /\ InOrder /\ Safe /\ Save => Safe'
  <2> SUFFICES ASSUME Shape, InOrder, Safe, Save PROVE Safe'
    OBVIOUS
  <2> SUFFICES ASSUME careful, careful' PROVE Safe'
    BY DEF Save, Safe
  <2>1. UNCHANGED <<arrived, pending, delivered, dropped, device, pc, current>> /\ disk' = device /\ pc \notin Window
    BY DEF Save
  <2>2. Handled' = Handled /\ InWork' = InWork /\ NothingLost'
    BY <2>1 DEF Handled, InWork, NothingLost, Safe
  <2>3. InWork = {}
    BY <2>1 DEF InWork, Window, Safe
  <2> QED BY <2>1, <2>2, <2>3 DEF Safe
<1>24. Shape /\ InOrder /\ Safe /\ Arrive => Safe'
  <2> SUFFICES ASSUME Shape, InOrder, Safe, Arrive PROVE Safe'
    OBVIOUS
  <2> SUFFICES ASSUME careful, careful' PROVE Safe'
    BY DEF Arrive, Safe
  <2>1. UNCHANGED <<disk, delivered, dropped, device, pc, current>>
    BY DEF Arrive
  <2>2. arrived' = arrived + 1 /\ pending' = pending \cup {arrived + 1} /\ arrived \in Nat
    BY MessagesAre DEF Arrive, Shape, TypeOK, LedgersOK
  <2>3. Handled' = Handled /\ InWork' = InWork
    BY <2>1 DEF Handled, InWork
  <2>4. NothingLost'
    BY <2>2, <2>3, KeptAre DEF NothingLost, Safe
  <2> QED BY <2>1, <2>3, <2>4 DEF Safe
<1>25. Shape /\ InOrder /\ Safe /\ ServerHearsLogin => Safe'
  <2> SUFFICES ASSUME Shape, InOrder, Safe, ServerHearsLogin PROVE Safe'
    OBVIOUS
  <2> SUFFICES ASSUME careful, careful' PROVE Safe'
    BY DEF ServerHearsLogin, Safe
  <2>1. UNCHANGED <<disk, delivered, dropped, device, pc, current, arrived>>
    BY DEF ServerHearsLogin
  <2>2. Handled' = Handled /\ InWork' = InWork
    BY <2>1 DEF Handled, InWork
  <2>3. InWork = {}
    BY DEF ServerHearsLogin, Shape, Positions, LoginUnheard, InWork
  <2>4. \A m \in Kept : m \in pending => m \in pending' \/ m <= device.lastId
    BY KeptAre, MessagesAre DEF ServerHearsLogin, Unacknowledged, Shape, TypeOK, KeysOK, Devices
  <2>5. NothingLost'
    BY <2>1, <2>2, <2>3, <2>4 DEF NothingLost, Safe, AllHandled
  <2> QED BY <2>1, <2>2, <2>5 DEF Safe
<1>26. Shape /\ InOrder /\ Safe /\ ServerSends => Safe'
  <2> SUFFICES ASSUME Shape, InOrder, Safe, ServerSends PROVE Safe'
    OBVIOUS
  <2>1. UNCHANGED <<careful, arrived, disk, device, delivered, dropped, pc, current>>
    BY DEF ServerSends
  <2>2. \A m \in Kept : m \in pending => m \in pending'
    BY DEF ServerSends, Kept
  <2>3. Handled' = Handled /\ InWork' = InWork
    BY <2>1 DEF Handled, InWork
  <2> QED BY <2>1, <2>2, <2>3, StillSafe DEF Safe
<1>27. Shape /\ InOrder /\ Safe /\ ReceiveData => Safe'
  <2> SUFFICES ASSUME Shape, InOrder, Safe, ReceiveData PROVE Safe'
    OBVIOUS
  <2> SUFFICES ASSUME careful, careful' PROVE Safe'
    BY DEF ReceiveData, Safe
  <2> DEFINE h == Head(down).id
  <2>1. UNCHANGED <<disk, delivered, dropped, arrived, pending>>
    BY DEF ReceiveData
  <2>2. pc = "reading" /\ pc' = "decode" /\ current' = h /\ down # <<>> /\ Head(down).kind = "data"
    BY DEF ReceiveData, Receive
  <2>3. Handled' = Handled /\ InWork = {} /\ InWork' = {h}
    BY <2>1, <2>2 DEF Handled, InWork
  <2>4. NothingLost'
    BY <2>1, <2>3 DEF NothingLost, Safe
  <2>5. h \in Messages /\ \A m \in Kept : m < h => m \in Handled
    <3>1. down \in Seq(Frames) /\ Ordered(down, Done)
      BY QueueIs DEF InOrder
    <3>2. Done = Handled
      BY <2>3, SettledHandled DEF Done
    <3> QED BY <2>2, <3>1, <3>2, HeadOrdered, Rest, FrameShape
  <2>6. AllHandled(h, Handled' \cup InWork')
    <3> SUFFICES ASSUME NEW m \in Kept, m <= h PROVE m \in Handled' \cup InWork'
      BY DEF AllHandled
    <3>1. m < h \/ m = h
      BY <2>5, KeptAre, MessagesAre
    <3> QED BY <2>3, <2>5, <3>1
  <2>7. device'.lastId \in {device.lastId, h}
    BY <2>2 DEF ReceiveData, Shape, TypeOK, KeysOK, Devices
  <2>8. AllHandled(device.lastId, Handled' \cup InWork')
    BY <2>3, MoreHandled DEF Safe
  <2> HIDE DEF h
  <2>9. AllHandled(device'.lastId, Handled' \cup InWork')
    BY <2>6, <2>7, <2>8
  <2> QED BY <2>1, <2>2, <2>3, <2>4, <2>9 DEF Safe
<1>28. Shape /\ InOrder /\ Safe /\ UNCHANGED vars => Safe'
  <2> SUFFICES ASSUME Safe, UNCHANGED vars PROVE Safe'
    OBVIOUS
  <2>1. Handled' = Handled /\ InWork' = InWork
    BY DEF vars, Handled, InWork
  <2> QED BY <2>1, StillSafe DEF vars, Safe
<1> QED
  BY <1>1, <1>2, <1>3, <1>4, <1>5, <1>6, <1>7, <1>8, <1>9, <1>10, <1>11,
     <1>12, <1>13, <1>14, <1>15, <1>16, <1>17, <1>18, <1>19, <1>20, <1>21,
     <1>22, <1>23, <1>24, <1>25, <1>26, <1>27, <1>28 DEF Next, Loop,
     Application, Server

LEMMA OrderInit == Init => InOrder /\ Safe
<1> SUFFICES ASSUME Init PROVE InOrder /\ Safe
  OBVIOUS
<1>1. down = <<>> /\ cursor = 0 /\ device.lastId = 0 /\ disk.lastId = 0 /\ arrived = 0 /\ pc = "down"
  BY DEF Init, Blank
<1>2. InOrder
  BY <1>1, EmptyOrdered DEF InOrder
<1>3. NothingLost
  BY <1>1, KeptAre DEF NothingLost
<1> QED BY <1>1, <1>2, <1>3, NoneHandled DEF Safe

\* A careful application, one that stores its device only when no message is half way,
\* loses no message the server keeps, whatever crashes, drops, refused logins and
\* panics of OnError happen, and whether the server takes an id for itself alone or
\* for everything up to it.
THEOREM NothingIsLost == Spec => []NothingLost
<1>1. Init => Shape /\ InOrder /\ Safe
  BY ShapeInit, OrderInit
<1>2. Shape /\ InOrder /\ Safe /\ [Next]_vars => (Shape /\ InOrder /\ Safe)'
  BY ShapeStep, InOrderStep, SafeStep
<1>3. Safe => NothingLost
  BY DEF Safe, NothingLost
<1> QED BY <1>1, <1>2, <1>3, PTL DEF Spec

-----------------------------------------------------------------------------
(* Every step keeps the push keys. *)

LEMMA ZeroIsNoKey == 0 \notin Keys
  BY SessionAssumption DEF SessionAssumption

\* A process that lives on with its keys, or ends.
LEMMA SameKeys ==
  ASSUME KeysKept, UNCHANGED <<careful, given, disk, arrived, sealedFor, dropped>>,
         pc' = "down" \/ (pc # "down" /\ PushKeys(device') = PushKeys(device))
  PROVE  KeysKept'
<1>1. pc' # "down" => Complete(device')
  BY DEF KeysKept, PushKeys, Complete
<1>2. careful' =>
        /\ given' # NoKeys => Complete(disk') /\ PushKeys(disk') = given'
        /\ given' # NoKeys /\ pc' # "down" => PushKeys(device') = given'
        /\ \A m \in Sealed : m <= arrived' => given' # NoKeys /\ sealedFor'[m] = given'
        /\ OnlyBrokenDropped'
  BY DEF KeysKept, PushKeys, OnlyBrokenDropped
<1> QED BY <1>1, <1>2 DEF KeysKept, PushKeys

LEMMA KeysKeptStep == Shape /\ KeysKept /\ [Next]_vars => KeysKept'
<1>1. Shape /\ KeysKept /\ Decrypt => KeysKept'
  <2> SUFFICES ASSUME Shape, KeysKept, Decrypt PROVE KeysKept'
    OBVIOUS
  <2>1. UNCHANGED <<careful, given, disk, arrived, sealedFor, dropped>>
    BY DEF Decrypt
  <2>2. pc' = "down" \/ (pc # "down" /\ device' = device)
    BY DEF Decrypt
  <2> QED BY <2>1, <2>2, SameKeys
<1>2. Shape /\ KeysKept /\ Reported => KeysKept'
  <2> SUFFICES ASSUME Shape, KeysKept, Reported PROVE KeysKept'
    OBVIOUS
  <2>1. UNCHANGED <<careful, given, disk, arrived, sealedFor, dropped>>
    BY DEF Reported
  <2>2. pc' = "down" \/ (pc # "down" /\ device' = device)
    BY DEF Reported
  <2> QED BY <2>1, <2>2, SameKeys
<1>3. Shape /\ KeysKept /\ LoginRefused => KeysKept'
  <2> SUFFICES ASSUME Shape, KeysKept, LoginRefused PROVE KeysKept'
    OBVIOUS
  <2>1. UNCHANGED <<careful, given, disk, arrived, sealedFor, dropped>>
    BY DEF LoginRefused
  <2>2. pc' = "down" \/ (pc # "down" /\ device' = device)
    BY DEF LoginRefused
  <2> QED BY <2>1, <2>2, SameKeys
<1>4. Shape /\ KeysKept /\ LoginFails => KeysKept'
  <2> SUFFICES ASSUME Shape, KeysKept, LoginFails PROVE KeysKept'
    OBVIOUS
  <2>1. UNCHANGED <<careful, given, disk, arrived, sealedFor, dropped>>
    BY DEF LoginFails
  <2>2. pc' = "down" \/ (pc # "down" /\ device' = device)
    BY DEF LoginFails
  <2> QED BY <2>1, <2>2, SameKeys
<1>5. Shape /\ KeysKept /\ Exit => KeysKept'
  <2> SUFFICES ASSUME Shape, KeysKept, Exit PROVE KeysKept'
    OBVIOUS
  <2>1. UNCHANGED <<careful, given, disk, arrived, sealedFor, dropped>>
    BY DEF Exit
  <2>2. pc' = "down" \/ (pc # "down" /\ device' = device)
    BY DEF Exit
  <2> QED BY <2>1, <2>2, SameKeys
<1>6. Shape /\ KeysKept /\ ConnectionDrops => KeysKept'
  <2> SUFFICES ASSUME Shape, KeysKept, ConnectionDrops PROVE KeysKept'
    OBVIOUS
  <2>1. UNCHANGED <<careful, given, disk, arrived, sealedFor, dropped>>
    BY DEF ConnectionDrops
  <2>2. pc' = "down" \/ (pc # "down" /\ device' = device)
    BY DEF ConnectionDrops
  <2> QED BY <2>1, <2>2, SameKeys
<1>7. Shape /\ KeysKept /\ HandlerCloses => KeysKept'
  <2> SUFFICES ASSUME Shape, KeysKept, HandlerCloses PROVE KeysKept'
    OBVIOUS
  <2>1. UNCHANGED <<careful, given, disk, arrived, sealedFor, dropped>>
    BY DEF HandlerCloses
  <2>2. pc' = "down" \/ (pc # "down" /\ device' = device)
    BY DEF HandlerCloses, InHandler
  <2> QED BY <2>1, <2>2, SameKeys
<1>8. Shape /\ KeysKept /\ LoginSucceeds => KeysKept'
  <2> SUFFICES ASSUME Shape, KeysKept, LoginSucceeds PROVE KeysKept'
    OBVIOUS
  <2>1. UNCHANGED <<careful, given, disk, arrived, sealedFor, dropped>>
    BY DEF LoginSucceeds
  <2>2. pc' = "down" \/ (pc # "down" /\ device' = device)
    BY DEF LoginSucceeds
  <2> QED BY <2>1, <2>2, SameKeys
<1>9. Shape /\ KeysKept /\ ReceivePing => KeysKept'
  <2> SUFFICES ASSUME Shape, KeysKept, ReceivePing PROVE KeysKept'
    OBVIOUS
  <2>1. UNCHANGED <<careful, given, disk, arrived, sealedFor, dropped>>
    BY DEF ReceivePing
  <2>2. pc' = "down" \/ (pc # "down" /\ device' = device)
    BY DEF ReceivePing, Receive
  <2> QED BY <2>1, <2>2, SameKeys
<1>10. Shape /\ KeysKept /\ Connect => KeysKept'
  <2> SUFFICES ASSUME Shape, KeysKept, Connect PROVE KeysKept'
    OBVIOUS
  <2>1. UNCHANGED <<careful, given, disk, arrived, sealedFor, dropped>>
    BY DEF Connect
  <2>2. pc' = "down" \/ (pc # "down" /\ device' = device)
    BY DEF Connect, InHandler
  <2> QED BY <2>1, <2>2, SameKeys
<1>11. Shape /\ KeysKept /\ Crash => KeysKept'
  <2> SUFFICES ASSUME Shape, KeysKept, Crash PROVE KeysKept'
    OBVIOUS
  <2>1. UNCHANGED <<careful, given, disk, arrived, sealedFor, dropped>>
    BY DEF Crash
  <2>2. pc' = "down" \/ (pc # "down" /\ device' = device)
    BY DEF Crash, Die
  <2> QED BY <2>1, <2>2, SameKeys
<1>12. Shape /\ KeysKept /\ PingAckFails => KeysKept'
  <2> SUFFICES ASSUME Shape, KeysKept, PingAckFails PROVE KeysKept'
    OBVIOUS
  <2>1. UNCHANGED <<careful, given, disk, arrived, sealedFor, dropped>>
    BY DEF PingAckFails
  <2>2. pc' = "down" \/ (pc # "down" /\ device' = device)
    BY DEF PingAckFails, Die
  <2> QED BY <2>1, <2>2, SameKeys
<1>13. Shape /\ KeysKept /\ ReceiveClose => KeysKept'
  <2> SUFFICES ASSUME Shape, KeysKept, ReceiveClose PROVE KeysKept'
    OBVIOUS
  <2>1. UNCHANGED <<careful, given, disk, arrived, sealedFor, dropped>>
    BY DEF ReceiveClose
  <2>2. pc' = "down" \/ (pc # "down" /\ device' = device)
    BY DEF ReceiveClose, Receive, Die
  <2> QED BY <2>1, <2>2, SameKeys
<1>14. Shape /\ KeysKept /\ Notified => KeysKept'
  <2> SUFFICES ASSUME Shape, KeysKept, Notified PROVE KeysKept'
    OBVIOUS
  <2>1. UNCHANGED <<careful, given, disk, arrived, sealedFor, dropped>>
    BY DEF Notified
  <2>2. pc' = "down" \/ (pc # "down" /\ device' = device)
    BY DEF Notified, Reports, Die
  <2> QED BY <2>1, <2>2, SameKeys
<1>15. Shape /\ KeysKept /\ ReadFails => KeysKept'
  <2> SUFFICES ASSUME Shape, KeysKept, ReadFails PROVE KeysKept'
    OBVIOUS
  <2>1. UNCHANGED <<careful, given, disk, arrived, sealedFor, dropped>>
    BY DEF ReadFails
  <2>2. pc' = "down" \/ (pc # "down" /\ device' = device)
    BY DEF ReadFails, Reports, Die
  <2> QED BY <2>1, <2>2, SameKeys
<1>16. Shape /\ KeysKept /\ Close => KeysKept'
  <2> SUFFICES ASSUME Shape, KeysKept, Close PROVE KeysKept'
    OBVIOUS
  <2>1. UNCHANGED <<careful, given, disk, arrived, sealedFor, dropped>>
    BY DEF Close
  <2>2. pc' = "down" \/ (pc # "down" /\ device' = device)
    BY DEF Close, Shape, Positions, LoopIsConnected
  <2> QED BY <2>1, <2>2, SameKeys
<1>17. Shape /\ KeysKept /\ ServerHearsLogin => KeysKept'
  <2> SUFFICES ASSUME Shape, KeysKept, ServerHearsLogin PROVE KeysKept'
    OBVIOUS
  <2>1. UNCHANGED <<careful, given, disk, arrived, sealedFor, dropped, pc, device>>
    BY DEF ServerHearsLogin
  <2> QED BY <2>1 DEF KeysKept, OnlyBrokenDropped, PushKeys, Complete
<1>18. Shape /\ KeysKept /\ ServerAccepts => KeysKept'
  <2> SUFFICES ASSUME Shape, KeysKept, ServerAccepts PROVE KeysKept'
    OBVIOUS
  <2>1. UNCHANGED <<careful, given, disk, arrived, sealedFor, dropped, pc, device>>
    BY DEF ServerAccepts
  <2> QED BY <2>1 DEF KeysKept, OnlyBrokenDropped, PushKeys, Complete
<1>19. Shape /\ KeysKept /\ ServerRefuses => KeysKept'
  <2> SUFFICES ASSUME Shape, KeysKept, ServerRefuses PROVE KeysKept'
    OBVIOUS
  <2>1. UNCHANGED <<careful, given, disk, arrived, sealedFor, dropped, pc, device>>
    BY DEF ServerRefuses
  <2> QED BY <2>1 DEF KeysKept, OnlyBrokenDropped, PushKeys, Complete
<1>20. Shape /\ KeysKept /\ ServerPings => KeysKept'
  <2> SUFFICES ASSUME Shape, KeysKept, ServerPings PROVE KeysKept'
    OBVIOUS
  <2>1. UNCHANGED <<careful, given, disk, arrived, sealedFor, dropped, pc, device>>
    BY DEF ServerPings
  <2> QED BY <2>1 DEF KeysKept, OnlyBrokenDropped, PushKeys, Complete
<1>21. Shape /\ KeysKept /\ ServerSends => KeysKept'
  <2> SUFFICES ASSUME Shape, KeysKept, ServerSends PROVE KeysKept'
    OBVIOUS
  <2>1. UNCHANGED <<careful, given, disk, arrived, sealedFor, dropped, pc, device>>
    BY DEF ServerSends
  <2> QED BY <2>1 DEF KeysKept, OnlyBrokenDropped, PushKeys, Complete
<1>22. Shape /\ KeysKept /\ ReceiveData => KeysKept'
  <2> SUFFICES ASSUME Shape, KeysKept, ReceiveData PROVE KeysKept'
    OBVIOUS
  <2>1. UNCHANGED <<careful, given, disk, arrived, sealedFor, dropped>>
    BY DEF ReceiveData
  <2>2. pc # "down" /\ PushKeys(device') = PushKeys(device)
    BY DEF ReceiveData, Receive, PushKeys, Shape, TypeOK, KeysOK, Devices
  <2> QED BY <2>1, <2>2, SameKeys
<1>23. Shape /\ KeysKept /\ Start => KeysKept'
  <2> SUFFICES ASSUME Shape, KeysKept, Start PROVE KeysKept'
    OBVIOUS
  <2>1. UNCHANGED <<careful, given, disk, arrived, sealedFor, dropped>>
    BY DEF Start
  <2>2. /\ device'.secret = LoadOrCreateAuthSecret(disk)
        /\ device'.private = LoadOrCreatePrivateKey(disk)
    BY DEF Start
  <2>3. /\ Complete(device')
        /\ Complete(disk) => PushKeys(device') = PushKeys(disk)
    BY <2>2, NewKeys, ZeroIsNoKey DEF Complete, PushKeys, Shape, TypeOK, KeysOK
  <2>4. PushKeys(disk') = PushKeys(disk)
    BY <2>1 DEF PushKeys
  <2>5. careful' /\ given' # NoKeys => Complete(disk') /\ PushKeys(disk') = given' /\ PushKeys(device') = given'
    BY <2>1, <2>3, <2>4 DEF KeysKept, Complete
  <2> QED BY <2>1, <2>3, <2>5 DEF KeysKept, OnlyBrokenDropped
<1>24. Shape /\ KeysKept /\ Save => KeysKept'
  <2> SUFFICES ASSUME Shape, KeysKept, Save PROVE KeysKept'
    OBVIOUS
  <2>1. UNCHANGED <<careful, given, device, arrived, sealedFor, dropped, pc>> /\ disk' = device /\ pc # "down"
    BY DEF Save
  <2>2. PushKeys(device') = PushKeys(device) /\ PushKeys(disk') = PushKeys(device)
    BY <2>1 DEF PushKeys
  <2> QED BY <2>1, <2>2 DEF KeysKept, OnlyBrokenDropped, Complete
<1>25. Shape /\ KeysKept /\ GiveKeys => KeysKept'
  <2> SUFFICES ASSUME Shape, KeysKept, GiveKeys PROVE KeysKept'
    OBVIOUS
  <2>1. UNCHANGED <<careful, disk, device, arrived, sealedFor, dropped, pc>> /\ pc # "down"
    BY DEF GiveKeys
  <2>2. given' = PushKeys(device) /\ given # PushKeys(device)
    BY DEF GiveKeys
  <2>3. PushKeys(device') = PushKeys(device) /\ PushKeys(disk') = PushKeys(disk)
    BY <2>1 DEF PushKeys
  <2>4. careful => given = NoKeys /\ PushKeys(disk) = PushKeys(device)
    BY <2>1, <2>2 DEF GiveKeys, KeysKept
  <2>5. careful => Complete(disk) /\ ~\E m \in Sealed : m <= arrived
    BY <2>1, <2>4 DEF KeysKept, Complete, PushKeys
  <2> QED BY <2>1, <2>2, <2>3, <2>4, <2>5 DEF KeysKept, OnlyBrokenDropped, Complete
<1>26. Shape /\ KeysKept /\ Arrive => KeysKept'
  <2> SUFFICES ASSUME Shape, KeysKept, Arrive PROVE KeysKept'
    OBVIOUS
  <2>1. UNCHANGED <<careful, given, disk, device, dropped, pc>>
    BY DEF Arrive
  <2>2. arrived' = arrived + 1 /\ arrived \in Nat /\ arrived + 1 \in Messages
    BY MessagesAre DEF Arrive, Shape, TypeOK, LedgersOK
  <2>3. sealedFor' = [sealedFor EXCEPT ![arrived + 1] = given] /\ DOMAIN sealedFor = Messages
    BY DEF Arrive, Shape, TypeOK, KeysOK
  <2>4. arrived + 1 \in Sealed => given # NoKeys
    BY DEF Arrive
  <2>5. \A m \in Sealed : m \in Messages /\ m \in Nat
    BY MessagesAre, SessionAssumption DEF SessionAssumption
  <2>6. careful => \A m \in Sealed : m <= arrived' => given # NoKeys /\ sealedFor'[m] = given
    <3> SUFFICES ASSUME careful, NEW m \in Sealed, m <= arrived' PROVE given # NoKeys /\ sealedFor'[m] = given
      OBVIOUS
    <3>1. CASE m = arrived + 1
      BY <2>2, <2>3, <2>4, <3>1
    <3>2. CASE m <= arrived
      BY <2>2, <2>3, <2>5, <3>2 DEF KeysKept
    <3> QED BY <2>2, <2>5, <3>1, <3>2
  <2>7. PushKeys(device') = PushKeys(device) /\ PushKeys(disk') = PushKeys(disk)
    BY <2>1 DEF PushKeys
  <2> QED BY <2>1, <2>6, <2>7 DEF KeysKept, OnlyBrokenDropped, Complete
<1>27. Shape /\ KeysKept /\ DecryptFails => KeysKept'
  <2> SUFFICES ASSUME Shape, KeysKept, DecryptFails PROVE KeysKept'
    OBVIOUS
  <2>1. UNCHANGED <<careful, given, disk, arrived, sealedFor>> /\ dropped' = dropped \cup {current}
    BY DEF DecryptFails
  <2>2. pc = "decode" /\ ~Readable(current)
    BY DEF DecryptFails
  <2>3. current <= arrived
    BY DEF Shape, Positions, OnlyArrived
  <2>4. pc' = "down" \/ (PushKeys(device') = PushKeys(device) /\ Complete(device'))
    BY <2>2 DEF DecryptFails, Reports, Die, PushKeys, KeysKept, Complete
  <2>5. careful => current \in Garbled
    BY <2>2, <2>3 DEF Readable, KeysKept
  <2>6. OnlyBrokenDropped'
    BY <2>1, <2>5 DEF KeysKept, OnlyBrokenDropped
  <2>7. PushKeys(disk') = PushKeys(disk)
    BY <2>1 DEF PushKeys
  <2>8. pc' # "down" => Complete(device')
    BY <2>4
  <2>9. careful' => /\ given' # NoKeys => Complete(disk') /\ PushKeys(disk') = given'
                    /\ given' # NoKeys /\ pc' # "down" => PushKeys(device') = given'
                    /\ \A m \in Sealed : m <= arrived' => given' # NoKeys /\ sealedFor'[m] = given'
    BY <2>1, <2>2, <2>4, <2>7 DEF KeysKept, Complete
  <2> QED BY <2>6, <2>8, <2>9 DEF KeysKept
<1>28. Shape /\ KeysKept /\ UNCHANGED vars => KeysKept'
  BY DEF vars, KeysKept, OnlyBrokenDropped, PushKeys, Complete
<1> QED
  BY <1>1, <1>2, <1>3, <1>4, <1>5, <1>6, <1>7, <1>8, <1>9, <1>10, <1>11,
     <1>12, <1>13, <1>14, <1>15, <1>16, <1>17, <1>18, <1>19, <1>20, <1>21,
     <1>22, <1>23, <1>24, <1>25, <1>26, <1>27, <1>28 DEF Next, Loop,
     Application, Server

LEMMA KeysKeptInit == Init => KeysKept
<1> SUFFICES ASSUME Init PROVE KeysKept
  OBVIOUS
<1>1. pc = "down" /\ given = NoKeys /\ arrived = 0 /\ dropped = {}
  BY DEF Init
<1>2. \A m \in Sealed : ~(m <= 0)
  BY MessagesAre, SessionAssumption DEF SessionAssumption
<1> QED BY <1>1, <1>2 DEF KeysKept, OnlyBrokenDropped

\* An application that stored the device before it gave its keys away drops no
\* message but those that are broken themselves: a restart does not cost the push
\* keys ("so that a persisted device keeps receiving encrypted notifications after
\* a restart", mtalk.go:138-140).
THEOREM OnlyBrokenAreDropped == Spec => []OnlyBrokenDropped
<1>1. Init => Shape /\ KeysKept
  BY ShapeInit, KeysKeptInit
<1>2. Shape /\ KeysKept /\ [Next]_vars => (Shape /\ KeysKept)'
  BY ShapeStep, KeysKeptStep
<1>3. KeysKept => OnlyBrokenDropped
  BY DEF KeysKept, OnlyBrokenDropped
<1> QED BY <1>1, <1>2, <1>3, PTL DEF Spec

LEMMA LoopKept == Shape /\ pc \in {"reading", "decode", "notify", "failing", "exit"} /\ [Next]_vars => pc' # "login"
<1>1. Shape /\ pc \in {"reading", "decode", "notify", "failing", "exit"} /\
      Connect => pc' # "login"
  BY DEF Connect, InHandler, Shape, Positions, LoopIsConnected
<1>2. Shape /\ pc \in {"reading", "decode", "notify", "failing", "exit"} /\
      Start => pc' # "login"
  BY DEF Start
<1>3. Shape /\ pc \in {"reading", "decode", "notify", "failing", "exit"} /\
      Crash => pc' # "login"
  BY DEF Crash, Die, HangUp
<1>4. Shape /\ pc \in {"reading", "decode", "notify", "failing", "exit"} /\
      LoginSucceeds => pc' # "login"
  BY DEF LoginSucceeds
<1>5. Shape /\ pc \in {"reading", "decode", "notify", "failing", "exit"} /\
      HandlerCloses => pc' # "login"
  BY DEF HandlerCloses, Break, InHandler
<1>6. Shape /\ pc \in {"reading", "decode", "notify", "failing", "exit"} /\
      ReceivePing => pc' # "login"
  BY DEF ReceivePing, Receive, Onward
<1>7. Shape /\ pc \in {"reading", "decode", "notify", "failing", "exit"} /\
      PingAckFails => pc' # "login"
  BY DEF PingAckFails, Receive, Die, HangUp
<1>8. Shape /\ pc \in {"reading", "decode", "notify", "failing", "exit"} /\
      ReceiveClose => pc' # "login"
  BY DEF ReceiveClose, Receive, Die, HangUp, Onward
<1>9. Shape /\ pc \in {"reading", "decode", "notify", "failing", "exit"} /\
      DecryptFails => pc' # "login"
  BY DEF DecryptFails, Die, HangUp, Reports, Onward
<1>10. Shape /\ pc \in {"reading", "decode", "notify", "failing", "exit"} /\
      Notified => pc' # "login"
  BY DEF Notified, Die, HangUp, Reports, Onward
<1>11. Shape /\ pc \in {"reading", "decode", "notify", "failing", "exit"} /\
      ReadFails => pc' # "login"
  BY DEF ReadFails, Die, HangUp, Reports
<1>12. Shape /\ pc \in {"reading", "decode", "notify", "failing", "exit"} /\
      (Save \/ GiveKeys \/ Arrive \/ ServerHearsLogin \/ ServerAccepts \/
      ServerRefuses \/ ServerPings \/ ServerSends \/ ConnectionDrops \/
      LoginRefused \/ LoginFails \/ Close \/ ReceiveData \/ Decrypt \/
      Reported \/ Exit) => pc' # "login"
  BY DEF Save, GiveKeys, Arrive, ServerHearsLogin, ServerAccepts,
     ServerRefuses, ServerPings, ServerSends, ConnectionDrops, LoginRefused,
     LoginFails, Close, ReceiveData, Decrypt, Reported, Exit, Send, Break,
     HangUp, Receive
<1>13. Shape /\ pc \in {"reading", "decode", "notify", "failing", "exit"} /\ UNCHANGED vars => pc' # "login"
  BY DEF vars
<1> QED
  BY <1>1, <1>2, <1>3, <1>4, <1>5, <1>6, <1>7, <1>8, <1>9, <1>10, <1>11,
     <1>12, <1>13 DEF Next, Loop, Application, Server

\* No Connect takes the connection away from a loop that runs, not even that of a
\* handler on the loop itself: connected stays set until the loop's deferred function
\* has closed the socket.
THEOREM LoopsKeepTheirConnection == Spec => LoopKeepsConnection
<1>1. Shape /\ [Next]_vars
        => [(pc \in {"reading", "decode", "notify", "failing", "exit"}) => pc' # "login"]_vars
  BY LoopKept
<1> QED BY <1>1, ShapeInit, ShapeStep, PTL DEF Spec, LoopKeepsConnection

-----------------------------------------------------------------------------
(* The mailbox: every step is a turn of one message, or none. *)

Fates == [m \in Kept |-> Status(m)]

MailboxStep == [Mailbox!MNext]_<<Fates, careful>>

LEMMA Turned ==
  ASSUME NEW m \in Kept, NEW from, NEW to, Status(m) = from, Status(m)' = to,
         \A n \in Kept : n # m => Status(n)' = Status(n), UNCHANGED careful
  PROVE  Mailbox!Turn(m, from, to)
  BY DEF Mailbox!Turn, Fates

LEMMA NoTurn ==
  ASSUME \A m \in Kept : Status(m)' = Status(m), UNCHANGED careful
  PROVE  MailboxStep
  BY DEF MailboxStep, Fates

\* A step that changes the place of no message the server keeps.
LEMMA StillThere ==
  ASSUME UNCHANGED <<careful, arrived>>,
         \A m \in Kept : (m \in pending' <=> m \in pending) /\ (m \in Handled' <=> m \in Handled)
  PROVE  MailboxStep
<1>1. \A m \in Kept : Status(m)' = Status(m)
  BY DEF Status
<1> QED BY <1>1, NoTurn

LEMMA ArrivesTurn ==
  ASSUME Shape, Deliverable, Arrive
  PROVE  MailboxStep
<1>1. UNCHANGED <<careful, delivered, dropped>>
  BY DEF Arrive
<1>2. arrived' = arrived + 1 /\ pending' = pending \cup {arrived + 1} /\ arrived \in Nat
  BY MessagesAre DEF Arrive, Shape, TypeOK, LedgersOK
<1>3. Handled' = Handled /\ arrived + 1 \notin Handled
  BY <1>1, <1>2 DEF Handled, Deliverable
<1>4. \A m \in Kept : m # arrived + 1 => Status(m)' = Status(m)
  BY <1>2, <1>3, KeptAre DEF Status
<1>5. CASE arrived + 1 \in Kept
  <2>1. PICK m \in Kept : m = arrived + 1
    BY <1>5
  <2>2. Status(m) = "absent" /\ Status(m)' = "pending"
    BY <1>2, <1>3, <2>1 DEF Status
  <2>3. \A n \in Kept : n # m => Status(n)' = Status(n)
    BY <1>4, <2>1
  <2>4. Mailbox!Turn(m, "absent", "pending")
    BY <1>1, <2>2, <2>3, Turned
  <2> QED BY <2>4 DEF MailboxStep, Mailbox!MNext, Mailbox!Arrives, Fates
<1>6. CASE arrived + 1 \notin Kept
  BY <1>1, <1>4, <1>6, NoTurn
<1> QED BY <1>5, <1>6

\* The message in work is handled, for the first time or again.
LEMMA HandledTurn ==
  ASSUME Shape, Deliverable, pc \in Window, UNCHANGED <<careful, arrived, pending>>,
         Handled' = Handled \cup {current}
  PROVE  MailboxStep
<1>1. CASE current \in Handled \/ current \notin Kept
  BY <1>1, StillThere
<1>2. CASE current \notin Handled /\ current \in Kept
  <2>1. current \in InWork
    BY DEF Window, InWork
  <2>2. current \in pending /\ current <= arrived
    BY <1>2, <2>1 DEF Deliverable, Alive, Shape, Positions, OnlyArrived
  <2>3. arrived \in Nat /\ current \in Nat
    BY <1>2, KeptAre, MessagesAre DEF Shape, TypeOK, LedgersOK
  <2>4. Status(current) = "pending" /\ (\A n \in Kept : n = current => Status(n)' = "handled")
    BY <1>2, <2>2, <2>3 DEF Status
  <2>5. \A n \in Kept : n # current => Status(n)' = Status(n)
    BY <2>3, KeptAre DEF Status
  <2>6. PICK n \in Kept : n = current
    BY <1>2
  <2>7. Status(n) = "pending" /\ Status(n)' = "handled"
    BY <2>4, <2>6
  <2>8. \A o \in Kept : o # n => Status(o)' = Status(o)
    BY <2>5, <2>6
  <2>9. Mailbox!Turn(n, "pending", "handled")
    BY <2>7, <2>8, Turned
  <2> QED BY <2>9 DEF MailboxStep, Mailbox!MNext, Mailbox!Handled, Fates
<1> QED BY <1>1, <1>2

\* A login acknowledges one message at most that was not handled.
LEMMA LoginTurn ==
  ASSUME Shape, InOrder, Safe, Deliverable, ServerHearsLogin
  PROVE  MailboxStep
<1> DEFINE last == device.lastId
<1>1. UNCHANGED <<careful, arrived, delivered, dropped>>
  BY DEF ServerHearsLogin
<1>2. Handled' = Handled
  BY <1>1 DEF Handled
<1>3. \A m \in Kept : m \in pending' => m \in pending
  BY DEF ServerHearsLogin, Unacknowledged
<1>4. \A m \in Kept : m \in pending /\ m \notin pending' => m <= last
  BY KeptAre, MessagesAre DEF ServerHearsLogin, Unacknowledged, Shape, TypeOK, KeysOK, Devices
<1>5. \A m \in Kept : m \in pending /\ m < last => m \in Handled
  BY DEF InOrder, AllBelow, Settled, Gone
<1>6. \A m \in Kept : m # last => Status(m)' = Status(m)
  <2> SUFFICES ASSUME NEW m \in Kept, m # last PROVE Status(m)' = Status(m)
    OBVIOUS
  <2>1. m \in Nat /\ last \in Nat
    BY KeptAre, MessagesAre DEF Shape, TypeOK, KeysOK, Devices
  <2>2. m \in Handled \/ (m \in pending' <=> m \in pending)
    BY <1>3, <1>4, <1>5, <2>1
  <2> QED BY <1>1, <1>2, <2>2 DEF Status
<1>7. ASSUME NEW m \in Kept, m = last, Status(m)' # Status(m)
      PROVE  MailboxStep
  <2>1. m \notin Handled /\ m \in pending /\ m \notin pending' /\ ~(m > arrived)
    BY <1>1, <1>2, <1>3, <1>7 DEF Status
  <2>2. Status(m) = "pending" /\ Status(m)' = "lost"
    BY <1>1, <1>2, <2>1 DEF Status
  <2>3. ~careful
    <3>1. InWork = {}
      BY DEF ServerHearsLogin, Shape, Positions, LoginUnheard, InWork
    <3>2. m <= last
      BY <1>7, KeptAre
    <3> QED BY <2>1, <3>1, <3>2 DEF Safe, AllHandled
  <2>4. Mailbox!Turn(m, "pending", "lost")
    BY <1>1, <1>6, <1>7, <2>2, Turned
  <2> QED BY <2>3, <2>4 DEF MailboxStep, Mailbox!MNext, Mailbox!Lost, Fates
<1>8. ASSUME \A m \in Kept : m = last => Status(m)' = Status(m)
      PROVE  MailboxStep
  BY <1>1, <1>6, <1>8, NoTurn
<1> QED BY <1>7, <1>8

LEMMA MailboxKept == Shape /\ InOrder /\ Safe /\ Deliverable /\ [Next]_vars => MailboxStep
<1>1. Shape /\ InOrder /\ Safe /\ Deliverable /\ Start => MailboxStep
  BY StillThere DEF Start, Handled
<1>2. Shape /\ InOrder /\ Safe /\ Deliverable /\ Crash => MailboxStep
  BY StillThere DEF Crash, Handled
<1>3. Shape /\ InOrder /\ Safe /\ Deliverable /\ Save => MailboxStep
  BY StillThere DEF Save, Handled
<1>4. Shape /\ InOrder /\ Safe /\ Deliverable /\ GiveKeys => MailboxStep
  BY StillThere DEF GiveKeys, Handled
<1>5. Shape /\ InOrder /\ Safe /\ Deliverable /\ ServerAccepts => MailboxStep
  BY StillThere DEF ServerAccepts, Handled
<1>6. Shape /\ InOrder /\ Safe /\ Deliverable /\ ServerRefuses => MailboxStep
  BY StillThere DEF ServerRefuses, Handled
<1>7. Shape /\ InOrder /\ Safe /\ Deliverable /\ ServerPings => MailboxStep
  BY StillThere DEF ServerPings, Handled
<1>8. Shape /\ InOrder /\ Safe /\ Deliverable /\ ConnectionDrops =>
      MailboxStep
  BY StillThere DEF ConnectionDrops, Handled
<1>9. Shape /\ InOrder /\ Safe /\ Deliverable /\ Connect => MailboxStep
  BY StillThere DEF Connect, Handled
<1>10. Shape /\ InOrder /\ Safe /\ Deliverable /\ LoginSucceeds => MailboxStep
  BY StillThere DEF LoginSucceeds, Handled
<1>11. Shape /\ InOrder /\ Safe /\ Deliverable /\ LoginRefused => MailboxStep
  BY StillThere DEF LoginRefused, Handled
<1>12. Shape /\ InOrder /\ Safe /\ Deliverable /\ LoginFails => MailboxStep
  BY StillThere DEF LoginFails, Handled
<1>13. Shape /\ InOrder /\ Safe /\ Deliverable /\ Close => MailboxStep
  BY StillThere DEF Close, Handled
<1>14. Shape /\ InOrder /\ Safe /\ Deliverable /\ HandlerCloses => MailboxStep
  BY StillThere DEF HandlerCloses, Handled
<1>15. Shape /\ InOrder /\ Safe /\ Deliverable /\ ReceivePing => MailboxStep
  BY StillThere DEF ReceivePing, Handled
<1>16. Shape /\ InOrder /\ Safe /\ Deliverable /\ PingAckFails => MailboxStep
  BY StillThere DEF PingAckFails, Handled
<1>17. Shape /\ InOrder /\ Safe /\ Deliverable /\ ReceiveClose => MailboxStep
  BY StillThere DEF ReceiveClose, Handled
<1>18. Shape /\ InOrder /\ Safe /\ Deliverable /\ ReceiveData => MailboxStep
  BY StillThere DEF ReceiveData, Handled
<1>19. Shape /\ InOrder /\ Safe /\ Deliverable /\ Decrypt => MailboxStep
  BY StillThere DEF Decrypt, Handled
<1>20. Shape /\ InOrder /\ Safe /\ Deliverable /\ ReadFails => MailboxStep
  BY StillThere DEF ReadFails, Handled
<1>21. Shape /\ InOrder /\ Safe /\ Deliverable /\ Reported => MailboxStep
  BY StillThere DEF Reported, Handled
<1>22. Shape /\ InOrder /\ Safe /\ Deliverable /\ Exit => MailboxStep
  BY StillThere DEF Exit, Handled
<1>23. Shape /\ InOrder /\ Safe /\ Deliverable /\ Arrive => MailboxStep
  BY ArrivesTurn
<1>24. Shape /\ InOrder /\ Safe /\ Deliverable /\ ServerHearsLogin =>
      MailboxStep
  BY LoginTurn
<1>25. Shape /\ InOrder /\ Safe /\ Deliverable /\ ServerSends => MailboxStep
  <2> SUFFICES ASSUME Shape, InOrder, Safe, Deliverable, ServerSends PROVE MailboxStep
    OBVIOUS
  <2>1. UNCHANGED <<careful, arrived, delivered, dropped>>
    BY DEF ServerSends
  <2>2. \A m \in Kept : m \in pending' <=> m \in pending
    BY DEF ServerSends, Kept
  <2> QED BY <2>1, <2>2, StillThere DEF Handled
<1>26. Shape /\ InOrder /\ Safe /\ Deliverable /\ DecryptFails => MailboxStep
  <2> SUFFICES ASSUME Shape, InOrder, Safe, Deliverable, DecryptFails PROVE MailboxStep
    OBVIOUS
  <2>1. pc \in Window /\ UNCHANGED <<careful, arrived, pending>> /\ Handled' = Handled \cup {current}
    BY DEF DecryptFails, Window, Handled
  <2> QED BY <2>1, HandledTurn
<1>27. Shape /\ InOrder /\ Safe /\ Deliverable /\ Notified => MailboxStep
  <2> SUFFICES ASSUME Shape, InOrder, Safe, Deliverable, Notified PROVE MailboxStep
    OBVIOUS
  <2>1. pc \in Window /\ UNCHANGED <<careful, arrived, pending>> /\ Handled' = Handled \cup {current}
    BY DEF Notified, Window, Handled
  <2> QED BY <2>1, HandledTurn
<1>28. Shape /\ InOrder /\ Safe /\ Deliverable /\ UNCHANGED vars => MailboxStep
  BY StillThere DEF vars, Handled
<1> QED
  BY <1>1, <1>2, <1>3, <1>4, <1>5, <1>6, <1>7, <1>8, <1>9, <1>10, <1>11,
     <1>12, <1>13, <1>14, <1>15, <1>16, <1>17, <1>18, <1>19, <1>20, <1>21,
     <1>22, <1>23, <1>24, <1>25, <1>26, <1>27, <1>28 DEF Next, Loop,
     Application, Server

LEMMA DeliverableInit == Init => IdleHands /\ Deliverable
<1> SUFFICES ASSUME Init PROVE IdleHands /\ Deliverable
  OBVIOUS
<1>1. down = <<>> /\ delivered = {} /\ dropped = {} /\ pc = "down"
  BY DEF Init
<1>2. Ids(down) = {}
  BY <1>1, NoneIs, IdsOf
<1> QED BY <1>1, <1>2 DEF IdleHands, Deliverable, InWork, Handled

\* However connections, processes and the stored device come and go, each message the
\* server keeps arrives once, is handled or lost once and for all, one message is lost
\* at a time, and none at all if the application is careful.
THEOREM SessionImplementsMailbox == Spec => ImplementsMailbox
<1> DEFINE IInv == Shape /\ InOrder /\ Safe /\ IdleHands /\ Deliverable
<1>1. Init => IInv
  BY ShapeInit, OrderInit, DeliverableInit
<1>2. IInv /\ [Next]_vars => IInv'
  BY ShapeStep, InOrderStep, SafeStep, IdleHandsStep, DeliverableStep
<1>3. Init => Mailbox!MInit
  <2> SUFFICES ASSUME Init PROVE Mailbox!MInit
    OBVIOUS
  <2>1. arrived = 0 /\ careful \in BOOLEAN
    BY DEF Init
  <2>2. \A m \in Kept : Status(m) = "absent"
    BY <2>1, KeptAre DEF Status
  <2> QED BY <2>1, <2>2 DEF Mailbox!MInit
<1>4. IInv /\ [Next]_vars => [Mailbox!MNext]_<<[m \in Kept |-> Status(m)], careful>>
  BY MailboxKept DEF MailboxStep, Fates
<1> HIDE DEF IInv
<1> QED BY <1>1, <1>2, <1>3, <1>4, PTL DEF Spec, ImplementsMailbox, Mailbox!MSpec

-----------------------------------------------------------------------------
(* Every step leads onwards. *)

\* One queue is a part of another, in the same order.
PartOf(new, old) ==
  /\ \A i \in 1..Len(new) : \E k \in 1..Len(old) : new[i].id = old[k].id
  /\ \A i, j \in 1..Len(new) :
       i < j => \E k, l \in 1..Len(old) : k < l /\ new[i].id = old[k].id /\ new[j].id = old[l].id

LEMMA Parts ==
  ASSUME NEW s \in Seq(Frames)
  PROVE  /\ PartOf(s, s) /\ PartOf(<<>>, s)
         /\ s # <<>> => PartOf(Tail(s), s)
         /\ \A n \in 0..Len(s) : PartOf(SubSeq(s, 1, n), s)
<1>1. PartOf(s, s) /\ PartOf(<<>>, s)
  BY DEF PartOf
<1>2. ASSUME s # <<>> PROVE PartOf(Tail(s), s)
  <2>1. /\ Len(s) \in Nat /\ Len(Tail(s)) = Len(s) - 1
        /\ \A i \in 1..(Len(s) - 1) : Tail(s)[i] = s[i + 1]
    BY <1>2, Rest
  <2>2. \A i \in 1..Len(Tail(s)) : i + 1 \in 1..Len(s) /\ Tail(s)[i].id = s[i + 1].id
    BY <2>1
  <2>3. \A i, j \in 1..Len(Tail(s)) : i < j => i + 1 < j + 1
    BY <2>1
  <2> QED BY <2>2, <2>3 DEF PartOf
<1>3. ASSUME NEW n \in 0..Len(s) PROVE PartOf(SubSeq(s, 1, n), s)
  <2>1. n \in Nat /\ Len(s) \in Nat /\ n <= Len(s)
    OBVIOUS
  <2>2. \A i \in 1..n : i \in 1..Len(s)
    BY <2>1
  <2> QED BY <2>2, Prefix DEF PartOf
<1> QED BY <1>1, <1>2, <1>3

LEMMA NumbersAre ==
  ASSUME Shape
  PROVE  /\ arrived \in Nat /\ cursor \in Nat /\ current \in Nat
         /\ device.lastId \in Nat /\ disk.lastId \in Nat
         /\ \A i \in 1..Len(down) : down[i].id \in Nat /\ down[i].id <= arrived
         /\ \A m \in Messages : m \in Nat /\ m >= 1
<1>1. \A i \in 1..Len(down) : down[i] \in Frames
  BY QueueIs, ElementOfSeq
<1>2. \A i \in 1..Len(down) : down[i].id \in Nat
  BY <1>1, FrameShape, MessagesAre
<1>3. \A i \in 1..Len(down) : down[i].id <= arrived
  BY DEF Shape, Positions, OnlyArrived
<1>4. arrived \in Nat /\ cursor \in Nat /\ current \in Nat /\ device.lastId \in Nat /\ disk.lastId \in Nat
  BY MessagesAre DEF Shape, TypeOK, ProcessOK, ConnectionOK, KeysOK, LedgersOK, Devices
<1> QED BY <1>2, <1>3, <1>4, MessagesAre

\* A step that takes frames away, hands over what is in work, or ends the process.
LEMMA FewerSentOnce ==
  ASSUME Shape, SentOnce, PartOf(down', down), UNCHANGED <<arrived, pending>>,
         cursor' = cursor \/ down' = <<>>,
         pc' \in Window => pc \in Window /\ UNCHANGED <<current, cursor>>,
         seen' \subseteq IF pc \in Window THEN seen \cup {current} ELSE seen
  PROVE  SentOnce'
<1>1. Rising(down')
  BY DEF SentOnce, PartOf, Rising
<1>2. \A i \in 1..Len(down') : down'[i].id <= cursor'
  BY DEF SentOnce, PartOf
<1>3. \A m \in seen' : m <= arrived' /\ (m \in Ephemeral => m \notin pending')
  BY DEF SentOnce, Shape, Positions, OnlyArrived
<1>4. \A i \in 1..Len(down') :
        down'[i].id \in Ephemeral => down'[i].id \notin seen' /\ down'[i].id \notin pending'
  <2> SUFFICES ASSUME NEW i \in 1..Len(down'), down'[i].id \in Ephemeral
               PROVE  down'[i].id \notin seen' /\ down'[i].id \notin pending'
    OBVIOUS
  <2>1. PICK k \in 1..Len(down) : down'[i].id = down[k].id
    BY DEF PartOf
  <2>2. down[k].id \notin seen /\ down[k].id \notin pending
    BY <2>1 DEF SentOnce
  <2>3. pc \in Window => down[k].id # current
    <3>1. down[k].id # 0
      BY <2>1, MessagesAre, SessionAssumption, NumbersAre DEF SessionAssumption
    <3> QED BY <3>1, NumbersAre DEF SentOnce
  <2> QED BY <2>1, <2>2, <2>3
<1>5. pc' \in Window =>
        /\ current' <= cursor'
        /\ \A i \in 1..Len(down') : down'[i].id # 0 => current' < down'[i].id
        /\ current' \in Ephemeral => current' \notin pending'
  BY DEF SentOnce, PartOf
<1> QED BY <1>1, <1>2, <1>3, <1>4, <1>5 DEF SentOnce

LEMMA FewerNewer ==
  ASSUME Shape, Newer, PartOf(down', down), UNCHANGED <<cumulative, pending>>,
         link' \in {"heard", "up"} => link \in {"heard", "up"} /\ cursor' = cursor,
         pc' \in Window => pc \in Window /\ UNCHANGED <<current, seen>>,
         seen' \subseteq IF pc \in Window THEN seen \cup {current} ELSE seen,
         \/ pc # "down" /\ device'.lastId = device.lastId
         \/ pc' = "down" /\ device'.lastId = 0 /\ link' = "none"
  PROVE  Newer'
<1> SUFFICES ASSUME cumulative, cumulative' PROVE Newer'
  BY DEF Newer
<1>1. pc' # "down" => \A m \in seen' : m \in Kept => m <= device'.lastId
  BY NumbersAre DEF Newer
<1>2. \A i \in 1..Len(down') : down'[i].id \in Kept => device'.lastId < down'[i].id
  <2> SUFFICES ASSUME NEW i \in 1..Len(down'), down'[i].id \in Kept
               PROVE  device'.lastId < down'[i].id
    OBVIOUS
  <2>1. PICK k \in 1..Len(down) : down'[i].id = down[k].id
    BY DEF PartOf
  <2> QED BY <2>1, KeptAre DEF Newer
<1>3. link' \in {"heard", "up"} => \A m \in pending' : m <= device'.lastId => m <= cursor'
  BY DEF Newer
<1>4. pc' \in Window => /\ current' \in Kept => current' = device'.lastId
                        /\ current' \notin seen'
  <2>1. "down" \notin Window
    BY DEF Window
  <2> QED BY <2>1 DEF Newer
<1> QED BY <1>1, <1>2, <1>3, <1>4 DEF Newer

LEMMA FewerOnwards ==
  ASSUME Shape, Onwards, PartOf(down', down), UNCHANGED <<cumulative, arrived, pending, disk>>,
         UNCHANGED <<cursor, link>> \/ (down' = <<>> /\ link' \in {"none", "login"}),
         pc' \in Window => pc \in Window /\ UNCHANGED <<current, cursor, seen>>,
         seen' \subseteq IF pc \in Window THEN seen \cup {current} ELSE seen,
         \/ pc # "down" /\ device'.lastId = device.lastId
         \/ pc' = "down" /\ device'.lastId = 0 /\ link' = "none"
  PROVE  Onwards'
<1>1. SentOnce'
  BY FewerSentOnce DEF Onwards
<1>2. Newer'
  BY FewerNewer DEF Onwards
<1>3. Remembered'
  BY NumbersAre DEF Onwards, Remembered
<1> QED BY <1>1, <1>2, <1>3 DEF Onwards

\* A process that ends, with or without its message handled.
LEMMA DiedOnwards ==
  ASSUME Shape, Onwards, Die, UNCHANGED <<cumulative, arrived, pending, disk>>,
         seen' \subseteq IF pc \in Window THEN seen \cup {current} ELSE seen
  PROVE  Onwards'
<1>1. down' = <<>> /\ link' = "none" /\ pc' = "down" /\ device'.lastId = 0
  BY NothingLeft DEF Die, HangUp, Blank
<1>2. PartOf(down', down) /\ pc' \notin Window
  BY <1>1, QueueIs, Parts DEF Window
<1> QED BY <1>1, <1>2, FewerOnwards

\* A frame that is no message is sent.
LEMMA ControlOnwards ==
  ASSUME Shape, Onwards, NEW f \in Frames, f.id = 0, down' = Append(down, f),
         UNCHANGED <<cumulative, arrived, pending, disk, device, pc, current, seen, cursor>>,
         link' \in {"heard", "up"} => link \in {"heard", "up"}
  PROVE  Onwards'
<1>1. /\ Len(down) \in Nat /\ Len(down') = Len(down) + 1
      /\ \A i \in 1..Len(down) : down'[i] = down[i]
      /\ down'[Len(down) + 1].id = 0
  BY QueueIs, Queued
<1>2. \A i \in 1..Len(down') : i \in 1..Len(down) \/ down'[i].id = 0
  BY <1>1
<1>3. 0 \notin Messages /\ 0 \notin Ephemeral /\ 0 \notin Kept
  BY NumbersAre, KeptAre, SessionAssumption DEF SessionAssumption
<1>4. SentOnce'
  <2>1. Rising(down')
    <3> SUFFICES ASSUME NEW i \in 1..Len(down'), NEW j \in 1..Len(down'), i < j, down'[j].id # 0
                 PROVE  down'[i].id < down'[j].id
      BY DEF Rising
    <3>1. j \in 1..Len(down) /\ i \in 1..Len(down)
      BY <1>1, <1>2
    <3> QED BY <1>1, <3>1 DEF Onwards, SentOnce, Rising
  <2>2. \A i \in 1..Len(down') : down'[i].id <= cursor'
    BY <1>1, <1>2, NumbersAre DEF Onwards, SentOnce
  <2>3. \A i \in 1..Len(down') :
          down'[i].id \in Ephemeral => down'[i].id \notin seen' /\ down'[i].id \notin pending'
    BY <1>1, <1>2, <1>3 DEF Onwards, SentOnce
  <2>4. pc' \in Window =>
          /\ current' <= cursor'
          /\ \A i \in 1..Len(down') : down'[i].id # 0 => current' < down'[i].id
          /\ current' \in Ephemeral => current' \notin pending'
    BY <1>1, <1>2 DEF Onwards, SentOnce
  <2> QED BY <2>1, <2>2, <2>3, <2>4 DEF Onwards, SentOnce
<1>5. Newer'
  <2>1. cumulative => \A i \in 1..Len(down') : down'[i].id \in Kept => device'.lastId < down'[i].id
    BY <1>1, <1>2, <1>3 DEF Onwards, Newer
  <2> QED BY <2>1 DEF Onwards, Newer
<1> QED BY <1>4, <1>5 DEF Onwards, Remembered

LEMMA OnwardsStep == Shape /\ Onwards /\ [Next]_vars => Onwards'
<1>1. Shape /\ Onwards /\ GiveKeys => Onwards'
  <2> SUFFICES ASSUME Shape, Onwards, GiveKeys PROVE Onwards'
    OBVIOUS
  <2>1. PartOf(down', down)
    BY QueueIs, Parts DEF GiveKeys
  <2>2. UNCHANGED <<cumulative, arrived, pending, disk, device, seen>>
    BY DEF GiveKeys
  <2>3. pc # "down" /\ (pc' \in Window => pc \in Window /\ UNCHANGED <<current, cursor>>)
    BY DEF GiveKeys, Window
  <2>4. UNCHANGED <<cursor, link>> \/ (down' = <<>> /\ link' \in {"none", "login"})
    BY NothingLeft DEF GiveKeys
  <2> QED BY <2>1, <2>2, <2>3, <2>4, FewerOnwards
<1>2. Shape /\ Onwards /\ Reported => Onwards'
  <2> SUFFICES ASSUME Shape, Onwards, Reported PROVE Onwards'
    OBVIOUS
  <2>1. PartOf(down', down)
    BY QueueIs, Parts DEF Reported
  <2>2. UNCHANGED <<cumulative, arrived, pending, disk, device, seen>>
    BY DEF Reported
  <2>3. pc # "down" /\ (pc' \in Window => pc \in Window /\ UNCHANGED <<current, cursor>>)
    BY DEF Reported, Window
  <2>4. UNCHANGED <<cursor, link>> \/ (down' = <<>> /\ link' \in {"none", "login"})
    BY NothingLeft DEF Reported
  <2> QED BY <2>1, <2>2, <2>3, <2>4, FewerOnwards
<1>3. Shape /\ Onwards /\ Decrypt => Onwards'
  <2> SUFFICES ASSUME Shape, Onwards, Decrypt PROVE Onwards'
    OBVIOUS
  <2>1. PartOf(down', down)
    BY QueueIs, Parts DEF Decrypt
  <2>2. UNCHANGED <<cumulative, arrived, pending, disk, device, seen>>
    BY DEF Decrypt
  <2>3. pc # "down" /\ (pc' \in Window => pc \in Window /\ UNCHANGED <<current, cursor>>)
    BY DEF Decrypt, Window
  <2>4. UNCHANGED <<cursor, link>> \/ (down' = <<>> /\ link' \in {"none", "login"})
    BY NothingLeft DEF Decrypt
  <2> QED BY <2>1, <2>2, <2>3, <2>4, FewerOnwards
<1>4. Shape /\ Onwards /\ LoginRefused => Onwards'
  <2> SUFFICES ASSUME Shape, Onwards, LoginRefused PROVE Onwards'
    OBVIOUS
  <2>1. PartOf(down', down)
    BY NothingLeft, QueueIs, Parts DEF LoginRefused
  <2>2. UNCHANGED <<cumulative, arrived, pending, disk, device, seen>>
    BY DEF LoginRefused
  <2>3. pc # "down" /\ (pc' \in Window => pc \in Window /\ UNCHANGED <<current, cursor>>)
    BY DEF LoginRefused, Window
  <2>4. UNCHANGED <<cursor, link>> \/ (down' = <<>> /\ link' \in {"none", "login"})
    BY NothingLeft DEF LoginRefused
  <2> QED BY <2>1, <2>2, <2>3, <2>4, FewerOnwards
<1>5. Shape /\ Onwards /\ LoginFails => Onwards'
  <2> SUFFICES ASSUME Shape, Onwards, LoginFails PROVE Onwards'
    OBVIOUS
  <2>1. PartOf(down', down)
    BY NothingLeft, QueueIs, Parts DEF LoginFails
  <2>2. UNCHANGED <<cumulative, arrived, pending, disk, device, seen>>
    BY DEF LoginFails
  <2>3. pc # "down" /\ (pc' \in Window => pc \in Window /\ UNCHANGED <<current, cursor>>)
    BY DEF LoginFails, Window
  <2>4. UNCHANGED <<cursor, link>> \/ (down' = <<>> /\ link' \in {"none", "login"})
    BY NothingLeft DEF LoginFails
  <2> QED BY <2>1, <2>2, <2>3, <2>4, FewerOnwards
<1>6. Shape /\ Onwards /\ Exit => Onwards'
  <2> SUFFICES ASSUME Shape, Onwards, Exit PROVE Onwards'
    OBVIOUS
  <2>1. PartOf(down', down)
    BY NothingLeft, QueueIs, Parts DEF Exit
  <2>2. UNCHANGED <<cumulative, arrived, pending, disk, device, seen>>
    BY DEF Exit
  <2>3. pc # "down" /\ (pc' \in Window => pc \in Window /\ UNCHANGED <<current, cursor>>)
    BY DEF Exit, Window
  <2>4. UNCHANGED <<cursor, link>> \/ (down' = <<>> /\ link' \in {"none", "login"})
    BY NothingLeft DEF Exit
  <2> QED BY <2>1, <2>2, <2>3, <2>4, FewerOnwards
<1>7. Shape /\ Onwards /\ ConnectionDrops => Onwards'
  <2> SUFFICES ASSUME Shape, Onwards, ConnectionDrops PROVE Onwards'
    OBVIOUS
  <2>1. PartOf(down', down)
    BY QueueIs, Parts DEF ConnectionDrops, Break
  <2>2. UNCHANGED <<cumulative, arrived, pending, disk, device, seen>>
    BY DEF ConnectionDrops
  <2>3. pc # "down" /\ (pc' \in Window => pc \in Window /\ UNCHANGED <<current, cursor>>)
    BY DEF ConnectionDrops, Window
  <2>4. UNCHANGED <<cursor, link>> \/ (down' = <<>> /\ link' \in {"none", "login"})
    BY NothingLeft DEF ConnectionDrops
  <2> QED BY <2>1, <2>2, <2>3, <2>4, FewerOnwards
<1>8. Shape /\ Onwards /\ Close => Onwards'
  <2> SUFFICES ASSUME Shape, Onwards, Close PROVE Onwards'
    OBVIOUS
  <2>1. PartOf(down', down)
    BY QueueIs, Parts DEF Close, Break
  <2>2. UNCHANGED <<cumulative, arrived, pending, disk, device, seen>>
    BY DEF Close
  <2>3. pc # "down" /\ (pc' \in Window => pc \in Window /\ UNCHANGED <<current, cursor>>)
    BY DEF Close, Shape, Positions, LoopIsConnected, Window
  <2>4. UNCHANGED <<cursor, link>> \/ (down' = <<>> /\ link' \in {"none", "login"})
    BY NothingLeft DEF Close
  <2> QED BY <2>1, <2>2, <2>3, <2>4, FewerOnwards
<1>9. Shape /\ Onwards /\ HandlerCloses => Onwards'
  <2> SUFFICES ASSUME Shape, Onwards, HandlerCloses PROVE Onwards'
    OBVIOUS
  <2>1. PartOf(down', down)
    BY QueueIs, Parts DEF HandlerCloses, Break
  <2>2. UNCHANGED <<cumulative, arrived, pending, disk, device, seen>>
    BY DEF HandlerCloses
  <2>3. pc # "down" /\ (pc' \in Window => pc \in Window /\ UNCHANGED <<current, cursor>>)
    BY DEF HandlerCloses, InHandler, Window
  <2>4. UNCHANGED <<cursor, link>> \/ (down' = <<>> /\ link' \in {"none", "login"})
    BY NothingLeft DEF HandlerCloses
  <2> QED BY <2>1, <2>2, <2>3, <2>4, FewerOnwards
<1>10. Shape /\ Onwards /\ LoginSucceeds => Onwards'
  <2> SUFFICES ASSUME Shape, Onwards, LoginSucceeds PROVE Onwards'
    OBVIOUS
  <2>1. PartOf(down', down)
    BY QueueIs, Parts DEF LoginSucceeds, Receive
  <2>2. UNCHANGED <<cumulative, arrived, pending, disk, device, seen>>
    BY DEF LoginSucceeds
  <2>3. pc # "down" /\ (pc' \in Window => pc \in Window /\ UNCHANGED <<current, cursor>>)
    BY DEF LoginSucceeds, Receive, Onward, Window
  <2>4. UNCHANGED <<cursor, link>> \/ (down' = <<>> /\ link' \in {"none", "login"})
    BY NothingLeft DEF LoginSucceeds
  <2> QED BY <2>1, <2>2, <2>3, <2>4, FewerOnwards
<1>11. Shape /\ Onwards /\ ReceivePing => Onwards'
  <2> SUFFICES ASSUME Shape, Onwards, ReceivePing PROVE Onwards'
    OBVIOUS
  <2>1. PartOf(down', down)
    BY QueueIs, Parts DEF ReceivePing, Receive
  <2>2. UNCHANGED <<cumulative, arrived, pending, disk, device, seen>>
    BY DEF ReceivePing
  <2>3. pc # "down" /\ (pc' \in Window => pc \in Window /\ UNCHANGED <<current, cursor>>)
    BY DEF ReceivePing, Receive, Onward, Window
  <2>4. UNCHANGED <<cursor, link>> \/ (down' = <<>> /\ link' \in {"none", "login"})
    BY NothingLeft DEF ReceivePing
  <2> QED BY <2>1, <2>2, <2>3, <2>4, FewerOnwards
<1>12. Shape /\ Onwards /\ Connect => Onwards'
  <2> SUFFICES ASSUME Shape, Onwards, Connect PROVE Onwards'
    OBVIOUS
  <2>1. PartOf(down', down)
    BY QueueIs, Parts DEF Connect
  <2>2. UNCHANGED <<cumulative, arrived, pending, disk, device, seen>>
    BY DEF Connect
  <2>3. pc # "down" /\ (pc' \in Window => pc \in Window /\ UNCHANGED <<current, cursor>>)
    BY DEF Connect, InHandler, Window
  <2>4. UNCHANGED <<cursor, link>> \/ (down' = <<>> /\ link' \in {"none", "login"})
    BY NothingLeft DEF Connect
  <2> QED BY <2>1, <2>2, <2>3, <2>4, FewerOnwards
<1>13. Shape /\ Onwards /\ Crash => Onwards'
  BY DiedOnwards DEF Crash
<1>14. Shape /\ Onwards /\ PingAckFails => Onwards'
  BY DiedOnwards DEF PingAckFails
<1>15. Shape /\ Onwards /\ ReceiveClose => Onwards'
  <2> SUFFICES ASSUME Shape, Onwards, ReceiveClose PROVE Onwards'
    OBVIOUS
  <2>1. UNCHANGED <<cumulative, arrived, pending, disk, seen>>
    BY DEF ReceiveClose
  <2>2. CASE fragile
    BY <2>1, <2>2, DiedOnwards DEF ReceiveClose
  <2>3. CASE ~fragile
    <3>1. UNCHANGED <<device, cursor, link>> /\ pc # "down" /\ pc' \notin Window
      BY <2>3 DEF ReceiveClose, Receive, Onward, Window
    <3>2. PartOf(down', down)
      BY <2>3, QueueIs, Parts DEF ReceiveClose, Receive
    <3> QED BY <2>1, <3>1, <3>2, FewerOnwards
  <2> QED BY <2>2, <2>3
<1>16. Shape /\ Onwards /\ DecryptFails => Onwards'
  <2> SUFFICES ASSUME Shape, Onwards, DecryptFails PROVE Onwards'
    OBVIOUS
  <2>1. UNCHANGED <<cumulative, arrived, pending, disk>>
    BY DEF DecryptFails
  <2>2. seen' \subseteq IF pc \in Window THEN seen \cup {current} ELSE seen
    BY DEF DecryptFails, Window
  <2>3. CASE Die
    BY <2>1, <2>2, <2>3, DiedOnwards
  <2>4. CASE ~Die
    <3>1. UNCHANGED <<device, cursor, link, down>> /\ pc # "down" /\ pc' \notin Window
      BY <2>4 DEF DecryptFails, Reports, Onward, Window
    <3>2. PartOf(down', down)
      BY <3>1, QueueIs, Parts
    <3> QED BY <2>1, <2>2, <3>1, <3>2, FewerOnwards
  <2> QED BY <2>3, <2>4
<1>17. Shape /\ Onwards /\ Notified => Onwards'
  <2> SUFFICES ASSUME Shape, Onwards, Notified PROVE Onwards'
    OBVIOUS
  <2>1. UNCHANGED <<cumulative, arrived, pending, disk>>
    BY DEF Notified
  <2>2. seen' \subseteq IF pc \in Window THEN seen \cup {current} ELSE seen
    BY DEF Notified, Window
  <2>3. CASE Die
    BY <2>1, <2>2, <2>3, DiedOnwards
  <2>4. CASE ~Die
    <3>1. UNCHANGED <<device, cursor, link, down>> /\ pc # "down" /\ pc' \notin Window
      BY <2>4 DEF Notified, Reports, Onward, Window
    <3>2. PartOf(down', down)
      BY <3>1, QueueIs, Parts
    <3> QED BY <2>1, <2>2, <3>1, <3>2, FewerOnwards
  <2> QED BY <2>3, <2>4
<1>18. Shape /\ Onwards /\ ReadFails => Onwards'
  <2> SUFFICES ASSUME Shape, Onwards, ReadFails PROVE Onwards'
    OBVIOUS
  <2>1. UNCHANGED <<cumulative, arrived, pending, disk>>
    BY DEF ReadFails
  <2>2. seen' \subseteq IF pc \in Window THEN seen \cup {current} ELSE seen
    BY DEF ReadFails, Window
  <2>3. CASE Die
    BY <2>1, <2>2, <2>3, DiedOnwards
  <2>4. CASE ~Die
    <3>1. UNCHANGED <<device, cursor, link, down>> /\ pc # "down" /\ pc' \notin Window
      BY <2>4 DEF ReadFails, Reports, Onward, Window
    <3>2. PartOf(down', down)
      BY <3>1, QueueIs, Parts
    <3> QED BY <2>1, <2>2, <3>1, <3>2, FewerOnwards
  <2> QED BY <2>3, <2>4
<1>19. Shape /\ Onwards /\ ServerAccepts => Onwards'
  <2> SUFFICES ASSUME Shape, Onwards, ServerAccepts PROVE Onwards'
    OBVIOUS
  <2>1. PICK f \in Frames : down' = Append(down, f) /\ f.id = 0
    BY FramesOf DEF ServerAccepts, Send, Control
  <2>2. UNCHANGED <<cumulative, arrived, pending, disk, device, pc, current, seen, cursor>>
    BY DEF ServerAccepts
  <2>3. link' \in {"heard", "up"} => link \in {"heard", "up"}
    BY DEF ServerAccepts
  <2> QED BY <2>1, <2>2, <2>3, ControlOnwards
<1>20. Shape /\ Onwards /\ ServerRefuses => Onwards'
  <2> SUFFICES ASSUME Shape, Onwards, ServerRefuses PROVE Onwards'
    OBVIOUS
  <2>1. PICK f \in Frames : down' = Append(down, f) /\ f.id = 0
    BY FramesOf DEF ServerRefuses, Send, Control
  <2>2. UNCHANGED <<cumulative, arrived, pending, disk, device, pc, current, seen, cursor>>
    BY DEF ServerRefuses
  <2>3. link' \in {"heard", "up"} => link \in {"heard", "up"}
    BY DEF ServerRefuses
  <2> QED BY <2>1, <2>2, <2>3, ControlOnwards
<1>21. Shape /\ Onwards /\ ServerPings => Onwards'
  <2> SUFFICES ASSUME Shape, Onwards, ServerPings PROVE Onwards'
    OBVIOUS
  <2>1. PICK f \in Frames : down' = Append(down, f) /\ f.id = 0
    BY FramesOf DEF ServerPings, Send, Control
  <2>2. UNCHANGED <<cumulative, arrived, pending, disk, device, pc, current, seen, cursor>>
    BY DEF ServerPings
  <2>3. link' \in {"heard", "up"} => link \in {"heard", "up"}
    BY DEF ServerPings
  <2> QED BY <2>1, <2>2, <2>3, ControlOnwards
<1>22. Shape /\ Onwards /\ Save => Onwards'
  <2> SUFFICES ASSUME Shape, Onwards, Save PROVE Onwards'
    OBVIOUS
  <2>1. UNCHANGED <<cumulative, arrived, pending, device, pc, current, seen, cursor, down, link>> /\ disk' = device
    BY DEF Save
  <2> QED BY <2>1 DEF Onwards, SentOnce, Newer, Remembered
<1>23. Shape /\ Onwards /\ Start => Onwards'
  <2> SUFFICES ASSUME Shape, Onwards, Start PROVE Onwards'
    OBVIOUS
  <2>1. UNCHANGED <<cumulative, arrived, pending, disk, current, cursor, down, link>> /\ seen' = {}
    BY DEF Start
  <2>2. pc = "down" /\ pc' = "idle" /\ device'.lastId = disk.lastId
    BY DEF Start
  <2>3. down = <<>> /\ link = "none"
    BY <2>2 DEF Shape, Positions, Resting
  <2>4. SentOnce'
    BY <2>1, <2>2, <2>3 DEF SentOnce, Rising, Window
  <2>5. Newer'
    BY <2>1, <2>2, <2>3 DEF Newer, Window
  <2> QED BY <2>1, <2>2, <2>4, <2>5 DEF Onwards, Remembered
<1>24. Shape /\ Onwards /\ Arrive => Onwards'
  <2> SUFFICES ASSUME Shape, Onwards, Arrive PROVE Onwards'
    OBVIOUS
  <2>1. UNCHANGED <<cumulative, device, disk, pc, current, seen, cursor, down, link>>
    BY DEF Arrive
  <2>2. arrived' = arrived + 1 /\ pending' = pending \cup {arrived + 1}
    BY DEF Arrive
  <2>3. arrived + 1 \notin seen /\ arrived + 1 # current /\ \A i \in 1..Len(down) : down[i].id # arrived + 1
    BY NumbersAre DEF Onwards, SentOnce, Shape, Positions, OnlyArrived
  <2>4. \A m \in seen : m \in Nat
    BY NumbersAre DEF Shape, TypeOK, LedgersOK
  <2>5. SentOnce'
    BY <2>1, <2>2, <2>3, <2>4, NumbersAre DEF Onwards, SentOnce
  <2>6. ~(arrived + 1 <= device.lastId)
    BY NumbersAre DEF Onwards, Remembered
  <2>7. Newer'
    BY <2>1, <2>2, <2>6 DEF Onwards, Newer
  <2>8. Remembered'
    BY <2>1, <2>2, NumbersAre DEF Onwards, Remembered
  <2> QED BY <2>5, <2>7, <2>8 DEF Onwards
<1>25. Shape /\ Onwards /\ ServerHearsLogin => Onwards'
  <2> SUFFICES ASSUME Shape, Onwards, ServerHearsLogin PROVE Onwards'
    OBVIOUS
  <2>1. UNCHANGED <<cumulative, arrived, device, disk, pc, current, seen, cursor, down>> /\ pending' \subseteq pending
    BY DEF ServerHearsLogin, Unacknowledged
  <2>2. SentOnce'
    BY <2>1 DEF Onwards, SentOnce
  <2>3. cumulative => \A m \in pending' : ~(m <= device.lastId)
    <3>1. \A m \in pending : m \in Nat
      BY NumbersAre DEF Shape, TypeOK, LedgersOK
    <3> QED BY <3>1, NumbersAre DEF ServerHearsLogin, Unacknowledged
  <2>4. Newer'
    BY <2>1, <2>3 DEF Onwards, Newer
  <2> QED BY <2>1, <2>2, <2>4 DEF Onwards, Remembered
<1>26. Shape /\ Onwards /\ ServerSends => Onwards'
  <2> SUFFICES ASSUME Shape, Onwards, ServerSends PROVE Onwards'
    OBVIOUS
  <2>1. UNCHANGED <<cumulative, arrived, device, disk, pc, current, seen, link>> /\ link \in {"heard", "up"}
    BY DEF ServerSends
  <2>2. PICK m \in pending :
          /\ m > cursor /\ cursor' = m /\ down' = Append(down, Data(m))
          /\ pending' = IF m \in Ephemeral THEN pending \ {m} ELSE pending
    BY DEF ServerSends, Send
  <2>3. m \in Messages /\ m \in Nat /\ m <= arrived /\ m # 0
    BY <2>2, NumbersAre DEF Shape, Positions, OnlyArrived, TypeOK, LedgersOK
  <2>4. Data(m) \in Frames /\ Data(m).id = m
    BY <2>3, FramesOf DEF Data
  <2>5. /\ Len(down) \in Nat /\ Len(down') = Len(down) + 1
        /\ \A i \in 1..Len(down) : down'[i] = down[i]
        /\ down'[Len(down) + 1].id = m
    BY <2>2, <2>4, QueueIs, Queued
  <2>6. \A i \in 1..Len(down') : i \in 1..Len(down) \/ i = Len(down) + 1
    BY <2>5
  <2>7. \A i \in 1..Len(down) : down[i].id < m
    BY <2>2, <2>3, NumbersAre DEF Onwards, SentOnce
  <2>8. SentOnce'
    <3>1. Rising(down')
      <4> SUFFICES ASSUME NEW i \in 1..Len(down'), NEW j \in 1..Len(down'), i < j, down'[j].id # 0
                   PROVE  down'[i].id < down'[j].id
        BY DEF Rising
      <4>1. CASE j \in 1..Len(down)
        <5>1. i \in 1..Len(down)
          BY <2>5, <4>1
        <5> QED BY <2>5, <4>1, <5>1 DEF Onwards, SentOnce, Rising
      <4>2. CASE j = Len(down) + 1
        <5>1. i \in 1..Len(down)
          BY <2>5, <4>2
        <5> QED BY <2>5, <2>7, <4>2, <5>1
      <4> QED BY <2>6, <4>1, <4>2
    <3>2. \A i \in 1..Len(down') : down'[i].id <= cursor'
      <4> SUFFICES ASSUME NEW i \in 1..Len(down') PROVE down'[i].id <= m
        BY <2>2
      <4>1. CASE i \in 1..Len(down)
        BY <2>3, <2>5, <2>7, <4>1, NumbersAre
      <4>2. CASE i = Len(down) + 1
        BY <2>3, <2>5, <4>2
      <4> QED BY <2>6, <4>1, <4>2
    <3>3. \A i \in 1..Len(down') :
            down'[i].id \in Ephemeral => down'[i].id \notin seen' /\ down'[i].id \notin pending'
      <4> SUFFICES ASSUME NEW i \in 1..Len(down'), down'[i].id \in Ephemeral
                   PROVE  down'[i].id \notin seen /\ down'[i].id \notin pending'
        BY <2>1
      <4>1. CASE i \in 1..Len(down)
        BY <2>2, <2>5, <4>1 DEF Onwards, SentOnce
      <4>2. CASE i = Len(down) + 1
        BY <2>2, <2>5, <4>2 DEF Onwards, SentOnce
      <4> QED BY <2>6, <4>1, <4>2
    <3>4. pc \in Window => current < m
      BY <2>2, <2>3, NumbersAre DEF Onwards, SentOnce
    <3>5. pc' \in Window =>
            /\ current' <= cursor'
            /\ \A i \in 1..Len(down') : down'[i].id # 0 => current' < down'[i].id
            /\ current' \in Ephemeral => current' \notin pending'
      <4> SUFFICES ASSUME pc \in Window
                   PROVE  /\ current <= m
                          /\ \A i \in 1..Len(down') : down'[i].id # 0 => current < down'[i].id
                          /\ current \in Ephemeral => current \notin pending'
        BY <2>1, <2>2
      <4>1. current <= m
        BY <2>3, <3>4, NumbersAre
      <4>2. \A i \in 1..Len(down') : down'[i].id # 0 => current < down'[i].id
        BY <2>5, <2>6, <3>4 DEF Onwards, SentOnce
      <4>3. current \in Ephemeral => current \notin pending'
        BY <2>2 DEF Onwards, SentOnce
      <4> QED BY <4>1, <4>2, <4>3
    <3>6. \A n \in seen' : n <= arrived' /\ (n \in Ephemeral => n \notin pending')
      BY <2>1, <2>2 DEF Onwards, SentOnce
    <3> QED BY <3>1, <3>2, <3>3, <3>5, <3>6 DEF SentOnce
  <2>9. Newer'
    <3> SUFFICES ASSUME cumulative, cumulative' PROVE Newer'
      BY <2>1 DEF Newer
    <3>1. m \in Kept => device.lastId < m
      BY <2>1, <2>2, <2>3, NumbersAre DEF Onwards, Newer
    <3>2. \A i \in 1..Len(down') : down'[i].id \in Kept => device.lastId < down'[i].id
      BY <2>5, <2>6, <3>1 DEF Onwards, Newer
    <3>3. \A n \in pending' : n <= device.lastId => n <= cursor'
      <4> SUFFICES ASSUME NEW n \in pending', n <= device.lastId PROVE n <= m
        BY <2>2
      <4>1. n \in pending /\ n \in Nat
        BY <2>2, NumbersAre DEF Shape, TypeOK, LedgersOK
      <4>2. n <= cursor
        BY <2>1, <4>1 DEF Onwards, Newer
      <4> QED BY <2>2, <2>3, <4>1, <4>2, NumbersAre
    <3> QED BY <2>1, <3>2, <3>3 DEF Onwards, Newer
  <2> QED BY <2>1, <2>8, <2>9 DEF Onwards, Remembered
<1>27. Shape /\ Onwards /\ ReceiveData => Onwards'
  <2> SUFFICES ASSUME Shape, Onwards, ReceiveData PROVE Onwards'
    OBVIOUS
  <2> DEFINE h == Head(down).id
  <2>1. UNCHANGED <<cumulative, arrived, pending, disk, seen, link, cursor>> /\ down # <<>> /\ down' = Tail(down)
    BY DEF ReceiveData, Receive
  <2>2. pc = "reading" /\ pc' = "decode" /\ current' = h /\ Head(down).kind = "data"
    BY DEF ReceiveData, Receive
  <2>3. /\ h = down[1].id /\ Len(down) \in Nat /\ Len(down) > 0 /\ Len(down') = Len(down) - 1
        /\ \A i \in 1..Len(down') : down'[i] = down[i + 1]
    BY <2>1, QueueIs, Rest
  <2>4. h \in Messages /\ h \in Nat /\ h # 0 /\ h <= arrived /\ h <= cursor
    <3>1. h \in Messages
      BY <2>1, <2>2, QueueIs, Rest, FrameShape
    <3>2. 1 \in 1..Len(down)
      BY <2>3
    <3> QED BY <2>3, <3>1, <3>2, NumbersAre DEF Onwards, SentOnce
  <2>5. h \in Ephemeral => h \notin seen /\ h \notin pending
    BY <2>3 DEF Onwards, SentOnce
  <2>6. \A i \in 1..Len(down') : i + 1 \in 1..Len(down) /\ 1 < i + 1 /\ down'[i].id = down[i + 1].id
    BY <2>3
  <2>7. \A i \in 1..Len(down') : down'[i].id # 0 => h < down'[i].id
    <3>1. 1 \in 1..Len(down)
      BY <2>3
    <3> QED BY <2>3, <2>6, <3>1 DEF Onwards, SentOnce, Rising
  <2>8. device'.lastId = (IF h \in Ephemeral THEN device.lastId ELSE h)
    BY <2>2 DEF ReceiveData, Shape, TypeOK, KeysOK, Devices
  <2>9. PartOf(down', down)
    BY <2>1, QueueIs, Parts
  <2> HIDE DEF h
  <2>10. SentOnce'
    <3>1. Rising(down') /\ \A i \in 1..Len(down') : down'[i].id <= cursor'
      BY <2>1, <2>9 DEF Onwards, SentOnce, PartOf, Rising
    <3>2. \A i \in 1..Len(down') :
            down'[i].id \in Ephemeral => down'[i].id \notin seen' /\ down'[i].id \notin pending'
      BY <2>1, <2>6 DEF Onwards, SentOnce
    <3>3. \A m \in seen' : m <= arrived' /\ (m \in Ephemeral => m \notin pending')
      BY <2>1 DEF Onwards, SentOnce
    <3>4. current' <= cursor' /\ (\A i \in 1..Len(down') : down'[i].id # 0 => current' < down'[i].id)
      BY <2>1, <2>2, <2>4, <2>7
    <3>5. current' \in Ephemeral => current' \notin pending'
      BY <2>1, <2>2, <2>5
    <3> QED BY <3>1, <3>2, <3>3, <3>4, <3>5 DEF SentOnce
  <2>11. Newer'
    <3> SUFFICES ASSUME cumulative, cumulative' PROVE Newer'
      BY <2>1 DEF Newer
    <3>1. h \in Kept <=> h \notin Ephemeral
      BY <2>4 DEF Kept
    <3>2. pc # "down" /\ 1 \in 1..Len(down)
      BY <2>2, <2>3
    <3>3. h \in Kept => device.lastId < h
      BY <2>3, <3>2 DEF Onwards, Newer
    <3>4. \A m \in seen : m \in Nat /\ (m \in Kept => m <= device.lastId)
      BY <3>2, NumbersAre DEF Onwards, Newer, Shape, TypeOK, LedgersOK
    <3>5. device.lastId \in Nat /\ device'.lastId \in Nat /\ device.lastId <= device'.lastId
      BY <2>4, <2>8, <3>1, <3>3, NumbersAre
    <3>6. \A m \in seen' : m \in Kept => m <= device'.lastId
      BY <2>1, <3>4, <3>5
    <3>7. \A i \in 1..Len(down') : down'[i].id \in Kept => device'.lastId < down'[i].id
      <4> SUFFICES ASSUME NEW i \in 1..Len(down'), down'[i].id \in Kept
                   PROVE  device'.lastId < down'[i].id
        OBVIOUS
      <4>1. h < down'[i].id
        BY <2>7, KeptAre
      <4>2. device.lastId < down'[i].id
        BY <2>6 DEF Onwards, Newer
      <4> QED BY <2>8, <4>1, <4>2
    <3>8. link' \in {"heard", "up"} => \A m \in pending' : m <= device'.lastId => m <= cursor'
      <4> SUFFICES ASSUME link \in {"heard", "up"}, NEW m \in pending, m <= device'.lastId
                   PROVE  m <= cursor
        BY <2>1
      <4>1. m \in Nat
        BY NumbersAre DEF Shape, TypeOK, LedgersOK
      <4> QED BY <2>4, <2>8, <4>1, NumbersAre DEF Onwards, Newer
    <3>9. current' \in Kept => current' = device'.lastId
      BY <2>2, <2>8, <3>1
    <3>10. current' \notin seen'
      <4>1. h \in Kept => h \notin seen
        BY <2>4, <3>3, <3>4, <3>5
      <4> QED BY <2>1, <2>2, <2>5, <3>1, <4>1
    <3> QED BY <3>6, <3>7, <3>8, <3>9, <3>10 DEF Newer
  <2>12. Remembered'
    BY <2>1, <2>4, <2>8 DEF Onwards, Remembered
  <2> QED BY <2>10, <2>11, <2>12 DEF Onwards
<1>28. Shape /\ Onwards /\ UNCHANGED vars => Onwards'
  BY DEF vars, Onwards, SentOnce, Newer, Remembered
<1> QED
  BY <1>1, <1>2, <1>3, <1>4, <1>5, <1>6, <1>7, <1>8, <1>9, <1>10, <1>11,
     <1>12, <1>13, <1>14, <1>15, <1>16, <1>17, <1>18, <1>19, <1>20, <1>21,
     <1>22, <1>23, <1>24, <1>25, <1>26, <1>27, <1>28 DEF Next, Loop,
     Application, Server

LEMMA OnwardsInit == Init => Onwards
<1> SUFFICES ASSUME Init PROVE Onwards
  OBVIOUS
<1>1. down = <<>> /\ device.lastId = 0 /\ disk.lastId = 0 /\ arrived = 0 /\ pc = "down" /\ seen = {} /\ pending = {}
  BY DEF Init, Blank
<1> QED BY <1>1 DEF Onwards, SentOnce, Rising, Newer, Remembered, Window

\* A process handles no message a second time, over any number of connections, if
\* the server takes a persistent id for everything up to it: the id a login sends
\* keeps up with what was handled.
THEOREM NothingRepeated == Spec => []NoRepeatInProcess
<1>1. Init => Shape /\ Onwards
  BY ShapeInit, OnwardsInit
<1>2. Shape /\ Onwards /\ [Next]_vars => (Shape /\ Onwards)'
  BY ShapeStep, OnwardsStep
<1>3. Onwards => NoRepeatInProcess
  BY DEF Onwards, Newer, NoRepeatInProcess
<1> QED BY <1>1, <1>2, <1>3, PTL DEF Spec

-----------------------------------------------------------------------------
(* The stream ids. *)

LEMMA CountersAre ==
  ASSUME Shape
  PROVE  /\ streamId \in Nat /\ sentHere \in Nat /\ acked \in Nat /\ Len(down) \in Nat
         /\ \A m \in Messages : sentAs[m] \in Nat
         /\ 0 \notin Messages
<1>1. 0 \notin Messages
  BY NumbersAre
<1> QED BY <1>1, QueueIs DEF Shape, TypeOK, ProcessOK, ConnectionOK

\* Nothing is read and nothing is sent; what breaks is only shortened.
LEMMA StillCounted ==
  ASSUME Shape, Counted, UNCHANGED <<streamId, sentHere, sentAs, acked>>, first' => first,
         UNCHANGED <<cut, down>> \/ (cut' /\ \E n \in 0..Len(down) : down' = SubSeq(down, 1, n)),
         seen \subseteq seen',
         \A m \in Messages : m \in InWork => m \in seen' \cup InWork'
  PROVE  Counted'
<1> SUFFICES ASSUME first' PROVE CountedHere'
  BY DEF Counted
<1>1. CountedHere
  BY DEF Counted
<1>2. /\ Len(down') \in Nat /\ Len(down') <= Len(down)
      /\ \A i \in 1..Len(down') : i \in 1..Len(down) /\ down'[i] = down[i]
  <2>1. CASE UNCHANGED <<cut, down>>
    BY <2>1, CountersAre
  <2>2. CASE \E n \in 0..Len(down) : down' = SubSeq(down, 1, n)
    <3>1. PICK n \in 0..Len(down) : down' = SubSeq(down, 1, n)
      BY <2>2
    <3>2. Len(down') = n /\ \A i \in 1..n : down'[i] = down[i]
      BY <3>1, QueueIs, Prefix
    <3> QED BY <3>2, CountersAre
  <2> QED BY <2>1, <2>2
<1>3. streamId' + Len(down') <= sentHere' /\ (~cut' => streamId' + Len(down') = sentHere')
  BY <1>1, <1>2, CountersAre DEF CountedHere
<1>4. \A m \in Messages, i \in 1..Len(down') : sentAs'[m] = streamId' + i => down'[i].id = m
  BY <1>1, <1>2 DEF CountedHere
<1>5. \A m \in Messages : sentAs'[m] \in 1..streamId' => m \in seen' \cup InWork'
  BY <1>1 DEF CountedHere
<1> QED BY <1>1, <1>3, <1>4, <1>5 DEF CountedHere

\* A frame is read: it goes in work, or it is no message.  Its number is the
\* device's counter.
LEMMA ReadCounted ==
  ASSUME Shape, Counted, pc \in {"login", "reading"}, down # <<>>, down' = Tail(down),
         streamId' = streamId + 1, UNCHANGED <<sentHere, sentAs, cut, first, seen>>,
         Head(down).id = 0 \/ Head(down).id \in InWork',
         acked' = acked \/ (acked' = streamId' /\ Head(down).id = 0)
  PROVE  Counted'
<1> SUFFICES ASSUME first' PROVE CountedHere'
  BY DEF Counted
<1>1. CountedHere
  BY DEF Counted
<1>2. /\ Len(down) > 0 /\ Len(down') = Len(down) - 1 /\ Head(down) = down[1]
      /\ \A i \in 1..Len(down') : i + 1 \in 1..Len(down) /\ down'[i] = down[i + 1]
  BY QueueIs, Rest
<1>3. InWork = {}
  BY DEF InWork
<1>4. \A m \in Messages : sentAs[m] \in 1..streamId => m \in seen
  BY <1>1, <1>3 DEF CountedHere
<1>5. \A m \in Messages : sentAs[m] = streamId + 1 => m = Head(down).id
  <2>1. 1 \in 1..Len(down)
    BY <1>2, CountersAre
  <2> QED BY <1>1, <1>2, <2>1 DEF CountedHere
<1>6. \A m \in Messages : sentAs[m] \in 1..streamId' => m \in seen \/ m = Head(down).id
  BY <1>4, <1>5, CountersAre
<1>7. streamId' + Len(down') <= sentHere' /\ (~cut' => streamId' + Len(down') = sentHere')
  BY <1>1, <1>2, CountersAre DEF CountedHere
<1>8. \A m \in Messages, i \in 1..Len(down') : sentAs'[m] = streamId' + i => down'[i].id = m
  <2> SUFFICES ASSUME NEW m \in Messages, NEW i \in 1..Len(down'), sentAs[m] = (streamId + 1) + i
               PROVE  down'[i].id = m
    OBVIOUS
  <2>1. sentAs[m] = streamId + (i + 1)
    BY CountersAre
  <2> QED BY <1>1, <1>2, <2>1 DEF CountedHere
<1>9. \A m \in Messages : sentAs'[m] \in 1..streamId' => m \in seen' \cup InWork'
  BY <1>6, CountersAre
<1>10. acked' <= streamId'
  BY <1>1, CountersAre DEF CountedHere
<1>11. \A m \in Messages : sentAs'[m] \in 1..acked' => m \in seen'
  <2>1. CASE acked' = acked
    BY <1>1, <2>1 DEF CountedHere
  <2>2. CASE acked' = streamId' /\ Head(down).id = 0
    BY <1>6, <2>2, CountersAre
  <2> QED BY <2>1, <2>2
<1> QED BY <1>1, <1>7, <1>8, <1>9, <1>10, <1>11 DEF CountedHere

\* A frame is sent, with the server's next number.
LEMMA SentCounted ==
  ASSUME Shape, Counted, ~cut, NEW f \in Frames, down' = Append(down, f),
         sentHere' = sentHere + 1,
         \A m \in Messages : sentAs'[m] = sentAs[m] \/ (sentAs'[m] = sentHere + 1 /\ f.id = m),
         UNCHANGED <<streamId, acked, first, seen, cut, pc, current>>
  PROVE  Counted'
<1> SUFFICES ASSUME first' PROVE CountedHere'
  BY DEF Counted
<1>1. CountedHere
  BY DEF Counted
<1>2. /\ Len(down') = Len(down) + 1
      /\ \A i \in 1..Len(down) : down'[i] = down[i]
      /\ down'[Len(down) + 1] = f
  BY QueueIs, Queued
<1>3. streamId + Len(down) = sentHere /\ acked <= streamId
  BY <1>1 DEF CountedHere
<1>4. streamId' + Len(down') = sentHere'
  BY <1>2, <1>3, CountersAre
<1>5. \A m \in Messages : sentAs'[m] <= sentHere'
  BY <1>1, CountersAre DEF CountedHere
<1>6. \A m \in Messages, i \in 1..Len(down') : sentAs'[m] = streamId' + i => down'[i].id = m
  <2> SUFFICES ASSUME NEW m \in Messages, NEW i \in 1..Len(down'), sentAs'[m] = streamId + i
               PROVE  down'[i].id = m
    OBVIOUS
  <2>1. CASE sentAs'[m] = sentHere + 1 /\ f.id = m
    <3>1. i = Len(down) + 1
      BY <1>3, <2>1, CountersAre
    <3> QED BY <1>2, <2>1, <3>1
  <2>2. CASE sentAs'[m] = sentAs[m]
    <3>1. sentAs[m] <= sentHere
      BY <1>1 DEF CountedHere
    <3>2. i \in 1..Len(down)
      BY <1>3, <2>2, <3>1, CountersAre
    <3> QED BY <1>1, <1>2, <2>2, <3>2 DEF CountedHere
  <2> QED BY <2>1, <2>2
<1>7. \A m \in Messages : sentAs'[m] \in 1..streamId => sentAs'[m] = sentAs[m]
  BY <1>3, CountersAre
<1>8. \A m \in Messages : sentAs'[m] \in 1..acked => sentAs'[m] = sentAs[m]
  BY <1>3, CountersAre
<1>9. InWork' = InWork
  BY DEF InWork
<1> QED BY <1>1, <1>3, <1>4, <1>5, <1>6, <1>7, <1>8, <1>9, CountersAre DEF CountedHere

\* No connection, and a counter that has not begun.
LEMMA NoneCounted ==
  ASSUME down' = <<>>, streamId' = 0, sentHere' = 0, acked' = 0,
         \A m \in Messages : sentAs'[m] = 0
  PROVE  Counted'
<1>1. Len(down') = 0
  OBVIOUS
<1> QED BY <1>1 DEF Counted, CountedHere

LEMMA DiedCounted == Die => Counted'
<1> SUFFICES ASSUME Die PROVE Counted'
  OBVIOUS
<1>1. HangUp /\ streamId' = 0
  BY DEF Die
<1> QED BY <1>1, NothingLeft, NoneCounted

LEMMA LaterCounted == ~first' => Counted'
  BY DEF Counted

LEMMA CountedStep == Shape /\ Counted /\ [Next]_vars => Counted'
<1>1. Shape /\ Counted /\ GiveKeys => Counted'
  <2> SUFFICES ASSUME Shape, Counted, GiveKeys PROVE Counted'
    OBVIOUS
  <2>1. UNCHANGED <<streamId, sentHere, sentAs, acked, cut, down, first, seen>>
    BY DEF GiveKeys, ledger, stream, proc
  <2>2. \A m \in Messages : m \in InWork => m \in seen' \cup InWork'
    BY DEF GiveKeys, proc, InWork
  <2> QED BY <2>1, <2>2, StillCounted
<1>2. Shape /\ Counted /\ Save => Counted'
  <2> SUFFICES ASSUME Shape, Counted, Save PROVE Counted'
    OBVIOUS
  <2>1. UNCHANGED <<streamId, sentHere, sentAs, acked, cut, down, first, seen>>
    BY DEF Save, ledger, stream, proc
  <2>2. \A m \in Messages : m \in InWork => m \in seen' \cup InWork'
    BY DEF Save, proc, InWork
  <2> QED BY <2>1, <2>2, StillCounted
<1>3. Shape /\ Counted /\ Arrive => Counted'
  <2> SUFFICES ASSUME Shape, Counted, Arrive PROVE Counted'
    OBVIOUS
  <2>1. UNCHANGED <<streamId, sentHere, sentAs, acked, cut, down, first, seen>>
    BY DEF Arrive, ledger, stream, proc
  <2>2. \A m \in Messages : m \in InWork => m \in seen' \cup InWork'
    BY DEF Arrive, proc, InWork
  <2> QED BY <2>1, <2>2, StillCounted
<1>4. Shape /\ Counted /\ ServerHearsLogin => Counted'
  <2> SUFFICES ASSUME Shape, Counted, ServerHearsLogin PROVE Counted'
    OBVIOUS
  <2>1. UNCHANGED <<streamId, sentHere, sentAs, acked, cut, down, first, seen>>
    BY DEF ServerHearsLogin, ledger, stream, proc
  <2>2. \A m \in Messages : m \in InWork => m \in seen' \cup InWork'
    BY DEF ServerHearsLogin, proc, InWork
  <2> QED BY <2>1, <2>2, StillCounted
<1>5. Shape /\ Counted /\ Reported => Counted'
  <2> SUFFICES ASSUME Shape, Counted, Reported PROVE Counted'
    OBVIOUS
  <2>1. UNCHANGED <<streamId, sentHere, sentAs, acked, cut, down, first, seen>>
    BY DEF Reported, ledger, stream, proc
  <2>2. \A m \in Messages : m \in InWork => m \in seen' \cup InWork'
    BY DEF Reported, proc, InWork
  <2> QED BY <2>1, <2>2, StillCounted
<1>6. Shape /\ Counted /\ Decrypt => Counted'
  <2> SUFFICES ASSUME Shape, Counted, Decrypt PROVE Counted'
    OBVIOUS
  <2>1. UNCHANGED <<streamId, sentHere, sentAs, acked, cut, down, first, seen>>
    BY DEF Decrypt, ledger, stream, proc
  <2>2. \A m \in Messages : m \in InWork => m \in seen' \cup InWork'
    BY DEF Decrypt, proc, InWork
  <2> QED BY <2>1, <2>2, StillCounted
<1>7. Shape /\ Counted /\ ConnectionDrops => Counted'
  <2> SUFFICES ASSUME Shape, Counted, ConnectionDrops PROVE Counted'
    OBVIOUS
  <2>1. UNCHANGED <<streamId, sentHere, sentAs, acked, first, seen>>
    BY DEF ConnectionDrops, ledger
  <2>2. UNCHANGED <<cut, down>> \/ (cut' /\ \E n \in 0..Len(down) : down' = SubSeq(down, 1, n))
    BY DEF ConnectionDrops, Break
  <2>3. \A m \in Messages : m \in InWork => m \in seen' \cup InWork'
    BY DEF ConnectionDrops, InWork
  <2> QED BY <2>1, <2>2, <2>3, StillCounted
<1>8. Shape /\ Counted /\ Close => Counted'
  <2> SUFFICES ASSUME Shape, Counted, Close PROVE Counted'
    OBVIOUS
  <2>1. UNCHANGED <<streamId, sentHere, sentAs, acked, first, seen>>
    BY DEF Close, ledger
  <2>2. UNCHANGED <<cut, down>> \/ (cut' /\ \E n \in 0..Len(down) : down' = SubSeq(down, 1, n))
    BY DEF Close, Break
  <2>3. \A m \in Messages : m \in InWork => m \in seen' \cup InWork'
    BY DEF Close, InWork
  <2> QED BY <2>1, <2>2, <2>3, StillCounted
<1>9. Shape /\ Counted /\ HandlerCloses => Counted'
  <2> SUFFICES ASSUME Shape, Counted, HandlerCloses PROVE Counted'
    OBVIOUS
  <2>1. UNCHANGED <<streamId, sentHere, sentAs, acked, first, seen>>
    BY DEF HandlerCloses, ledger
  <2>2. UNCHANGED <<cut, down>> \/ (cut' /\ \E n \in 0..Len(down) : down' = SubSeq(down, 1, n))
    BY DEF HandlerCloses, Break
  <2>3. \A m \in Messages : m \in InWork => m \in seen' \cup InWork'
    BY DEF HandlerCloses, InWork, InHandler
  <2> QED BY <2>1, <2>2, <2>3, StillCounted
<1>10. Shape /\ Counted /\ LoginRefused => Counted'
  BY LaterCounted DEF LoginRefused
<1>11. Shape /\ Counted /\ LoginFails => Counted'
  BY LaterCounted DEF LoginFails
<1>12. Shape /\ Counted /\ Exit => Counted'
  BY LaterCounted DEF Exit
<1>13. Shape /\ Counted /\ Crash => Counted'
  BY DiedCounted DEF Crash
<1>14. Shape /\ Counted /\ PingAckFails => Counted'
  BY DiedCounted DEF PingAckFails
<1>15. Shape /\ Counted /\ Start => Counted'
  <2> SUFFICES ASSUME Shape, Counted, Start PROVE Counted'
    OBVIOUS
  <2>1. streamId' = 0 /\ UNCHANGED <<down, sentHere, acked, sentAs>> /\ pc = "down"
    BY DEF Start, stream, ledger
  <2>2. down = <<>> /\ sentHere = 0 /\ acked = 0 /\ \A m \in Messages : sentAs[m] = 0
    BY <2>1 DEF Shape, Positions, Resting
  <2> QED BY <2>1, <2>2, NoneCounted
<1>16. Shape /\ Counted /\ Connect => Counted'
  <2> SUFFICES ASSUME Shape, Counted, Connect PROVE Counted'
    OBVIOUS
  <2>1. pc = "idle" /\ down' = <<>> /\ UNCHANGED <<streamId, sentHere, sentAs, acked, first, seen>>
    BY DEF Connect, InHandler, ledger, Shape, Positions, LoopIsConnected
  <2>2. down = <<>> /\ sentHere = 0 /\ acked = 0 /\ \A m \in Messages : sentAs[m] = 0
    BY <2>1 DEF Shape, Positions, Resting
  <2>3. first => streamId = 0
    BY <2>2, CountersAre DEF Counted, CountedHere
  <2> QED BY <2>1, <2>2, <2>3, NoneCounted, LaterCounted
<1>17. Shape /\ Counted /\ LoginSucceeds => Counted'
  <2> SUFFICES ASSUME Shape, Counted, LoginSucceeds PROVE Counted'
    OBVIOUS
  <2>1. /\ pc = "login" /\ down # <<>> /\ down' = Tail(down) /\ streamId' = streamId + 1
        /\ UNCHANGED <<sentHere, sentAs, cut, first, seen, acked>>
    BY DEF LoginSucceeds, ledger
  <2>2. Head(down).id = 0
    BY <2>1, QueueIs, Rest, FrameShape DEF LoginSucceeds
  <2> QED BY <2>1, <2>2, ReadCounted
<1>18. Shape /\ Counted /\ ReceivePing => Counted'
  <2> SUFFICES ASSUME Shape, Counted, ReceivePing PROVE Counted'
    OBVIOUS
  <2>1. /\ pc = "reading" /\ down # <<>> /\ down' = Tail(down) /\ streamId' = streamId + 1
        /\ UNCHANGED <<sentHere, sentAs, cut, first, seen>> /\ acked' \in {acked, streamId'}
    BY DEF ReceivePing, Receive
  <2>2. Head(down).id = 0
    BY <2>1, QueueIs, Rest, FrameShape DEF ReceivePing, Receive
  <2> QED BY <2>1, <2>2, ReadCounted
<1>19. Shape /\ Counted /\ ReceiveClose => Counted'
  <2> SUFFICES ASSUME Shape, Counted, ReceiveClose PROVE Counted'
    OBVIOUS
  <2>1. CASE Die
    BY <2>1, DiedCounted
  <2>2. CASE ~Die
    <3>1. /\ pc = "reading" /\ down # <<>> /\ down' = Tail(down) /\ streamId' = streamId + 1
          /\ UNCHANGED <<sentHere, sentAs, cut, first, seen, acked>>
      BY <2>2 DEF ReceiveClose, Receive, ledger
    <3>2. Head(down).id = 0
      BY <3>1, QueueIs, Rest, FrameShape DEF ReceiveClose, Receive
    <3> QED BY <3>1, <3>2, ReadCounted
  <2> QED BY <2>1, <2>2
<1>20. Shape /\ Counted /\ ReceiveData => Counted'
  <2> SUFFICES ASSUME Shape, Counted, ReceiveData PROVE Counted'
    OBVIOUS
  <2>1. /\ pc = "reading" /\ down # <<>> /\ down' = Tail(down) /\ streamId' = streamId + 1
        /\ UNCHANGED <<sentHere, sentAs, cut, first, seen, acked>>
    BY DEF ReceiveData, Receive, ledger
  <2>2. Head(down).id \in InWork'
    BY DEF ReceiveData, InWork
  <2> QED BY <2>1, <2>2, ReadCounted
<1>21. Shape /\ Counted /\ DecryptFails => Counted'
  <2> SUFFICES ASSUME Shape, Counted, DecryptFails PROVE Counted'
    OBVIOUS
  <2>1. CASE Die
    BY <2>1, DiedCounted
  <2>2. CASE ~Die
    <3>1. UNCHANGED <<streamId, sentHere, sentAs, acked, cut, down, first>> /\ seen' = seen \cup {current}
      BY <2>2 DEF DecryptFails, Reports, stream, ledger
    <3>2. \A m \in Messages : m \in InWork => m \in seen' \cup InWork'
      BY <3>1 DEF DecryptFails, InWork
    <3> QED BY <3>1, <3>2, StillCounted
  <2> QED BY <2>1, <2>2
<1>22. Shape /\ Counted /\ Notified => Counted'
  <2> SUFFICES ASSUME Shape, Counted, Notified PROVE Counted'
    OBVIOUS
  <2>1. CASE Die
    BY <2>1, DiedCounted
  <2>2. CASE ~Die
    <3>1. UNCHANGED <<streamId, sentHere, sentAs, acked, cut, down, first>> /\ seen' = seen \cup {current}
      BY <2>2 DEF Notified, Reports, stream, ledger
    <3>2. \A m \in Messages : m \in InWork => m \in seen' \cup InWork'
      BY <3>1 DEF Notified, InWork
    <3> QED BY <3>1, <3>2, StillCounted
  <2> QED BY <2>1, <2>2
<1>23. Shape /\ Counted /\ ReadFails => Counted'
  <2> SUFFICES ASSUME Shape, Counted, ReadFails PROVE Counted'
    OBVIOUS
  <2>1. CASE Die
    BY <2>1, DiedCounted
  <2>2. CASE ~Die
    <3>1. UNCHANGED <<streamId, sentHere, sentAs, acked, cut, down, first, seen>> /\ pc = "reading"
      BY <2>2 DEF ReadFails, Reports, stream, ledger
    <3>2. \A m \in Messages : m \in InWork => m \in seen' \cup InWork'
      BY <3>1 DEF InWork
    <3> QED BY <3>1, <3>2, StillCounted
  <2> QED BY <2>1, <2>2
<1>24. Shape /\ Counted /\ ServerAccepts => Counted'
  <2> SUFFICES ASSUME Shape, Counted, ServerAccepts PROVE Counted'
    OBVIOUS
  <2>1. PICK f \in Frames : down' = Append(down, f)
    BY FramesOf DEF ServerAccepts, Send
  <2>2. ~cut /\ sentHere' = sentHere + 1 /\ UNCHANGED <<streamId, sentAs, acked, first, seen, cut, pc, current>>
    BY DEF ServerAccepts, Send, proc
  <2> QED BY <2>1, <2>2, SentCounted
<1>25. Shape /\ Counted /\ ServerRefuses => Counted'
  <2> SUFFICES ASSUME Shape, Counted, ServerRefuses PROVE Counted'
    OBVIOUS
  <2>1. PICK f \in Frames : down' = Append(down, f)
    BY FramesOf DEF ServerRefuses, Send
  <2>2. ~cut /\ sentHere' = sentHere + 1 /\ UNCHANGED <<streamId, sentAs, acked, first, seen, cut, pc, current>>
    BY DEF ServerRefuses, Send, proc
  <2> QED BY <2>1, <2>2, SentCounted
<1>26. Shape /\ Counted /\ ServerPings => Counted'
  <2> SUFFICES ASSUME Shape, Counted, ServerPings PROVE Counted'
    OBVIOUS
  <2>1. PICK f \in Frames : down' = Append(down, f)
    BY FramesOf DEF ServerPings, Send
  <2>2. ~cut /\ sentHere' = sentHere + 1 /\ UNCHANGED <<streamId, sentAs, acked, first, seen, cut, pc, current>>
    BY DEF ServerPings, Send, proc
  <2> QED BY <2>1, <2>2, SentCounted
<1>27. Shape /\ Counted /\ ServerSends => Counted'
  <2> SUFFICES ASSUME Shape, Counted, ServerSends PROVE Counted'
    OBVIOUS
  <2>1. PICK m \in pending : down' = Append(down, Data(m)) /\ sentAs' = [sentAs EXCEPT ![m] = sentHere + 1]
    BY DEF ServerSends, Send
  <2>2. ~cut /\ sentHere' = sentHere + 1 /\ UNCHANGED <<streamId, acked, first, seen, cut, pc, current>>
    BY DEF ServerSends, Send, proc
  <2>3. m \in Messages /\ sentAs \in [Messages -> Nat]
    BY DEF Shape, TypeOK, LedgersOK, ConnectionOK
  <2>4. Data(m) \in Frames /\ Data(m).id = m
    BY <2>3, FramesOf DEF Data
  <2>5. \A n \in Messages : sentAs'[n] = sentAs[n] \/ (sentAs'[n] = sentHere + 1 /\ Data(m).id = n)
    BY <2>1, <2>3, <2>4
  <2> QED BY <2>1, <2>2, <2>4, <2>5, SentCounted
<1>28. Shape /\ Counted /\ UNCHANGED vars => Counted'
  BY DEF vars, proc, stream, ledger, Counted, CountedHere, InWork
<1> QED
  BY <1>1, <1>2, <1>3, <1>4, <1>5, <1>6, <1>7, <1>8, <1>9, <1>10, <1>11,
     <1>12, <1>13, <1>14, <1>15, <1>16, <1>17, <1>18, <1>19, <1>20, <1>21,
     <1>22, <1>23, <1>24, <1>25, <1>26, <1>27, <1>28 DEF Next, Loop,
     Application, Server

LEMMA CountedInit == Init => Counted
<1> SUFFICES ASSUME Init PROVE Counted
  OBVIOUS
<1>1. /\ Len(down) = 0 /\ streamId = 0 /\ sentHere = 0 /\ acked = 0
      /\ \A m \in Messages : sentAs[m] = 0
  BY DEF Init
<1> QED BY <1>1 DEF Counted, CountedHere

\* On a first connection, what a heartbeat acknowledges was handed to a handler
\* before: the loop counts a frame when it reads it, and dispatches it to the end
\* before it reads the ping.
THEOREM WhatIsAckedWasHandled == Spec => []AckedWasHandled
<1>1. Init => Shape /\ Counted
  BY ShapeInit, CountedInit
<1>2. Shape /\ Counted /\ [Next]_vars => (Shape /\ Counted)'
  BY ShapeStep, CountedStep
<1>3. Counted => AckedWasHandled
  BY DEF Counted, CountedHere, AckedWasHandled
<1> QED BY <1>1, <1>2, <1>3, PTL DEF Spec

=================================================================================
