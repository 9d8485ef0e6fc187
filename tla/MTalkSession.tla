------------------------------ MODULE MTalkSession ------------------------------
(***************************************************************************)
(* What one virtual device exchanges with mtalk.google.com over many       *)
(* connections and many runs of the application (src/client/mtalk.go):     *)
(* the push keys, the login with the last persistent id, heartbeats and    *)
(* their stream ids, and the way of a notification from the socket to      *)
(* OnNotification or OnError.                                              *)
(*                                                                         *)
(* The life cycle of a connection is MTalkConnection's; here one goroutine *)
(* connects and waits for Closed() before it connects again, except for    *)
(* handlers that call Connect or Close themselves.  device is the          *)
(* FirebaseDevice in memory, disk the copy the application has stored      *)
(* ("it can be marshalled and stored", README.md:54), and a crash leaves   *)
(* only the latter.  Messages are numbered as they arrive at the server,   *)
(* and the number of a message stands for its persistent id; 0 is "".      *)
(***************************************************************************)
EXTENDS Naturals, Sequences, FiniteSets

CONSTANTS
  N,            \* messages that arrive in a behaviour
  Sealed,       \* those encrypted for the push keys of the device
  Garbled,      \* those whose salt, dh or ciphertext is broken
  Ephemeral,    \* those without a persistent id, which the server does not keep
  Keys,         \* push secrets and push key pairs, numbers above 0
  MaxFaults,    \* bound: crashes, dropped or refused connections, calls of Close
  MaxPings,     \* bound: heartbeats and close stanzas of the server
  MaxInFlight   \* bound: frames on their way to the device

Messages == 1..N

ASSUME SessionAssumption ==
  /\ N \in Nat /\ MaxFaults \in Nat /\ MaxPings \in Nat /\ MaxInFlight \in Nat \ {0}
  /\ Sealed \subseteq Messages
  /\ Garbled \subseteq Messages
  /\ Ephemeral \subseteq Messages
  /\ Keys \subseteq Nat \ {0}
  /\ \A used \in [0..N -> {0} \cup Keys] : Keys \ {used[i] : i \in 0..N} # {}

VARIABLES
  careful,     \* the application stores the device at safe moments, see Save
  fragile,     \* its OnError panics
  cumulative,  \* the server takes a persistent id for all it sent up to it
  pc,          \* where the application's process and its read loop are
  connected,   \* MTalkCon.connected
  stop,        \* MTalkCon.stop
  device,      \* MTalkCon.Device: last persistent id, auth secret, private key
  disk,        \* the stored copy of it
  current,     \* the message handleDataMessage is working on, 0 for none
  streamId,    \* MTalkCon.streamId
  streamIdReported,
  link,        \* "none", or how far the server is: "login", "heard", "up"
  cut,         \* nothing can be sent on this connection any more
  down,        \* frames on their way to the device
  cursor,      \* the last message sent on this connection
  sentHere,    \* the server's counter of the frames of this connection
  sentAs,      \* what that counter was for each message sent on it
  acked,       \* the last LastStreamIdReceived sent on this connection, 0 for none
  first,       \* this is the MTalkCon's first connection
  arrived,     \* messages that have arrived at the server
  pending,     \* those it still has to deliver
  sealedFor,   \* the keys each message was encrypted for
  given,       \* the push keys the senders have been given
  delivered,   \* messages OnNotification has been called with
  dropped,     \* messages OnError was called about instead
  seen,        \* messages of either kind in this run of the process
  faults, pings

world  == <<careful, fragile, cumulative>>
proc   == <<pc, connected, stop, device, current, streamId, streamIdReported, first, seen>>
ledger == <<cursor, sentHere, sentAs, acked>>
stream == <<link, cut, down, ledger>>
server == <<arrived, pending, sealedFor>>
fates  == <<delivered, dropped>>
bounds == <<faults, pings>>
vars   == <<world, proc, disk, stream, server, given, fates, bounds>>

Handled == delivered \cup dropped
Kept    == Messages \ Ephemeral

Devices == [lastId : 0..N, secret : {0} \cup Keys, private : {0} \cup Keys]
NoKeys  == [secret |-> 0, private |-> 0]
Blank   == [lastId |-> 0, secret |-> 0, private |-> 0]

Control(kind) == [kind |-> kind, id |-> 0]
Data(m)       == [kind |-> "data", id |-> m]
Frames        == {Control(k) : k \in {"welcome", "refusal", "ping", "close"}}
                   \cup {Data(m) : m \in Messages}

\* The states in which a handler of the application runs on the loop.
InHandler == {"notify", "failing"}
\* The id is stored and the message is not handled yet.
Window == {"decode", "notify"}

ProcessOK ==
  /\ pc \in {"down", "idle", "login", "reading", "decode", "notify", "failing",
             "exit", "stuck"}
  /\ connected \in BOOLEAN /\ stop \in BOOLEAN /\ first \in BOOLEAN
  /\ current \in 0..N /\ (pc \in Window => current # 0)
  /\ streamId \in Nat /\ streamIdReported \in Nat

ConnectionOK ==
  /\ link \in {"none", "login", "heard", "up"}
  /\ cut \in BOOLEAN
  /\ down \in Seq(Frames)
  /\ cursor \in 0..N
  /\ sentHere \in Nat /\ acked \in Nat
  /\ sentAs \in [Messages -> Nat]

KeysOK ==
  /\ device \in Devices /\ disk \in Devices
  /\ sealedFor \in [Messages -> [secret : {0} \cup Keys, private : {0} \cup Keys]]
  /\ given \in [secret : {0} \cup Keys, private : {0} \cup Keys]

LedgersOK ==
  /\ careful \in BOOLEAN /\ fragile \in BOOLEAN /\ cumulative \in BOOLEAN
  /\ arrived \in 0..N
  /\ pending \subseteq Messages
  /\ delivered \subseteq Messages /\ dropped \subseteq Messages /\ seen \subseteq Messages
  /\ faults \in 0..MaxFaults /\ pings \in 0..MaxPings

TypeOK == ProcessOK /\ ConnectionOK /\ KeysOK /\ LedgersOK

Init ==
  /\ careful \in BOOLEAN /\ fragile \in BOOLEAN /\ cumulative \in BOOLEAN
  /\ pc = "down" /\ connected = FALSE /\ stop = FALSE
  /\ device = Blank /\ disk = Blank
  /\ current = 0 /\ streamId = 0 /\ streamIdReported = 0
  /\ link = "none" /\ cut = FALSE /\ down = <<>>
  /\ cursor = 0 /\ sentHere = 0 /\ acked = 0 /\ first = TRUE
  /\ sentAs = [m \in Messages |-> 0]
  /\ arrived = 0 /\ pending = {}
  /\ sealedFor = [m \in Messages |-> NoKeys]
  /\ given = NoKeys
  /\ delivered = {} /\ dropped = {} /\ seen = {}
  /\ faults = 0 /\ pings = 0

Fault == faults < MaxFaults /\ faults' = faults + 1

-----------------------------------------------------------------------------
(* The application's process. *)

PushKeys(d) == [secret |-> d.secret, private |-> d.private]

\* loadOrCreateAuthSecret, loadOrCreatePrivateKey: what the device carries is
\* restored; what it lacks is made, and is none of the keys anybody has.
Restored(key, used) == IF key # 0 THEN key ELSE CHOOSE k \in Keys : k \notin used

LoadOrCreateAuthSecret(d) ==
  Restored(d.secret, {given.secret} \cup {sealedFor[m].secret : m \in Messages})
LoadOrCreatePrivateKeyAnew(d) == \* mutant: the stored key is not used
  Restored(0, {given.private, d.private} \cup {sealedFor[m].private : m \in Messages})
LoadOrCreatePrivateKey(d) ==
  Restored(d.private, {given.private} \cup {sealedFor[m].private : m \in Messages})

\* A process starts from the stored device: NewMTalkCon.
Start ==
  /\ pc = "down"
  /\ pc' = "idle"
  /\ device' = [lastId  |-> disk.lastId,
                secret  |-> LoadOrCreateAuthSecret(disk),
                private |-> LoadOrCreatePrivateKey(disk)]
  /\ streamId' = 0 /\ streamIdReported' = 0 /\ first' = TRUE
  /\ seen' = {}
  /\ UNCHANGED <<world, connected, stop, current, disk, stream, server, given, fates, bounds>>

\* Nothing is left of a connection: no socket, and nothing the server knows of it.
HangUp ==
  /\ link' = "none" /\ cut' = FALSE /\ down' = <<>>
  /\ cursor' = 0 /\ sentHere' = 0 /\ acked' = 0
  /\ sentAs' = [m \in Messages |-> 0]

\* What a process that ends leaves behind: the socket is closed and the device
\* in memory is gone.
Die ==
  /\ pc' = "down" /\ connected' = FALSE /\ stop' = FALSE
  /\ device' = Blank /\ current' = 0
  /\ HangUp
  /\ streamId' = 0 /\ streamIdReported' = 0 /\ first' = TRUE

Crash ==
  /\ pc # "down"
  /\ Fault
  /\ Die
  /\ UNCHANGED <<world, seen, disk, server, given, fates, pings>>

\* The application stores the device.  A careful one never does while a message
\* whose id is in it is still on its way to a handler.
Save ==
  /\ pc # "down"
  /\ careful => pc \notin Window
  /\ disk # device
  /\ disk' = device
  /\ UNCHANGED <<world, proc, stream, server, given, fates, bounds>>

\* The application gives its public key and auth secret to those who will send
\* to it; a careful one has stored them before.
GiveKeys ==
  /\ pc # "down"
  /\ careful => PushKeys(disk) = PushKeys(device)
  /\ given # PushKeys(device)
  /\ given' = PushKeys(device)
  /\ UNCHANGED <<world, proc, disk, stream, server, fates, bounds>>

-----------------------------------------------------------------------------
(* The server. *)

\* A message arrives, encrypted for the keys its sender has been given.
Arrive ==
  /\ arrived < N
  /\ arrived + 1 \in Sealed => given # NoKeys
  /\ arrived' = arrived + 1
  /\ pending' = pending \cup {arrived + 1}
  /\ sealedFor' = [sealedFor EXCEPT ![arrived + 1] = given]
  /\ UNCHANGED <<world, proc, disk, stream, given, fates, bounds>>

\* What a login with ReceivedPersistentId p leaves pending: without one the
\* server replays every pending message.
Unacknowledged(p) ==
  IF cumulative THEN {m \in pending : m > p} ELSE pending \ {p}

ServerHearsLogin ==
  /\ link = "login" /\ ~cut
  /\ link' = "heard"
  /\ pending' = Unacknowledged(device.lastId)
  /\ UNCHANGED <<world, proc, disk, cut, down, ledger,
                 arrived, sealedFor, given, fates, bounds>>

Send(frame) ==
  /\ Len(down) < MaxInFlight
  /\ down' = Append(down, frame)
  /\ sentHere' = sentHere + 1

ServerAccepts ==
  /\ link = "heard" /\ ~cut
  /\ link' = "up"
  /\ Send(Control("welcome"))
  /\ UNCHANGED <<world, proc, disk, cut, cursor, sentAs, acked, server, given, fates, bounds>>

\* An error in the login response, a close stanza or any other message.
ServerRefuses ==
  /\ link = "heard" /\ ~cut
  /\ Fault
  /\ link' = "none"
  /\ Send(Control("refusal"))
  /\ UNCHANGED <<world, proc, disk, cut, cursor, sentAs, acked, server, given, fates, pings>>

ServerPings ==
  /\ link = "up" /\ ~cut
  /\ pings < MaxPings
  /\ pings' = pings + 1
  /\ \E kind \in {"ping", "close"} : Send(Control(kind))
  /\ UNCHANGED <<world, proc, disk, link, cut, cursor, sentAs, acked, server, given, fates, faults>>

\* Pending messages are sent in the order of their arrival; one without a
\* persistent id is forgotten when it is sent.
ServerSends ==
  /\ link = "up" /\ ~cut
  /\ \E m \in pending :
       /\ m > cursor
       /\ \A n \in pending : n > cursor => m <= n
       /\ cursor' = m
       /\ sentAs' = [sentAs EXCEPT ![m] = sentHere + 1]
       /\ Send(Data(m))
       /\ pending' = IF m \in Ephemeral THEN pending \ {m} ELSE pending
  /\ UNCHANGED <<world, proc, disk, link, cut, acked, arrived, sealedFor, given, fates, bounds>>

\* The connection breaks: some of what was sent still arrives.
Break ==
  /\ cut' = TRUE
  /\ \E n \in 0..Len(down) : down' = SubSeq(down, 1, n)

ConnectionDrops ==
  /\ pc \notin {"down", "idle", "exit", "stuck"}
  /\ ~cut
  /\ Fault
  /\ Break
  /\ UNCHANGED <<world, proc, disk, link, ledger, server, given, fates, pings>>

-----------------------------------------------------------------------------
(* Connect, the handshake and Close. *)

\* Connect returns ErrAlreadyConnected while connected is set, also to a handler
\* that calls it.  It dials, writes the version and the login request.
Connect ==
  /\ pc \in {"idle"} \cup InHandler
  /\ ~connected
  /\ stop' = FALSE
  /\ pc' = "login"
  /\ link' = "login" /\ cut' = FALSE /\ down' = <<>>
  /\ current' = 0
  /\ UNCHANGED <<world, connected, device, streamId, streamIdReported, first, seen, disk, ledger,
                 server, given, fates, bounds>>

\* The end of handshake: readMessage counts the answer, whatever it is.
LoginSucceeds ==
  /\ pc = "login"
  /\ down # <<>> /\ Head(down).kind = "welcome"
  /\ down' = Tail(down)
  /\ streamId' = streamId + 1
  /\ pc' = "reading"
  /\ connected' = TRUE
  /\ UNCHANGED <<world, stop, device, current, streamIdReported, first, seen, disk, link, cut, ledger,
                 server, given, fates, bounds>>

LoginRefused ==
  /\ pc = "login"
  /\ down # <<>> /\ Head(down).kind = "refusal"
  /\ streamId' = streamId + 1
  /\ pc' = "idle"
  /\ HangUp
  /\ first' = FALSE
  /\ UNCHANGED <<world, connected, stop, device, current, streamIdReported, seen, disk, server, given,
                 fates, bounds>>

\* The connection drops, the deadline passes or the version byte differs.
LoginFails ==
  /\ pc = "login"
  /\ down = <<>> /\ cut
  /\ pc' = "idle"
  /\ HangUp
  /\ first' = FALSE
  /\ UNCHANGED <<world, connected, stop, device, current, streamId, streamIdReported, seen, disk, server,
                 given, fates, bounds>>

\* Close by another goroutine: stop is set and the socket closed.
Close ==
  /\ connected /\ ~stop
  /\ pc # "stuck"
  /\ Fault
  /\ stop' = TRUE
  /\ IF cut THEN UNCHANGED <<cut, down>> ELSE Break
  /\ UNCHANGED <<world, pc, connected, device, current, streamId, streamIdReported, first, seen,
                 disk, link, ledger, server, given, fates, pings>>

\* Close by a handler waits for the loop it runs on: "do not call it from inside
\* OnMessage/OnNotification" (mtalk.go:353).
HandlerCloses ==
  /\ pc \in InHandler /\ connected
  /\ ~careful
  /\ Fault
  /\ stop' = TRUE
  /\ pc' = "stuck"
  /\ IF cut THEN UNCHANGED <<cut, down>> ELSE Break
  /\ UNCHANGED <<world, connected, device, current, streamId, streamIdReported, first, seen,
                 disk, link, ledger, server, given, fates, pings>>

-----------------------------------------------------------------------------
(* The read loop. *)

\* After a dispatch the loop looks at stop and reads on.
Onward == IF stop THEN "exit" ELSE "reading"

\* OnError is called; if it panics nothing recovers, on the loop or in dispatch.
Reports(next) ==
  IF fragile
  THEN Die
  ELSE /\ pc' = next
       /\ current' = 0
       /\ UNCHANGED <<connected, stop, device, streamIdReported, first, stream, streamId>>

\* A frame is read, counted and dispatched.
Receive(kind) ==
  /\ pc = "reading"
  /\ down # <<>>
  /\ Head(down).kind = kind

ReceivePingAhead == \* mutant: the heartbeat counts a frame that has yet to come
  /\ Receive("ping")
  /\ down' = Tail(down)
  /\ streamId' = streamId + 1
  /\ pc' = Onward
  /\ streamIdReported' = streamId' + 1
  /\ acked' = IF cut THEN acked ELSE streamId' + 1
  /\ UNCHANGED <<world, connected, stop, device, current, first, seen, disk, link, cut, cursor,
                 sentHere, sentAs, server, given, fates, bounds>>

\* A ping is answered with the number of frames read so far, by every connection
\* of this MTalkCon.
ReceivePing ==
  /\ Receive("ping")
  /\ down' = Tail(down)
  /\ streamId' = streamId + 1
  /\ pc' = Onward
  /\ IF streamId' # streamIdReported
     THEN /\ streamIdReported' = streamId'
          /\ acked' = IF cut THEN acked ELSE streamId'
     ELSE UNCHANGED <<streamIdReported, acked>>
  /\ UNCHANGED <<world, connected, stop, device, current, first, seen, disk, link, cut, cursor,
                 sentHere, sentAs, server, given, fates, bounds>>

\* The answer to a ping cannot be written any more: not fatal, but reported.
PingAckFails ==
  /\ Receive("ping")
  /\ cut /\ fragile
  /\ Die
  /\ UNCHANGED <<world, seen, disk, server, given, fates, bounds>>

\* A close stanza is an error that does not end the loop.
ReceiveClose ==
  /\ Receive("close")
  /\ IF fragile
     THEN Die
     ELSE /\ down' = Tail(down)
          /\ streamId' = streamId + 1
          /\ pc' = Onward
          /\ UNCHANGED <<connected, stop, device, current, streamIdReported, first, link, cut, ledger>>
  /\ UNCHANGED <<world, seen, disk, server, given, fates, bounds>>

ReceiveDataOnce == \* mutant: only the first id is stored
  /\ Receive("data")
  /\ current' = Head(down).id
  /\ device' = IF current' \in Ephemeral \/ device.lastId # 0 THEN device
               ELSE [device EXCEPT !.lastId = current']
  /\ down' = Tail(down)
  /\ streamId' = streamId + 1
  /\ pc' = "decode"
  /\ UNCHANGED <<world, connected, stop, streamIdReported, first, seen, disk, link, cut, ledger, server, given, fates, bounds>>

\* handleDataMessage begins with the persistent id, if there is one.
ReceiveData ==
  /\ Receive("data")
  /\ current' = Head(down).id
  /\ device' = IF current' \in Ephemeral THEN device ELSE [device EXCEPT !.lastId = current']
  /\ down' = Tail(down)
  /\ streamId' = streamId + 1
  /\ pc' = "decode"
  /\ UNCHANGED <<world, connected, stop, streamIdReported, first, seen, disk, link, cut, ledger, server, given, fates, bounds>>

Readable(m) ==
  /\ m \notin Garbled
  /\ m \in Sealed => sealedFor[m] = PushKeys(device)

DecryptSilently == \* mutant: a message without a handler for its kind is skipped
  /\ pc = "decode"
  /\ Readable(current)
  /\ pc' = Onward
  /\ current' = 0
  /\ UNCHANGED <<world, connected, stop, device, streamId, streamIdReported, first, seen,
                 disk, stream, server, given, fates, bounds>>

Decrypt ==
  /\ pc = "decode"
  /\ Readable(current)
  /\ pc' = "notify"
  /\ UNCHANGED <<world, connected, stop, device, current, streamId, streamIdReported, first, seen,
                 disk, stream, server, given, fates, bounds>>

DecryptFailsSilently == \* mutant: a message that does not decode is skipped
  /\ pc = "decode"
  /\ ~Readable(current)
  /\ pc' = Onward
  /\ current' = 0
  /\ UNCHANGED <<world, connected, stop, device, streamId, streamIdReported, first, seen,
                 disk, stream, server, given, fates, bounds>>

\* A salt, a dh or a ciphertext that does not decode: reported and dropped.
DecryptFails ==
  /\ pc = "decode"
  /\ ~Readable(current)
  /\ dropped' = dropped \cup {current}
  /\ seen' = seen \cup {current}
  /\ Reports(Onward)
  /\ UNCHANGED <<world, disk, server, given, delivered, bounds>>

\* OnNotification returns, or it panics and dispatch reports that.
Notified ==
  /\ pc = "notify"
  /\ delivered' = delivered \cup {current}
  /\ seen' = seen \cup {current}
  /\ \/ /\ pc' = Onward
        /\ current' = 0
        /\ UNCHANGED <<connected, stop, device, streamId, streamIdReported, first, stream>>
     \/ Reports(Onward)
  /\ UNCHANGED <<world, disk, server, given, dropped, bounds>>

ReadFailsDisconnected == \* mutant: connected is cleared before OnError is called
  /\ pc = "reading"
  /\ down = <<>> /\ cut
  /\ pc' = IF stop THEN "exit" ELSE "failing"
  /\ connected' = FALSE
  /\ UNCHANGED <<world, stop, device, current, streamId, streamIdReported, first, seen,
                 disk, stream, server, given, fates, bounds>>

\* The connection is over: without a Close that is a fatal error.
ReadFails ==
  /\ pc = "reading"
  /\ down = <<>> /\ cut
  /\ IF stop
     THEN /\ pc' = "exit"
          /\ UNCHANGED <<connected, stop, device, current, streamId, streamIdReported, first, stream>>
     ELSE Reports("failing")
  /\ UNCHANGED <<world, seen, disk, server, given, fates, bounds>>

\* OnError has returned.
Reported ==
  /\ pc = "failing"
  /\ pc' = "exit"
  /\ UNCHANGED <<world, connected, stop, device, current, streamId, streamIdReported, first, seen,
                 disk, stream, server, given, fates, bounds>>

ExitConnected == \* mutant: connected stays set
  /\ pc = "exit"
  /\ pc' = "idle"
  /\ HangUp
  /\ first' = FALSE
  /\ UNCHANGED <<world, connected, stop, device, current, streamId, streamIdReported, seen, disk, server,
                 given, fates, bounds>>

\* The deferred function of loop: the socket is closed and connected cleared.
Exit ==
  /\ pc = "exit"
  /\ pc' = "idle"
  /\ connected' = FALSE
  /\ HangUp
  /\ first' = FALSE
  /\ UNCHANGED <<world, stop, device, current, streamId, streamIdReported, seen, disk, server, given,
                 fates, bounds>>

-----------------------------------------------------------------------------
Loop == ReceivePing \/ PingAckFails \/ ReceiveClose \/ ReceiveData \/ Decrypt \/ DecryptFails
          \/ Notified \/ ReadFails \/ Reported \/ Exit

Application == Start \/ Connect \/ LoginSucceeds \/ LoginRefused \/ LoginFails \/ Close \/ HandlerCloses
                 \/ Save \/ GiveKeys \/ Crash

Server == Arrive \/ ServerHearsLogin \/ ServerAccepts \/ ServerRefuses \/ ServerPings
            \/ ServerSends \/ ConnectionDrops

Next == Loop \/ Application \/ Server

Spec == Init /\ [][Next]_vars

\* Goroutines are scheduled and handlers return; the application restarts and
\* reconnects; the server answers a login and sends what is pending.  Nobody has
\* to crash, close, refuse or ping.
Fairness ==
  /\ WF_vars(Loop)
  /\ WF_vars(Start) /\ WF_vars(Connect) /\ WF_vars(LoginSucceeds)
  /\ WF_vars(LoginRefused) /\ WF_vars(LoginFails)
  /\ WF_vars(ServerHearsLogin) /\ WF_vars(ServerAccepts) /\ WF_vars(ServerSends)

FairSpec == Spec /\ Fairness

-----------------------------------------------------------------------------
(* Properties. *)

\* What the server keeps is never lost by an application that stores its device
\* only when no message is half way: until a message was handled (OnNotification
\* or OnError had it) the server can still deliver it, whatever crashes, although
\* handleDataMessage stores the id it will acknowledge before it decrypts.
NothingLost ==
  careful => \A m \in Kept : m <= arrived => m \in pending \cup Handled

\* A restart does not cost the push keys: an application that stored the device
\* before it gave its keys away drops no message but those that are broken
\* themselves ("so that a persisted device keeps receiving encrypted
\* notifications after a restart", mtalk.go:138-140).
OnlyBrokenDropped == careful => dropped \subseteq Garbled

\* As long as the process lives the acknowledged id keeps up with what it handled:
\* a reconnect does not bring a message a second time.
NoRepeatInProcess ==
  (cumulative /\ pc \in Window) => current \notin seen

\* On the first connection of an MTalkCon a LastStreamIdReceived covers only frames
\* that were read and dispatched to the end.  (On later ones it counts the frames
\* of the earlier connections as well, streamId is never reset.)
AckedWasHandled ==
  first => \A m \in Messages : sentAs[m] \in 1..acked => m \in seen

\* A handler that reconnects is refused as long as its loop runs: no Connect takes
\* the connection away from a running loop.
LoopKeepsConnection ==
  [][(pc \in {"reading", "decode", "notify", "failing", "exit"}) => pc' # "login"]_vars

\* Every message the server keeps is handled in the end, through crashes, drops and
\* refused logins, if OnError does not panic.
EveryMessageHandled ==
  \A m \in Kept : (careful /\ ~fragile /\ m <= arrived) ~> m \in Handled

\* The fate of each message as MailboxContract sees it.
Status(m) ==
  IF m > arrived THEN "absent"
  ELSE IF m \in Handled THEN "handled"
  ELSE IF m \in pending THEN "pending" ELSE "lost"

\* A message is handled or lost once and for all; a careful application loses none,
\* and a crash in the window between storing an id and handling its message costs
\* any other application that one message.
Mailbox == INSTANCE MailboxContract
             WITH status <- [m \in Kept |-> Status(m)], reliable <- careful
ImplementsMailbox == Mailbox!MSpec
=================================================================================
