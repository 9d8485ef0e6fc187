# A TLA+ verification project for go-android-firebase

go-android-firebase talks to Firebase, GCM and mtalk.google.com as a virtual
Android device. This directory models the parts of it that keep state, run
concurrently or encode data, checks them with TLC on small instances, and proves
most of what is checked with TLAPS for every instance.

## The system

| Part | Source | State | Operations | What is hard |
| --- | --- | --- | --- | --- |
| MTalk connection lifecycle | `client/mtalk.go` 37-430 | `connected`, `stop`, `RawConn`, `reader`, `closed`, `lastErr`, the `WaitGroup` | `Connect`, `Close`, `Closed`, `Err`, `Wait`, the read loop | one loop goroutine per connection, fields shared without a lock, the order of the steps at both ends of a connection |
| MTalk session | `client/mtalk.go` 121-164, 445-543, 627-670 | `streamId`, `streamIdReported`, `Device.MTalkLastPersistentId`, push keys | login, heartbeat acknowledgement, delivery, keys | what is acknowledged before it is delivered; what survives a reconnect or a restart |
| MTalk framing | `client/mtalk.go` 553-625, 672-766 | `writeMux`, the stream | read and write of tag, varint length, payload | limits, truncation, a stream that ends half way, concurrent writers |
| Generated codec | `api/*_vtproto.pb.go`, structs of `api/*.pb.go` | none | `MarshalVT`, `SizeVT`, `UnmarshalVT` of 31 messages | four separate listings of the same fields that must agree, unknown fields, cut input |
| Device state and registration | `client/client.go`, request builders of `api/api_out.go` | `Device`: check-in credentials, installations, tokens; `deviceMutex` | `NotifyInstallation`, `Checkin`, `C2DMRegisterAndroid`, `C2DMRegisterWeb`, `InstallationExpired`, `RegisterForNotifications` | answers stored under a mutex the requests are built without; tokens that expire; retries |
| Calls over HTTP | `client/client.go`, `api/api_in.go`, `api/errors.go` | `url.Values` of `Auth` | all nine calls, `readBodyExpecting`, `decodeJSON`, the `*Result` functions, `IsRetryable` | which status and body is which error; refusals with HTTP 200 |
| Tokens in JSON | `api/structs.go` | the stored token | `MarshalJSON`, `UnmarshalJSON` | one number that is a time or a lifetime |
| Client options, logging transport | `client/client.go` 39-113, `client/logging.go` 150-251 | `Client`, `ownsClient`, `logger` | options, `RoundTrip` | whose client is changed; bodies read before they are sent or returned |
| Validation, ids, constants, facade, log formatting, descriptors | `api/validate.go`, `api/utils.go`, `constants`, `lib.go`, `api/logging.go`, `api/*.pb.go` | none | | |

They meet in `FireBaseClient`: it owns the HTTP client, the `FirebaseDevice` and
one `MTalkCon` over the same device. The application calls both; the read loop
calls the application back (`OnMessage`, `OnNotification`, `OnError`). The device
is what the registration fills in, what the login on mtalk reads, and what the
application stores with the generated codec.

What makes each part correct: one loop at a time and every socket closed; an
ended connection announced once and explained; `Close` that waits and returns; no
message lost by an application that stores its device at a safe moment, and no
key; frames that never turn into other messages; a codec that reads what the
other one wrote; a request that carries credentials which belong together; a
success that leaves a usable token; a retry loop that ends after the attempts it
promises; answers that mean the same with and without logging; the caller's
`http.Client` left alone. `PROJECT.json` lists the hazards with their lines.

## The modules

    MTalkContract            what a connection promises to an application
    MTalkConnection          the connection, implements MTalkContract
    MTalkConnectionProofs
    MCMTalkConnection

    MailboxContract          what listening promises for each message
    MTalkSession             many connections and processes, implements MailboxContract
    MTalkSessionProofs
    MCMTalkSession

    FieldTables              how generated code is written down as tables
    McsMessages  CheckinMessages  DeviceMessages  Messages    the tables
    Varint                   numbers, lengths and bytes on the wire
    VarintProofs
    Codec                    what the generated code does with a table
    Wire                     a message between two programs
    Framing                  frames on a connection
    FramingProofs
    MCWire                   both

    Registration             the client's device state and calls
    RegistrationProofs       overlapping calls
    RegistrationFlowProofs   the flow, and calls that do not overlap
    MCRegistration

    ClientOptions            whose http.Client is it
    ClientOptionsProofs
    HttpExchange             a call: request, round trips, answer, result, token
    HttpExchangeProofs
    MCHttpExchange           both

### MTalkConnection

Callers are goroutines of the application that call `ConnectContext` and `Close`;
`pc[c]` is the statement a caller stands before. Each successful dial begins a
*generation* `g`: its socket `sock[g]`, the channel `chan[g]` that Connect makes
for it, and its loop goroutine `loop[g]`. The fields of `MTalkCon` hold
generation numbers, so that "the loop closes c.closed" is a statement about
whichever generation's channel is there at that moment.

- Every access of a field that another goroutine may write is a step of its own.
  `RawConn` and `reader` are always written together (207-208, 219-220) and are
  one variable. `RawConn != nil` and the call on it are two reads, as in the code.
- `readMessage` blocks on the socket it fetched (`on[g]`) and may fetch `c.reader`
  again for each byte (`Refetch`); two readers on one `bufio.Reader`, and a field
  cleared between its nil check and its use, end in a panic as one of the
  outcomes the build can produce (`ReadersRace`, `HandshakeRaces`).
- The exit of the loop is the deferred function line by line: find the
  connection, close it, clear `connected`, close the channel, `Done`.
- `Wait` returns at zero or sleeps; the `Done` that reaches zero wakes whoever
  sleeps; an `Add` between the two is the WaitGroup misuse panic.
- Calls that return `ErrAlreadyConnected` or `ErrNotConnected` change nothing and
  are stuttering. `SetLogContext` and the logger are left out. The handlers are
  opaque here: they return.
- A peer may send, drop or stay silent at any time. The moment a socket becomes
  "lost" is the moment its reader has drained it and sees the loss.

Three flags describe the application. `Serialized`: it makes one call of Connect
or Close at a time. `AwaitClosed`: it reconnects only after the last connection's
channel has closed (`<-client.MTalk.Closed()`, README.md:48-52). `Deadline`:
Connect is given a context with a deadline. The first two together are
*disciplined use*.

`MTalkContract` is what is left of all this for the application: connections come
up one at a time, each ends once, and only after it got a reason the application
knows (it called Close, or `Err()` shows the error). Its specification is a safety
part, `CSafe`, which `ImplementsContract` maps the connection to, and a fair part,
`CFair`, which `ContractIsFair` does: a connection with a reason to end is ended.

### MTalkSession

One goroutine connects and waits for `Closed()`; handlers may call `Connect` or
`Close` on the loop. What MTalkConnection models of a single connection is here
one step, and what it leaves out is the subject: the frames `down`, the message
`current` between its id being stored and its handler returning, the device in
memory and the copy on `disk`, processes that crash and start again. A message's
number is the order of its arrival at the server and stands for its persistent
id.

- `handleDataMessage` is `ReceiveData` (the id is stored first, line 469), then
  `Decrypt` or `DecryptFails`, then `Notified`. `pc` is in `Window` in between.
- The keys are numbers; `loadOrCreateAuthSecret` and `loadOrCreatePrivateKey` are
  `Restored`: the device's, or one nobody has. A message can be read with the keys
  it was sealed for (`Readable`; ecego and `crypto/ecdh` are external).
- `OnError` may panic (`fragile`), which nothing recovers when it is called from
  the loop or from dispatch's own recover: the process ends (`Die`).
- `careful` is an application that stores its device whenever it likes except
  while a message is half way, gives its keys away after it stored them, and does
  not call `Close` from a handler, which the code forbids (mtalk.go:353).
- The server is external: it sends what is pending in the order of arrival, keeps
  it until a login acknowledges it, forgets a message without an id once sent, and
  takes the persistent id of a login for that message only or for all up to it
  (`cumulative`; the code sends a single one, line 664, so both are looked at).
- `streamId` is never reset. On the first connection of an `MTalkCon` the
  acknowledgement counts exactly the frames read; on later ones it counts those
  of earlier connections as well, and `AckedWasHandled` claims nothing there.

`MailboxContract` is what remains for the application: a message arrives, is
handled, or is lost (one at a time, and never with a careful one).

### Varint, Codec, Wire and the tables

Each generated function is a list of blocks, one for each field, that differ only in
literals: key bytes, sizes, wire types, field names. The tables hold these literals
as the source has them, separately for the struct tag, `MarshalVT`, `SizeVT` and
`UnmarshalVT`; nothing is derived from one listing for another. So a wrong literal
in one of them is visible, and `Codec` is the code around them, once: the backward
writer, the key loop, `skip`, required fields, maps and unknown fields. `Varint` has
what all of them write a value with and read it with (`encodeVarint`, `sov`, the
loops of `UnmarshalVT` with their checks), without recursion: a number of 32 bits
has ten groups of seven bits at most. `ProtoMarshal` and `ProtoUnmarshal` are the
reflection codec, which is external and reads the struct tags only. The client uses
the generated code for the check-in (api_out.go:228, api_in.go:265) and
`proto.Marshal` for mtalk; applications store the device with either.

Not modelled: UTF-8 validation; numbers that need more than 32 bits (negative
ones, which take ten bytes, are); a known field with a wrong wire type.
`Timestamp` and `Device` of other modules are opaque. A field of theirs that
occurs twice replaces the first in the generated code where reflection merges,
so joined wires are checked for the messages without them (`Joinable`). A map
entry without a value is a nil message in the generated code. A device record
that is cut exactly between two fields is read as a smaller device by either
codec: `CutIsNoticed` says what is promised of it.

### Framing

One direction of one connection. Each piece of a frame is written to the `RawConn` of
that moment (mtalk.go:748-751), which a Connect replaces without `writeMux` (207): that
a frame begun on one socket goes on on another is outside, and excluded where calls of
Connect and Close come one at a time (`FieldsNotShared`: the fields are written only
while no loop runs, and nobody else writes frames). The version byte before the login
takes the lock for itself (761-766). The stream is a sequence of pieces, single bytes
or the body of a frame, which reads and losses may shorten. Writers hold
`writeMux` for a frame; the reader takes tag, varint and body as `readByte`,
`readVarInt` and `readBytes` do. `VarInt`, of the writer, is `encodeVarint` of `Varint`:
`writeVarIntLocked` is the same loop. The writer's truncation of lengths to 32 bits
(line 706) and the reader's `result < 0` are out of reach: a message of that size
does not exist and six groups of seven bits are positive. The sender does not
check the 32 MiB the reader insists on: a frame above it ends the other side's
loop, which `EndIsJustified` allows. `Frames` is any set of frames whose length
field is a varint of the frame's size (`FramingAssumption`): seven bits a byte, the
top bit on all but the last, redundant groups at the end allowed; the value is cut
off at `Huge`, above the limit of 32 MiB, as no comparison tells such sizes apart.

### Registration

One `FireBaseClient` and several goroutines that each make one of five calls:
the flow `RegisterForNotifications`, one of the three calls it makes, or the web
registration. `job[c]` is the call with its options, `pc[c]` the
next access. The servers number what they issue: credentials n are android id n
with security token n, installation answer n is auth token n with FID `fidOf[n]`,
so that a pair belongs together exactly when the numbers say so; 0 is empty.

- Who holds `deviceMutex` is who is in a step of `Guarded`; taking it is the first
  step inside. `InstallationExpired` holds it for one step.
- The request builders read the device without the mutex, field by field, in the
  order of the source. The map of installations is looked up in two of them
  (`"install"`, `"find"`), and an insertion of another goroutine at the same time
  is the runtime's fatal error (`MapRace`).
- A check-in request points at the two fields in the device (api_out.go:222-227), and
  `MarshalVT` reads them again: once for the size, then from the last field to the
  first. The model has the last of these reads, security token before android id. That
  size and bytes disagree when another check-in stores its answer in between is not
  modelled; that the fields are read while they are stored is what `registration_torn`
  shows of the registration. The form field `device`, which repeats the android id
  (api_out.go:276), is not modelled either.
- `installationLocked` is `InsertEntry`, for a package that has no entry.
- An auth token may come within a minute of its `Expires` at any time, also at
  once: `ParseExpiresIn` accepts any lifetime. `expired` stays set afterwards.
- The servers answer anything: an error ends the call (`InstallFails`,
  `CheckinFails`, `RegisterFails`), a retryable refusal is counted
  (`RegisterRefused`), AUTHENTICATION_FAILED leads to a check-in
  (`RegisterRejected`). One assumption is made of them: the check-in server does
  not confirm credentials GCM has rejected, it issues new ones. The property
  `RejectedNotResent` needs it ("a fresh check-in is the only thing that can turn
  this attempt into a successful one", client.go:507-508).
- The doubling delay is not modelled, only that the wait may be cut short by the
  context (`Abort`).

### ClientOptions and HttpExchange

An `http.Client` is its timeout, the layers of `LoggingTransport` around it and
who made it. `NewFirebaseClient` is given one (or nil), applies options in any
order and at the end logs through a copy; the http.Clients of earlier
FireBaseClients may be given to later ones. `lent` are the clients that
`WithHTTPClient` put into one built on nil: `ownsClient` stays set, and a
`WithTimeout` after it changes a client the library does not own
(client.go:45-55). `CallersClientKept` and its proof exempt exactly these.

A call is built, sent, perhaps redirected with its body sent again from `GetBody`,
answered or not, and returns a result. Of its client it knows whether some layer
of its transport captures bodies. Statuses and bodies are those the parsers tell
apart. Auth writes e-mail and token into the `url.Values` it is given, each only
when it is not empty (client.go:311-316), and an application may give it new ones
or the same ones again, with both arguments, one or none. So with one argument
alone the other half of an earlier account is sent, by this call and by those
after it that give neither: that is how the code works. `form.alone` remembers
that one was given alone since both were, and `CredentialsBelongTogether` says
that two accounts are paired in no other way. A call that `Device.Validate`
refuses, which has not written anything, is one with new values that was not
built. Tokens are saved as JSON and loaded as time passes: above 3600 the number
is a time, else a lifetime from now (structs.go:138).

## The runs

| Run | Instance | States | Shows |
| --- | --- | --- | --- |
| `mtalk_disciplined` | disciplined use, deadline, 2 callers, 3 dials | 20699 | no panic, fields written only while no loop reads, no socket leak, a closed channel has a reason in `Err()`, `Close` waits, `Close` and `Connect` return, every end is announced, and the code implements `MTalkContract` (one connection, so one loop, at a time), its fairness too |
| `mtalk_shared` | any use, 2 callers, 2 dials | 501085 | what holds whatever the application does: the WaitGroup counts the loops, `connected` has an owner, a sleeping `Close` will be woken |
| `mtalk_session` | 3 messages (one sealed, one broken, one without an id), 5 keys, 2 faults, 1 heartbeat, 2 frames in flight | 642009 | nothing lost, no key lost, nothing twice in one process, no acknowledgement ahead of the handlers, a loop keeps its connection, every message is handled in the end, and the code implements `MailboxContract` |
| `wire` | 31 messages with every field present, absent, empty, negative and long; 2 frames of 10 kinds, 2 writers | 94926 | sizes are exact, both codecs read what either wrote, cuts are noticed, frames stay whole and in order, the loop ends for a reason |
| `exchange` | 2 clients, 1 `http.Client` of the application, 2 accounts, 1 redirect, every call, status class and body | 287043 | the caller's client is kept, the server sees the whole request, logging is transparent, success is real, retries follow the status, a login pairs two accounts only in values one half of which was given alone, a token keeps its time |
| `mtalk_polling` | 1 caller that reconnects without waiting for `Closed()`, 2 dials | – | **violated**: a stopped loop closed its channel |
| `mtalk_early_close` | 2 callers, not serialized, 1 dial | – | **violated**: `Close` waits for the loops |
| `registration_flow` | 1 caller, 2 packages, 0 or 1 retry, 2 credentials, 2 installations | 326569 | consistent requests, usable success, rejected credentials not resent, Retries + 1 attempts, the flow returns |
| `registration_shared` | 2 callers, 1 package, no retry, 2 credentials, 2 installations | 1759275 | pairs under the mutex stay pairs, nothing stored is lost |
| `registration_race` | 2 callers | – | **violated**: two calls never end the process |
| `registration_torn` | 2 callers | – | **violated**: a request carries credentials of one check-in |
| `registration_expired` | 1 caller | – | **violated**: an expired installation token is not sent |

The violated ones are disagreements between the code and its own comments or
README; `findings` in `PROJECT.json` quotes both sides:

1. The loop clears `connected` before it closes `c.closed`. A program that polls
   `Connected()` and reconnects gets a channel that never closes, and the new
   connection's channel is closed by the old loop (then twice: a panic).
2. `connected` is set before `Add(1)`: a `Close` in between returns before the
   loop has run.
3. The installations map is read without the mutex it is written under.
4. Android id and security token are read without the mutex they are stored
   under: the header can pair two check-ins.
5. `ErrNoInstallationAuth` is never returned for an expired token.

Smaller ones were met while modelling, have no run of their own and are where a
property names its exception:

- README.md:197-198 calls "429s, 5xx" retryable. `HTTPError` with 501 or 505 is not
  (errors.go:72), nor are the plain errors that `Auth` and register3 make of a 429 or
  5xx without lines in the body (api_in.go:215-217, 294-295), so that
  `RegisterForNotifications` does not try again; a `GoogleAPIError` whose envelope has
  no code is not, whatever the status. `RetryableFollowsStatus` leaves these out.
- `WithHTTPClient` and then `WithTimeout` on a client built on nil changes the
  caller's client, against client.go:51-52 (`lent` in `CallersClientKept`).
- With body logging, a body that breaks half way is read by the call as an empty
  one: an error still, but another one, and with a 5xx a retryable one
  (`LoggingIsTransparent`).
- A lifetime above an hour ends up in 1970 (`TokenKeepsItsTime`): never used too
  long, but not used at all. The field `ExpiresIn` of the refresh answer has no
  tag for the server's `expires_in`.

Hazards that are how the code works, and that no property excludes because nothing in
the repository says otherwise (the notes of `hazards` in `PROJECT.json` have the rest):

- Two Connects at once lose a socket and run two loops over the same fields.
  `mtalk_shared` shows what still holds; the properties of `mtalk_disciplined` need
  one call at a time.
- The channel a failed handshake made is never closed.
- `Close` from a handler waits for itself, as mtalk.go:353 says.
- The acknowledged stream position counts messages of earlier connections.
- A notification token stays when later calls replace what it was issued for.
- `Auth` with one argument and used `url.Values` sends the other account's half.

Bounds. Two callers are the smallest number for which every race above exists;
`mtalk_disciplined` has three dials, so a connection has a predecessor and a
successor, each of which may fail or succeed. Generations do not interact but
through the fields, which hold one of them. In `mtalk_session` two faults are a
loss and another during its repair, and three messages are one before and one
after each; one kind of trouble for each message keeps them apart. Five keys are
one more than can be in use. `Fault` and `pings` are bounded in the guards; a
`fragile` application is checked only when it is careful (`MCInit`), because its
panics are crashes. In `wire` two frames are a frame and the one it may run into,
with the lengths around every limit of the reader; all fields are independent, so
each is varied alone, in an otherwise minimal and an otherwise full message, and
wires are cut at every byte. In `exchange` two clients are one and another built
upon it; calls then see every stack of layers two clients can have. Two
credentials and two installation answers are an old and a new one of each; two
packages show that what one stores does not touch the other; one retry is a first
attempt, a second one and a last. Symmetry over callers is used only where no
liveness is checked.

Deadlock is not checked where the process may have ended (a panic, the fatal
error of the map) or the bounds are used up; `registration_flow` checks it.

## Fairness

`MTalkConnection`: a started goroutine is scheduled and its handlers return
(weak fairness of each loop's and each caller's own steps); a dial ends within
its 30 s timeout; a handshake ends only when it has a deadline (line 213), so
`ConnectReturns` is checked with `Deadline`. Nobody has to call `Connect` or
`Close`, and no peer has to answer, send or drop. `Close` returning therefore
rests on the code alone: closing the socket unblocks the reader, and `stop` is
tested after every message.

`MTalkSession`: the loop goes on and handlers return; the application starts
again after a crash and reconnects after `Closed()` (README.md:48-52 shows that
loop); the server hears and answers a login and sends what is pending. Nothing
bad has to happen, and `EveryMessageHandled` holds for an application whose
`OnError` does not panic: with one that does, a broken message ends each process
it is delivered to.

`Registration`: a call goes on; each request ends, with an answer or an error,
because the client's own `http.Client` has a 30 s timeout. A caller's client
without a timeout, and a negative answer for ever, are the application's matter.

`Wire`, `Framing`, `ClientOptions` and `HttpExchange` have safety properties only;
that a reader keeps up with what was written is an invariant of quiet states.

## The proofs

Every theorem is about the specification itself, for all values of the constants
that satisfy the module's assumption.

`MTalkConnectionProofs`, for any finite set of goroutines and any number of dials:

- `AnyUseInvariant`: `AnyUse` is inductive. It adds to the type invariant that
  unused generations are untouched and that the fields hold dialled ones
  (bookkeeping), that `wg` is the number of counted loops and that `connected`
  has an owner, which needs that a launched loop is counted before it runs.
  `AnyUseCounts`, `AnyUseConnected` (`ConnectedHasOwner`) and `AnyUseWaiters`
  (`WaiterIsWoken`) follow.
- `DisciplinedInvariant`: under disciplined use `Turns` is inductive on top of it:
  a running loop is the current generation's, a Connect runs alone, and the steps at both
  ends of a connection take turns. `WaitGroupCountsLoops` alone does not
  exclude a loop that closes its successor's channel; that the channel in
  `c.closed` is the running loop's own is what makes the exit safe. `Outcomes` adds
  who will close each socket and what each end's reason is. `DisciplinedNoPanic`,
  `DisciplinedOneLoop`, `DisciplinedFields`, `DisciplinedSockets`,
  `DisciplinedReasons` and the action property of `Close`, `DisciplinedClose`, follow.
  Each has `Disciplined` (`Serialized /\ AwaitClosed`) as its hypothesis: without it
  the two runs that are violated show what happens.
- `DisciplinedChannels`: what `mtalk_polling` finds violated holds under disciplined
  use. A loop that announces its end finds its own channel in `c.closed`, and only a
  connection whose loop has not begun is given a new one (`Announced`).
- `DisciplinedContract`: the refinement of `MTalkContract`'s safety part, step by step.
  A step of the library begins a connection (`LaunchLoop`), gives it a reason
  (`SetStop`, `ReportError`), ends it (`ExitAnnounce`) or maps to no step. What the
  invariants above lack is why a connection that comes up has no reason to end yet:
  Connect clears `stop` and `lastErr` first, and nobody sets them before its loop runs
  (`Cleared`).

`MTalkSessionProofs`, for any number of messages, faults, heartbeats and frames in
flight, and any set of keys that never runs out (`SessionAssumption`):

- `SessionShape`: `Shape` is inductive: types, a login the server has not heard is
  a Connect that waits, `connected` is set exactly while there is a loop, and
  nothing has an id that has not arrived. `SessionTypeCorrect` and
  `LoopsKeepTheirConnection` follow.
- `NothingIsLost`. `NothingLost` is not inductive: the id that a login sends may
  stand for any number of messages. What makes it safe is the order of arrival
  (`InOrder`): before each frame on its way comes everything that arrived earlier
  and is not settled, so that of a message whose id is stored everything earlier
  is handled or gone already. `Safe` adds, for a careful application, that ids in
  memory and on disk stand for handled messages, but for the one in work. A
  connection that breaks keeps a prefix of the frames, and a prefix is in order.
- `OnlyBrokenAreDropped`: `KeysKept` says that once a careful application has given
  its keys away they are those on the disk, of every process and of every sealed
  message, and that a process has keys to give.
- `NothingRepeated`: `Onwards` says that the frames on their way rise, are newer
  than the message in work and, where a login's id stands for everything up to it,
  newer than every id handled; a message without an id leaves the server when it
  is sent, so it is never on its way twice.
- `WhatIsAckedWasHandled`: `Counted` adds the two counters up on a first connection:
  the frames read plus the frames on their way are the frames sent (at most, once
  the connection is cut), so the number a message was sent as is its place in the
  queue, or it was read; a ping is read only when nothing is in work.
- `SessionImplementsMailbox`: every step is a turn of one message of
  `MailboxContract`, or of none. It needs that what is in work is pending or was
  handled before (`Deliverable`), and `InOrder` again: a cumulative login loses one
  message at most, since everything before it is settled.

`ClientOptionsProofs`, for any number of clients and FireBaseClients: `OptionsInv`
adds to the properties that a client is only being built while the bound has room
for it, that one which counts an `http.Client` of the application as its own was
lent it, and that whatever the library made has a timeout. `CallersClientIsKept`
and `TimeoutsAreSet` follow.

`HttpExchangeProofs`, for any transports, bodies, statuses, accounts and times
(`ExchangeAssumption`, and `BodiesAssumption`: a lifetime is shorter than the time
since 1970): `ExchangeInv` says of a call at each stage what it knows; that a body
which can still be sent is whole, and `GetBody` too; that fields on their way are
of one account unless they are those of used values one half of which was given alone
(`FormTogether`, where the form itself is of one account until then); and that stored seconds
are the token's time. The six theorems on the run's properties follow.

`RegistrationProofs`, for any goroutines, packages, options and numbers of answers:

- `SharedInvariant`: `Inv` is inductive. `DeviceTogether` speaks of the moments
  when nobody holds the mutex and is not inductive; `Inv` says what holds between
  two writes of the holder as well: one holder at a time (`MutualExclusion`); the
  android id is the holder's answer until the security token is (`CheckinPair`), and
  the auth token until the FID is (`InstallationPair`); an entry is inserted only
  where there is none (`Entries`); and a request that was sent named an android id
  (`CheckedIn`), although it was read without the mutex.
- `TypeCorrect`, `TogetherUnderMutex` (`DeviceTogether`) and `StoredIsKept` (the
  action property `NothingForgotten`) follow.

A step of a caller that neither holds nor takes the mutex and leaves what it
guards is `Quiet`; all 22 kinds of them are dealt with once (`PreparingIsQuiet`),
and the ten others one by one in each conjunct.

`RegistrationFlowProofs`, on top of it:

- `AllAttemptsBeforeGivingUp`, for any goroutines, from `AttemptsAreCounted`: the
  inductive `Counting` says where a call may have failed attempts at all, that only the
  flow is at the steps that look at the count, that it exceeds Retries by one at most
  and only between a failure and the look, and that a failure has left its error.
- With `[]OneAtATime`, no two calls overlap, whichever goroutines make them (one
  goroutine alone is the simplest case): `OneCallAtATime`. `FlowInv` says that what a
  registration has read so far is what the device still holds, field by field
  (`UpToDate`); that credentials in use have been issued and only such can be
  rejected (`Issued`); and that after an AUTHENTICATION_FAILED neither the answer about to be
  stored nor the android id of the next attempt is one GCM has rejected (`Replaced`).
  `RegistrationsAreConsistent`, `RejectedIsReplaced` and `ReturnedTokenIsUsable`
  follow, with `Inv` for the pairs. The hypothesis is needed: `registration_torn` is
  the first of them violated by two calls that overlap.
- `TornOnlyBetweenReads` says where. Whatever calls overlap, a registration is
  consistent unless it reads the security token while a check-in has stored the
  android id and not yet the token, or the auth token while an installation of the same
  package has stored that and not yet the FID (`ReadsApart`, a condition on states only:
  a store that begins between the two reads is in the middle of its two stores for one
  state at least). A lock around each pair of reads implies it, and so does one call at a
  time, so `RegistrationsAreConsistent` is a corollary. `Whole` is inductive under it: what
  was read in part is still what the device holds, what was read in full is of one answer,
  and what an answer named does not change.

`FramingProofs`, for any writers, any number of frames and any set of them that
satisfies `FramingAssumption`:

- `FramingInvariant`. `FramesInOrder` speaks of quiet moments. In between, `IInv` says
  where both ends are: what is still to be written is the end of the frame begun last
  (`WriterIsAmid`); what the reader has taken is the beginning of the frame it is in
  (`ReaderIsAmid`); and the pieces on the way lead from the one to the other
  (`Threaded`): each can be given a place (frame, piece) such that the first is the one the
  reader expects, each next one follows, and the last is the one before the writer's. A
  break cuts the thread's end off, perhaps within a body, and nothing else.
- `FramingTypeCorrect`, `FramesArriveInOrder` and `EndsAreJustified` follow: the reader
  meets the frame's own bytes, so it ends only on a break or on a frame whose length
  has too many groups, is above the limit, or whose body does not parse.

- `OwnLengthsAreRead` takes the assumption on length fields away for the client's own
  frames: what `writeVarIntLocked` writes for a size is a varint that `readVarInt` reads as
  that size, in five bytes at most (from the lemmas of `VarintProofs`). So
  `OwnFramesAreNeverRefused`: when all frames are such ones, parse and keep to 32 MiB, the
  reader ends on a broken connection only. For what a server sends it stays an assumption.

`VarintProofs`, for every number of 32 bits, all bytes and all surroundings on the wire:

- `VarintIsReadBack`, `FixedIsReadBack` and `BytesAreReadBack`: a value is read as it was
  written wherever it stands, `sov` counts its bytes exactly, and the reader goes on right
  behind it. The groups of a varint are remainders by 128 of what is left of the number
  (`GroupsAre`), whose sum is the number again, in a field of 64 bits and in one of 32, which
  drops the higher groups (`GroupsGiveTheNumber`); the first byte below 128 is the
  varint's last, so what stands behind does not matter (`VarintStands`).
- `CutPayloadIsNoticed`: a wire that ends within a value is refused, wherever it is cut: in
  the length, in the bytes, or right between. All bytes of a varint but the last are 128
  or more, so what is left of one never looks whole (`CutVarint`).
- `PayloadStaysInside`: of any bytes at all, a value that is accepted ends within the buffer
  and is a byte long at least.

Together they are what `SizeIsExact`, `ReadBack` and `CutIsNoticed` say of one value.

Only model-checked:

- liveness (`CloseReturns`, `ConnectReturns`, `EndIsAnnounced`, `ContractIsFair`,
  `EveryMessageHandled`, `FlowReturns`), which is out of the prover's reach;
- what the generated codec makes of whole messages (`SizeIsExact`, `ReadBack`,
  `CutIsNoticed`): its operators are recursive over the fields of a message and the
  messages in it, and induction over data is out of reach. Of the values messages are made
  of, `VarintProofs` proves it.

## Not modelled, and what is left

Not modelled: log formatting, attributes and the setters that only choose what
is logged; descriptors, getters and enum names of the generated code; random
ids; headers, endpoints and other constant data nothing depends on; validation of
app data beyond the check-in (a missing field is an error before anything is
done); the map that `SetAccountInfo` merges its fields with; the float and
duration syntax of `ParseExpiresIn`; the cryptography.

Left for later: a composition of `MTalkSession` with `Registration` over one
device, which share only the android id and security token that a login reads.

## Running

    tlc -workers 2 -config MCMTalkDisciplined.cfg MCMTalkConnection
    tlc -workers 2 -config MCMTalkSession.cfg MCMTalkSession
    tlc -workers 2 -config MCWire.cfg MCWire
    tlc -workers 2 -config MCHttpExchange.cfg MCHttpExchange
    tlc -workers 2 -config MCRegistrationFlow.cfg MCRegistration
    tlapm MTalkSessionProofs.tla    # and the other *Proofs modules
