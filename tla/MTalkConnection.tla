--------------------------- MODULE MTalkConnection ---------------------------
(***************************************************************************)
(* The life cycle of an MTalkCon (src/client/mtalk.go): goroutines of the  *)
(* application call ConnectContext and Close, and every successful Connect *)
(* starts a background goroutine that runs loop() until the connection     *)
(* ends.  The calls and the loops share the plain fields RawConn, reader   *)
(* and closed, the atomics stop and connected, the embedded WaitGroup and  *)
(* the mutex-guarded lastErr; each access of one of them is a step.        *)
(*                                                                         *)
(* A successful dial starts a new generation, a number in 1..MaxDials: the *)
(* socket it dialled, the channel ConnectContext makes for it and the loop *)
(* it launches all carry that number.  Generation 0 is nil for a socket    *)
(* and an error, and the channel NewMTalkCon makes for closed.  RawConn    *)
(* and reader are only ever written next to each other and to the same     *)
(* connection, one variable stands for both.                               *)
(***************************************************************************)
EXTENDS Naturals, FiniteSets

CONSTANTS
  Callers,      \* goroutines of the application that use the connection
  MaxDials,     \* bound of the model: dials that succeed in a behaviour
  Serialized,   \* the application makes one call at a time (a lock of its own)
  AwaitClosed,  \* it reconnects only once the channel Closed() gave it is closed
  Deadline      \* it connects with a context that has a deadline

ASSUME ConstantsAssumption ==
  /\ IsFiniteSet(Callers)
  /\ MaxDials \in Nat \ {0}
  /\ Serialized \in BOOLEAN /\ AwaitClosed \in BOOLEAN /\ Deadline \in BOOLEAN

VARIABLES
  pc,         \* where each caller is, "idle" between two calls
  call,       \* the generation each caller's last Connect dialled
  connected,  \* MTalkCon.connected
  stop,       \* MTalkCon.stop
  RawConn,    \* MTalkCon.RawConn and MTalkCon.reader, 0 when nil
  closed,     \* MTalkCon.closed, the generation of the channel the field holds
  lastErr,    \* MTalkCon.lastErr, the generation whose loop stored it, 0 when nil
  wg,         \* the counter of the embedded sync.WaitGroup
  dials,      \* generations used so far
  sock,       \* each generation's socket
  chan,       \* each generation's Closed() channel
  loop,       \* where each generation's loop goroutine is
  on,         \* the socket each loop's readMessage is blocked on, 0 when reader was nil
  panic,      \* the run-time panic that ended the process, "none" before
  awaited     \* the generation whose Closed() channel the application has to see closed

fields   == <<connected, stop, RawConn, closed, lastErr, wg>>
heap     == <<dials, sock, chan>>
loopVars == <<loop, on>>
fate     == <<panic, awaited>>
vars     == <<pc, call, fields, heap, loopVars, fate>>

Gens  == 1..MaxDials
Gens0 == 0..MaxDials

ConnectSteps == {"dial", "fields", "unstop", "reset", "renew", "handshake",
                 "clear", "up", "launch"}
CloseSteps   == {"stop", "find", "shut", "wait", "waiting", "woken"}
LoopSteps    == {"read", "reading", "dispatch", "check", "failed", "ended",
                 "report", "exit", "shut", "disconnect", "announce", "done"}
Panics       == {"none", "nil connection", "channel closed twice", "WaitGroup reused",
                 "reader corrupted"}

TypeOK ==
  /\ pc \in [Callers -> {"idle"} \cup ConnectSteps \cup CloseSteps]
  /\ call \in [Callers -> Gens0]
  /\ connected \in BOOLEAN
  /\ stop \in BOOLEAN
  /\ RawConn \in Gens0
  /\ closed \in Gens0
  /\ lastErr \in Gens0
  /\ wg \in Nat
  /\ dials \in Gens0
  /\ sock \in [Gens -> {"none", "open", "lost", "closed"}]
  /\ chan \in [Gens0 -> {"none", "open", "closed"}]
  /\ loop \in [Gens -> {"none", "over"} \cup LoopSteps]
  /\ on \in [Gens -> Gens0]
  /\ panic \in Panics
  /\ awaited \in Gens0

\* NewMTalkCon: not connected, a channel nobody will close.
Init ==
  /\ pc = [c \in Callers |-> "idle"]
  /\ call = [c \in Callers |-> 0]
  /\ connected = FALSE
  /\ stop = FALSE
  /\ RawConn = 0
  /\ closed = 0
  /\ lastErr = 0
  /\ wg = 0
  /\ dials = 0
  /\ sock = [g \in Gens |-> "none"]
  /\ chan = [g \in Gens0 |-> IF g = 0 THEN "open" ELSE "none"]
  /\ loop = [g \in Gens |-> "none"]
  /\ on = [g \in Gens |-> 0]
  /\ panic = "none"
  /\ awaited = 0

-----------------------------------------------------------------------------
\* Control of a caller and of a loop.  A panic ends the whole process.
Goto(c, from, to) ==
  /\ panic = "none"
  /\ pc[c] = from
  /\ pc' = [pc EXCEPT ![c] = to]

LoopGoto(g, from, to) ==
  /\ panic = "none"
  /\ loop[g] = from
  /\ loop' = [loop EXCEPT ![g] = to]

\* A step that only reads what it shares.
Step(c, from, to) ==
  Goto(c, from, to) /\ UNCHANGED <<call, fields, heap, loopVars, fate>>

LoopStep(g, from, to) ==
  LoopGoto(g, from, to) /\ UNCHANGED <<pc, call, fields, heap, on, fate>>

\* What the application's own discipline lets it call.
MayCall == Serialized => \A c \in Callers : pc[c] = "idle"

MayConnect ==
  /\ MayCall
  /\ AwaitClosed => awaited = 0 \/ chan[awaited] = "closed"

-----------------------------------------------------------------------------
(* ConnectContext.  A call that finds connected set returns                *)
(* ErrAlreadyConnected and changes nothing, a stuttering step.             *)

ConnectChecks(c) ==
  /\ MayConnect
  /\ ~connected
  /\ Step(c, "idle", "dial")

\* The device has no check-in, or the dial failed or ran into its timeout.
DialFails(c) == Step(c, "dial", "idle")

DialSucceeds(c) ==
  /\ dials < MaxDials
  /\ Goto(c, "dial", "fields")
  /\ dials' = dials + 1
  /\ call' = [call EXCEPT ![c] = dials + 1]
  /\ sock' = [sock EXCEPT ![dials + 1] = "open"]
  /\ UNCHANGED <<fields, chan, loopVars, fate>>

StoreConnection(c) ==
  /\ Goto(c, "fields", "unstop")
  /\ RawConn' = call[c]
  /\ UNCHANGED <<call, connected, stop, closed, lastErr, wg, heap, loopVars, fate>>

ClearStop(c) ==
  /\ Goto(c, "unstop", "reset")
  /\ stop' = FALSE
  /\ UNCHANGED <<call, connected, RawConn, closed, lastErr, wg, heap, loopVars, fate>>

ClearErr(c) ==
  /\ Goto(c, "reset", "renew")
  /\ lastErr' = 0
  /\ UNCHANGED <<call, connected, stop, RawConn, closed, wg, heap, loopVars, fate>>

\* Mutant: the channel NewMTalkCon made is kept for every connection.
MakeChannelOnce(c) == Step(c, "renew", "handshake")

\* Mutant: connected is set before the login is known to have worked.
MakeChannelConnected(c) ==
  /\ Goto(c, "renew", "handshake")
  /\ closed' = call[c]
  /\ chan' = [chan EXCEPT ![call[c]] = "open"]
  /\ connected' = TRUE
  /\ UNCHANGED <<call, stop, RawConn, lastErr, wg, dials, sock, loopVars, fate>>

MakeChannel(c) ==
  /\ Goto(c, "renew", "handshake")
  /\ closed' = call[c]
  /\ chan' = [chan EXCEPT ![call[c]] = "open"]
  /\ UNCHANGED <<call, connected, stop, RawConn, lastErr, wg, dials, sock, loopVars, fate>>

HandshakeSucceeds(c) == Step(c, "handshake", "up")

\* handshake() returned an error: its own conn is closed, the fields follow.
HandshakeFails(c) ==
  /\ Goto(c, "handshake", "clear")
  /\ sock' = [sock EXCEPT ![call[c]] = "closed"]
  /\ UNCHANGED <<call, fields, dials, chan, loopVars, fate>>

ClearConnection(c) ==
  /\ Goto(c, "clear", "idle")
  /\ RawConn' = 0
  /\ UNCHANGED <<call, connected, stop, closed, lastErr, wg, heap, loopVars, fate>>

\* handshake() reaches the connection through the fields.  Another Connect may
\* have cleared them between a nil check and the use, and two goroutines inside
\* one bufio.Reader are a data race, which may index past its buffer.
HandshakeRaces(c) ==
  /\ panic = "none"
  /\ pc[c] = "handshake"
  /\ \/ RawConn = 0 /\ panic' = "nil connection"
     \/ /\ RawConn # 0
        /\ \/ \E d \in Callers \ {c} : pc[d] = "handshake"
           \/ \E g \in Gens : loop[g] = "reading" /\ on[g] = RawConn
        /\ panic' = "reader corrupted"
  /\ UNCHANGED <<pc, call, fields, heap, loopVars, awaited>>

SetConnected(c) ==
  /\ Goto(c, "up", "launch")
  /\ connected' = TRUE
  /\ UNCHANGED <<call, stop, RawConn, closed, lastErr, wg, heap, loopVars, fate>>

\* Mutant: c.Add(1) is missing.
LaunchLoopNoAdd(c) ==
  /\ Goto(c, "launch", "idle")
  /\ loop' = [loop EXCEPT ![call[c]] = "read"]
  /\ awaited' = closed
  /\ UNCHANGED <<call, fields, heap, on, panic>>

\* c.Add(1), go c.loop(); the application then takes Closed().
LaunchLoop(c) ==
  /\ Goto(c, "launch", "idle")
  /\ wg' = wg + 1
  /\ loop' = [loop EXCEPT ![call[c]] = "read"]
  /\ awaited' = closed
  /\ UNCHANGED <<call, connected, stop, RawConn, closed, lastErr, heap, on, panic>>

\* Mutant: conn.SetDeadline is missing.
ConnectProceedsNoDeadline(c) ==
  \/ DialFails(c)
  \/ StoreConnection(c)
  \/ ClearStop(c)
  \/ ClearErr(c)
  \/ MakeChannel(c)
  \/ ClearConnection(c)
  \/ SetConnected(c)
  \/ LaunchLoop(c)

\* A Connect with a deadline gets an answer or an i/o timeout out of the
\* handshake; without one a silent peer holds it for ever.
ConnectProceeds(c) ==
  \/ DialFails(c)
  \/ StoreConnection(c)
  \/ ClearStop(c)
  \/ ClearErr(c)
  \/ MakeChannel(c)
  \/ Deadline /\ HandshakeFails(c)
  \/ ClearConnection(c)
  \/ SetConnected(c)
  \/ LaunchLoop(c)

-----------------------------------------------------------------------------
(* Close.  A call that finds connected clear returns ErrNotConnected and   *)
(* changes nothing, a stuttering step.                                     *)

CloseChecks(c) ==
  /\ MayCall
  /\ connected
  /\ Step(c, "idle", "stop")

SetStop(c) ==
  /\ Goto(c, "stop", "find")
  /\ stop' = TRUE
  /\ UNCHANGED <<call, connected, RawConn, closed, lastErr, wg, heap, loopVars, fate>>

\* if c.RawConn != nil
FindConnection(c) == Step(c, "find", IF RawConn # 0 THEN "shut" ELSE "wait")

\* c.RawConn.Close(), the field is read a second time.
CloseConnection(c) ==
  /\ Goto(c, "shut", "wait")
  /\ IF RawConn # 0
     THEN /\ sock' = [sock EXCEPT ![RawConn] = "closed"]
          /\ UNCHANGED panic
     ELSE /\ panic' = "nil connection"
          /\ UNCHANGED sock
  /\ UNCHANGED <<call, fields, dials, chan, loopVars, awaited>>

\* Mutant: c.Wait() is missing.
WaitNot(c) == Step(c, "wait", "idle")

\* WaitGroup.Wait returns at once on a zero counter and sleeps otherwise.
Wait(c) == Step(c, "wait", IF wg = 0 THEN "idle" ELSE "waiting")

\* A waiter that Done woke panics when the counter has been used again.
Woken(c) ==
  /\ Goto(c, "woken", "idle")
  /\ panic' = IF wg = 0 THEN "none" ELSE "WaitGroup reused"
  /\ UNCHANGED <<call, fields, heap, loopVars, awaited>>

CloseProceeds(c) ==
  \/ SetStop(c)
  \/ FindConnection(c)
  \/ CloseConnection(c)
  \/ Wait(c)
  \/ Woken(c)

-----------------------------------------------------------------------------
(* loop().                                                                 *)

\* readMessage takes c.reader; a nil reader is ErrNotConnected at once.
StartRead(g) ==
  /\ LoopGoto(g, "read", IF RawConn # 0 THEN "reading" ELSE "failed")
  /\ on' = [on EXCEPT ![g] = RawConn]
  /\ UNCHANGED <<pc, call, fields, heap, fate>>

\* The peer sends a message that parses, or one that does not (unknown tag,
\* length out of range, malformed body).
PeerSends(g) ==
  /\ on[g] # 0 /\ sock[on[g]] = "open"
  /\ \E to \in {"dispatch", "failed"} : LoopStep(g, "reading", to)

\* Every byte of a message fetches c.reader again: a Connect that has replaced
\* the field moves the loop to its own socket, one that has cleared it ends the
\* loop, or the process when it did so after the nil check.
Refetch(g) ==
  /\ on[g] \notin {0, RawConn}
  /\ \E to \in {"reading", "failed"} :
       /\ LoopGoto(g, "reading", to)
       /\ to = "failed" => RawConn = 0
       /\ panic' = IF RawConn = 0 /\ to = "reading" THEN "nil connection" ELSE panic
  /\ on' = [on EXCEPT ![g] = RawConn]
  /\ UNCHANGED <<pc, call, fields, heap, awaited>>

\* Two loops inside one bufio.Reader is a data race: one of them may also index
\* past its buffer.
ReadersRace(g) ==
  /\ panic = "none"
  /\ loop[g] = "reading" /\ on[g] # 0
  /\ \E h \in Gens \ {g} : loop[h] = "reading" /\ on[h] = on[g]
  /\ panic' = "reader corrupted"
  /\ UNCHANGED <<pc, call, fields, heap, loopVars, awaited>>

\* After our own Close the bufio.Reader may still hold a message, in the end it
\* returns net.ErrClosed; a peer that is lost gives io.EOF or another error once
\* what it had sent has been read.
ReadEnds(g) ==
  /\ on[g] # 0
  /\ sock[on[g]] \in {"closed", "lost"}
  /\ \E to \in {"dispatch", "ended", "failed"} :
       /\ to = "dispatch" => sock[on[g]] = "closed"
       /\ LoopStep(g, "reading", to)

\* The handler runs, its panics are recovered.
Dispatch(g) == LoopStep(g, "dispatch", "check")

\* Mutant: stop is not checked between two messages.
CheckStopNot(g) == LoopStep(g, "check", "read")

CheckStop(g) == LoopStep(g, "check", IF stop THEN "exit" ELSE "read")

\* The first load of stop, which only decides for other errors than
\* net.ErrClosed and io.EOF.
Classify(g) == LoopStep(g, "failed", IF stop THEN "ended" ELSE "report")

\* Mutant: a peer that hangs up is taken for a requested end.
EndedSilently(g) == LoopStep(g, "ended", "exit")

\* The second load of stop: an end nobody asked for is reported.
Ended(g) == LoopStep(g, "ended", IF stop THEN "exit" ELSE "report")

\* Mutant: a fatal error reaches OnError but is not stored.
ReportErrorNotStored(g) == LoopStep(g, "report", "exit")

\* reportError(err, fatal): setErr, then OnError.
ReportError(g) ==
  /\ LoopGoto(g, "report", "exit")
  /\ lastErr' = g
  /\ UNCHANGED <<pc, call, connected, stop, RawConn, closed, wg, heap, on, fate>>

\* Mutant: the loop leaves its socket to Close.
ExitFindNot(g) == LoopStep(g, "exit", "disconnect")

\* The deferred function, which reads RawConn twice as Close does.
ExitFind(g) == LoopStep(g, "exit", IF RawConn # 0 THEN "shut" ELSE "disconnect")

ExitShut(g) ==
  /\ LoopGoto(g, "shut", "disconnect")
  /\ IF RawConn # 0
     THEN /\ sock' = [sock EXCEPT ![RawConn] = "closed"]
          /\ UNCHANGED panic
     ELSE /\ panic' = "nil connection"
          /\ UNCHANGED sock
  /\ UNCHANGED <<pc, call, fields, dials, chan, on, awaited>>

\* Mutant: the channel is not closed.
ExitDisconnectLast(g) ==
  /\ LoopGoto(g, "disconnect", "done")
  /\ connected' = FALSE
  /\ UNCHANGED <<pc, call, stop, RawConn, closed, lastErr, wg, heap, on, fate>>

ExitDisconnect(g) ==
  /\ LoopGoto(g, "disconnect", "announce")
  /\ connected' = FALSE
  /\ UNCHANGED <<pc, call, stop, RawConn, closed, lastErr, wg, heap, on, fate>>

\* close(c.closed), of whatever channel the field holds by now.
ExitAnnounce(g) ==
  /\ LoopGoto(g, "announce", "done")
  /\ IF chan[closed] = "open"
     THEN /\ chan' = [chan EXCEPT ![closed] = "closed"]
          /\ UNCHANGED panic
     ELSE /\ panic' = "channel closed twice"
          /\ UNCHANGED chan
  /\ UNCHANGED <<pc, call, fields, dials, sock, on, awaited>>

\* Mutant: Done is missing.
ExitDoneNot(g) == LoopStep(g, "done", "over")

\* Mutant: the WaitGroup is replaced by a counter nobody is woken from.
ExitDoneNoWake(g) ==
  /\ LoopGoto(g, "done", "over")
  /\ wg' = wg - 1
  /\ UNCHANGED <<pc, call, connected, stop, RawConn, closed, lastErr, heap, on, fate>>

\* WaitGroup.Done; the last one wakes every waiter.
ExitDone(g) ==
  /\ LoopGoto(g, "done", "over")
  /\ wg' = wg - 1
  /\ pc' = [c \in Callers |-> IF wg = 1 /\ pc[c] = "waiting" THEN "woken" ELSE pc[c]]
  /\ UNCHANGED <<call, connected, stop, RawConn, closed, lastErr, heap, on, fate>>

LoopProceeds(g) ==
  \/ StartRead(g)
  \/ ReadEnds(g)
  \/ Dispatch(g)
  \/ CheckStop(g)
  \/ Classify(g)
  \/ Ended(g)
  \/ ReportError(g)
  \/ ExitFind(g)
  \/ ExitShut(g)
  \/ ExitDisconnect(g)
  \/ ExitAnnounce(g)
  \/ ExitDone(g)

-----------------------------------------------------------------------------
\* The peer or the network drops an open connection.
PeerDrops(g) ==
  /\ panic = "none"
  /\ sock[g] = "open"
  /\ sock' = [sock EXCEPT ![g] = "lost"]
  /\ UNCHANGED <<pc, call, fields, dials, chan, loopVars, fate>>

Next ==
  \/ \E c \in Callers :
       \/ ConnectChecks(c) \/ DialSucceeds(c) \/ HandshakeSucceeds(c)
       \/ HandshakeFails(c) \/ HandshakeRaces(c) \/ ConnectProceeds(c)
       \/ CloseChecks(c) \/ CloseProceeds(c)
  \/ \E g \in Gens :
       \/ PeerSends(g) \/ Refetch(g) \/ ReadersRace(g) \/ PeerDrops(g)
       \/ LoopProceeds(g)

Spec == Init /\ [][Next]_vars

(***************************************************************************)
(* Every started goroutine is scheduled: a step that waits for nobody is   *)
(* taken.  Not fair: the application's decision to call, the peer's        *)
(* answers and messages, the loss of a connection.  A handler that returns *)
(* is what the loop's fairness assumes of the application.                 *)
(***************************************************************************)
Fairness ==
  /\ \A c \in Callers : WF_vars(ConnectProceeds(c)) /\ WF_vars(CloseProceeds(c))
  /\ \A g \in Gens : WF_vars(LoopProceeds(g))

FairSpec == Spec /\ Fairness

-----------------------------------------------------------------------------
(* What the properties speak of.                                           *)

\* A loop between go c.loop() and the closing of its channel: it reads RawConn,
\* reader and closed.
Running(g) == loop[g] \notin {"none", "done", "over"}

\* A loop the WaitGroup counts.
Counted(g) == loop[g] \notin {"none", "over"}

Connecting(c) == pc[c] \in ConnectSteps

\* A Connect that has dialled and has not launched its loop yet.
Dialled(c) == pc[c] \in ConnectSteps \ {"dial"}

-----------------------------------------------------------------------------
(* Safety under the use README.md shows: one call at a time, and           *)
(* <-MTalk.Closed() before connecting again.                               *)

\* No schedule of calls, peer and loop makes the library panic (a second close
\* of a channel, a nil connection, a WaitGroup reused under a waiter).
NoPanic == panic = "none"

\* The check of connected at the top of ConnectContext keeps a second loop off
\* a live connection (ErrAlreadyConnected).
OneLoop == \A g, h \in Gens : Running(g) /\ Running(h) => g = h

\* ConnectContext writes RawConn, reader and closed without a lock: never while
\* a loop may read them.
FieldsNotShared ==
  \A c \in Callers : pc[c] \in {"fields", "renew", "clear"} =>
    \A g \in Gens : ~Running(g)

\* No socket leaks: whatever is not closed belongs to a loop that will still
\* close it or to the Connect that dialled it.
NoSocketLeak ==
  \A g \in Gens : sock[g] \in {"open", "lost"} =>
    \/ RawConn = g /\ loop[g] \notin {"none", "disconnect", "announce", "done", "over"}
    \/ \E c \in Callers : Dialled(c) /\ call[c] = g

\* "the read loop stopped, client.MTalk.Err() says why": once the channel is
\* closed Err() is that loop's error, unless Close asked for the end.  Only a
\* Connect that is replacing the channel may have cleared both before.
ClosedHasReason ==
  (closed # 0 /\ chan[closed] = "closed") =>
    \/ lastErr = closed
    \/ stop
    \/ \E c \in Callers : pc[c] \in {"reset", "renew"}

\* Closed: the channel it returns "is closed once the read loop has stopped",
\* that is the channel of that loop's own connection, not of a later one.
StoppedLoopClosedItsChannel == \A g \in Gens : loop[g] = "over" => chan[g] = "closed"

\* Close "waits for the read loop to finish" and "a second call reports
\* ErrNotConnected": when it returns no loop is left, neither the one it closed
\* nor an older one, and connected is clear.
CloseWaitsForLoops ==
  [][\A c \in Callers : pc[c] \in {"wait", "woken"} /\ pc'[c] = "idle" =>
       ~connected' /\ \A g \in Gens : ~Counted(g)']_vars

-----------------------------------------------------------------------------
(* Safety under any use, as long as the process lives.                     *)

\* The WaitGroup's counter is the number of loops that have not finished, so it
\* never goes negative and Close never waits for a loop that is gone.
WaitGroupCountsLoops == wg = Cardinality({g \in Gens : Counted(g)})

\* connected is never left set with nobody to clear it: a loop that has still to
\* clear it is running, or a Connect is about to launch one.  (Otherwise every
\* later Connect would return ErrAlreadyConnected for ever.)
ConnectedHasOwner ==
  connected =>
    \/ \E g \in Gens : loop[g] \notin {"none", "announce", "done", "over"}
    \/ \E c \in Callers : pc[c] = "launch"

\* A goroutine asleep in Close is one the last Done will wake: some loop is
\* still counted.
WaiterIsWoken ==
  \A c \in Callers : pc[c] = "waiting" => \E g \in Gens : Counted(g)

-----------------------------------------------------------------------------
(* Liveness under the same use.                                            *)

\* Close returns: closing the socket unblocks the loop, and the check of stop
\* after every message ends it even with messages left in the buffer.
CloseReturns == \A c \in Callers : pc[c] = "stop" ~> pc[c] = "idle"

\* A Connect with a deadline returns.
ConnectReturns == \A c \in Callers : pc[c] = "dial" ~> pc[c] = "idle"

\* A connection that is lost, or that Close closes, ends with its channel
\* closed, so that whoever waits on Closed() goes on.
EndIsAnnounced ==
  \A g \in Gens : (Running(g) /\ sock[g] \in {"lost", "closed"}) ~> chan[g] = "closed"

-----------------------------------------------------------------------------
(* The contract this use gets: a generation is up from the launch of its   *)
(* loop to the closing of its channel.                                     *)

Contract == INSTANCE MTalkContract WITH
  Connections <- Gens,
  life <- [g \in Gens |-> IF loop[g] = "none" THEN "none"
                          ELSE IF Running(g) THEN "up" ELSE "ended"],
  excused <- {g \in Gens : Running(g) /\ (stop \/ lastErr = g)}

\* Every step of the connection is a step of the contract or none: one
\* connection at a time, each of which ends once and only for a reason the
\* application knows.
ImplementsContract == Contract!CSafe

\* It keeps the contract to its end: a connection that has a reason to end, a
\* Close that asked or an error that Err() already shows, is announced.
ContractIsFair == Contract!CFair
==============================================================================
