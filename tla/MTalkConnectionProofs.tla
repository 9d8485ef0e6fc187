------------------------ MODULE MTalkConnectionProofs ------------------------
(***************************************************************************)
(* Proofs about MTalkConnection, for every number of goroutines and of     *)
(* connections.  AnyUse is inductive whatever the application does; Turns  *)
(* is inductive, given AnyUse, when it makes one call at a time and waits  *)
(* for the Closed() channel before it connects again.                      *)
(***************************************************************************)
EXTENDS MTalkConnection, FiniteSetTheorems, TLAPS

USE DEF fields, heap, loopVars, fate, Step, LoopStep

CountedLoops == {g \in Gens : Counted(g)}

\* Generations are used in order, each by one call.
Fresh ==
  /\ RawConn <= dials
  /\ \A c \in Callers : call[c] <= dials
  /\ \A g \in Gens : g > dials => loop[g] = "none" /\ sock[g] = "none" /\ chan[g] = "none"

Owners ==
  /\ \A c \in Callers : Dialled(c) => call[c] \in Gens /\ loop[call[c]] = "none"
  /\ \A c, d \in Callers : Dialled(c) /\ Dialled(d) /\ call[c] = call[d] => c = d

WaitersCount == \A c \in Callers : pc[c] = "waiting" => wg # 0

Bookkeeping == Fresh /\ Owners /\ WaitersCount /\ ConnectedHasOwner

AnyUse == TypeOK /\ WaitGroupCountsLoops /\ Bookkeeping

-----------------------------------------------------------------------------
Disciplined == Serialized /\ AwaitClosed

OneCall == \A c, d \in Callers : pc[c] # "idle" /\ pc[d] # "idle" => c = d

\* A running loop is the one every field speaks of.
RunningIsCurrent ==
  \A g \in Gens : Running(g) =>
    /\ RawConn = g /\ closed = g /\ awaited = g
    /\ chan[g] = "open"
    /\ loop[g] # "announce" => connected

ConnectRunsAlone ==
  \A c \in Callers : Connecting(c) => \A g \in Gens : ~Running(g)

\* What ConnectContext has established by each of its steps.
ConnectProgress ==
  \A c \in Callers :
    /\ pc[c] \in {"handshake", "up", "launch"} =>
         RawConn = call[c] /\ closed = call[c] /\ chan[call[c]] = "open"
    /\ pc[c] = "launch" => connected
    /\ pc[c] \in {"unstop", "reset", "renew"} => RawConn = call[c]

CloseProgress ==
  \A c \in Callers :
    /\ pc[c] \in {"stop", "find", "shut"} => RawConn # 0
    /\ pc[c] = "woken" => wg = 0

\* A loop that is on its way out has its reason.
ExitHasReason ==
  \A g \in Gens : loop[g] \in {"exit", "shut", "disconnect", "announce"} =>
    stop \/ lastErr = g

Turns ==
  /\ OneCall
  /\ RunningIsCurrent
  /\ ConnectRunsAlone
  /\ ConnectProgress
  /\ CloseProgress
  /\ NoPanic

SocketCleared == \A c \in Callers : pc[c] = "clear" => sock[call[c]] = "closed"

Outcomes == NoSocketLeak /\ SocketCleared /\ ExitHasReason /\ ClosedHasReason

-----------------------------------------------------------------------------
\* The loops the WaitGroup counts are finitely many, so they can be counted.
LEMMA CountedFinite ==
  /\ IsFiniteSet(CountedLoops)
  /\ Cardinality(CountedLoops) \in Nat
<1>1. IsFiniteSet(Gens)
  BY ConstantsAssumption, FS_Interval DEF Gens
<1>2. CountedLoops \subseteq Gens
  BY DEF CountedLoops
<1> QED
  BY <1>1, <1>2, FS_Subset, FS_CardinalityType

\* A counted loop keeps the counter above zero: Done never drives it negative.
LEMMA CountedPositive ==
  ASSUME WaitGroupCountsLoops, NEW g \in Gens, Counted(g)
  PROVE  wg \in Nat /\ wg # 0
<1>1. g \in CountedLoops
  BY DEF CountedLoops
<1> QED
  BY <1>1, CountedFinite, FS_EmptySet DEF WaitGroupCountsLoops, CountedLoops

\* No step of a caller, a loop or the peer takes a variable out of its type.
LEMMA TypeStep ==
  ASSUME TypeOK, WaitGroupCountsLoops, Next
  PROVE  TypeOK'
<1>1. ASSUME NEW c \in Callers, LaunchLoop(c) PROVE TypeOK'
  <2>1. wg' \in Nat
    BY <1>1 DEF LaunchLoop, TypeOK
  <2>2. loop' \in [Gens -> {"none", "over"} \cup LoopSteps]
    BY <1>1 DEF LaunchLoop, TypeOK, LoopSteps
  <2>3. pc' \in [Callers -> {"idle"} \cup ConnectSteps \cup CloseSteps]
    BY <1>1 DEF LaunchLoop, Goto, TypeOK
  <2> QED
    BY <1>1, <2>1, <2>2, <2>3 DEF LaunchLoop, TypeOK
<1>2. ASSUME NEW g \in Gens, ExitDone(g) PROVE TypeOK'
  <2>1. loop[g] = "done" /\ loop' \in [Gens -> {"none", "over"} \cup LoopSteps]
    BY <1>2 DEF ExitDone, LoopGoto, TypeOK
  <2>2. wg \in Nat /\ wg # 0
    BY <2>1, CountedPositive DEF Counted
  <2>3. wg' = wg - 1
    BY <1>2 DEF ExitDone
  <2>4. wg' \in Nat
    BY <2>2, <2>3
  <2>5. pc' \in [Callers -> {"idle"} \cup ConnectSteps \cup CloseSteps]
    BY <1>2 DEF ExitDone, TypeOK, CloseSteps
  <2> QED
    BY <1>2, <2>1, <2>4, <2>5 DEF ExitDone, TypeOK
<1> USE ConstantsAssumption DEF TypeOK, Gens, Gens0, ConnectSteps, CloseSteps,
       LoopSteps, Panics
<1>3. ASSUME NEW c \in Callers, ConnectChecks(c) PROVE TypeOK'
  BY <1>3 DEF ConnectChecks, Goto
<1>4. ASSUME NEW c \in Callers, DialFails(c) PROVE TypeOK'
  BY <1>4 DEF DialFails, Goto
<1>5. ASSUME NEW c \in Callers, DialSucceeds(c) PROVE TypeOK'
  BY <1>5 DEF DialSucceeds, Goto
<1>6. ASSUME NEW c \in Callers, StoreConnection(c) PROVE TypeOK'
  BY <1>6 DEF StoreConnection, Goto
<1>7. ASSUME NEW c \in Callers, ClearStop(c) PROVE TypeOK'
  BY <1>7 DEF ClearStop, Goto
<1>8. ASSUME NEW c \in Callers, ClearErr(c) PROVE TypeOK'
  BY <1>8 DEF ClearErr, Goto
<1>9. ASSUME NEW c \in Callers, MakeChannel(c) PROVE TypeOK'
  BY <1>9 DEF MakeChannel, Goto
<1>10. ASSUME NEW c \in Callers, HandshakeSucceeds(c) PROVE TypeOK'
  BY <1>10 DEF HandshakeSucceeds, Goto
<1>11. ASSUME NEW c \in Callers, HandshakeFails(c) PROVE TypeOK'
  BY <1>11 DEF HandshakeFails, Goto
<1>12. ASSUME NEW c \in Callers, ClearConnection(c) PROVE TypeOK'
  BY <1>12 DEF ClearConnection, Goto
<1>13. ASSUME NEW c \in Callers, SetConnected(c) PROVE TypeOK'
  BY <1>13 DEF SetConnected, Goto
<1>14. ASSUME NEW c \in Callers, CloseChecks(c) PROVE TypeOK'
  BY <1>14 DEF CloseChecks, Goto
<1>15. ASSUME NEW c \in Callers, SetStop(c) PROVE TypeOK'
  BY <1>15 DEF SetStop, Goto
<1>16. ASSUME NEW c \in Callers, FindConnection(c) PROVE TypeOK'
  BY <1>16 DEF FindConnection, Goto
<1>17. ASSUME NEW c \in Callers, CloseConnection(c) PROVE TypeOK'
  BY <1>17 DEF CloseConnection, Goto
<1>18. ASSUME NEW c \in Callers, Wait(c) PROVE TypeOK'
  BY <1>18 DEF Wait, Goto
<1>19. ASSUME NEW c \in Callers, Woken(c) PROVE TypeOK'
  BY <1>19 DEF Woken, Goto
<1>20. ASSUME NEW g \in Gens, StartRead(g) PROVE TypeOK'
  BY <1>20 DEF StartRead, LoopGoto
<1>21. ASSUME NEW g \in Gens, PeerSends(g) PROVE TypeOK'
  BY <1>21 DEF PeerSends, LoopGoto
<1>22. ASSUME NEW g \in Gens, ReadersRace(g) PROVE TypeOK'
  BY <1>22 DEF ReadersRace
<1>23. ASSUME NEW g \in Gens, ReadEnds(g) PROVE TypeOK'
  BY <1>23 DEF ReadEnds, LoopGoto
<1>24. ASSUME NEW g \in Gens, Dispatch(g) PROVE TypeOK'
  BY <1>24 DEF Dispatch, LoopGoto
<1>25. ASSUME NEW g \in Gens, CheckStop(g) PROVE TypeOK'
  BY <1>25 DEF CheckStop, LoopGoto
<1>26. ASSUME NEW g \in Gens, Classify(g) PROVE TypeOK'
  BY <1>26 DEF Classify, LoopGoto
<1>27. ASSUME NEW g \in Gens, Ended(g) PROVE TypeOK'
  BY <1>27 DEF Ended, LoopGoto
<1>28. ASSUME NEW g \in Gens, ReportError(g) PROVE TypeOK'
  BY <1>28 DEF ReportError, LoopGoto
<1>29. ASSUME NEW g \in Gens, ExitFind(g) PROVE TypeOK'
  BY <1>29 DEF ExitFind, LoopGoto
<1>30. ASSUME NEW g \in Gens, ExitShut(g) PROVE TypeOK'
  BY <1>30 DEF ExitShut, LoopGoto
<1>31. ASSUME NEW g \in Gens, ExitDisconnect(g) PROVE TypeOK'
  BY <1>31 DEF ExitDisconnect, LoopGoto
<1>32. ASSUME NEW g \in Gens, ExitAnnounce(g) PROVE TypeOK'
  BY <1>32 DEF ExitAnnounce, LoopGoto
<1>33. ASSUME NEW g \in Gens, PeerDrops(g) PROVE TypeOK'
  BY <1>33 DEF PeerDrops
<1>34. ASSUME NEW c \in Callers, HandshakeRaces(c) PROVE TypeOK'
  BY <1>34 DEF HandshakeRaces
<1>35. ASSUME NEW g \in Gens, Refetch(g) PROVE TypeOK'
  <2>1. \E to \in {"reading", "failed"} : loop' = [loop EXCEPT ![g] = to]
    BY <1>35 DEF Refetch, LoopGoto
  <2>2. on' = [on EXCEPT ![g] = RawConn] /\ UNCHANGED <<pc, call, fields, heap, awaited>>
    BY <1>35 DEF Refetch
  <2>3. panic' = "nil connection" \/ panic' = panic
    BY <1>35 DEF Refetch
  <2> QED
    BY <2>1, <2>2, <2>3
<1> QED
  BY <1>1, <1>2, <1>3, <1>4, <1>5, <1>6, <1>7, <1>8, <1>9, <1>10, <1>11, <1>12,
     <1>13, <1>14, <1>15, <1>16, <1>17, <1>18, <1>19, <1>20, <1>21, <1>22,
     <1>23, <1>24, <1>25, <1>26, <1>27, <1>28, <1>29, <1>30, <1>31, <1>32,
     <1>33, <1>34, <1>35
  DEF Next, ConnectProceeds, CloseProceeds, LoopProceeds

\* No step breaks the bookkeeping: unused generations stay untouched, every loop
\* has a generation of its own, connected and a sleeping Close have a loop.
LEMMA BookkeepingStep ==
  ASSUME TypeOK, Bookkeeping, Next
  PROVE  Bookkeeping'
<1>1. ASSUME NEW c \in Callers, CloseConnection(c) PROVE Bookkeeping'
  <2>1. CASE RawConn # 0
    BY <1>1, <2>1, ConstantsAssumption
    DEF CloseConnection, Goto, TypeOK, Bookkeeping, Fresh, Owners, Dialled,
       ConnectedHasOwner, WaitersCount, ConnectSteps, Gens, Gens0
  <2>2. CASE RawConn = 0
    BY <1>1, <2>2, ConstantsAssumption
    DEF CloseConnection, Goto, TypeOK, Bookkeeping, Fresh, Owners, Dialled,
       ConnectedHasOwner, WaitersCount, ConnectSteps, Gens, Gens0
  <2> QED
    BY <2>1, <2>2
<1>2. ASSUME NEW g \in Gens, PeerSends(g) PROVE Bookkeeping'
  <2>1. UNCHANGED <<pc, call, connected, RawConn, wg, dials, sock, chan>>
    BY <1>2 DEF PeerSends
  <2>2. loop[g] = "reading" /\ \E to \in {"dispatch", "failed"} :
          loop' = [loop EXCEPT ![g] = to]
    BY <1>2 DEF PeerSends, LoopGoto
  <2> QED
    BY <2>1, <2>2, ConstantsAssumption
    DEF TypeOK, Bookkeeping, Fresh, Owners, Dialled, ConnectedHasOwner, WaitersCount,
       ConnectSteps, Gens, Gens0
<1>3. ASSUME NEW g \in Gens, ReadEnds(g) PROVE Bookkeeping'
  <2>1. UNCHANGED <<pc, call, connected, RawConn, wg, dials, sock, chan>>
    BY <1>3 DEF ReadEnds
  <2>2. loop[g] = "reading" /\ \E to \in {"dispatch", "ended", "failed"} :
          loop' = [loop EXCEPT ![g] = to]
    BY <1>3 DEF ReadEnds, LoopGoto
  <2> QED
    BY <2>1, <2>2, ConstantsAssumption
    DEF TypeOK, Bookkeeping, Fresh, Owners, Dialled, ConnectedHasOwner, WaitersCount,
       ConnectSteps, Gens, Gens0
<1>4. ASSUME NEW g \in Gens, ExitShut(g) PROVE Bookkeeping'
  <2>1. CASE RawConn # 0
    BY <1>4, <2>1, ConstantsAssumption
    DEF ExitShut, LoopGoto, TypeOK, Bookkeeping, Fresh, Owners, Dialled,
       ConnectedHasOwner, WaitersCount, ConnectSteps, Gens, Gens0
  <2>2. CASE RawConn = 0
    BY <1>4, <2>2, ConstantsAssumption
    DEF ExitShut, LoopGoto, TypeOK, Bookkeeping, Fresh, Owners, Dialled,
       ConnectedHasOwner, WaitersCount, ConnectSteps, Gens, Gens0
  <2> QED
    BY <2>1, <2>2
<1>5. ASSUME NEW g \in Gens, ExitAnnounce(g) PROVE Bookkeeping'
  <2>1. CASE chan[closed] = "open"
    BY <1>5, <2>1, ConstantsAssumption
    DEF ExitAnnounce, LoopGoto, TypeOK, Bookkeeping, Fresh, Owners, Dialled,
       ConnectedHasOwner, WaitersCount, ConnectSteps, Gens, Gens0
  <2>2. CASE chan[closed] # "open"
    BY <1>5, <2>2, ConstantsAssumption
    DEF ExitAnnounce, LoopGoto, TypeOK, Bookkeeping, Fresh, Owners, Dialled,
       ConnectedHasOwner, WaitersCount, ConnectSteps, Gens, Gens0
  <2> QED
    BY <2>1, <2>2
<1> USE ConstantsAssumption DEF TypeOK, Bookkeeping, Fresh, Owners, Dialled,
       ConnectedHasOwner, WaitersCount, ConnectSteps, Gens, Gens0
<1>6. ASSUME NEW c \in Callers, ConnectChecks(c) PROVE Bookkeeping'
  BY <1>6 DEF ConnectChecks, Goto
<1>7. ASSUME NEW c \in Callers, DialFails(c) PROVE Bookkeeping'
  BY <1>7 DEF DialFails, Goto
<1>8. ASSUME NEW c \in Callers, DialSucceeds(c) PROVE Bookkeeping'
  BY <1>8 DEF DialSucceeds, Goto
<1>9. ASSUME NEW c \in Callers, StoreConnection(c) PROVE Bookkeeping'
  BY <1>9 DEF StoreConnection, Goto
<1>10. ASSUME NEW c \in Callers, ClearStop(c) PROVE Bookkeeping'
  BY <1>10 DEF ClearStop, Goto
<1>11. ASSUME NEW c \in Callers, ClearErr(c) PROVE Bookkeeping'
  BY <1>11 DEF ClearErr, Goto
<1>12. ASSUME NEW c \in Callers, MakeChannel(c) PROVE Bookkeeping'
  BY <1>12 DEF MakeChannel, Goto
<1>13. ASSUME NEW c \in Callers, HandshakeSucceeds(c) PROVE Bookkeeping'
  BY <1>13 DEF HandshakeSucceeds, Goto
<1>14. ASSUME NEW c \in Callers, HandshakeFails(c) PROVE Bookkeeping'
  BY <1>14 DEF HandshakeFails, Goto
<1>15. ASSUME NEW c \in Callers, ClearConnection(c) PROVE Bookkeeping'
  BY <1>15 DEF ClearConnection, Goto
<1>16. ASSUME NEW c \in Callers, SetConnected(c) PROVE Bookkeeping'
  BY <1>16 DEF SetConnected, Goto
<1>17. ASSUME NEW c \in Callers, LaunchLoop(c) PROVE Bookkeeping'
  BY <1>17 DEF LaunchLoop, Goto
<1>18. ASSUME NEW c \in Callers, CloseChecks(c) PROVE Bookkeeping'
  BY <1>18 DEF CloseChecks, Goto
<1>19. ASSUME NEW c \in Callers, SetStop(c) PROVE Bookkeeping'
  BY <1>19 DEF SetStop, Goto
<1>20. ASSUME NEW c \in Callers, FindConnection(c) PROVE Bookkeeping'
  BY <1>20 DEF FindConnection, Goto
<1>21. ASSUME NEW c \in Callers, Wait(c) PROVE Bookkeeping'
  BY <1>21 DEF Wait, Goto
<1>22. ASSUME NEW c \in Callers, Woken(c) PROVE Bookkeeping'
  BY <1>22 DEF Woken, Goto
<1>23. ASSUME NEW g \in Gens, StartRead(g) PROVE Bookkeeping'
  BY <1>23 DEF StartRead, LoopGoto
<1>24. ASSUME NEW g \in Gens, ReadersRace(g) PROVE Bookkeeping'
  BY <1>24 DEF ReadersRace
<1>25. ASSUME NEW g \in Gens, Dispatch(g) PROVE Bookkeeping'
  BY <1>25 DEF Dispatch, LoopGoto
<1>26. ASSUME NEW g \in Gens, CheckStop(g) PROVE Bookkeeping'
  BY <1>26 DEF CheckStop, LoopGoto
<1>27. ASSUME NEW g \in Gens, Classify(g) PROVE Bookkeeping'
  BY <1>27 DEF Classify, LoopGoto
<1>28. ASSUME NEW g \in Gens, Ended(g) PROVE Bookkeeping'
  BY <1>28 DEF Ended, LoopGoto
<1>29. ASSUME NEW g \in Gens, ReportError(g) PROVE Bookkeeping'
  BY <1>29 DEF ReportError, LoopGoto
<1>30. ASSUME NEW g \in Gens, ExitFind(g) PROVE Bookkeeping'
  BY <1>30 DEF ExitFind, LoopGoto
<1>31. ASSUME NEW g \in Gens, ExitDisconnect(g) PROVE Bookkeeping'
  BY <1>31 DEF ExitDisconnect, LoopGoto
<1>32. ASSUME NEW g \in Gens, ExitDone(g) PROVE Bookkeeping'
  BY <1>32 DEF ExitDone, LoopGoto
<1>33. ASSUME NEW g \in Gens, PeerDrops(g) PROVE Bookkeeping'
  BY <1>33 DEF PeerDrops
<1>34. ASSUME NEW c \in Callers, HandshakeRaces(c) PROVE Bookkeeping'
  BY <1>34 DEF HandshakeRaces
<1>35. ASSUME NEW g \in Gens, Refetch(g) PROVE Bookkeeping'
  <2>1. loop[g] = "reading" /\ UNCHANGED <<pc, call, fields, heap>>
    BY <1>35 DEF Refetch, LoopGoto
  <2>2. \E to \in {"reading", "failed"} : loop' = [loop EXCEPT ![g] = to]
    BY <1>35 DEF Refetch, LoopGoto
  <2>3. \A h \in Gens : on'[h] \in {on[h], RawConn}
    BY <1>35 DEF Refetch
  <2> QED
    BY <2>1, <2>2, <2>3
<1> QED
  BY <1>1, <1>2, <1>3, <1>4, <1>5, <1>6, <1>7, <1>8, <1>9, <1>10, <1>11, <1>12,
     <1>13, <1>14, <1>15, <1>16, <1>17, <1>18, <1>19, <1>20, <1>21, <1>22,
     <1>23, <1>24, <1>25, <1>26, <1>27, <1>28, <1>29, <1>30, <1>31, <1>32,
     <1>33, <1>34, <1>35
  DEF Next, ConnectProceeds, CloseProceeds, LoopProceeds

\* Only the launch and the end of a loop change what the WaitGroup counts.
LEMMA CountedFrame ==
  ASSUME TypeOK, Next,
         \A c \in Callers : ~LaunchLoop(c), \A g \in Gens : ~ExitDone(g)
  PROVE  wg' = wg /\ CountedLoops' = CountedLoops
<1>1. CASE loop' = loop /\ wg' = wg
  BY <1>1 DEF CountedLoops, Counted
<1>2. CASE wg' = wg /\ \E g \in Gens, from, to \in LoopSteps : LoopGoto(g, from, to)
  BY <1>2 DEF CountedLoops, Counted, LoopGoto, LoopSteps, TypeOK
<1>3. ASSUME NEW c \in Callers,
             \/ ConnectChecks(c) \/ DialSucceeds(c) \/ HandshakeSucceeds(c)
             \/ HandshakeFails(c) \/ HandshakeRaces(c) \/ ConnectProceeds(c)
             \/ CloseChecks(c) \/ CloseProceeds(c)
      PROVE  loop' = loop /\ wg' = wg
  BY <1>3 DEF ConnectChecks, DialSucceeds, HandshakeSucceeds, HandshakeFails, HandshakeRaces,
     ConnectProceeds, DialFails, StoreConnection, ClearStop, ClearErr, MakeChannel,
     ClearConnection, SetConnected, CloseChecks, CloseProceeds, SetStop,
     FindConnection, CloseConnection, Wait, Woken
<1>4. ASSUME NEW g \in Gens, PeerSends(g) \/ Refetch(g) \/ ReadersRace(g) \/ PeerDrops(g)
      PROVE  wg' = wg /\ (loop' = loop \/ \E from, to \in LoopSteps : LoopGoto(g, from, to))
  BY <1>4 DEF PeerSends, Refetch, ReadersRace, PeerDrops, LoopSteps
<1>5. ASSUME NEW g \in Gens, LoopProceeds(g)
      PROVE  wg' = wg /\ \E from, to \in LoopSteps : LoopGoto(g, from, to)
  <2>1. wg' = wg
    BY <1>5 DEF LoopProceeds, StartRead, ReadEnds, Dispatch, CheckStop, Classify,
       Ended, ReportError, ExitFind, ExitShut, ExitDisconnect, ExitAnnounce
  <2>2. \E from, to \in LoopSteps : LoopGoto(g, from, to)
    BY <1>5 DEF LoopProceeds, StartRead, ReadEnds, Dispatch, CheckStop, Classify,
       Ended, ReportError, ExitFind, ExitShut, ExitDisconnect, ExitAnnounce, LoopSteps
  <2> QED
    BY <2>1, <2>2
<1> QED
  BY <1>1, <1>2, <1>3, <1>4, <1>5 DEF Next

\* Add and Done keep the counter equal to the number of counted loops.
LEMMA WaitGroupStep ==
  ASSUME TypeOK, Owners, WaitGroupCountsLoops, Next
  PROVE  WaitGroupCountsLoops'
<1> USE DEF WaitGroupCountsLoops
<1>0. wg = Cardinality(CountedLoops) /\ (wg' = Cardinality(CountedLoops') => WaitGroupCountsLoops')
  BY DEF CountedLoops
<1>1. ASSUME NEW c \in Callers, LaunchLoop(c)
      PROVE  wg' = Cardinality(CountedLoops')
  <2>1. call[c] \in Gens /\ loop[call[c]] = "none"
    BY <1>1 DEF LaunchLoop, Goto, Owners, Dialled, ConnectSteps
  <2>2. CountedLoops' = CountedLoops \cup {call[c]} /\ call[c] \notin CountedLoops
    BY <1>1, <2>1 DEF LaunchLoop, CountedLoops, Counted, TypeOK
  <2>3. Cardinality(CountedLoops') = Cardinality(CountedLoops) + 1
    BY <2>2, CountedFinite, FS_AddElement
  <2> QED
    BY <1>0, <1>1, <2>3 DEF LaunchLoop
<1>2. ASSUME NEW g \in Gens, ExitDone(g)
      PROVE  wg' = Cardinality(CountedLoops')
  <2>1. CountedLoops' = CountedLoops \ {g} /\ g \in CountedLoops
    BY <1>2 DEF ExitDone, LoopGoto, CountedLoops, Counted, TypeOK
  <2>2. Cardinality(CountedLoops') = Cardinality(CountedLoops) - 1
    BY <2>1, CountedFinite, FS_RemoveElement
  <2> QED
    BY <1>0, <1>2, <2>2 DEF ExitDone
<1> QED
  BY <1>0, <1>1, <1>2, CountedFrame

\* The state NewMTalkCon makes satisfies the invariant of any use.
LEMMA AnyUseInit == Init => AnyUse
<1> SUFFICES ASSUME Init PROVE AnyUse
  OBVIOUS
<1>1. TypeOK
  <2>1. 0 \in Gens0 /\ Gens \subseteq Gens0
    BY ConstantsAssumption DEF Gens, Gens0
  <2>2. chan \in [Gens0 -> {"none", "open", "closed"}]
    BY DEF Init
  <2>3. wg \in Nat
    BY DEF Init
  <2> QED
    BY <2>1, <2>2, <2>3 DEF Init, TypeOK, Panics
<1>2. CountedLoops = {}
  BY DEF Init, CountedLoops, Counted
<1>3. WaitGroupCountsLoops
  BY <1>2, FS_EmptySet DEF WaitGroupCountsLoops, CountedLoops, Init
<1>4. Bookkeeping
  BY ConstantsAssumption
  DEF Init, Bookkeeping, Fresh, Owners, WaitersCount, ConnectedHasOwner, Dialled,
      ConnectSteps, Gens, Gens0
<1> QED
  BY <1>1, <1>3, <1>4 DEF AnyUse

\* Every step keeps the invariant of any use.
LEMMA AnyUseStep == AnyUse /\ [Next]_vars => AnyUse'
<1>1. ASSUME AnyUse, Next PROVE AnyUse'
  BY <1>1, TypeStep, BookkeepingStep, WaitGroupStep DEF AnyUse, Bookkeeping
<1>2. ASSUME AnyUse, UNCHANGED vars PROVE AnyUse'
  BY <1>2 DEF AnyUse, vars, TypeOK, WaitGroupCountsLoops, Counted, Bookkeeping, Fresh,
     Owners, WaitersCount, ConnectedHasOwner, Dialled
<1> QED
  BY <1>1, <1>2

\* Any use: types, and the invariant everything else rests on.
THEOREM AnyUseInvariant == Spec => []AnyUse
  BY AnyUseInit, AnyUseStep, PTL DEF Spec

-----------------------------------------------------------------------------
\* A loop that goes on to a step before the announcement, and touches nothing
\* Turns speaks of.
LEMMA LoopMoves ==
  ASSUME TypeOK, Turns, NEW g \in Gens, Running(g), loop[g] # "announce",
         NEW to \in LoopSteps \ {"announce", "done"},
         loop' = [loop EXCEPT ![g] = to],
         UNCHANGED <<pc, call, connected, RawConn, closed, wg, chan, panic, awaited>>
  PROVE  Turns'
<1>1. \A h \in Gens : Running(h)' <=> Running(h)
  BY DEF Running, TypeOK, LoopSteps
<1>2. RunningIsCurrent'
  BY <1>1 DEF Turns, RunningIsCurrent, TypeOK, LoopSteps
<1>3. ConnectRunsAlone'
  BY <1>1 DEF Turns, ConnectRunsAlone, Connecting
<1> QED
  BY <1>2, <1>3 DEF Turns, OneCall, ConnectProgress, CloseProgress, NoPanic

\* When calls take turns and wait for Closed(), every step keeps them apart: one
\* call, one running loop, no panic.
LEMMA TurnsStep ==
  ASSUME Disciplined, AnyUse, Turns, Next
  PROVE  Turns'
<1>1. ASSUME NEW c \in Callers, ClearConnection(c) PROVE Turns'
  <2>1. pc[c] = "clear" /\ pc' = [pc EXCEPT ![c] = "idle"]
    BY <1>1 DEF ClearConnection, Goto
  <2>2. UNCHANGED <<call, connected, closed, wg, chan, loop, panic, awaited>>
    BY <1>1 DEF ClearConnection
  <2>3. \A h \in Gens : ~Running(h) /\ ~Running(h)'
    BY <2>1, <2>2 DEF Turns, ConnectRunsAlone, Connecting, ConnectSteps, Running
  <2>4. \A d \in Callers : pc'[d] = "idle"
    BY <2>1 DEF Turns, OneCall, AnyUse, TypeOK
  <2> QED
    BY <2>2, <2>3, <2>4 DEF Turns, OneCall, RunningIsCurrent, ConnectRunsAlone,
       ConnectProgress, CloseProgress, NoPanic, Connecting, ConnectSteps
<1>2. ASSUME NEW c \in Callers, CloseConnection(c) PROVE Turns'
  <2>1. pc[c] = "shut" /\ pc' = [pc EXCEPT ![c] = "wait"]
    BY <1>2 DEF CloseConnection, Goto
  <2>2. RawConn # 0
    BY <2>1 DEF Turns, CloseProgress
  <2>3. UNCHANGED <<call, connected, RawConn, closed, wg, chan, loop, panic, awaited>>
    BY <1>2, <2>2 DEF CloseConnection
  <2> QED
    BY <2>1, <2>3
    DEF AnyUse, TypeOK, Turns, OneCall, RunningIsCurrent, ConnectRunsAlone,
       ConnectProgress, CloseProgress, NoPanic, Running, Connecting, ConnectSteps
<1>3. ASSUME NEW c \in Callers, Woken(c) PROVE Turns'
  <2>1. pc[c] = "woken" /\ pc' = [pc EXCEPT ![c] = "idle"]
    BY <1>3 DEF Woken, Goto
  <2>2. panic' = "none"
    BY <1>3, <2>1 DEF Woken, Turns, CloseProgress
  <2>3. UNCHANGED <<call, connected, RawConn, closed, wg, chan, loop, awaited>>
    BY <1>3 DEF Woken
  <2> QED
    BY <2>1, <2>2, <2>3
    DEF AnyUse, TypeOK, Turns, OneCall, RunningIsCurrent, ConnectRunsAlone,
       ConnectProgress, CloseProgress, NoPanic, Running, Connecting, ConnectSteps
<1>4. ASSUME NEW g \in Gens, StartRead(g) PROVE Turns'
  <2>1. loop[g] = "read" /\ UNCHANGED <<pc, call, connected, RawConn, closed, wg, chan, panic, awaited>>
    BY <1>4 DEF StartRead, LoopGoto
  <2>2. \E to \in {"reading", "failed"} : loop' = [loop EXCEPT ![g] = to]
    BY <1>4 DEF StartRead, LoopGoto
  <2> QED
    BY <2>1, <2>2, LoopMoves DEF AnyUse, Running, LoopSteps
<1>5. ASSUME NEW g \in Gens, PeerSends(g) PROVE Turns'
  <2>1. loop[g] = "reading" /\ UNCHANGED <<pc, call, connected, RawConn, closed, wg, chan, panic, awaited>>
    BY <1>5 DEF PeerSends, LoopGoto
  <2>2. \E to \in {"dispatch", "failed"} : loop' = [loop EXCEPT ![g] = to]
    BY <1>5 DEF PeerSends, LoopGoto
  <2> QED
    BY <2>1, <2>2, LoopMoves DEF AnyUse, Running, LoopSteps
<1>6. ASSUME NEW g \in Gens, ReadersRace(g) PROVE Turns'
  <2>1. \E h \in Gens \ {g} : Running(g) /\ Running(h)
    BY <1>6 DEF ReadersRace, Running
  <2> QED
    BY <2>1 DEF Turns, RunningIsCurrent
<1>7. ASSUME NEW g \in Gens, ReadEnds(g) PROVE Turns'
  <2>1. loop[g] = "reading" /\ UNCHANGED <<pc, call, connected, RawConn, closed, wg, chan, panic, awaited>>
    BY <1>7 DEF ReadEnds, LoopGoto
  <2>2. \E to \in {"dispatch", "ended", "failed"} : loop' = [loop EXCEPT ![g] = to]
    BY <1>7 DEF ReadEnds, LoopGoto
  <2> QED
    BY <2>1, <2>2, LoopMoves DEF AnyUse, Running, LoopSteps
<1>8. ASSUME NEW g \in Gens, Dispatch(g) PROVE Turns'
  <2>1. loop[g] = "dispatch" /\ UNCHANGED <<pc, call, connected, RawConn, closed, wg, chan, panic, awaited>>
    BY <1>8 DEF Dispatch, LoopGoto
  <2>2. \E to \in {"check"} : loop' = [loop EXCEPT ![g] = to]
    BY <1>8 DEF Dispatch, LoopGoto
  <2> QED
    BY <2>1, <2>2, LoopMoves DEF AnyUse, Running, LoopSteps
<1>9. ASSUME NEW g \in Gens, CheckStop(g) PROVE Turns'
  <2>1. loop[g] = "check" /\ UNCHANGED <<pc, call, connected, RawConn, closed, wg, chan, panic, awaited>>
    BY <1>9 DEF CheckStop, LoopGoto
  <2>2. \E to \in {"exit", "read"} : loop' = [loop EXCEPT ![g] = to]
    BY <1>9 DEF CheckStop, LoopGoto
  <2> QED
    BY <2>1, <2>2, LoopMoves DEF AnyUse, Running, LoopSteps
<1>10. ASSUME NEW g \in Gens, Classify(g) PROVE Turns'
  <2>1. loop[g] = "failed" /\ UNCHANGED <<pc, call, connected, RawConn, closed, wg, chan, panic, awaited>>
    BY <1>10 DEF Classify, LoopGoto
  <2>2. \E to \in {"ended", "report"} : loop' = [loop EXCEPT ![g] = to]
    BY <1>10 DEF Classify, LoopGoto
  <2> QED
    BY <2>1, <2>2, LoopMoves DEF AnyUse, Running, LoopSteps
<1>11. ASSUME NEW g \in Gens, Ended(g) PROVE Turns'
  <2>1. loop[g] = "ended" /\ UNCHANGED <<pc, call, connected, RawConn, closed, wg, chan, panic, awaited>>
    BY <1>11 DEF Ended, LoopGoto
  <2>2. \E to \in {"exit", "report"} : loop' = [loop EXCEPT ![g] = to]
    BY <1>11 DEF Ended, LoopGoto
  <2> QED
    BY <2>1, <2>2, LoopMoves DEF AnyUse, Running, LoopSteps
<1>12. ASSUME NEW g \in Gens, ReportError(g) PROVE Turns'
  <2>1. loop[g] = "report" /\ UNCHANGED <<pc, call, connected, RawConn, closed, wg, chan, panic, awaited>>
    BY <1>12 DEF ReportError, LoopGoto
  <2>2. \E to \in {"exit"} : loop' = [loop EXCEPT ![g] = to]
    BY <1>12 DEF ReportError, LoopGoto
  <2> QED
    BY <2>1, <2>2, LoopMoves DEF AnyUse, Running, LoopSteps
<1>13. ASSUME NEW g \in Gens, ExitFind(g) PROVE Turns'
  <2>1. loop[g] = "exit" /\ UNCHANGED <<pc, call, connected, RawConn, closed, wg, chan, panic, awaited>>
    BY <1>13 DEF ExitFind, LoopGoto
  <2>2. \E to \in {"shut", "disconnect"} : loop' = [loop EXCEPT ![g] = to]
    BY <1>13 DEF ExitFind, LoopGoto
  <2> QED
    BY <2>1, <2>2, LoopMoves DEF AnyUse, Running, LoopSteps
<1>14. ASSUME NEW g \in Gens, ExitShut(g) PROVE Turns'
  <2>1. loop[g] = "shut" /\ loop' = [loop EXCEPT ![g] = "disconnect"]
    BY <1>14 DEF ExitShut, LoopGoto
  <2>2. RawConn # 0
    BY <2>1, ConstantsAssumption DEF Turns, RunningIsCurrent, Running, Gens
  <2>3. UNCHANGED <<pc, call, connected, RawConn, closed, wg, chan, panic, awaited>>
    BY <1>14, <2>2 DEF ExitShut
  <2> QED
    BY <2>1, <2>3, LoopMoves DEF AnyUse, Running, LoopSteps
<1>15. ASSUME NEW g \in Gens, ExitAnnounce(g) PROVE Turns'
  <2>1. loop[g] = "announce" /\ loop' = [loop EXCEPT ![g] = "done"] /\ Running(g)
    BY <1>15 DEF ExitAnnounce, LoopGoto, Running
  <2>2. closed = g /\ chan[closed] = "open"
    BY <2>1 DEF Turns, RunningIsCurrent
  <2>3. UNCHANGED <<pc, call, connected, RawConn, closed, wg, panic, awaited>>
    BY <1>15, <2>2 DEF ExitAnnounce
  <2>4. \A h \in Gens : ~Running(h)'
    BY <2>1 DEF Turns, RunningIsCurrent, Running, AnyUse, TypeOK
  <2>5. \A d \in Callers : ~Connecting(d)
    BY <2>1 DEF Turns, ConnectRunsAlone
  <2>6. ConnectProgress'
    BY <2>3, <2>5 DEF ConnectProgress, Connecting, ConnectSteps
  <2> QED
    BY <2>3, <2>4, <2>5, <2>6 DEF Turns, OneCall, RunningIsCurrent, ConnectRunsAlone,
       ConnectProgress, CloseProgress, NoPanic, Connecting
<1>16. ASSUME NEW g \in Gens, ExitDone(g) PROVE Turns'
  <2>1. loop[g] = "done" /\ loop' = [loop EXCEPT ![g] = "over"] /\ wg' = wg - 1
    BY <1>16 DEF ExitDone, LoopGoto
  <2>2. UNCHANGED <<call, connected, RawConn, closed, chan, panic, awaited>>
    BY <1>16 DEF ExitDone
  <2>3. wg \in Nat /\ wg # 0
    BY <2>1, CountedPositive DEF AnyUse, Counted
  <2>4. \A c \in Callers : \/ pc'[c] = pc[c]
                           \/ pc[c] = "waiting" /\ pc'[c] = "woken" /\ wg = 1
    BY <1>16 DEF ExitDone
  <2>5. CloseProgress'
    BY <2>1, <2>2, <2>3, <2>4 DEF Turns, CloseProgress
  <2>6. \A h \in Gens : Running(h)' <=> Running(h)
    BY <2>1 DEF Running, AnyUse, TypeOK
  <2>7. \A h \in Gens : Running(h) => loop'[h] = loop[h]
    BY <2>1 DEF Running, AnyUse, TypeOK
  <2> QED
    BY <2>2, <2>4, <2>5, <2>6, <2>7
    DEF Turns, OneCall, RunningIsCurrent, ConnectRunsAlone, ConnectProgress, NoPanic,
        Connecting, ConnectSteps
<1> USE ConstantsAssumption DEF Disciplined, AnyUse, Bookkeeping, TypeOK,
       Fresh, Owners, Dialled, ConnectedHasOwner, Turns, OneCall,
       RunningIsCurrent, ConnectRunsAlone, ConnectProgress, CloseProgress,
       NoPanic, Running, Connecting, ConnectSteps, MayConnect, MayCall, Gens,
       Gens0
<1>17. ASSUME NEW c \in Callers, ConnectChecks(c) PROVE Turns'
  BY <1>17 DEF ConnectChecks, Goto
<1>18. ASSUME NEW c \in Callers, DialFails(c) PROVE Turns'
  BY <1>18 DEF DialFails, Goto
<1>19. ASSUME NEW c \in Callers, DialSucceeds(c) PROVE Turns'
  BY <1>19 DEF DialSucceeds, Goto
<1>20. ASSUME NEW c \in Callers, StoreConnection(c) PROVE Turns'
  BY <1>20 DEF StoreConnection, Goto
<1>21. ASSUME NEW c \in Callers, ClearStop(c) PROVE Turns'
  BY <1>21 DEF ClearStop, Goto
<1>22. ASSUME NEW c \in Callers, ClearErr(c) PROVE Turns'
  BY <1>22 DEF ClearErr, Goto
<1>23. ASSUME NEW c \in Callers, MakeChannel(c) PROVE Turns'
  BY <1>23 DEF MakeChannel, Goto
<1>24. ASSUME NEW c \in Callers, HandshakeSucceeds(c) PROVE Turns'
  BY <1>24 DEF HandshakeSucceeds, Goto
<1>25. ASSUME NEW c \in Callers, HandshakeFails(c) PROVE Turns'
  BY <1>25 DEF HandshakeFails, Goto
<1>26. ASSUME NEW c \in Callers, SetConnected(c) PROVE Turns'
  BY <1>26 DEF SetConnected, Goto
<1>27. ASSUME NEW c \in Callers, LaunchLoop(c) PROVE Turns'
  BY <1>27 DEF LaunchLoop, Goto
<1>28. ASSUME NEW c \in Callers, CloseChecks(c) PROVE Turns'
  BY <1>28 DEF CloseChecks, Goto
<1>29. ASSUME NEW c \in Callers, SetStop(c) PROVE Turns'
  BY <1>29 DEF SetStop, Goto
<1>30. ASSUME NEW c \in Callers, FindConnection(c) PROVE Turns'
  BY <1>30 DEF FindConnection, Goto
<1>31. ASSUME NEW c \in Callers, Wait(c) PROVE Turns'
  BY <1>31 DEF Wait, Goto
<1>32. ASSUME NEW g \in Gens, ExitDisconnect(g) PROVE Turns'
  BY <1>32 DEF ExitDisconnect, LoopGoto
<1>33. ASSUME NEW g \in Gens, PeerDrops(g) PROVE Turns'
  BY <1>33 DEF PeerDrops
<1>34. ASSUME NEW c \in Callers, HandshakeRaces(c) PROVE Turns'
  <2>0. pc[c] = "handshake"
    BY ONLY <1>34 DEF HandshakeRaces
  <2>1. RawConn = call[c] /\ RawConn # 0
    <3>1. RawConn = call[c]
      BY <2>0
    <3>2. call[c] \in Gens
      BY <2>0
    <3> QED
      BY <3>1, <3>2
  <2>2. \A h \in Gens : loop[h] # "reading"
    BY <2>0
  <2>3. \A d \in Callers \ {c} : pc[d] # "handshake"
    BY <2>0
  <2>4. \/ RawConn = 0
        \/ \E d \in Callers \ {c} : pc[d] = "handshake"
        \/ \E g \in Gens : loop[g] = "reading"
    BY ONLY <1>34 DEF HandshakeRaces
  <2> QED
    BY ONLY <2>1, <2>2, <2>3, <2>4
<1>35. ASSUME NEW g \in Gens, Refetch(g) PROVE Turns'
  <2>1. loop[g] = "reading" /\ UNCHANGED <<pc, call, connected, RawConn, closed, wg, chan, awaited>>
    BY <1>35 DEF Refetch, LoopGoto
  <2>2. RawConn = g
    BY <2>1
  <2>3. \E to \in {"reading", "failed"} : loop' = [loop EXCEPT ![g] = to]
    BY <1>35 DEF Refetch, LoopGoto
  <2>4. panic' = panic
    <3>1. RawConn # 0
      BY <2>2
    <3> QED
      BY <1>35, <3>1, Zenon DEF Refetch
  <2> QED
    BY <2>1, <2>3, <2>4, LoopMoves DEF LoopSteps
<1> QED
  BY <1>1, <1>2, <1>3, <1>4, <1>5, <1>6, <1>7, <1>8, <1>9, <1>10, <1>11, <1>12,
     <1>13, <1>14, <1>15, <1>16, <1>17, <1>18, <1>19, <1>20, <1>21, <1>22,
     <1>23, <1>24, <1>25, <1>26, <1>27, <1>28, <1>29, <1>30, <1>31, <1>32,
     <1>33, <1>34, <1>35
  DEF Next, ConnectProceeds, CloseProceeds, LoopProceeds

\* A caller that goes on without entering or leaving the steps Outcomes names.
LEMMA CallerMoves ==
  ASSUME TypeOK, Outcomes, NEW c \in Callers, NEW to,
         pc' = [pc EXCEPT ![c] = to],
         ~Dialled(c), to \notin ConnectSteps \ {"dial"},
         UNCHANGED <<call, RawConn, closed, lastErr, stop, sock, chan, loop>>
  PROVE  Outcomes'
<1>1. \A d \in Callers : Dialled(d)' <=> Dialled(d)
  BY DEF Dialled, TypeOK
<1>2. \A d \in Callers : Dialled(d) => pc'[d] = pc[d]
  BY DEF TypeOK
<1>3. NoSocketLeak'
  BY <1>1 DEF Outcomes, NoSocketLeak
<1>4. SocketCleared' /\ ClosedHasReason'
  BY <1>1, <1>2 DEF Outcomes, SocketCleared, ClosedHasReason, Dialled, ConnectSteps
<1> QED
  BY <1>3, <1>4 DEF Outcomes, ExitHasReason

\* Under the same use every step keeps account of each socket and of the reason
\* a loop ends for.
LEMMA OutcomesStep ==
  ASSUME AnyUse, Turns, Outcomes, Next
  PROVE  Outcomes'
<1>1. ASSUME NEW c \in Callers, ConnectChecks(c) PROVE Outcomes'
  <2>1. pc[c] = "idle" /\ pc' = [pc EXCEPT ![c] = "dial"]
    BY <1>1 DEF ConnectChecks, Goto
  <2> QED
    BY <1>1, <2>1, CallerMoves DEF ConnectChecks, AnyUse, Dialled, ConnectSteps
<1>2. ASSUME NEW c \in Callers, DialFails(c) PROVE Outcomes'
  <2>1. pc[c] = "dial" /\ pc' = [pc EXCEPT ![c] = "idle"]
    BY <1>2 DEF DialFails, Goto
  <2> QED
    BY <1>2, <2>1, CallerMoves DEF DialFails, AnyUse, Dialled, ConnectSteps
<1>3. ASSUME NEW c \in Callers, ClearStop(c) PROVE Outcomes'
  <2>1. pc[c] = "unstop" /\ pc' = [pc EXCEPT ![c] = "reset"]
    BY <1>3 DEF ClearStop, Goto
  <2>2. UNCHANGED <<call, RawConn, closed, lastErr, sock, chan, loop>>
    BY <1>3 DEF ClearStop
  <2>3. \A d \in Callers \ {c} : pc[d] = "idle"
    BY <2>1 DEF Turns, OneCall
  <2>4. \A g \in Gens : ~Running(g)
    BY <2>1 DEF Turns, ConnectRunsAlone, Connecting, ConnectSteps
  <2>5. ExitHasReason'
    BY <2>2, <2>4 DEF ExitHasReason, Running
  <2>6. NoSocketLeak' /\ SocketCleared'
    BY <2>1, <2>2, <2>3
    DEF Outcomes, NoSocketLeak, SocketCleared, Dialled, ConnectSteps, AnyUse, TypeOK
  <2>7. ClosedHasReason'
    BY <2>1 DEF ClosedHasReason, AnyUse, TypeOK
  <2> QED
    BY <2>5, <2>6, <2>7 DEF Outcomes
<1>4. ASSUME NEW c \in Callers, ClearErr(c) PROVE Outcomes'
  <2>1. pc[c] = "reset" /\ pc' = [pc EXCEPT ![c] = "renew"]
    BY <1>4 DEF ClearErr, Goto
  <2>2. UNCHANGED <<call, RawConn, closed, stop, sock, chan, loop>>
    BY <1>4 DEF ClearErr
  <2>3. \A d \in Callers \ {c} : pc[d] = "idle"
    BY <2>1 DEF Turns, OneCall
  <2>4. \A g \in Gens : ~Running(g)
    BY <2>1 DEF Turns, ConnectRunsAlone, Connecting, ConnectSteps
  <2>5. ExitHasReason'
    BY <2>2, <2>4 DEF ExitHasReason, Running
  <2>6. NoSocketLeak' /\ SocketCleared'
    BY <2>1, <2>2, <2>3
    DEF Outcomes, NoSocketLeak, SocketCleared, Dialled, ConnectSteps, AnyUse, TypeOK
  <2>7. ClosedHasReason'
    BY <2>1 DEF ClosedHasReason, AnyUse, TypeOK
  <2> QED
    BY <2>5, <2>6, <2>7 DEF Outcomes
<1>5. ASSUME NEW c \in Callers, ClearConnection(c) PROVE Outcomes'
  <2>1. pc[c] = "clear" /\ pc' = [pc EXCEPT ![c] = "idle"]
    BY <1>5 DEF ClearConnection, Goto
  <2>2. UNCHANGED <<call, closed, lastErr, stop, sock, chan, loop>>
    BY <1>5 DEF ClearConnection
  <2>3. \A d \in Callers \ {c} : pc[d] = "idle"
    BY <2>1 DEF Turns, OneCall
  <2>4. \A g \in Gens : ~Running(g)
    BY <2>1 DEF Turns, ConnectRunsAlone, Connecting, ConnectSteps
  <2>5. \A g \in Gens : sock[g] \notin {"open", "lost"}
    BY <2>1, <2>3, <2>4
    DEF Outcomes, NoSocketLeak, SocketCleared, Dialled, ConnectSteps, Running
  <2>6. ExitHasReason' /\ NoSocketLeak'
    BY <2>2, <2>4, <2>5 DEF ExitHasReason, NoSocketLeak, Running
  <2>7. SocketCleared' /\ ClosedHasReason'
    BY <2>1, <2>2, <2>3
    DEF Outcomes, SocketCleared, ClosedHasReason, AnyUse, TypeOK
  <2> QED
    BY <2>6, <2>7 DEF Outcomes
<1>6. ASSUME NEW c \in Callers, CloseChecks(c) PROVE Outcomes'
  <2>1. pc[c] = "idle" /\ pc' = [pc EXCEPT ![c] = "stop"]
    BY <1>6 DEF CloseChecks, Goto
  <2> QED
    BY <1>6, <2>1, CallerMoves DEF CloseChecks, AnyUse, Dialled, ConnectSteps
<1>7. ASSUME NEW c \in Callers, SetStop(c) PROVE Outcomes'
  <2>1. pc[c] = "stop" /\ pc' = [pc EXCEPT ![c] = "find"] /\ stop' = TRUE
    BY <1>7 DEF SetStop, Goto
  <2>2. UNCHANGED <<call, RawConn, closed, lastErr, sock, chan, loop>>
    BY <1>7 DEF SetStop
  <2>3. \A d \in Callers : /\ Dialled(d)' <=> Dialled(d)
                           /\ pc'[d] = "clear" => pc[d] = "clear"
    BY <2>1 DEF Dialled, ConnectSteps, AnyUse, TypeOK
  <2> QED
    BY <2>1, <2>2, <2>3
    DEF Outcomes, NoSocketLeak, SocketCleared, ExitHasReason, ClosedHasReason
<1>8. ASSUME NEW c \in Callers, FindConnection(c) PROVE Outcomes'
  <2>1. pc[c] = "find" /\ \E to \in {"shut", "wait"} : pc' = [pc EXCEPT ![c] = to]
    BY <1>8 DEF FindConnection, Goto
  <2> QED
    BY <1>8, <2>1, CallerMoves DEF FindConnection, AnyUse, Dialled, ConnectSteps
<1>9. ASSUME NEW c \in Callers, CloseConnection(c) PROVE Outcomes'
  <2>1. pc[c] = "shut" /\ pc' = [pc EXCEPT ![c] = "wait"]
    BY <1>9 DEF CloseConnection, Goto
  <2>2. UNCHANGED <<call, RawConn, closed, lastErr, stop, chan, loop>>
    BY <1>9 DEF CloseConnection
  <2>3. \A g \in Gens : sock'[g] = sock[g] \/ sock'[g] = "closed"
    BY <1>9 DEF CloseConnection, AnyUse, TypeOK
  <2>4. \A d \in Callers : Dialled(d)' <=> Dialled(d)
    BY <2>1 DEF Dialled, ConnectSteps, AnyUse, TypeOK
  <2>5. NoSocketLeak'
    BY <2>2, <2>3, <2>4 DEF Outcomes, NoSocketLeak
  <2>6. \A d \in Callers : pc'[d] = "clear" => call[d] \in Gens /\ sock'[call[d]] = "closed"
    BY <2>1, <2>3
    DEF Outcomes, SocketCleared, AnyUse, Bookkeeping, Owners, Dialled, ConnectSteps,
       TypeOK
  <2>7. SocketCleared' /\ ClosedHasReason' /\ ExitHasReason'
    BY <2>1, <2>2, <2>6
    DEF Outcomes, SocketCleared, ClosedHasReason, ExitHasReason, AnyUse, TypeOK
  <2> QED
    BY <2>5, <2>7 DEF Outcomes
<1>10. ASSUME NEW c \in Callers, Wait(c) PROVE Outcomes'
  <2>1. pc[c] = "wait" /\ \E to \in {"idle", "waiting"} : pc' = [pc EXCEPT ![c] = to]
    BY <1>10 DEF Wait, Goto
  <2> QED
    BY <1>10, <2>1, CallerMoves DEF Wait, AnyUse, Dialled, ConnectSteps
<1>11. ASSUME NEW c \in Callers, Woken(c) PROVE Outcomes'
  <2>1. pc[c] = "woken" /\ pc' = [pc EXCEPT ![c] = "idle"]
    BY <1>11 DEF Woken, Goto
  <2> QED
    BY <1>11, <2>1, CallerMoves DEF Woken, AnyUse, Dialled, ConnectSteps
<1>12. ASSUME NEW g \in Gens, ReadersRace(g) PROVE Outcomes'
  <2>1. UNCHANGED <<pc, call, RawConn, closed, lastErr, stop, sock, chan, loop>>
    BY <1>12 DEF ReadersRace
  <2> QED
    BY <2>1
    DEF Outcomes, NoSocketLeak, SocketCleared, ExitHasReason, ClosedHasReason, Dialled
<1>13. ASSUME NEW g \in Gens, ReportError(g) PROVE Outcomes'
  <2>1. loop[g] = "report" /\ loop' = [loop EXCEPT ![g] = "exit"] /\ lastErr' = g
    BY <1>13 DEF ReportError, LoopGoto
  <2>2. UNCHANGED <<pc, call, RawConn, closed, stop, sock, chan>>
    BY <1>13 DEF ReportError
  <2>3. \A h \in Gens \ {g} : ~Running(h)
    BY <2>1 DEF Turns, RunningIsCurrent, Running
  <2>4. ExitHasReason'
    BY <2>1, <2>3 DEF ExitHasReason, Running, AnyUse, TypeOK
  <2>5. closed = g /\ chan[g] = "open"
    BY <2>1 DEF Turns, RunningIsCurrent, Running
  <2>6. NoSocketLeak' /\ SocketCleared' /\ ClosedHasReason'
    BY <2>1, <2>2, <2>5
    DEF Outcomes, NoSocketLeak, SocketCleared, ClosedHasReason, Dialled, AnyUse, TypeOK
  <2> QED
    BY <2>4, <2>6 DEF Outcomes
<1>14. ASSUME NEW g \in Gens, ExitShut(g) PROVE Outcomes'
  <2>1. loop[g] = "shut" /\ loop' = [loop EXCEPT ![g] = "disconnect"]
    BY <1>14 DEF ExitShut, LoopGoto
  <2>2. RawConn = g /\ g # 0
    BY <2>1, ConstantsAssumption DEF Turns, RunningIsCurrent, Running, Gens
  <2>3. UNCHANGED <<pc, call, RawConn, closed, lastErr, stop, chan>>
    BY <1>14 DEF ExitShut
  <2>4. sock' = [sock EXCEPT ![g] = "closed"]
    BY <1>14, <2>2 DEF ExitShut
  <2>5. NoSocketLeak' /\ SocketCleared'
    BY <2>1, <2>2, <2>3, <2>4
    DEF Outcomes, NoSocketLeak, SocketCleared, Dialled, AnyUse, Bookkeeping, Owners,
        ConnectSteps, TypeOK
  <2>6. ExitHasReason' /\ ClosedHasReason'
    BY <2>1, <2>3 DEF Outcomes, ExitHasReason, ClosedHasReason, AnyUse, TypeOK
  <2> QED
    BY <2>5, <2>6 DEF Outcomes
<1>15. ASSUME NEW g \in Gens, ExitAnnounce(g) PROVE Outcomes'
  <2>1. loop[g] = "announce" /\ loop' = [loop EXCEPT ![g] = "done"]
    BY <1>15 DEF ExitAnnounce, LoopGoto
  <2>2. UNCHANGED <<pc, call, RawConn, closed, lastErr, stop, sock>>
    BY <1>15 DEF ExitAnnounce
  <2>3. closed = g /\ (stop \/ lastErr = g)
    BY <2>1 DEF Turns, RunningIsCurrent, Running, Outcomes, ExitHasReason
  <2>4. NoSocketLeak' /\ SocketCleared' /\ ExitHasReason'
    BY <2>1, <2>2
    DEF Outcomes, NoSocketLeak, SocketCleared, ExitHasReason, Dialled, AnyUse, TypeOK
  <2>5. ClosedHasReason'
    BY <2>2, <2>3 DEF ClosedHasReason
  <2> QED
    BY <2>4, <2>5 DEF Outcomes
<1>16. ASSUME NEW g \in Gens, ExitDone(g) PROVE Outcomes'
  <2>1. loop[g] = "done" /\ loop' = [loop EXCEPT ![g] = "over"]
    BY <1>16 DEF ExitDone, LoopGoto
  <2>2. UNCHANGED <<call, RawConn, closed, lastErr, stop, sock, chan>>
    BY <1>16 DEF ExitDone
  <2>3. \A c \in Callers : \/ pc'[c] = pc[c]
                           \/ pc[c] = "waiting" /\ pc'[c] = "woken"
    BY <1>16 DEF ExitDone
  <2>4. \A c \in Callers : Dialled(c)' <=> Dialled(c)
    BY <2>3 DEF Dialled, ConnectSteps
  <2>5. NoSocketLeak' /\ ExitHasReason'
    BY <2>1, <2>2, <2>4 DEF Outcomes, NoSocketLeak, ExitHasReason, AnyUse, TypeOK
  <2>6. SocketCleared' /\ ClosedHasReason'
    BY <2>2, <2>3 DEF Outcomes, SocketCleared, ClosedHasReason
  <2> QED
    BY <2>5, <2>6 DEF Outcomes
<1> USE ConstantsAssumption DEF AnyUse, Bookkeeping, TypeOK, Fresh, Owners,
       Turns, OneCall, RunningIsCurrent, ConnectRunsAlone, ConnectProgress,
       CloseProgress, Running, Connecting, Dialled, ConnectSteps, Outcomes,
       NoSocketLeak, SocketCleared, ExitHasReason, ClosedHasReason, Gens, Gens0
<1>17. ASSUME NEW c \in Callers, DialSucceeds(c) PROVE Outcomes'
  BY <1>17 DEF DialSucceeds, Goto
<1>18. ASSUME NEW c \in Callers, StoreConnection(c) PROVE Outcomes'
  BY <1>18 DEF StoreConnection, Goto
<1>19. ASSUME NEW c \in Callers, MakeChannel(c) PROVE Outcomes'
  BY <1>19 DEF MakeChannel, Goto
<1>20. ASSUME NEW c \in Callers, HandshakeSucceeds(c) PROVE Outcomes'
  BY <1>20 DEF HandshakeSucceeds, Goto
<1>21. ASSUME NEW c \in Callers, HandshakeFails(c) PROVE Outcomes'
  BY <1>21 DEF HandshakeFails, Goto
<1>22. ASSUME NEW c \in Callers, SetConnected(c) PROVE Outcomes'
  BY <1>22 DEF SetConnected, Goto
<1>23. ASSUME NEW c \in Callers, LaunchLoop(c) PROVE Outcomes'
  BY <1>23 DEF LaunchLoop, Goto
<1>24. ASSUME NEW g \in Gens, StartRead(g) PROVE Outcomes'
  BY <1>24 DEF StartRead, LoopGoto
<1>25. ASSUME NEW g \in Gens, PeerSends(g) PROVE Outcomes'
  BY <1>25 DEF PeerSends, LoopGoto
<1>26. ASSUME NEW g \in Gens, ReadEnds(g) PROVE Outcomes'
  <2>1. loop[g] = "reading" /\ UNCHANGED <<pc, call, RawConn, closed, lastErr, stop, sock, chan>>
    BY <1>26 DEF ReadEnds, LoopGoto
  <2>2. \E to \in {"dispatch", "ended", "failed"} : loop' = [loop EXCEPT ![g] = to]
    BY <1>26 DEF ReadEnds, LoopGoto
  <2> QED
    BY <2>1, <2>2
<1>27. ASSUME NEW g \in Gens, Dispatch(g) PROVE Outcomes'
  BY <1>27 DEF Dispatch, LoopGoto
<1>28. ASSUME NEW g \in Gens, CheckStop(g) PROVE Outcomes'
  BY <1>28 DEF CheckStop, LoopGoto
<1>29. ASSUME NEW g \in Gens, Classify(g) PROVE Outcomes'
  BY <1>29 DEF Classify, LoopGoto
<1>30. ASSUME NEW g \in Gens, Ended(g) PROVE Outcomes'
  BY <1>30 DEF Ended, LoopGoto
<1>31. ASSUME NEW g \in Gens, ExitFind(g) PROVE Outcomes'
  BY <1>31 DEF ExitFind, LoopGoto
<1>32. ASSUME NEW g \in Gens, ExitDisconnect(g) PROVE Outcomes'
  BY <1>32 DEF ExitDisconnect, LoopGoto
<1>33. ASSUME NEW g \in Gens, PeerDrops(g) PROVE Outcomes'
  BY <1>33 DEF PeerDrops
<1>34. ASSUME NEW c \in Callers, HandshakeRaces(c) PROVE Outcomes'
  <2>1. UNCHANGED <<pc, call, fields, heap, loopVars>>
    BY <1>34 DEF HandshakeRaces
  <2> QED
    BY <2>1
<1>35. ASSUME NEW g \in Gens, Refetch(g) PROVE Outcomes'
  <2>1. loop[g] = "reading" /\ UNCHANGED <<pc, call, RawConn, closed, lastErr, stop, sock, chan>>
    BY <1>35 DEF Refetch, LoopGoto
  <2>2. \E to \in {"reading", "failed"} : loop' = [loop EXCEPT ![g] = to]
    BY <1>35 DEF Refetch, LoopGoto
  <2> QED
    BY <2>1, <2>2
<1> QED
  BY <1>1, <1>2, <1>3, <1>4, <1>5, <1>6, <1>7, <1>8, <1>9, <1>10, <1>11, <1>12,
     <1>13, <1>14, <1>15, <1>16, <1>17, <1>18, <1>19, <1>20, <1>21, <1>22,
     <1>23, <1>24, <1>25, <1>26, <1>27, <1>28, <1>29, <1>30, <1>31, <1>32,
     <1>33, <1>34, <1>35
  DEF Next, ConnectProceeds, CloseProceeds, LoopProceeds

\* Both hold of the state NewMTalkCon makes.
LEMMA TurnsInit == Init => Turns /\ Outcomes
<1> SUFFICES ASSUME Init PROVE Turns /\ Outcomes
  OBVIOUS
<1>1. \A c \in Callers : pc[c] = "idle"
  BY DEF Init
<1>2. \A g \in Gens : loop[g] = "none" /\ sock[g] = "none"
  BY DEF Init
<1>3. Turns
  BY <1>1, <1>2 DEF Init, Turns, OneCall, RunningIsCurrent, ConnectRunsAlone,
     ConnectProgress, CloseProgress, NoPanic, Running, Connecting, ConnectSteps
<1>4. Outcomes
  BY <1>1, <1>2
  DEF Init, Outcomes, NoSocketLeak, SocketCleared, ExitHasReason, ClosedHasReason
<1> QED
  BY <1>3, <1>4

DisciplinedInv == Disciplined => Turns /\ Outcomes

\* The invariant of the disciplined use is inductive relative to that of any use.
LEMMA DisciplinedStep == AnyUse /\ DisciplinedInv /\ [Next]_vars => DisciplinedInv'
<1> SUFFICES ASSUME AnyUse, DisciplinedInv, [Next]_vars, Disciplined
             PROVE  (Turns /\ Outcomes)'
  BY DEF DisciplinedInv, Disciplined
<1>1. Turns /\ Outcomes
  BY DEF DisciplinedInv
<1>2. CASE Next
  BY <1>1, <1>2, TurnsStep, OutcomesStep
<1>3. CASE UNCHANGED vars
  <2>1. Turns'
    BY <1>1, <1>3 DEF vars, Turns, OneCall, RunningIsCurrent, ConnectRunsAlone,
       ConnectProgress, CloseProgress, NoPanic, Running, Connecting
  <2>2. Outcomes'
    BY <1>1, <1>3 DEF vars, Outcomes, NoSocketLeak, SocketCleared, ExitHasReason,
       ClosedHasReason, Dialled
  <2> QED
    BY <2>1, <2>2
<1> QED
  BY <1>2, <1>3

\* An application that calls Connect and Close in turn and reconnects only after
\* Closed() keeps the library inside the invariant of that use.
THEOREM DisciplinedInvariant == Spec => []DisciplinedInv
<1>1. Init => DisciplinedInv
  BY TurnsInit DEF DisciplinedInv
<1> QED
  BY <1>1, DisciplinedStep, AnyUseInvariant, PTL DEF Spec

-----------------------------------------------------------------------------
(* The theorems about any use.                                             *)

\* Whatever the application does, every variable keeps its type and the
\* WaitGroup's counter is the number of loops that have not finished.
THEOREM AnyUseCounts == Spec => [](TypeOK /\ WaitGroupCountsLoops)
<1>1. AnyUse => TypeOK /\ WaitGroupCountsLoops
  BY DEF AnyUse
<1> QED
  BY <1>1, AnyUseInvariant, PTL

\* Whatever the application does, connected is never left set with nobody to
\* clear it: a loop or a Connect that will is there.
THEOREM AnyUseConnected == Spec => []ConnectedHasOwner
<1>1. AnyUse => ConnectedHasOwner
  BY DEF AnyUse, Bookkeeping
<1> QED
  BY <1>1, AnyUseInvariant, PTL

\* Whatever the application does, a Close that sleeps has a loop whose Done
\* wakes it.
THEOREM AnyUseWaiters == Spec => []WaiterIsWoken
<1>1. ASSUME AnyUse PROVE WaiterIsWoken
  <2>1. wg = 0 \/ \E g \in Gens : Counted(g)
    BY <1>1, FS_EmptySet DEF AnyUse, WaitGroupCountsLoops
  <2> QED
    BY <1>1, <2>1 DEF AnyUse, Bookkeeping, WaitersCount, WaiterIsWoken
<1>2. AnyUse => WaiterIsWoken
  BY <1>1
<1> QED
  BY <1>2, AnyUseInvariant, PTL

-----------------------------------------------------------------------------
(* The theorems about disciplined use: one call at a time, and the         *)
(* Closed() channel awaited before the next Connect.                       *)

\* What the invariant of the disciplined use says of its states.
LEMMA DisciplinedStates ==
  ASSUME Disciplined, DisciplinedInv
  PROVE  NoPanic /\ OneLoop /\ FieldsNotShared /\ NoSocketLeak /\ ClosedHasReason
<1>1. Turns /\ Outcomes
  BY DEF DisciplinedInv
<1>2. OneLoop
  BY <1>1 DEF Turns, RunningIsCurrent, OneLoop
<1>3. FieldsNotShared
  BY <1>1 DEF Turns, ConnectRunsAlone, Connecting, ConnectSteps, FieldsNotShared
<1> QED
  BY <1>1, <1>2, <1>3 DEF Turns, Outcomes

\* No schedule of calls, peers and loops makes the library panic.
THEOREM DisciplinedNoPanic ==
  ASSUME Disciplined
  PROVE  Spec => []NoPanic
BY DisciplinedStates, DisciplinedInvariant, PTL

\* A live connection never gets a second loop.
THEOREM DisciplinedOneLoop ==
  ASSUME Disciplined
  PROVE  Spec => []OneLoop
BY DisciplinedStates, DisciplinedInvariant, PTL

\* Connect never writes the plain fields while a loop reads them: the calls and
\* the loop synchronize on the channel and on connected alone.
THEOREM DisciplinedFields ==
  ASSUME Disciplined
  PROVE  Spec => []FieldsNotShared
BY DisciplinedStates, DisciplinedInvariant, PTL

\* No socket is left open without somebody who will close it.
THEOREM DisciplinedSockets ==
  ASSUME Disciplined
  PROVE  Spec => []NoSocketLeak
BY DisciplinedStates, DisciplinedInvariant, PTL

\* Err() explains every closed channel that Close did not ask for.
THEOREM DisciplinedReasons ==
  ASSUME Disciplined
  PROVE  Spec => []ClosedHasReason
BY DisciplinedStates, DisciplinedInvariant, PTL

\* Only WaitGroup.Wait lets a Close return.
LEMMA CloseReturnsFromWait ==
  ASSUME TypeOK, Next, NEW c \in Callers, pc[c] \in {"wait", "woken"}, pc'[c] = "idle"
  PROVE  Wait(c) \/ Woken(c)
<1>1. ASSUME NEW g \in Gens, PeerSends(g) \/ Refetch(g) \/ ReadersRace(g) \/ PeerDrops(g)
      PROVE  FALSE
  BY <1>1 DEF PeerSends, Refetch, ReadersRace, PeerDrops
<1>2. ASSUME NEW g \in Gens, LoopProceeds(g) PROVE FALSE
  BY <1>2 DEF LoopProceeds, StartRead, ReadEnds, Dispatch, CheckStop, Classify, Ended,
     ReportError, ExitFind, ExitShut, ExitDisconnect, ExitAnnounce, ExitDone
<1>3. ASSUME NEW d \in Callers,
             \/ ConnectChecks(d) \/ DialSucceeds(d) \/ HandshakeSucceeds(d)
             \/ HandshakeFails(d) \/ HandshakeRaces(d) \/ ConnectProceeds(d)
             \/ CloseChecks(d) \/ CloseProceeds(d)
      PROVE  d = c /\ (Wait(d) \/ Woken(d))
  <2>1. ASSUME NEW from, NEW to, Goto(d, from, to)
        PROVE  d = c /\ from \in {"wait", "woken"}
    BY <2>1 DEF Goto, TypeOK
  <2>2. CASE \/ ConnectChecks(d) \/ DialSucceeds(d) \/ HandshakeSucceeds(d)
             \/ HandshakeFails(d) \/ HandshakeRaces(d) \/ ConnectProceeds(d)
    <3>1. \E from \in {"idle"} \cup ConnectSteps, to \in {"idle"} \cup ConnectSteps :
            Goto(d, from, to)
      BY <2>2 DEF ConnectChecks, DialSucceeds, HandshakeSucceeds, HandshakeFails, HandshakeRaces,
         ConnectProceeds, DialFails, StoreConnection, ClearStop, ClearErr, MakeChannel,
         ClearConnection, SetConnected, LaunchLoop, ConnectSteps
    <3> QED
      BY <2>1, <3>1 DEF ConnectSteps
  <2>3. CASE CloseChecks(d) \/ CloseProceeds(d)
    <3>1. \/ \E from \in {"idle", "stop", "find", "shut"}, to \in CloseSteps :
               Goto(d, from, to)
          \/ Wait(d) \/ Woken(d)
      BY <2>3 DEF CloseChecks, CloseProceeds, SetStop, FindConnection, CloseConnection,
         CloseSteps
    <3>2. Wait(d) \/ Woken(d) => \E from, to : Goto(d, from, to)
      BY DEF Wait, Woken
    <3> QED
      BY <2>1, <3>1, <3>2
  <2> QED
    BY <1>3, <2>2, <2>3
<1> QED
  BY <1>1, <1>2, <1>3 DEF Next

\* A Close that found a connection returns only when every loop has finished.
THEOREM DisciplinedClose ==
  ASSUME Disciplined
  PROVE  Spec => CloseWaitsForLoops
<1>1. ASSUME AnyUse, DisciplinedInv, Next,
             NEW c \in Callers, pc[c] \in {"wait", "woken"}, pc'[c] = "idle"
      PROVE  ~connected' /\ \A g \in Gens : ~Counted(g)'
  <2>1. Wait(c) \/ Woken(c)
    BY <1>1, CloseReturnsFromWait DEF AnyUse
  <2>2. wg = 0 /\ loop' = loop /\ connected' = connected
    <3>1. CASE Wait(c)
      BY <1>1, <3>1 DEF Wait, Goto, AnyUse, TypeOK
    <3>2. CASE Woken(c)
      BY <1>1, <3>2 DEF Woken, Goto, DisciplinedInv, Turns, CloseProgress
    <3> QED
      BY <2>1, <3>1, <3>2
  <2>3. \A g \in Gens : ~Counted(g)
    BY <1>1, <2>2, CountedPositive DEF AnyUse
  <2>4. \A d \in Callers : pc[d] # "launch"
    BY <1>1 DEF DisciplinedInv, Turns, OneCall
  <2>5. ~connected
    BY <1>1, <2>3, <2>4 DEF AnyUse, Bookkeeping, ConnectedHasOwner, Counted
  <2> QED
    BY <2>2, <2>3, <2>5 DEF Counted
<1>2. AnyUse /\ DisciplinedInv /\ [Next]_vars =>
        [\A c \in Callers : pc[c] \in {"wait", "woken"} /\ pc'[c] = "idle" =>
           ~connected' /\ \A g \in Gens : ~Counted(g)']_vars
  BY <1>1
<1> QED
  BY <1>2, AnyUseInvariant, DisciplinedInvariant, PTL DEF Spec, CloseWaitsForLoops

-----------------------------------------------------------------------------
(* What the steps do to the loops.                                         *)

\* The steps of a loop that leave its life and its reasons as they are.
LoopStays(g) ==
  \/ StartRead(g) \/ PeerSends(g) \/ Refetch(g) \/ ReadEnds(g) \/ Dispatch(g)
  \/ CheckStop(g) \/ Classify(g) \/ Ended(g) \/ ExitFind(g) \/ ExitShut(g)
  \/ ExitDisconnect(g) \/ ExitDone(g)

LEMMA LoopStaysStep ==
  ASSUME TypeOK, NEW g \in Gens, LoopStays(g)
  PROVE  /\ \A h \in Gens : Running(h)' <=> Running(h)
         /\ \A h \in Gens : loop'[h] = "none" <=> loop[h] = "none"
         /\ stop' = stop /\ lastErr' = lastErr
         /\ \A c \in Callers : pc'[c] = pc[c] \/ pc'[c] = "woken"
<1> DEFINE Inner == LoopSteps \ {"done"}
<1>1. CASE ExitDone(g)
  <2>1. loop[g] = "done" /\ loop' = [loop EXCEPT ![g] = "over"]
    BY <1>1 DEF ExitDone, LoopGoto
  <2>2. UNCHANGED <<stop, lastErr>>
    BY <1>1 DEF ExitDone
  <2>3. \A c \in Callers : pc'[c] = pc[c] \/ pc'[c] = "woken"
    BY <1>1 DEF ExitDone
  <2> QED
    BY <2>1, <2>2, <2>3 DEF Running, TypeOK
<1>2. CASE ~ExitDone(g)
  <2>1. \E from, to \in Inner : LoopGoto(g, from, to)
    BY <1>2 DEF LoopStays, StartRead, PeerSends, Refetch, ReadEnds, Dispatch, CheckStop,
       Classify, Ended, ExitFind, ExitShut, ExitDisconnect, LoopSteps
  <2>2. UNCHANGED <<stop, lastErr, pc>>
    BY <1>2 DEF LoopStays, StartRead, PeerSends, Refetch, ReadEnds, Dispatch, CheckStop,
       Classify, Ended, ExitFind, ExitShut, ExitDisconnect
  <2> QED
    BY <2>1, <2>2 DEF LoopGoto, Running, TypeOK, LoopSteps
<1> QED
  BY <1>1, <1>2

\* The steps of a caller that leave every loop and every reason as they are.
CallerStays(c) ==
  \/ ConnectChecks(c) \/ DialSucceeds(c) \/ HandshakeSucceeds(c) \/ HandshakeFails(c)
  \/ HandshakeRaces(c) \/ DialFails(c) \/ StoreConnection(c) \/ MakeChannel(c)
  \/ ClearConnection(c) \/ SetConnected(c) \/ CloseChecks(c) \/ FindConnection(c)
  \/ CloseConnection(c) \/ Wait(c) \/ Woken(c)

\* Where such a step takes a caller to: to a step Cleared speaks of only from one
\* it speaks of already.
LEMMA CallerStaysStep ==
  ASSUME TypeOK, NEW c \in Callers, CallerStays(c)
  PROVE  /\ UNCHANGED <<loop, stop, lastErr>>
         /\ \A d \in Callers :
              /\ pc'[d] # "reset" \/ pc[d] = "reset"
              /\ pc'[d] \in {"renew", "handshake", "up", "launch"} =>
                   pc[d] \in {"renew", "handshake", "up", "launch"}
<1>1. UNCHANGED <<loop, stop, lastErr>>
  BY DEF CallerStays, ConnectChecks, DialSucceeds, HandshakeSucceeds, HandshakeFails,
     HandshakeRaces, DialFails, StoreConnection, MakeChannel, ClearConnection, SetConnected,
     CloseChecks, FindConnection, CloseConnection, Wait, Woken
<1> DEFINE From == {"renew", "handshake", "up"}
           To   == {"handshake", "up", "launch"}
           Else == {"idle", "dial", "fields", "unstop", "clear"} \cup CloseSteps
<1>2. \/ pc' = pc
      \/ \E from \in From, to \in To : Goto(c, from, to)
      \/ \E from, to : Goto(c, from, to) /\ to \in Else
  BY DEF CallerStays, ConnectChecks, DialSucceeds, HandshakeSucceeds, HandshakeFails,
     HandshakeRaces, DialFails, StoreConnection, MakeChannel, ClearConnection, SetConnected,
     CloseChecks, FindConnection, CloseConnection, Wait, Woken, CloseSteps
<1> QED
  BY <1>1, <1>2 DEF Goto, TypeOK, CloseSteps

\* Every step is one of those, or one the contract is about.
LEMMA NextKinds ==
  ASSUME Next
  PROVE  \/ \E g \in Gens : LoopStays(g) \/ ReadersRace(g) \/ PeerDrops(g)
         \/ \E c \in Callers : CallerStays(c)
         \/ \E c \in Callers : ClearStop(c) \/ ClearErr(c) \/ LaunchLoop(c) \/ SetStop(c)
         \/ \E g \in Gens : ReportError(g) \/ ExitAnnounce(g)
BY DEF Next, ConnectProceeds, CloseProceeds, LoopProceeds, LoopStays, CallerStays

-----------------------------------------------------------------------------
(* Every loop closes the channel of its own connection.                    *)

Announced == \A g \in Gens : loop[g] \in {"done", "over"} => chan[g] = "closed"

\* A loop that announces its end finds its own channel in c.closed, and only a
\* connection without a loop gets a new one.
LEMMA AnnouncedStep ==
  ASSUME TypeOK, Owners, Turns, Announced, Next
  PROVE  Announced'
<1>1. ASSUME NEW g \in Gens, LoopStays(g) PROVE Announced'
  <2>1. \A h \in Gens : loop'[h] \in {"done", "over"} => loop[h] \in {"done", "over"}
    BY <1>1, LoopStaysStep DEF Running
  <2>2. chan' = chan
    BY <1>1 DEF LoopStays, StartRead, PeerSends, Refetch, ReadEnds, Dispatch, CheckStop,
       Classify, Ended, ExitFind, ExitShut, ExitDisconnect, ExitDone
  <2> QED
    BY <2>1, <2>2 DEF Announced
<1>2. ASSUME NEW g \in Gens, ReadersRace(g) \/ PeerDrops(g) PROVE Announced'
  BY <1>2 DEF ReadersRace, PeerDrops, Announced
<1>3. ASSUME NEW c \in Callers, CallerStays(c) PROVE Announced'
  <2>1. loop' = loop
    BY <1>3, CallerStaysStep
  <2>2. CASE MakeChannel(c)
    <3>1. pc[c] = "renew" /\ chan' = [chan EXCEPT ![call[c]] = "open"]
      BY <2>2 DEF MakeChannel, Goto
    <3>2. loop[call[c]] = "none"
      BY <3>1 DEF Owners, Dialled, ConnectSteps
    <3> QED
      BY <2>1, <3>1, <3>2 DEF Announced, TypeOK
  <2>3. CASE ~MakeChannel(c)
    <3>1. chan' = chan
      BY <1>3, <2>3 DEF CallerStays, ConnectChecks, DialSucceeds, HandshakeSucceeds,
         HandshakeFails, HandshakeRaces, DialFails, StoreConnection, ClearConnection,
         SetConnected, CloseChecks, FindConnection, CloseConnection, Wait, Woken
    <3> QED
      BY <2>1, <3>1 DEF Announced
  <2> QED
    BY <2>2, <2>3
<1>4. ASSUME NEW c \in Callers, ClearStop(c) \/ ClearErr(c) \/ SetStop(c) PROVE Announced'
  BY <1>4 DEF ClearStop, ClearErr, SetStop, Announced
<1>5. ASSUME NEW c \in Callers, LaunchLoop(c) PROVE Announced'
  BY <1>5 DEF LaunchLoop, Announced, TypeOK
<1>6. ASSUME NEW g \in Gens, ReportError(g) PROVE Announced'
  BY <1>6 DEF ReportError, LoopGoto, Announced, TypeOK
<1>7. ASSUME NEW g \in Gens, ExitAnnounce(g) PROVE Announced'
  <2>1. loop[g] = "announce" /\ loop' = [loop EXCEPT ![g] = "done"]
    BY <1>7 DEF ExitAnnounce, LoopGoto
  <2>2. closed = g /\ chan[g] = "open"
    BY <2>1 DEF Turns, RunningIsCurrent, Running
  <2>3. chan' = [chan EXCEPT ![g] = "closed"]
    BY <1>7, <2>2 DEF ExitAnnounce
  <2>6. Gens \subseteq Gens0
    BY ConstantsAssumption DEF Gens, Gens0
  <2>4. chan'[g] = "closed" /\ \A h \in Gens \ {g} : chan'[h] = chan[h]
    BY <2>3, <2>6 DEF TypeOK
  <2>5. \A h \in Gens \ {g} : loop'[h] = loop[h]
    BY <2>1 DEF TypeOK
  <2> QED
    BY <2>4, <2>5 DEF Announced
<1> QED
  BY <1>1, <1>2, <1>3, <1>4, <1>5, <1>6, <1>7, NextKinds

\* Whoever waits on Closed() after a connect waits on the channel of that connection,
\* and its own loop closes it.
THEOREM DisciplinedChannels ==
  ASSUME Disciplined
  PROVE  Spec => []StoppedLoopClosedItsChannel
<1>1. Init => Announced
  BY DEF Init, Announced
<1>2. AnyUse /\ DisciplinedInv /\ Announced /\ [Next]_vars => Announced'
  <2>1. UNCHANGED vars /\ Announced => Announced'
    BY DEF vars, Announced
  <2> QED
    BY <2>1, AnnouncedStep DEF AnyUse, Bookkeeping, DisciplinedInv
<1>3. Announced => StoppedLoopClosedItsChannel
  BY DEF Announced, StoppedLoopClosedItsChannel
<1> QED
  BY <1>1, <1>2, <1>3, AnyUseInvariant, DisciplinedInvariant, PTL DEF Spec

-----------------------------------------------------------------------------
(***************************************************************************)
(* The contract.  What is missing for it is why a connection that comes up *)
(* has no reason to end yet: Connect clears stop and lastErr before the    *)
(* login and nobody sets them until its loop runs.                         *)
(***************************************************************************)
Cleared ==
  \A c \in Callers :
    /\ pc[c] \in {"reset", "renew", "handshake", "up", "launch"} => ~stop
    /\ pc[c] \in {"renew", "handshake", "up", "launch"} => lastErr = 0

Lives == [g \in Gens |-> IF loop[g] = "none" THEN "none"
                         ELSE IF Running(g) THEN "up" ELSE "ended"]

Excused == {g \in Gens : Running(g) /\ (stop \/ lastErr = g)}

ContractStep == [Contract!CNext]_<<Lives, Excused>>

LEMMA ClearedStep ==
  ASSUME TypeOK, Turns, Cleared, Next
  PROVE  Cleared'
<1>1. ASSUME NEW g \in Gens, LoopStays(g) PROVE Cleared'
  BY <1>1, LoopStaysStep DEF Cleared
<1>2. ASSUME NEW g \in Gens, ReadersRace(g) \/ PeerDrops(g) PROVE Cleared'
  BY <1>2 DEF ReadersRace, PeerDrops, Cleared
<1>3. ASSUME NEW c \in Callers, CallerStays(c) PROVE Cleared'
  BY <1>3, CallerStaysStep DEF Cleared
<1>4. ASSUME NEW c \in Callers, ClearStop(c) PROVE Cleared'
  BY <1>4 DEF ClearStop, Goto, Cleared, TypeOK
<1>5. ASSUME NEW c \in Callers, ClearErr(c) PROVE Cleared'
  BY <1>5 DEF ClearErr, Goto, Cleared, TypeOK
<1>6. ASSUME NEW c \in Callers, LaunchLoop(c) PROVE Cleared'
  BY <1>6 DEF LaunchLoop, Goto, Cleared, TypeOK
<1>7. ASSUME NEW c \in Callers, SetStop(c) PROVE Cleared'
  <2>1. pc[c] = "stop" /\ pc' = [pc EXCEPT ![c] = "find"]
    BY <1>7 DEF SetStop, Goto
  <2>2. \A d \in Callers : pc'[d] \in {"idle", "find"}
    BY <2>1 DEF Turns, OneCall, TypeOK
  <2> QED
    BY <2>2 DEF Cleared
<1>8. ASSUME NEW g \in Gens, ReportError(g) PROVE Cleared'
  <2>1. Running(g) /\ pc' = pc
    BY <1>8 DEF ReportError, LoopGoto, Running
  <2>2. \A d \in Callers : ~Connecting(d)
    BY <2>1 DEF Turns, ConnectRunsAlone
  <2> QED
    BY <2>1, <2>2 DEF Cleared, Connecting, ConnectSteps
<1>9. ASSUME NEW g \in Gens, ExitAnnounce(g) PROVE Cleared'
  BY <1>9 DEF ExitAnnounce, Cleared
<1> QED
  BY <1>1, <1>2, <1>3, <1>4, <1>5, <1>6, <1>7, <1>8, <1>9, NextKinds

\* A step of the connection is a step of the contract or none.
LEMMA ContractNext ==
  ASSUME TypeOK, Owners, Turns, ExitHasReason, Cleared, Next
  PROVE  ContractStep
<1>1. ASSUME \A h \in Gens : Running(h)' <=> Running(h),
             \A h \in Gens : loop'[h] = "none" <=> loop[h] = "none",
             stop' = stop, lastErr' = lastErr
      PROVE  ContractStep
  BY <1>1 DEF ContractStep, Lives, Excused
<1>2. ASSUME NEW g \in Gens, LoopStays(g) PROVE ContractStep
  BY <1>1, <1>2, LoopStaysStep
<1>3. ASSUME NEW g \in Gens, ReadersRace(g) \/ PeerDrops(g) PROVE ContractStep
  <2>1. UNCHANGED <<loop, stop, lastErr>>
    BY <1>3 DEF ReadersRace, PeerDrops
  <2> QED
    BY <1>1, <2>1 DEF Running
<1>4. ASSUME NEW c \in Callers, CallerStays(c) PROVE ContractStep
  BY <1>1, <1>4, CallerStaysStep DEF Running
<1>5. ASSUME NEW c \in Callers, ClearStop(c) \/ ClearErr(c) PROVE ContractStep
  <2>1. pc[c] \in {"unstop", "reset"} /\ loop' = loop
    BY <1>5 DEF ClearStop, ClearErr, Goto
  <2>2. \A g \in Gens : ~Running(g) /\ ~Running(g)'
    BY <2>1 DEF Turns, ConnectRunsAlone, Connecting, ConnectSteps, Running
  <2> QED
    BY <2>1, <2>2 DEF ContractStep, Lives, Excused
<1>6. ASSUME NEW c \in Callers, LaunchLoop(c) PROVE ContractStep
  <2>1. /\ pc[c] = "launch" /\ loop' = [loop EXCEPT ![call[c]] = "read"]
        /\ UNCHANGED <<stop, lastErr>>
    BY <1>6 DEF LaunchLoop, Goto
  <2>2. ~stop /\ lastErr = 0
    BY <2>1 DEF Cleared
  <2>3. call[c] \in Gens /\ loop[call[c]] = "none"
    BY <2>1 DEF Owners, Dialled, ConnectSteps
  <2>4. \A g \in Gens : ~Running(g)
    BY <2>1 DEF Turns, ConnectRunsAlone, Connecting, ConnectSteps
  <2>5. Excused = {} /\ Excused' = {}
    BY <2>1, <2>2, ConstantsAssumption DEF Excused, Gens
  <2>6. PICK g \in Gens : g = call[c]
    BY <2>3
  <2>7. Lives' = [Lives EXCEPT ![g] = "up"]
    BY <2>1, <2>3, <2>6 DEF Lives, Running, TypeOK
  <2>8. Lives[g] = "none" /\ \A h \in Gens : Lives[h] # "up"
    BY <2>3, <2>4, <2>6 DEF Lives
  <2>9. Contract!Begin(g)
    BY <2>5, <2>7, <2>8 DEF Contract!Begin, Lives, Excused
  <2> QED
    BY <2>9 DEF ContractStep, Contract!CNext
<1>7. ASSUME NEW g \in Gens, Running(g), Running(g)', loop'[g] # "none",
             \A h \in Gens \ {g} : loop'[h] = loop[h],
             Excused' = {g}
      PROVE  ContractStep
  <2>1. \A h \in Gens : Running(h) => h = g
    BY <1>7 DEF Turns, RunningIsCurrent
  <2>2. Excused' = Excused \cup {g}
    BY <1>7, <2>1 DEF Excused
  <2>3. Lives' = Lives /\ Lives[g] = "up"
    BY <1>7 DEF Lives, Running
  <2>4. Contract!Excuse(g)
    BY <2>2, <2>3 DEF Contract!Excuse, Lives, Excused
  <2> QED
    BY <2>4 DEF ContractStep, Contract!CNext
<1>8. ASSUME NEW c \in Callers, SetStop(c) PROVE ContractStep
  <2>1. loop' = loop /\ stop' = TRUE
    BY <1>8 DEF SetStop, Goto
  <2>2. \A g \in Gens : Running(g)' <=> Running(g)
    BY <2>1 DEF Running
  <2>3. CASE \A g \in Gens : ~Running(g)
    BY <2>1, <2>2, <2>3 DEF ContractStep, Lives, Excused
  <2>4. ASSUME NEW g \in Gens, Running(g) PROVE ContractStep
    <3>1. \A h \in Gens : Running(h) => h = g
      BY <2>4 DEF Turns, RunningIsCurrent
    <3>2. Excused' = {g}
      BY <2>1, <2>2, <2>4, <3>1 DEF Excused
    <3>3. loop'[g] # "none"
      BY <2>1, <2>4 DEF Running
    <3> QED
      BY <1>7, <2>1, <2>2, <2>4, <3>2, <3>3
  <2> QED
    BY <2>3, <2>4
<1>9. ASSUME NEW g \in Gens, ReportError(g) PROVE ContractStep
  <2>1. loop[g] = "report" /\ loop' = [loop EXCEPT ![g] = "exit"] /\ lastErr' = g
    BY <1>9 DEF ReportError, LoopGoto
  <2>2. Running(g) /\ Running(g)' /\ loop'[g] # "none"
    BY <2>1 DEF Running, TypeOK
  <2>3. \A h \in Gens \ {g} : loop'[h] = loop[h]
    BY <2>1 DEF TypeOK
  <2>4. \A h \in Gens : Running(h)' => h = g
    BY <2>2, <2>3 DEF Turns, RunningIsCurrent, Running
  <2>5. Excused' = {g}
    BY <2>1, <2>2, <2>4 DEF Excused
  <2> QED
    BY <1>7, <2>2, <2>3, <2>5
<1>10. ASSUME NEW g \in Gens, ExitAnnounce(g) PROVE ContractStep
  <2>1. /\ loop[g] = "announce" /\ loop' = [loop EXCEPT ![g] = "done"]
        /\ UNCHANGED <<stop, lastErr>>
    BY <1>10 DEF ExitAnnounce, LoopGoto
  <2>2. \A h \in Gens : (Running(h) <=> h = g) /\ ~Running(h)'
    BY <2>1 DEF Turns, RunningIsCurrent, Running, TypeOK
  <2>3. Excused = {g} /\ Excused' = {}
    BY <2>1, <2>2 DEF Excused, ExitHasReason
  <2>4. Lives' = [Lives EXCEPT ![g] = "ended"]
    BY <2>1, <2>2 DEF Lives, Running, TypeOK
  <2>5. Contract!End(g)
    BY <2>3, <2>4 DEF Contract!End, Lives, Excused
  <2> QED
    BY <2>5 DEF ContractStep, Contract!CNext
<1> QED
  BY <1>2, <1>3, <1>4, <1>5, <1>6, <1>8, <1>9, <1>10, NextKinds

\* Under disciplined use the library implements the contract: one connection at a
\* time, each of which ends once, and only after Close asked for its end or Err()
\* shows its error.
THEOREM DisciplinedContract ==
  ASSUME Disciplined
  PROVE  Spec => ImplementsContract
<1>1. Init => Cleared
  BY DEF Init, Cleared
<1>2. AnyUse /\ DisciplinedInv /\ Cleared /\ [Next]_vars => Cleared'
  <2>1. UNCHANGED vars /\ Cleared => Cleared'
    BY DEF vars, Cleared
  <2> QED
    BY <2>1, ClearedStep DEF AnyUse, DisciplinedInv
<1>3. Init => Contract!CInit
  <2> SUFFICES ASSUME Init PROVE Contract!CInit
    OBVIOUS
  <2>1. \A g \in Gens : loop[g] = "none" /\ ~Running(g)
    BY DEF Init, Running
  <2> QED
    BY <2>1 DEF Contract!CInit
<1>4. AnyUse /\ DisciplinedInv /\ Cleared /\ [Next]_vars => ContractStep
  <2>1. UNCHANGED vars => ContractStep
    BY DEF vars, ContractStep, Lives, Excused, Running
  <2> QED
    BY <2>1, ContractNext DEF AnyUse, Bookkeeping, DisciplinedInv, Outcomes
<1>5. ContractStep => [Contract!CNext]_<<[g \in Gens |-> IF loop[g] = "none" THEN "none"
                          ELSE IF Running(g) THEN "up" ELSE "ended"],
                        {g \in Gens : Running(g) /\ (stop \/ lastErr = g)}>>
  BY DEF ContractStep, Lives, Excused
<1> QED
  BY <1>1, <1>2, <1>3, <1>4, <1>5, AnyUseInvariant, DisciplinedInvariant, PTL
  DEF Spec, ImplementsContract, Contract!CSafe, Contract!cvars
==============================================================================
