------------------------- MODULE KimRpcChannelProofs -------------------------
(***************************************************************************)
(* ChannelInv is inductive: PendingOwned, OneReceiver and                  *)
(* DestructorSettles hold, and the channel implements the safety part of   *)
(* RpcCalls, for any number of calls, hosts, connections and frame parts,  *)
(* with or without timeouts and with closures that call the channel again. *)
(* ConnectionGivenUp holds with any number of hosts.                       *)
(***************************************************************************)
EXTENDS KimRpcChannelProps, FiniteSetTheorems, TLAPS

(* A closure that returns, or makes a call first, changes at most one call, *)
(* from new to resolve, and only before the destructor runs.                *)
LEMMA ClosureEffect ==
    ASSUME CallerTypeOK, NEW t \in TimerThread .. MaxConns, ClosureReturns(t)
    PROVE  /\ CallerTypeOK' /\ UNCHANGED <<host, parts>>
           /\ \A d \in Calls :
                pc'[d] = pc[d] \/ (pc[d] = "new" /\ pc'[d] = "resolve" /\ dtor = "alive")
  BY DEF CallerTypeOK, CallerAt, ClosureReturns, callerVars

(* The threads that run closures are threads a call can be made in. *)
LEMMA ClosureThreads ==
    /\ TimerThread \in TimerThread .. MaxConns
    /\ \A k \in Conns : k \in TimerThread .. MaxConns
  BY ChannelAssumption DEF Conns, TimerThread

(* done->Run() counts one more run of c's closure and no other. *)
LEMMA RunDoneEffect ==
    ASSUME SlotTypeOK, NEW c \in Calls, NEW r \in {"ok", "fail"}, RunDone(c, r)
    PROVE  /\ nDone' \in [Calls -> Nat] /\ result' \in [Calls -> {"none", "ok", "fail"}]
           /\ nDone'[c] = nDone[c] + 1 /\ \A d \in Calls \ {c} : nDone'[d] = nDone[d]
  BY DEF SlotTypeOK, RunDone

-----------------------------------------------------------------------------
(* The type invariant, part by part. *)

(* The callers' variables keep their types. *)
LEMMA CallerTypeStep == ASSUME ChannelInv, [Next]_vars PROVE CallerTypeOK'
<1> USE ChannelAssumption DEF ChannelInv, TypeOK, callerVars, connVars, doneVars,
            recvVars, timerVars, dtorVars, netVars
<1>1. ASSUME NEW c \in Calls, CallStarts(c) PROVE CallerTypeOK'
  BY <1>1 DEF CallStarts, CallerTypeOK, Goes, CallerAt
<1>2. ASSUME NEW c \in Calls, EnsureReuse(c) PROVE CallerTypeOK'
  BY <1>2 DEF EnsureReuse, CallerTypeOK, Goes, CallerAt
<1>3. ASSUME NEW c \in Calls, EnsureClose(c) PROVE CallerTypeOK'
  BY <1>3 DEF EnsureClose, CallerTypeOK, Goes, CallerAt
<1>4. ASSUME NEW c \in Calls, EnsureJoin(c) PROVE CallerTypeOK'
  BY <1>4 DEF EnsureJoin, CallerTypeOK, Goes, CallerAt
<1>5. ASSUME NEW c \in Calls, EnsureFails(c) PROVE CallerTypeOK'
  BY <1>5 DEF EnsureFails, CallerTypeOK, Goes, CallerAt
<1>6. ASSUME NEW c \in Calls, EnsureConnects(c) PROVE CallerTypeOK'
  BY <1>6 DEF EnsureConnects, CallerTypeOK, Goes, CallerAt
<1>7. ASSUME NEW c \in Calls, Register(c) PROVE CallerTypeOK'
  BY <1>7 DEF Register, CallerTypeOK, Goes, CallerAt
<1>8. ASSUME NEW c \in Calls, SendLock(c) PROVE CallerTypeOK'
  BY <1>8 DEF SendLock, CallerTypeOK, Goes, CallerAt
<1>9. ASSUME NEW c \in Calls, SendPart(c) PROVE CallerTypeOK'
  <2>1. parts[c] + 1 \in 0 .. FrameParts
    BY <1>9 DEF SendPart, CallerInv, CallerTypeOK
  <2> QED BY <1>9, <2>1 DEF SendPart, CallerTypeOK, Goes, CallerAt
<1>10. ASSUME NEW c \in Calls, SendFails(c) PROVE CallerTypeOK'
  BY <1>10 DEF SendFails, CallerTypeOK, Goes, CallerAt
<1>11. ASSUME NEW c \in Calls, Undo(c) PROVE CallerTypeOK'
  BY <1>11 DEF Undo, CallerTypeOK, Goes, CallerAt
<1>12. ASSUME NEW c \in Calls, Deadline(c) PROVE CallerTypeOK'
  BY <1>12 DEF Deadline, CallerTypeOK
<1>13. ASSUME NEW k \in Conns, RecvResponse(k) PROVE CallerTypeOK'
  BY <1>13 DEF RecvResponse, CallerTypeOK
<1>14. ASSUME NEW k \in Conns, RecvRunsDone(k) PROVE CallerTypeOK'
  BY <1>14, ClosureEffect, ClosureThreads DEF RecvRunsDone, CallerTypeOK
<1>15. ASSUME NEW k \in Conns, RecvBreaks(k) PROVE CallerTypeOK'
  BY <1>15 DEF RecvBreaks, CallerTypeOK
<1>16. ASSUME NEW k \in Conns, RecvTakesAll(k) PROVE CallerTypeOK'
  BY <1>16 DEF RecvTakesAll, CallerTypeOK
<1>17. ASSUME NEW k \in Conns, RecvFailsOne(k) PROVE CallerTypeOK'
  BY <1>17, ClosureEffect, ClosureThreads DEF RecvFailsOne, CallerTypeOK
<1>18. ASSUME NEW k \in Conns, RecvEnds(k) PROVE CallerTypeOK'
  BY <1>18 DEF RecvEnds, CallerTypeOK
<1>19. CASE TimerTakes
  BY <1>19 DEF TimerTakes, CallerTypeOK
<1>20. CASE TimerFailsOne
  BY <1>20, ClosureEffect, ClosureThreads DEF TimerFailsOne, CallerTypeOK
<1>21. CASE TimerTurns
  BY <1>21 DEF TimerTurns, CallerTypeOK
<1>22. CASE DtorStopsTimer
  BY <1>22 DEF DtorStopsTimer, CallerTypeOK
<1>23. CASE DtorCloses
  BY <1>23 DEF DtorCloses, CallerTypeOK
<1>24. CASE DtorTakesAll
  BY <1>24 DEF DtorTakesAll, CallerTypeOK
<1>25. CASE DtorFailsOne
  BY <1>25 DEF DtorFailsOne, CallerTypeOK
<1>26. CASE DtorEnds
  BY <1>26 DEF DtorEnds, CallerTypeOK
<1>27. ASSUME NEW k \in Conns, PeerGoes(k) PROVE CallerTypeOK'
  BY <1>27 DEF PeerGoes, CallerTypeOK
<1>28. ASSUME NEW k \in Conns, NEW c \in Calls, ServerAnswers(k, c) PROVE CallerTypeOK'
  BY <1>28 DEF ServerAnswers, CallerTypeOK
<1>29. CASE UNCHANGED vars
  BY <1>29 DEF vars, CallerTypeOK
<1>30. ASSUME NEW c \in Calls, Resolves(c) PROVE CallerTypeOK'
  BY <1>30 DEF Resolves, CallerTypeOK, Goes, CallerAt
<1> QED
  BY <1>1, <1>2, <1>3, <1>4, <1>5, <1>6, <1>7, <1>8, <1>9, <1>10, <1>11,
     <1>12, <1>13, <1>14, <1>15, <1>16, <1>17, <1>18, <1>19, <1>20, <1>21,
     <1>22, <1>23, <1>24, <1>25, <1>26, <1>27, <1>28, <1>29, <1>30
     DEF Next, Caller,
     RecvLoop, Timer, Dtor, Network, Stopped

(* The locks and the connection's members keep their types. *)
LEMMA ConnTypeStep == ASSUME ChannelInv, [Next]_vars PROVE ConnTypeOK'
<1> USE ChannelAssumption DEF ChannelInv, TypeOK, callerVars, connVars, doneVars,
            recvVars, timerVars, dtorVars, netVars
<1>1. ASSUME NEW c \in Calls, CallStarts(c) PROVE ConnTypeOK'
  BY <1>1 DEF CallStarts, ConnTypeOK
<1>2. ASSUME NEW c \in Calls, EnsureReuse(c) PROVE ConnTypeOK'
  BY <1>2 DEF EnsureReuse, ConnTypeOK
<1>3. ASSUME NEW c \in Calls, EnsureClose(c) PROVE ConnTypeOK'
  BY <1>3 DEF EnsureClose, ConnTypeOK, Disconnect
<1>4. ASSUME NEW c \in Calls, EnsureJoin(c) PROVE ConnTypeOK'
  BY <1>4 DEF EnsureJoin, ConnTypeOK
<1>5. ASSUME NEW c \in Calls, EnsureFails(c) PROVE ConnTypeOK'
  BY <1>5 DEF EnsureFails, ConnTypeOK
<1>6. ASSUME NEW c \in Calls, EnsureConnects(c) PROVE ConnTypeOK'
  BY <1>6 DEF EnsureConnects, ConnTypeOK, CallerTypeOK, NetTypeOK
<1>7. ASSUME NEW c \in Calls, Register(c) PROVE ConnTypeOK'
  BY <1>7 DEF Register, ConnTypeOK
<1>8. ASSUME NEW c \in Calls, SendLock(c) PROVE ConnTypeOK'
  BY <1>8 DEF SendLock, ConnTypeOK
<1>9. ASSUME NEW c \in Calls, SendPart(c) PROVE ConnTypeOK'
  BY <1>9 DEF SendPart, ConnTypeOK
<1>10. ASSUME NEW c \in Calls, SendFails(c) PROVE ConnTypeOK'
  BY <1>10 DEF SendFails, ConnTypeOK
<1>11. ASSUME NEW c \in Calls, Undo(c) PROVE ConnTypeOK'
  BY <1>11 DEF Undo, ConnTypeOK
<1>12. ASSUME NEW c \in Calls, Deadline(c) PROVE ConnTypeOK'
  BY <1>12 DEF Deadline, ConnTypeOK
<1>13. ASSUME NEW k \in Conns, RecvResponse(k) PROVE ConnTypeOK'
  BY <1>13 DEF RecvResponse, ConnTypeOK
<1>14. ASSUME NEW k \in Conns, RecvRunsDone(k) PROVE ConnTypeOK'
  BY <1>14 DEF RecvRunsDone, ConnTypeOK
<1>15. ASSUME NEW k \in Conns, RecvBreaks(k) PROVE ConnTypeOK'
  BY <1>15 DEF RecvBreaks, ConnTypeOK
<1>16. ASSUME NEW k \in Conns, RecvTakesAll(k) PROVE ConnTypeOK'
  BY <1>16 DEF RecvTakesAll, ConnTypeOK
<1>17. ASSUME NEW k \in Conns, RecvFailsOne(k) PROVE ConnTypeOK'
  BY <1>17 DEF RecvFailsOne, ConnTypeOK
<1>18. ASSUME NEW k \in Conns, RecvEnds(k) PROVE ConnTypeOK'
  BY <1>18 DEF RecvEnds, ConnTypeOK
<1>19. CASE TimerTakes
  BY <1>19 DEF TimerTakes, ConnTypeOK
<1>20. CASE TimerFailsOne
  BY <1>20 DEF TimerFailsOne, ConnTypeOK
<1>21. CASE TimerTurns
  BY <1>21 DEF TimerTurns, ConnTypeOK
<1>22. CASE DtorStopsTimer
  BY <1>22 DEF DtorStopsTimer, ConnTypeOK
<1>23. CASE DtorCloses
  <2>1. 0 \in 0 .. MaxConns
    OBVIOUS
  <2> QED BY <1>23, <2>1 DEF DtorCloses, ConnTypeOK, Disconnect
<1>24. CASE DtorTakesAll
  BY <1>24 DEF DtorTakesAll, ConnTypeOK
<1>25. CASE DtorFailsOne
  BY <1>25 DEF DtorFailsOne, ConnTypeOK
<1>26. CASE DtorEnds
  BY <1>26 DEF DtorEnds, ConnTypeOK
<1>27. ASSUME NEW k \in Conns, PeerGoes(k) PROVE ConnTypeOK'
  BY <1>27 DEF PeerGoes, ConnTypeOK
<1>28. ASSUME NEW k \in Conns, NEW c \in Calls, ServerAnswers(k, c) PROVE ConnTypeOK'
  BY <1>28 DEF ServerAnswers, ConnTypeOK
<1>29. CASE UNCHANGED vars
  BY <1>29 DEF vars, ConnTypeOK
<1>30. ASSUME NEW c \in Calls, Resolves(c) PROVE ConnTypeOK'
  BY <1>30 DEF Resolves, ConnTypeOK
<1> QED
  BY <1>1, <1>2, <1>3, <1>4, <1>5, <1>6, <1>7, <1>8, <1>9, <1>10, <1>11,
     <1>12, <1>13, <1>14, <1>15, <1>16, <1>17, <1>18, <1>19, <1>20, <1>21,
     <1>22, <1>23, <1>24, <1>25, <1>26, <1>27, <1>28, <1>29, <1>30
     DEF Next, Caller,
     RecvLoop, Timer, Dtor, Network, Stopped

(* The slots and the counts of done keep their types. *)
LEMMA SlotTypeStep == ASSUME ChannelInv, [Next]_vars PROVE SlotTypeOK'
<1> USE ChannelAssumption DEF ChannelInv, TypeOK, callerVars, connVars, doneVars,
            recvVars, timerVars, dtorVars, netVars
<1>1. ASSUME NEW c \in Calls, CallStarts(c) PROVE SlotTypeOK'
  BY <1>1, RunDoneEffect DEF CallStarts, SlotTypeOK
<1>2. ASSUME NEW c \in Calls, EnsureReuse(c) PROVE SlotTypeOK'
  BY <1>2 DEF EnsureReuse, SlotTypeOK
<1>3. ASSUME NEW c \in Calls, EnsureClose(c) PROVE SlotTypeOK'
  BY <1>3 DEF EnsureClose, SlotTypeOK
<1>4. ASSUME NEW c \in Calls, EnsureJoin(c) PROVE SlotTypeOK'
  BY <1>4 DEF EnsureJoin, SlotTypeOK
<1>5. ASSUME NEW c \in Calls, EnsureFails(c) PROVE SlotTypeOK'
  BY <1>5, RunDoneEffect DEF EnsureFails, SlotTypeOK
<1>6. ASSUME NEW c \in Calls, EnsureConnects(c) PROVE SlotTypeOK'
  BY <1>6 DEF EnsureConnects, SlotTypeOK
<1>7. ASSUME NEW c \in Calls, Register(c) PROVE SlotTypeOK'
  BY <1>7 DEF Register, SlotTypeOK
<1>8. ASSUME NEW c \in Calls, SendLock(c) PROVE SlotTypeOK'
  BY <1>8 DEF SendLock, SlotTypeOK
<1>9. ASSUME NEW c \in Calls, SendPart(c) PROVE SlotTypeOK'
  BY <1>9 DEF SendPart, SlotTypeOK
<1>10. ASSUME NEW c \in Calls, SendFails(c) PROVE SlotTypeOK'
  BY <1>10 DEF SendFails, SlotTypeOK
<1>11. ASSUME NEW c \in Calls, Undo(c) PROVE SlotTypeOK'
  BY <1>11, RunDoneEffect DEF Undo, SlotTypeOK
<1>12. ASSUME NEW c \in Calls, Deadline(c) PROVE SlotTypeOK'
  BY <1>12 DEF Deadline, SlotTypeOK
<1>13. ASSUME NEW k \in Conns, RecvResponse(k) PROVE SlotTypeOK'
  BY <1>13 DEF RecvResponse, SlotTypeOK
<1>14. ASSUME NEW k \in Conns, RecvRunsDone(k) PROVE SlotTypeOK'
  BY <1>14, RunDoneEffect DEF RecvRunsDone, SlotTypeOK
<1>15. ASSUME NEW k \in Conns, RecvBreaks(k) PROVE SlotTypeOK'
  BY <1>15 DEF RecvBreaks, SlotTypeOK
<1>16. ASSUME NEW k \in Conns, RecvTakesAll(k) PROVE SlotTypeOK'
  BY <1>16 DEF RecvTakesAll, SlotTypeOK
<1>17. ASSUME NEW k \in Conns, RecvFailsOne(k) PROVE SlotTypeOK'
  BY <1>17, RunDoneEffect DEF RecvFailsOne, SlotTypeOK
<1>18. ASSUME NEW k \in Conns, RecvEnds(k) PROVE SlotTypeOK'
  BY <1>18 DEF RecvEnds, SlotTypeOK
<1>19. CASE TimerTakes
  BY <1>19 DEF TimerTakes, SlotTypeOK
<1>20. CASE TimerFailsOne
  BY <1>20, RunDoneEffect DEF TimerFailsOne, SlotTypeOK
<1>21. CASE TimerTurns
  BY <1>21 DEF TimerTurns, SlotTypeOK
<1>22. CASE DtorStopsTimer
  BY <1>22 DEF DtorStopsTimer, SlotTypeOK
<1>23. CASE DtorCloses
  BY <1>23 DEF DtorCloses, SlotTypeOK
<1>24. CASE DtorTakesAll
  BY <1>24 DEF DtorTakesAll, SlotTypeOK
<1>25. CASE DtorFailsOne
  BY <1>25, RunDoneEffect DEF DtorFailsOne, SlotTypeOK
<1>26. CASE DtorEnds
  BY <1>26 DEF DtorEnds, SlotTypeOK
<1>27. ASSUME NEW k \in Conns, PeerGoes(k) PROVE SlotTypeOK'
  BY <1>27 DEF PeerGoes, SlotTypeOK
<1>28. ASSUME NEW k \in Conns, NEW c \in Calls, ServerAnswers(k, c) PROVE SlotTypeOK'
  BY <1>28 DEF ServerAnswers, SlotTypeOK
<1>29. CASE UNCHANGED vars
  BY <1>29 DEF vars, SlotTypeOK
<1>30. ASSUME NEW c \in Calls, Resolves(c) PROVE SlotTypeOK'
  BY <1>30, RunDoneEffect DEF Resolves, SlotTypeOK
<1> QED
  BY <1>1, <1>2, <1>3, <1>4, <1>5, <1>6, <1>7, <1>8, <1>9, <1>10, <1>11,
     <1>12, <1>13, <1>14, <1>15, <1>16, <1>17, <1>18, <1>19, <1>20, <1>21,
     <1>22, <1>23, <1>24, <1>25, <1>26, <1>27, <1>28, <1>29, <1>30
     DEF Next, Caller,
     RecvLoop, Timer, Dtor, Network, Stopped

(* The threads' variables keep their types. *)
LEMMA ThreadTypeStep == ASSUME ChannelInv, [Next]_vars PROVE ThreadTypeOK'
<1> USE ChannelAssumption DEF ChannelInv, TypeOK, callerVars, connVars, doneVars,
            recvVars, timerVars, dtorVars, netVars
<1>1. ASSUME NEW c \in Calls, CallStarts(c) PROVE ThreadTypeOK'
  BY <1>1 DEF CallStarts, ThreadTypeOK
<1>2. ASSUME NEW c \in Calls, EnsureReuse(c) PROVE ThreadTypeOK'
  BY <1>2 DEF EnsureReuse, ThreadTypeOK
<1>3. ASSUME NEW c \in Calls, EnsureClose(c) PROVE ThreadTypeOK'
  BY <1>3 DEF EnsureClose, ThreadTypeOK
<1>4. ASSUME NEW c \in Calls, EnsureJoin(c) PROVE ThreadTypeOK'
  BY <1>4 DEF EnsureJoin, ThreadTypeOK
<1>5. ASSUME NEW c \in Calls, EnsureFails(c) PROVE ThreadTypeOK'
  BY <1>5 DEF EnsureFails, ThreadTypeOK
<1>6. ASSUME NEW c \in Calls, EnsureConnects(c) PROVE ThreadTypeOK'
  BY <1>6 DEF EnsureConnects, ThreadTypeOK, ReceiverAt, NetTypeOK
<1>7. ASSUME NEW c \in Calls, Register(c) PROVE ThreadTypeOK'
  BY <1>7 DEF Register, ThreadTypeOK
<1>8. ASSUME NEW c \in Calls, SendLock(c) PROVE ThreadTypeOK'
  BY <1>8 DEF SendLock, ThreadTypeOK
<1>9. ASSUME NEW c \in Calls, SendPart(c) PROVE ThreadTypeOK'
  BY <1>9 DEF SendPart, ThreadTypeOK
<1>10. ASSUME NEW c \in Calls, SendFails(c) PROVE ThreadTypeOK'
  BY <1>10 DEF SendFails, ThreadTypeOK
<1>11. ASSUME NEW c \in Calls, Undo(c) PROVE ThreadTypeOK'
  BY <1>11 DEF Undo, ThreadTypeOK
<1>12. ASSUME NEW c \in Calls, Deadline(c) PROVE ThreadTypeOK'
  BY <1>12 DEF Deadline, ThreadTypeOK
<1>13. ASSUME NEW k \in Conns, RecvResponse(k) PROVE ThreadTypeOK'
  BY <1>13 DEF RecvResponse, ThreadTypeOK, ReceiverAt
<1>14. ASSUME NEW k \in Conns, RecvRunsDone(k) PROVE ThreadTypeOK'
  BY <1>14 DEF RecvRunsDone, ThreadTypeOK, ReceiverAt
<1>15. ASSUME NEW k \in Conns, RecvBreaks(k) PROVE ThreadTypeOK'
  BY <1>15 DEF RecvBreaks, ThreadTypeOK, ReceiverAt
<1>16. ASSUME NEW k \in Conns, RecvTakesAll(k) PROVE ThreadTypeOK'
  BY <1>16 DEF RecvTakesAll, ThreadTypeOK, ReceiverAt
<1>17. ASSUME NEW k \in Conns, RecvFailsOne(k) PROVE ThreadTypeOK'
  BY <1>17 DEF RecvFailsOne, ThreadTypeOK
<1>18. ASSUME NEW k \in Conns, RecvEnds(k) PROVE ThreadTypeOK'
  BY <1>18 DEF RecvEnds, ThreadTypeOK, ReceiverAt
<1>19. CASE TimerTakes
  BY <1>19 DEF TimerTakes, ThreadTypeOK
<1>20. CASE TimerFailsOne
  BY <1>20 DEF TimerFailsOne, ThreadTypeOK
<1>21. CASE TimerTurns
  BY <1>21 DEF TimerTurns, ThreadTypeOK
<1>22. CASE DtorStopsTimer
  BY <1>22 DEF DtorStopsTimer, ThreadTypeOK
<1>23. CASE DtorCloses
  BY <1>23 DEF DtorCloses, ThreadTypeOK, ConnTypeOK
<1>24. CASE DtorTakesAll
  BY <1>24 DEF DtorTakesAll, ThreadTypeOK
<1>25. CASE DtorFailsOne
  BY <1>25 DEF DtorFailsOne, ThreadTypeOK
<1>26. CASE DtorEnds
  BY <1>26 DEF DtorEnds, ThreadTypeOK
<1>27. ASSUME NEW k \in Conns, PeerGoes(k) PROVE ThreadTypeOK'
  BY <1>27 DEF PeerGoes, ThreadTypeOK
<1>28. ASSUME NEW k \in Conns, NEW c \in Calls, ServerAnswers(k, c) PROVE ThreadTypeOK'
  BY <1>28 DEF ServerAnswers, ThreadTypeOK
<1>29. CASE UNCHANGED vars
  BY <1>29 DEF vars, ThreadTypeOK
<1>30. ASSUME NEW c \in Calls, Resolves(c) PROVE ThreadTypeOK'
  BY <1>30 DEF Resolves, ThreadTypeOK
<1> QED
  BY <1>1, <1>2, <1>3, <1>4, <1>5, <1>6, <1>7, <1>8, <1>9, <1>10, <1>11,
     <1>12, <1>13, <1>14, <1>15, <1>16, <1>17, <1>18, <1>19, <1>20, <1>21,
     <1>22, <1>23, <1>24, <1>25, <1>26, <1>27, <1>28, <1>29, <1>30
     DEF Next, Caller,
     RecvLoop, Timer, Dtor, Network, Stopped

(* The network's variables keep their types. *)
LEMMA NetTypeStep == ASSUME ChannelInv, [Next]_vars PROVE NetTypeOK'
<1> USE ChannelAssumption DEF ChannelInv, TypeOK, callerVars, connVars, doneVars,
            recvVars, timerVars, dtorVars, netVars
<1>1. ASSUME NEW c \in Calls, CallStarts(c) PROVE NetTypeOK'
  BY <1>1 DEF CallStarts, NetTypeOK
<1>2. ASSUME NEW c \in Calls, EnsureReuse(c) PROVE NetTypeOK'
  BY <1>2 DEF EnsureReuse, NetTypeOK
<1>3. ASSUME NEW c \in Calls, EnsureClose(c) PROVE NetTypeOK'
  BY <1>3 DEF EnsureClose, NetTypeOK, Disconnect
<1>4. ASSUME NEW c \in Calls, EnsureJoin(c) PROVE NetTypeOK'
  BY <1>4 DEF EnsureJoin, NetTypeOK
<1>5. ASSUME NEW c \in Calls, EnsureFails(c) PROVE NetTypeOK'
  BY <1>5 DEF EnsureFails, NetTypeOK
<1>6. ASSUME NEW c \in Calls, EnsureConnects(c) PROVE NetTypeOK'
  BY <1>6 DEF EnsureConnects, NetTypeOK, CallerTypeOK, Conns
<1>7. ASSUME NEW c \in Calls, Register(c) PROVE NetTypeOK'
  BY <1>7 DEF Register, NetTypeOK
<1>8. ASSUME NEW c \in Calls, SendLock(c) PROVE NetTypeOK'
  BY <1>8 DEF SendLock, NetTypeOK
<1>9. ASSUME NEW c \in Calls, SendPart(c) PROVE NetTypeOK'
  BY <1>9 DEF SendPart, NetTypeOK, ConnTypeOK, Conns
<1>10. ASSUME NEW c \in Calls, SendFails(c) PROVE NetTypeOK'
  BY <1>10 DEF SendFails, NetTypeOK
<1>11. ASSUME NEW c \in Calls, Undo(c) PROVE NetTypeOK'
  BY <1>11 DEF Undo, NetTypeOK
<1>12. ASSUME NEW c \in Calls, Deadline(c) PROVE NetTypeOK'
  BY <1>12 DEF Deadline, NetTypeOK
<1>13. ASSUME NEW k \in Conns, RecvResponse(k) PROVE NetTypeOK'
  BY <1>13 DEF RecvResponse, NetTypeOK
<1>14. ASSUME NEW k \in Conns, RecvRunsDone(k) PROVE NetTypeOK'
  BY <1>14 DEF RecvRunsDone, NetTypeOK
<1>15. ASSUME NEW k \in Conns, RecvBreaks(k) PROVE NetTypeOK'
  BY <1>15 DEF RecvBreaks, NetTypeOK
<1>16. ASSUME NEW k \in Conns, RecvTakesAll(k) PROVE NetTypeOK'
  BY <1>16 DEF RecvTakesAll, NetTypeOK
<1>17. ASSUME NEW k \in Conns, RecvFailsOne(k) PROVE NetTypeOK'
  BY <1>17 DEF RecvFailsOne, NetTypeOK
<1>18. ASSUME NEW k \in Conns, RecvEnds(k) PROVE NetTypeOK'
  BY <1>18 DEF RecvEnds, NetTypeOK
<1>19. CASE TimerTakes
  BY <1>19 DEF TimerTakes, NetTypeOK
<1>20. CASE TimerFailsOne
  BY <1>20 DEF TimerFailsOne, NetTypeOK
<1>21. CASE TimerTurns
  BY <1>21 DEF TimerTurns, NetTypeOK
<1>22. CASE DtorStopsTimer
  BY <1>22 DEF DtorStopsTimer, NetTypeOK
<1>23. CASE DtorCloses
  BY <1>23 DEF DtorCloses, NetTypeOK, Disconnect
<1>24. CASE DtorTakesAll
  BY <1>24 DEF DtorTakesAll, NetTypeOK
<1>25. CASE DtorFailsOne
  BY <1>25 DEF DtorFailsOne, NetTypeOK
<1>26. CASE DtorEnds
  BY <1>26 DEF DtorEnds, NetTypeOK
<1>27. ASSUME NEW k \in Conns, PeerGoes(k) PROVE NetTypeOK'
  BY <1>27 DEF PeerGoes, NetTypeOK
<1>28. ASSUME NEW k \in Conns, NEW c \in Calls, ServerAnswers(k, c) PROVE NetTypeOK'
  BY <1>28 DEF ServerAnswers, NetTypeOK
<1>29. CASE UNCHANGED vars
  BY <1>29 DEF vars, NetTypeOK
<1>30. ASSUME NEW c \in Calls, Resolves(c) PROVE NetTypeOK'
  BY <1>30 DEF Resolves, NetTypeOK
<1> QED
  BY <1>1, <1>2, <1>3, <1>4, <1>5, <1>6, <1>7, <1>8, <1>9, <1>10, <1>11,
     <1>12, <1>13, <1>14, <1>15, <1>16, <1>17, <1>18, <1>19, <1>20, <1>21,
     <1>22, <1>23, <1>24, <1>25, <1>26, <1>27, <1>28, <1>29, <1>30
     DEF Next, Caller,
     RecvLoop, Timer, Dtor, Network, Stopped

-----------------------------------------------------------------------------
(* The rest of the invariant. *)

(* No step gives a slot a second owner, loses it, or runs its done twice. *)
LEMMA OwnerStep == ASSUME ChannelInv, [Next]_vars PROVE OwnerInv'
<1> USE ChannelAssumption DEF ChannelInv, TypeOK, callerVars, connVars, doneVars,
            recvVars, timerVars, dtorVars, netVars
<1>1. ASSUME NEW c \in Calls, CallStarts(c) PROVE OwnerInv'
  BY <1>1 DEF CallStarts, CallerTypeOK, SlotTypeOK, OwnerInv, Held,
     Registered, Goes, RunDone
<1>2. ASSUME NEW c \in Calls, EnsureReuse(c) PROVE OwnerInv'
  BY <1>2 DEF EnsureReuse, CallerTypeOK, SlotTypeOK, OwnerInv, Held,
     Registered, Goes
<1>3. ASSUME NEW c \in Calls, EnsureClose(c) PROVE OwnerInv'
  BY <1>3 DEF EnsureClose, CallerTypeOK, SlotTypeOK, OwnerInv, Held,
     Registered, Goes
<1>4. ASSUME NEW c \in Calls, EnsureJoin(c) PROVE OwnerInv'
  BY <1>4 DEF EnsureJoin, CallerTypeOK, SlotTypeOK, OwnerInv, Held,
     Registered, Goes
<1>5. ASSUME NEW c \in Calls, EnsureFails(c) PROVE OwnerInv'
  BY <1>5 DEF EnsureFails, CallerTypeOK, SlotTypeOK, OwnerInv, Held,
     Registered, Goes, RunDone
<1>6. ASSUME NEW c \in Calls, EnsureConnects(c) PROVE OwnerInv'
  BY <1>6 DEF EnsureConnects, CallerTypeOK, SlotTypeOK, OwnerInv, Held,
     Registered, Goes
<1>7. ASSUME NEW c \in Calls, Register(c) PROVE OwnerInv'
  BY <1>7 DEF Register, CallerTypeOK, SlotTypeOK, OwnerInv, Held, Registered,
     Goes
<1>8. ASSUME NEW c \in Calls, SendLock(c) PROVE OwnerInv'
  BY <1>8 DEF SendLock, CallerTypeOK, SlotTypeOK, OwnerInv, Held, Registered,
     Goes
<1>9. ASSUME NEW c \in Calls, SendPart(c) PROVE OwnerInv'
  <2>1. /\ UNCHANGED <<m_pending, timerHas, dtorHas, recvHas, nDone>>
        /\ pc[c] = "write" /\ pc' \in {pc, [pc EXCEPT ![c] = "ret"]}
    BY <1>9 DEF SendPart, Goes
  <2> QED BY <2>1 DEF CallerTypeOK, SlotTypeOK, OwnerInv, Held, Registered
<1>10. ASSUME NEW c \in Calls, SendFails(c) PROVE OwnerInv'
  BY <1>10 DEF SendFails, CallerTypeOK, SlotTypeOK, OwnerInv, Held,
     Registered, Goes
<1>11. ASSUME NEW c \in Calls, Undo(c) PROVE OwnerInv'
  BY <1>11 DEF Undo, CallerTypeOK, SlotTypeOK, OwnerInv, Held, Registered,
     Goes, RunDone
<1>12. ASSUME NEW c \in Calls, Deadline(c) PROVE OwnerInv'
  BY <1>12 DEF Deadline, CallerTypeOK, SlotTypeOK, OwnerInv, Held, Registered
<1>13. ASSUME NEW k \in Conns, RecvResponse(k) PROVE OwnerInv'
  BY <1>13 DEF RecvResponse, CallerTypeOK, SlotTypeOK, OwnerInv, Held,
     Registered, HolderInv, ThreadTypeOK
<1>14. ASSUME NEW k \in Conns, RecvRunsDone(k) PROVE OwnerInv'
  BY <1>14, ClosureEffect, ClosureThreads DEF RecvRunsDone, CallerTypeOK,
     SlotTypeOK, OwnerInv, Held, Registered, HolderInv, RunDone
<1>15. ASSUME NEW k \in Conns, RecvBreaks(k) PROVE OwnerInv'
  BY <1>15 DEF RecvBreaks, CallerTypeOK, SlotTypeOK, OwnerInv, Held,
     Registered
<1>16. ASSUME NEW k \in Conns, RecvTakesAll(k) PROVE OwnerInv'
  BY <1>16 DEF RecvTakesAll, CallerTypeOK, SlotTypeOK, OwnerInv, Held,
     Registered, HolderInv, ThreadTypeOK
<1>17. ASSUME NEW k \in Conns, RecvFailsOne(k) PROVE OwnerInv'
  BY <1>17, ClosureEffect, ClosureThreads DEF RecvFailsOne, CallerTypeOK,
     SlotTypeOK, OwnerInv, Held, Registered, HolderInv, RunDone
<1>18. ASSUME NEW k \in Conns, RecvEnds(k) PROVE OwnerInv'
  BY <1>18 DEF RecvEnds, CallerTypeOK, SlotTypeOK, OwnerInv, Held, Registered
<1>19. CASE TimerTakes
  BY <1>19 DEF TimerTakes, CallerTypeOK, SlotTypeOK, OwnerInv, Held,
     Registered, HolderInv
<1>20. CASE TimerFailsOne
  BY <1>20, ClosureEffect, ClosureThreads DEF TimerFailsOne, CallerTypeOK,
     SlotTypeOK, OwnerInv, Held, Registered, RunDone
<1>21. CASE TimerTurns
  BY <1>21 DEF TimerTurns, CallerTypeOK, SlotTypeOK, OwnerInv, Held,
     Registered
<1>22. CASE DtorStopsTimer
  BY <1>22 DEF DtorStopsTimer, CallerTypeOK, SlotTypeOK, OwnerInv, Held,
     Registered
<1>23. CASE DtorCloses
  BY <1>23 DEF DtorCloses, CallerTypeOK, SlotTypeOK, OwnerInv, Held,
     Registered
<1>24. CASE DtorTakesAll
  BY <1>24 DEF DtorTakesAll, CallerTypeOK, SlotTypeOK, OwnerInv, Held,
     Registered, HolderInv
<1>25. CASE DtorFailsOne
  BY <1>25 DEF DtorFailsOne, CallerTypeOK, SlotTypeOK, OwnerInv, Held,
     Registered, RunDone
<1>26. CASE DtorEnds
  BY <1>26 DEF DtorEnds, CallerTypeOK, SlotTypeOK, OwnerInv, Held, Registered
<1>27. ASSUME NEW k \in Conns, PeerGoes(k) PROVE OwnerInv'
  BY <1>27 DEF PeerGoes, CallerTypeOK, SlotTypeOK, OwnerInv, Held, Registered
<1>28. ASSUME NEW k \in Conns, NEW c \in Calls, ServerAnswers(k, c) PROVE OwnerInv'
  BY <1>28 DEF ServerAnswers, CallerTypeOK, SlotTypeOK, OwnerInv, Held,
     Registered
<1>29. CASE UNCHANGED vars
  BY <1>29 DEF vars, CallerTypeOK, SlotTypeOK, OwnerInv, Held, Registered
<1>30. ASSUME NEW c \in Calls, Resolves(c) PROVE OwnerInv'
  BY <1>30 DEF Resolves, CallerTypeOK, SlotTypeOK, OwnerInv, Held,
     Registered, Goes, RunDone
<1> QED
  BY <1>1, <1>2, <1>3, <1>4, <1>5, <1>6, <1>7, <1>8, <1>9, <1>10, <1>11,
     <1>12, <1>13, <1>14, <1>15, <1>16, <1>17, <1>18, <1>19, <1>20, <1>21,
     <1>22, <1>23, <1>24, <1>25, <1>26, <1>27, <1>28, <1>29, <1>30
     DEF Next, Caller,
     RecvLoop, Timer, Dtor, Network, Stopped

(* A thread that leaves its failing loop holds no slot. *)
LEMMA HolderStep == ASSUME ChannelInv, [Next]_vars PROVE HolderInv'
<1> USE ChannelAssumption DEF ChannelInv, TypeOK, callerVars, connVars, doneVars,
            recvVars, timerVars, dtorVars, netVars
<1>1. ASSUME NEW c \in Calls, CallStarts(c) PROVE HolderInv'
  BY <1>1 DEF CallStarts, HolderInv, SlotTypeOK, ThreadTypeOK
<1>2. ASSUME NEW c \in Calls, EnsureReuse(c) PROVE HolderInv'
  BY <1>2 DEF EnsureReuse, HolderInv, SlotTypeOK, ThreadTypeOK
<1>3. ASSUME NEW c \in Calls, EnsureClose(c) PROVE HolderInv'
  BY <1>3 DEF EnsureClose, HolderInv, SlotTypeOK, ThreadTypeOK
<1>4. ASSUME NEW c \in Calls, EnsureJoin(c) PROVE HolderInv'
  BY <1>4 DEF EnsureJoin, HolderInv, SlotTypeOK, ThreadTypeOK
<1>5. ASSUME NEW c \in Calls, EnsureFails(c) PROVE HolderInv'
  BY <1>5 DEF EnsureFails, HolderInv, SlotTypeOK, ThreadTypeOK
<1>6. ASSUME NEW c \in Calls, EnsureConnects(c) PROVE HolderInv'
  BY <1>6 DEF EnsureConnects, HolderInv, SlotTypeOK, ThreadTypeOK, NetTypeOK,
     Conns
<1>7. ASSUME NEW c \in Calls, Register(c) PROVE HolderInv'
  BY <1>7 DEF Register, HolderInv, SlotTypeOK, ThreadTypeOK
<1>8. ASSUME NEW c \in Calls, SendLock(c) PROVE HolderInv'
  BY <1>8 DEF SendLock, HolderInv, SlotTypeOK, ThreadTypeOK
<1>9. ASSUME NEW c \in Calls, SendPart(c) PROVE HolderInv'
  BY <1>9 DEF SendPart, HolderInv, SlotTypeOK, ThreadTypeOK
<1>10. ASSUME NEW c \in Calls, SendFails(c) PROVE HolderInv'
  BY <1>10 DEF SendFails, HolderInv, SlotTypeOK, ThreadTypeOK
<1>11. ASSUME NEW c \in Calls, Undo(c) PROVE HolderInv'
  BY <1>11 DEF Undo, HolderInv, SlotTypeOK, ThreadTypeOK
<1>12. ASSUME NEW c \in Calls, Deadline(c) PROVE HolderInv'
  BY <1>12 DEF Deadline, HolderInv, SlotTypeOK, ThreadTypeOK
<1>13. ASSUME NEW k \in Conns, RecvResponse(k) PROVE HolderInv'
  BY <1>13 DEF RecvResponse, HolderInv, SlotTypeOK, ThreadTypeOK
<1>14. ASSUME NEW k \in Conns, RecvRunsDone(k) PROVE HolderInv'
  BY <1>14 DEF RecvRunsDone, HolderInv, SlotTypeOK, ThreadTypeOK
<1>15. ASSUME NEW k \in Conns, RecvBreaks(k) PROVE HolderInv'
  BY <1>15 DEF RecvBreaks, HolderInv, SlotTypeOK, ThreadTypeOK
<1>16. ASSUME NEW k \in Conns, RecvTakesAll(k) PROVE HolderInv'
  BY <1>16 DEF RecvTakesAll, HolderInv, SlotTypeOK, ThreadTypeOK
<1>17. ASSUME NEW k \in Conns, RecvFailsOne(k) PROVE HolderInv'
  BY <1>17 DEF RecvFailsOne, HolderInv, SlotTypeOK, ThreadTypeOK
<1>18. ASSUME NEW k \in Conns, RecvEnds(k) PROVE HolderInv'
  BY <1>18 DEF RecvEnds, HolderInv, SlotTypeOK, ThreadTypeOK
<1>19. CASE TimerTakes
  BY <1>19 DEF TimerTakes, HolderInv, SlotTypeOK, ThreadTypeOK
<1>20. CASE TimerFailsOne
  BY <1>20 DEF TimerFailsOne, HolderInv, SlotTypeOK, ThreadTypeOK
<1>21. CASE TimerTurns
  BY <1>21 DEF TimerTurns, HolderInv, SlotTypeOK, ThreadTypeOK
<1>22. CASE DtorStopsTimer
  BY <1>22 DEF DtorStopsTimer, HolderInv, SlotTypeOK, ThreadTypeOK
<1>23. CASE DtorCloses
  BY <1>23 DEF DtorCloses, HolderInv, SlotTypeOK, ThreadTypeOK
<1>24. CASE DtorTakesAll
  BY <1>24 DEF DtorTakesAll, HolderInv, SlotTypeOK, ThreadTypeOK
<1>25. CASE DtorFailsOne
  BY <1>25 DEF DtorFailsOne, HolderInv, SlotTypeOK, ThreadTypeOK
<1>26. CASE DtorEnds
  BY <1>26 DEF DtorEnds, HolderInv, SlotTypeOK, ThreadTypeOK
<1>27. ASSUME NEW k \in Conns, PeerGoes(k) PROVE HolderInv'
  BY <1>27 DEF PeerGoes, HolderInv, SlotTypeOK, ThreadTypeOK
<1>28. ASSUME NEW k \in Conns, NEW c \in Calls, ServerAnswers(k, c) PROVE HolderInv'
  BY <1>28 DEF ServerAnswers, HolderInv, SlotTypeOK, ThreadTypeOK
<1>29. CASE UNCHANGED vars
  BY <1>29 DEF vars, HolderInv, SlotTypeOK, ThreadTypeOK
<1>30. ASSUME NEW c \in Calls, Resolves(c) PROVE HolderInv'
  BY <1>30 DEF Resolves, HolderInv, SlotTypeOK, ThreadTypeOK
<1> QED
  BY <1>1, <1>2, <1>3, <1>4, <1>5, <1>6, <1>7, <1>8, <1>9, <1>10, <1>11,
     <1>12, <1>13, <1>14, <1>15, <1>16, <1>17, <1>18, <1>19, <1>20, <1>21,
     <1>22, <1>23, <1>24, <1>25, <1>26, <1>27, <1>28, <1>29, <1>30
     DEF Next, Caller,
     RecvLoop, Timer, Dtor, Network, Stopped

(* Callers keep to the order of callAsync, and one at a time reconnects. *)
LEMMA CallerStep == ASSUME ChannelInv, [Next]_vars PROVE CallerInv'
<1> USE ChannelAssumption DEF ChannelInv, TypeOK, callerVars, connVars, doneVars,
            recvVars, timerVars, dtorVars, netVars
<1>1. ASSUME NEW c \in Calls, CallStarts(c) PROVE CallerInv'
  BY <1>1 DEF CallStarts, CallerTypeOK, CallerInv, Goes
<1>2. ASSUME NEW c \in Calls, EnsureReuse(c) PROVE CallerInv'
  BY <1>2 DEF EnsureReuse, CallerTypeOK, CallerInv, Goes
<1>3. ASSUME NEW c \in Calls, EnsureClose(c) PROVE CallerInv'
  BY <1>3 DEF EnsureClose, CallerTypeOK, CallerInv, Goes, Disconnect,
     ConnTypeOK
<1>4. ASSUME NEW c \in Calls, EnsureJoin(c) PROVE CallerInv'
  BY <1>4 DEF EnsureJoin, CallerTypeOK, CallerInv, Goes
<1>5. ASSUME NEW c \in Calls, EnsureFails(c) PROVE CallerInv'
  BY <1>5 DEF EnsureFails, CallerTypeOK, CallerInv, Goes, ConnTypeOK
<1>6. ASSUME NEW c \in Calls, EnsureConnects(c) PROVE CallerInv'
  BY <1>6 DEF EnsureConnects, CallerTypeOK, CallerInv, Goes, ConnTypeOK
<1>7. ASSUME NEW c \in Calls, Register(c) PROVE CallerInv'
  BY <1>7 DEF Register, CallerTypeOK, CallerInv, Goes
<1>8. ASSUME NEW c \in Calls, SendLock(c) PROVE CallerInv'
  BY <1>8 DEF SendLock, CallerTypeOK, CallerInv, Goes
<1>9. ASSUME NEW c \in Calls, SendPart(c) PROVE CallerInv'
  BY <1>9 DEF SendPart, CallerTypeOK, CallerInv, Goes
<1>10. ASSUME NEW c \in Calls, SendFails(c) PROVE CallerInv'
  BY <1>10 DEF SendFails, CallerTypeOK, CallerInv, Goes
<1>11. ASSUME NEW c \in Calls, Undo(c) PROVE CallerInv'
  BY <1>11 DEF Undo, CallerTypeOK, CallerInv, Goes
<1>12. ASSUME NEW c \in Calls, Deadline(c) PROVE CallerInv'
  BY <1>12 DEF Deadline, CallerTypeOK, CallerInv
<1>13. ASSUME NEW k \in Conns, RecvResponse(k) PROVE CallerInv'
  BY <1>13 DEF RecvResponse, CallerTypeOK, CallerInv
<1>14. ASSUME NEW k \in Conns, RecvRunsDone(k) PROVE CallerInv'
  BY <1>14, ClosureEffect, ClosureThreads DEF RecvRunsDone, CallerTypeOK,
     CallerInv
<1>15. ASSUME NEW k \in Conns, RecvBreaks(k) PROVE CallerInv'
  BY <1>15 DEF RecvBreaks, CallerTypeOK, CallerInv
<1>16. ASSUME NEW k \in Conns, RecvTakesAll(k) PROVE CallerInv'
  BY <1>16 DEF RecvTakesAll, CallerTypeOK, CallerInv
<1>17. ASSUME NEW k \in Conns, RecvFailsOne(k) PROVE CallerInv'
  BY <1>17, ClosureEffect, ClosureThreads DEF RecvFailsOne, CallerTypeOK,
     CallerInv
<1>18. ASSUME NEW k \in Conns, RecvEnds(k) PROVE CallerInv'
  BY <1>18 DEF RecvEnds, CallerTypeOK, CallerInv
<1>19. CASE TimerTakes
  BY <1>19 DEF TimerTakes, CallerTypeOK, CallerInv
<1>20. CASE TimerFailsOne
  BY <1>20, ClosureEffect, ClosureThreads DEF TimerFailsOne, CallerTypeOK,
     CallerInv
<1>21. CASE TimerTurns
  BY <1>21 DEF TimerTurns, CallerTypeOK, CallerInv
<1>22. CASE DtorStopsTimer
  BY <1>22 DEF DtorStopsTimer, CallerTypeOK, CallerInv
<1>23. CASE DtorCloses
  BY <1>23 DEF DtorCloses, CallerTypeOK, CallerInv, Disconnect
<1>24. CASE DtorTakesAll
  BY <1>24 DEF DtorTakesAll, CallerTypeOK, CallerInv
<1>25. CASE DtorFailsOne
  BY <1>25 DEF DtorFailsOne, CallerTypeOK, CallerInv
<1>26. CASE DtorEnds
  BY <1>26 DEF DtorEnds, CallerTypeOK, CallerInv
<1>27. ASSUME NEW k \in Conns, PeerGoes(k) PROVE CallerInv'
  BY <1>27 DEF PeerGoes, CallerTypeOK, CallerInv
<1>28. ASSUME NEW k \in Conns, NEW c \in Calls, ServerAnswers(k, c) PROVE CallerInv'
  BY <1>28 DEF ServerAnswers, CallerTypeOK, CallerInv
<1>29. CASE UNCHANGED vars
  BY <1>29 DEF vars, CallerTypeOK, CallerInv
<1>30. ASSUME NEW c \in Calls, Resolves(c) PROVE CallerInv'
  BY <1>30 DEF Resolves, CallerTypeOK, CallerInv, Goes
<1> QED
  BY <1>1, <1>2, <1>3, <1>4, <1>5, <1>6, <1>7, <1>8, <1>9, <1>10, <1>11,
     <1>12, <1>13, <1>14, <1>15, <1>16, <1>17, <1>18, <1>19, <1>20, <1>21,
     <1>22, <1>23, <1>24, <1>25, <1>26, <1>27, <1>28, <1>29, <1>30
     DEF Next, Caller,
     RecvLoop, Timer, Dtor, Network, Stopped

(* No step leaves a second receive thread behind. *)
LEMMA ReceiverStep == ASSUME ChannelInv, [Next]_vars PROVE OneReceiver'
<1> USE ChannelAssumption DEF ChannelInv, TypeOK, callerVars, connVars, doneVars,
            recvVars, timerVars, dtorVars, netVars
<1>1. ASSUME NEW c \in Calls, CallStarts(c) PROVE OneReceiver'
  BY <1>1 DEF CallStarts, OneReceiver, ThreadTypeOK, ConnTypeOK
<1>2. ASSUME NEW c \in Calls, EnsureReuse(c) PROVE OneReceiver'
  BY <1>2 DEF EnsureReuse, OneReceiver, ThreadTypeOK, ConnTypeOK
<1>3. ASSUME NEW c \in Calls, EnsureClose(c) PROVE OneReceiver'
  BY <1>3 DEF EnsureClose, OneReceiver, ThreadTypeOK, ConnTypeOK, Disconnect
<1>4. ASSUME NEW c \in Calls, EnsureJoin(c) PROVE OneReceiver'
  BY <1>4 DEF EnsureJoin, OneReceiver, ThreadTypeOK, ConnTypeOK, Ended, Conns
<1>5. ASSUME NEW c \in Calls, EnsureFails(c) PROVE OneReceiver'
  BY <1>5 DEF EnsureFails, OneReceiver, ThreadTypeOK, ConnTypeOK
<1>6. ASSUME NEW c \in Calls, EnsureConnects(c) PROVE OneReceiver'
  BY <1>6 DEF EnsureConnects, OneReceiver, ThreadTypeOK, ConnTypeOK,
     NetTypeOK, CallerInv, Conns
<1>7. ASSUME NEW c \in Calls, Register(c) PROVE OneReceiver'
  BY <1>7 DEF Register, OneReceiver, ThreadTypeOK, ConnTypeOK
<1>8. ASSUME NEW c \in Calls, SendLock(c) PROVE OneReceiver'
  BY <1>8 DEF SendLock, OneReceiver, ThreadTypeOK, ConnTypeOK
<1>9. ASSUME NEW c \in Calls, SendPart(c) PROVE OneReceiver'
  BY <1>9 DEF SendPart, OneReceiver, ThreadTypeOK, ConnTypeOK
<1>10. ASSUME NEW c \in Calls, SendFails(c) PROVE OneReceiver'
  BY <1>10 DEF SendFails, OneReceiver, ThreadTypeOK, ConnTypeOK
<1>11. ASSUME NEW c \in Calls, Undo(c) PROVE OneReceiver'
  BY <1>11 DEF Undo, OneReceiver, ThreadTypeOK, ConnTypeOK
<1>12. ASSUME NEW c \in Calls, Deadline(c) PROVE OneReceiver'
  BY <1>12 DEF Deadline, OneReceiver, ThreadTypeOK, ConnTypeOK
<1>13. ASSUME NEW k \in Conns, RecvResponse(k) PROVE OneReceiver'
  <2>1. /\ UNCHANGED connVars /\ dtorJoins' = dtorJoins
        /\ recv' = recv \/ (recv[k] = "run" /\ recv' = [recv EXCEPT ![k] = "hand"])
    BY <1>13 DEF RecvResponse
  <2> QED BY <2>1 DEF OneReceiver, ThreadTypeOK, ConnTypeOK, Conns
<1>14. ASSUME NEW k \in Conns, RecvRunsDone(k) PROVE OneReceiver'
  BY <1>14 DEF RecvRunsDone, OneReceiver, ThreadTypeOK, ConnTypeOK
<1>15. ASSUME NEW k \in Conns, RecvBreaks(k) PROVE OneReceiver'
  BY <1>15 DEF RecvBreaks, OneReceiver, ThreadTypeOK, ConnTypeOK
<1>16. ASSUME NEW k \in Conns, RecvTakesAll(k) PROVE OneReceiver'
  BY <1>16 DEF RecvTakesAll, OneReceiver, ThreadTypeOK, ConnTypeOK
<1>17. ASSUME NEW k \in Conns, RecvFailsOne(k) PROVE OneReceiver'
  BY <1>17 DEF RecvFailsOne, OneReceiver, ThreadTypeOK, ConnTypeOK
<1>18. ASSUME NEW k \in Conns, RecvEnds(k) PROVE OneReceiver'
  BY <1>18 DEF RecvEnds, OneReceiver, ThreadTypeOK, ConnTypeOK
<1>19. CASE TimerTakes
  BY <1>19 DEF TimerTakes, OneReceiver, ThreadTypeOK, ConnTypeOK
<1>20. CASE TimerFailsOne
  BY <1>20 DEF TimerFailsOne, OneReceiver, ThreadTypeOK, ConnTypeOK
<1>21. CASE TimerTurns
  BY <1>21 DEF TimerTurns, OneReceiver, ThreadTypeOK, ConnTypeOK
<1>22. CASE DtorStopsTimer
  BY <1>22 DEF DtorStopsTimer, OneReceiver, ThreadTypeOK, ConnTypeOK
<1>23. CASE DtorCloses
  BY <1>23 DEF DtorCloses, OneReceiver, ThreadTypeOK, ConnTypeOK, Disconnect,
     DtorInv
<1>24. CASE DtorTakesAll
  BY <1>24 DEF DtorTakesAll, OneReceiver, ThreadTypeOK, ConnTypeOK
<1>25. CASE DtorFailsOne
  BY <1>25 DEF DtorFailsOne, OneReceiver, ThreadTypeOK, ConnTypeOK
<1>26. CASE DtorEnds
  BY <1>26 DEF DtorEnds, OneReceiver, ThreadTypeOK, ConnTypeOK
<1>27. ASSUME NEW k \in Conns, PeerGoes(k) PROVE OneReceiver'
  BY <1>27 DEF PeerGoes, OneReceiver, ThreadTypeOK, ConnTypeOK
<1>28. ASSUME NEW k \in Conns, NEW c \in Calls, ServerAnswers(k, c) PROVE OneReceiver'
  BY <1>28 DEF ServerAnswers, OneReceiver, ThreadTypeOK, ConnTypeOK
<1>29. CASE UNCHANGED vars
  BY <1>29 DEF vars, OneReceiver, ThreadTypeOK, ConnTypeOK
<1>30. ASSUME NEW c \in Calls, Resolves(c) PROVE OneReceiver'
  BY <1>30 DEF Resolves, OneReceiver, ThreadTypeOK, ConnTypeOK
<1> QED
  BY <1>1, <1>2, <1>3, <1>4, <1>5, <1>6, <1>7, <1>8, <1>9, <1>10, <1>11,
     <1>12, <1>13, <1>14, <1>15, <1>16, <1>17, <1>18, <1>19, <1>20, <1>21,
     <1>22, <1>23, <1>24, <1>25, <1>26, <1>27, <1>28, <1>29, <1>30
     DEF Next, Caller,
     RecvLoop, Timer, Dtor, Network, Stopped

(* What the destructor stopped stays stopped. *)
LEMMA DtorStep == ASSUME ChannelInv, [Next]_vars PROVE DtorInv'
<1> USE ChannelAssumption DEF ChannelInv, TypeOK, callerVars, connVars, doneVars,
            recvVars, timerVars, dtorVars, netVars
<1>1. ASSUME NEW c \in Calls, CallStarts(c) PROVE DtorInv'
  BY <1>1 DEF CallStarts, DtorInv, CallerTypeOK, ThreadTypeOK, Goes
<1>2. ASSUME NEW c \in Calls, EnsureReuse(c) PROVE DtorInv'
  BY <1>2 DEF EnsureReuse, DtorInv, CallerTypeOK, ThreadTypeOK, Goes
<1>3. ASSUME NEW c \in Calls, EnsureClose(c) PROVE DtorInv'
  BY <1>3 DEF EnsureClose, DtorInv, CallerTypeOK, ThreadTypeOK, Goes
<1>4. ASSUME NEW c \in Calls, EnsureJoin(c) PROVE DtorInv'
  BY <1>4 DEF EnsureJoin, DtorInv, CallerTypeOK, ThreadTypeOK, Goes
<1>5. ASSUME NEW c \in Calls, EnsureFails(c) PROVE DtorInv'
  BY <1>5 DEF EnsureFails, DtorInv, CallerTypeOK, ThreadTypeOK, Goes
<1>6. ASSUME NEW c \in Calls, EnsureConnects(c) PROVE DtorInv'
  BY <1>6 DEF EnsureConnects, DtorInv, CallerTypeOK, ThreadTypeOK, Goes
<1>7. ASSUME NEW c \in Calls, Register(c) PROVE DtorInv'
  BY <1>7 DEF Register, DtorInv, CallerTypeOK, ThreadTypeOK, Goes
<1>8. ASSUME NEW c \in Calls, SendLock(c) PROVE DtorInv'
  BY <1>8 DEF SendLock, DtorInv, CallerTypeOK, ThreadTypeOK, Goes
<1>9. ASSUME NEW c \in Calls, SendPart(c) PROVE DtorInv'
  BY <1>9 DEF SendPart, DtorInv, CallerTypeOK, ThreadTypeOK, Goes
<1>10. ASSUME NEW c \in Calls, SendFails(c) PROVE DtorInv'
  BY <1>10 DEF SendFails, DtorInv, CallerTypeOK, ThreadTypeOK, Goes
<1>11. ASSUME NEW c \in Calls, Undo(c) PROVE DtorInv'
  BY <1>11 DEF Undo, DtorInv, CallerTypeOK, ThreadTypeOK, Goes
<1>12. ASSUME NEW c \in Calls, Deadline(c) PROVE DtorInv'
  BY <1>12 DEF Deadline, DtorInv, CallerTypeOK, ThreadTypeOK
<1>13. ASSUME NEW k \in Conns, RecvResponse(k) PROVE DtorInv'
  BY <1>13 DEF RecvResponse, DtorInv, CallerTypeOK, ThreadTypeOK, SlotTypeOK
<1>14. ASSUME NEW k \in Conns, RecvRunsDone(k) PROVE DtorInv'
  BY <1>14, ClosureEffect, ClosureThreads DEF RecvRunsDone, DtorInv,
     CallerTypeOK, ThreadTypeOK
<1>15. ASSUME NEW k \in Conns, RecvBreaks(k) PROVE DtorInv'
  BY <1>15 DEF RecvBreaks, DtorInv, CallerTypeOK, ThreadTypeOK
<1>16. ASSUME NEW k \in Conns, RecvTakesAll(k) PROVE DtorInv'
  BY <1>16 DEF RecvTakesAll, DtorInv, CallerTypeOK, ThreadTypeOK
<1>17. ASSUME NEW k \in Conns, RecvFailsOne(k) PROVE DtorInv'
  BY <1>17, ClosureEffect, ClosureThreads DEF RecvFailsOne, DtorInv,
     CallerTypeOK, ThreadTypeOK
<1>18. ASSUME NEW k \in Conns, RecvEnds(k) PROVE DtorInv'
  BY <1>18 DEF RecvEnds, DtorInv, CallerTypeOK, ThreadTypeOK
<1>19. CASE TimerTakes
  BY <1>19 DEF TimerTakes, DtorInv, CallerTypeOK, ThreadTypeOK
<1>20. CASE TimerFailsOne
  BY <1>20, ClosureEffect, ClosureThreads DEF TimerFailsOne, DtorInv,
     CallerTypeOK, ThreadTypeOK
<1>21. CASE TimerTurns
  BY <1>21 DEF TimerTurns, DtorInv, CallerTypeOK, ThreadTypeOK
<1>22. CASE DtorStopsTimer
  BY <1>22 DEF DtorStopsTimer, DtorInv, CallerTypeOK, ThreadTypeOK
<1>23. CASE DtorCloses
  BY <1>23 DEF DtorCloses, DtorInv, CallerTypeOK, ThreadTypeOK, Disconnect
<1>24. CASE DtorTakesAll
  BY <1>24 DEF DtorTakesAll, DtorInv, CallerTypeOK, ThreadTypeOK, Ended,
     OneReceiver, ConnTypeOK, Conns
<1>25. CASE DtorFailsOne
  BY <1>25 DEF DtorFailsOne, DtorInv, CallerTypeOK, ThreadTypeOK
<1>26. CASE DtorEnds
  BY <1>26 DEF DtorEnds, DtorInv, CallerTypeOK, ThreadTypeOK
<1>27. ASSUME NEW k \in Conns, PeerGoes(k) PROVE DtorInv'
  BY <1>27 DEF PeerGoes, DtorInv, CallerTypeOK, ThreadTypeOK
<1>28. ASSUME NEW k \in Conns, NEW c \in Calls, ServerAnswers(k, c) PROVE DtorInv'
  BY <1>28 DEF ServerAnswers, DtorInv, CallerTypeOK, ThreadTypeOK
<1>29. CASE UNCHANGED vars
  BY <1>29 DEF vars, DtorInv, CallerTypeOK, ThreadTypeOK
<1>30. ASSUME NEW c \in Calls, Resolves(c) PROVE DtorInv'
  BY <1>30 DEF Resolves, DtorInv, CallerTypeOK, ThreadTypeOK, Goes
<1> QED
  BY <1>1, <1>2, <1>3, <1>4, <1>5, <1>6, <1>7, <1>8, <1>9, <1>10, <1>11,
     <1>12, <1>13, <1>14, <1>15, <1>16, <1>17, <1>18, <1>19, <1>20, <1>21,
     <1>22, <1>23, <1>24, <1>25, <1>26, <1>27, <1>28, <1>29, <1>30
     DEF Next, Caller,
     RecvLoop, Timer, Dtor, Network, Stopped

(* A new channel satisfies the invariant. *)
LEMMA ChannelInit == Init => ChannelInv
<1> SUFFICES ASSUME Init PROVE ChannelInv
  OBVIOUS
<1> USE ChannelAssumption DEF Init, OwnThread
<1>1. CallerTypeOK
  BY DEF CallerTypeOK, CallerAt, TimerThread
<1>2. ConnTypeOK
  <2>1. 0 \in 0 .. MaxConns
    OBVIOUS
  <2> QED BY <2>1 DEF ConnTypeOK
<1>3. SlotTypeOK
  BY DEF SlotTypeOK
<1>4. ThreadTypeOK
  BY DEF ThreadTypeOK, ReceiverAt
<1>5. NetTypeOK
  BY DEF NetTypeOK
<1>6. OwnerInv
  BY DEF OwnerInv, Held, Registered
<1>7. HolderInv /\ CallerInv /\ OneReceiver /\ DtorInv
  BY DEF HolderInv, CallerInv, OneReceiver, DtorInv
<1> QED
  BY <1>1, <1>2, <1>3, <1>4, <1>5, <1>6, <1>7 DEF ChannelInv, TypeOK

(* Every step keeps the invariant. *)
LEMMA ChannelStep == ChannelInv /\ [Next]_vars => ChannelInv'
  BY CallerTypeStep, ConnTypeStep, SlotTypeStep, ThreadTypeStep, NetTypeStep,
     OwnerStep, HolderStep, CallerStep, ReceiverStep, DtorStep
     DEF ChannelInv, TypeOK

(* ChannelInv holds in every state of the channel: who owns a Pending,     *)
(* where each thread is and what the destructor has stopped fit together.  *)
THEOREM ChannelInvariant == Spec => []ChannelInv
  BY ChannelInit, ChannelStep, PTL DEF Spec

-----------------------------------------------------------------------------
(* A call's holders number one while its slot is held, and none otherwise. *)
LEMMA OneHolder ==
    ASSUME ChannelInv, NEW c \in Calls
    PROVE  Slots(c) = (IF Held(c) THEN 1 ELSE 0) + nDone[c]
<1> DEFINE has == Holders(c)
           owners == {o \in DOMAIN has : has[o]}
<1>1. /\ DOMAIN has = {"m_pending", "timer", "dtor", "recv"}
      /\ has["m_pending"] = (c \in m_pending) /\ has["timer"] = (c \in timerHas)
      /\ has["dtor"] = (c \in dtorHas)
      /\ has["recv"] = (\E k \in Conns : c \in recvHas[k])
  BY DEF Holders
<1>2. CASE Held(c)
  <2>1. \E o \in DOMAIN has : owners = {o}
    <3>1. CASE c \in m_pending
      <4>1. owners = {"m_pending"}
        BY <1>1, <3>1 DEF ChannelInv, OwnerInv
      <4> QED BY <4>1, <1>1
    <3>2. CASE c \in timerHas
      <4>1. owners = {"timer"}
        BY <1>1, <3>2 DEF ChannelInv, OwnerInv
      <4> QED BY <4>1, <1>1
    <3>3. CASE c \in dtorHas
      <4>1. owners = {"dtor"}
        BY <1>1, <3>3 DEF ChannelInv, OwnerInv
      <4> QED BY <4>1, <1>1
    <3>4. CASE \E k \in Conns : c \in recvHas[k]
      <4>1. owners = {"recv"}
        BY <1>1, <3>4 DEF ChannelInv, OwnerInv
      <4> QED BY <4>1, <1>1
    <3> QED BY <1>2, <3>1, <3>2, <3>3, <3>4 DEF Held
  <2>2. Cardinality(owners) = 1
    BY <2>1, FS_Singleton
  <2> QED BY <1>2, <2>2 DEF Slots
<1>3. CASE ~Held(c)
  <2>1. owners = {}
    BY <1>1, <1>3 DEF Held
  <2>2. Cardinality(owners) = 0
    BY <2>1, FS_EmptySet
  <2> QED BY <1>3, <2>2 DEF Slots
<1> QED BY <1>2, <1>3

(* From its registration on, a call's Pending has exactly one owner or its *)
(* done has run, and done never runs twice, whichever of recvLoop,         *)
(* timerLoop, teardown and callAsync's send-failure path comes first.      *)
THEOREM PendingIsOwned == Spec => []PendingOwned
<1>1. ChannelInv => PendingOwned
  <2> SUFFICES ASSUME ChannelInv PROVE PendingOwned
    OBVIOUS
  <2>1. ASSUME NEW c \in Calls
        PROVE  Slots(c) <= 1 /\ (Registered(c) => Slots(c) = 1)
    <3>1. /\ nDone[c] \in Nat /\ nDone[c] <= 1 /\ (Held(c) => nDone[c] = 0)
          /\ Registered(c) => Held(c) \/ nDone[c] = 1
      BY DEF ChannelInv, TypeOK, SlotTypeOK, OwnerInv
    <3> QED BY <3>1, OneHolder
  <2> QED BY <2>1 DEF PendingOwned, ChannelInv
<1> QED BY <1>1, ChannelInvariant, PTL

(* While m_running is set the current connection's receive thread is in    *)
(* its loop, and no receive thread of an earlier connection is left to     *)
(* clear m_running (ensureConnected and teardown join before they go on).  *)
THEOREM OneReceiverAlways == Spec => []OneReceiver
<1>1. ChannelInv => OneReceiver
  BY DEF ChannelInv
<1> QED BY <1>1, ChannelInvariant, PTL

(* When ~KimRpcChannel returns every call made is settled, no Pending is   *)
(* left and both threads have ended.                                       *)
THEOREM DestructorLeavesNothing == Spec => []DestructorSettles
<1>1. ChannelInv => DestructorSettles
  <2> SUFFICES ASSUME ChannelInv, dtor = "dead"
               PROVE  /\ m_pending = {} /\ timerHas = {} /\ dtorHas = {}
                      /\ \A c \in Calls : pc[c] # "new" => nDone[c] = 1
                      /\ timer = "ended" /\ \A k \in Conns : recv[k] \in {"none", "ended"}
    BY DEF DestructorSettles
  <2>1. /\ m_pending = {} /\ dtorHas = {} /\ timer = "ended"
        /\ \A k \in Conns : recv[k] \in {"none", "ended"}
        /\ \A c \in Calls : pc[c] \in {"new", "ret"}
    BY DEF ChannelInv, DtorInv
  <2>2. timerHas = {} /\ \A k \in Conns : recvHas[k] = {}
    BY <2>1 DEF ChannelInv, HolderInv
  <2>3. ASSUME NEW c \in Calls, pc[c] # "new" PROVE nDone[c] = 1
    <3>1. pc[c] = "ret" /\ ~Held(c) /\ nDone[c] \in Nat /\ nDone[c] <= 1
      BY <2>1, <2>2, <2>3 DEF Held, ChannelInv, TypeOK, SlotTypeOK, OwnerInv
    <3>2. Registered(c) => nDone[c] = 1
      BY <3>1 DEF ChannelInv, OwnerInv
    <3> QED BY <3>1, <3>2 DEF Registered
  <2> QED BY <2>1, <2>2, <2>3
<1> QED BY <1>1, ChannelInvariant, PTL

-----------------------------------------------------------------------------
(* ConnectionGivenUp. *)

(* No step opens a second connection, or leaves the open one unusable while *)
(* its server is there.                                                     *)
LEMMA LinkStep ==
    ASSUME ChannelInv, LinkInv, [Next]_vars PROVE LinkInv'
<1> USE ChannelAssumption DEF ChannelInv, TypeOK, callerVars, connVars, doneVars,
            recvVars, timerVars, dtorVars, netVars
<1>1. ASSUME NEW c \in Calls, CallStarts(c) PROVE LinkInv'
  BY <1>1 DEF CallStarts, LinkInv
<1>2. ASSUME NEW c \in Calls, EnsureReuse(c) PROVE LinkInv'
  BY <1>2 DEF EnsureReuse, LinkInv
<1>3. ASSUME NEW c \in Calls, EnsureClose(c) PROVE LinkInv'
  BY <1>3 DEF EnsureClose, Disconnect, LinkInv
<1>4. ASSUME NEW c \in Calls, EnsureJoin(c) PROVE LinkInv'
  BY <1>4 DEF EnsureJoin, LinkInv, CallerInv
<1>5. ASSUME NEW c \in Calls, EnsureFails(c) PROVE LinkInv'
  BY <1>5 DEF EnsureFails, LinkInv
<1>6. ASSUME NEW c \in Calls, EnsureConnects(c) PROVE LinkInv'
  BY <1>6 DEF EnsureConnects, LinkInv, CallerInv, NetTypeOK, ConnTypeOK, Conns
<1>7. ASSUME NEW c \in Calls, Register(c) PROVE LinkInv'
  BY <1>7 DEF Register, LinkInv
<1>8. ASSUME NEW c \in Calls, SendLock(c) PROVE LinkInv'
  BY <1>8 DEF SendLock, LinkInv
<1>9. ASSUME NEW c \in Calls, SendPart(c) PROVE LinkInv'
  BY <1>9 DEF SendPart, LinkInv
<1>10. ASSUME NEW c \in Calls, SendFails(c) PROVE LinkInv'
  BY <1>10 DEF SendFails, LinkInv
<1>11. ASSUME NEW c \in Calls, Undo(c) PROVE LinkInv'
  BY <1>11 DEF Undo, LinkInv
<1>12. ASSUME NEW c \in Calls, Deadline(c) PROVE LinkInv'
  BY <1>12 DEF Deadline, LinkInv
<1>13. ASSUME NEW k \in Conns, RecvResponse(k) PROVE LinkInv'
  BY <1>13 DEF RecvResponse, LinkInv
<1>14. ASSUME NEW k \in Conns, RecvRunsDone(k) PROVE LinkInv'
  BY <1>14 DEF RecvRunsDone, LinkInv
<1>15. ASSUME NEW k \in Conns, RecvBreaks(k) PROVE LinkInv'
  <2>1. UNCHANGED <<m_clientfd, m_connectedHost, m_recvThread, nConn, peer, openFd>>
    BY <1>15 DEF RecvBreaks
  <2>2. k # 0 /\ (k = m_recvThread \/ k = dtorJoins)
    BY <1>15 DEF RecvBreaks, OneReceiver, Conns
  <2>3. k = dtorJoins => m_recvThread = 0
    BY <2>2 DEF DtorInv, ThreadTypeOK
  <2>4. m_clientfd # 0 => m_clientfd = k
    BY <2>2, <2>3 DEF LinkInv
  <2>5. m_clientfd # 0 => peer[m_clientfd] = NoHost
    BY <1>15, <2>4 DEF RecvBreaks, LinkInv
  <2> QED BY <2>1, <2>5 DEF LinkInv
<1>16. ASSUME NEW k \in Conns, RecvTakesAll(k) PROVE LinkInv'
  BY <1>16 DEF RecvTakesAll, LinkInv
<1>17. ASSUME NEW k \in Conns, RecvFailsOne(k) PROVE LinkInv'
  BY <1>17 DEF RecvFailsOne, LinkInv
<1>18. ASSUME NEW k \in Conns, RecvEnds(k) PROVE LinkInv'
  BY <1>18 DEF RecvEnds, LinkInv
<1>19. CASE TimerTakes
  BY <1>19 DEF TimerTakes, LinkInv
<1>20. CASE TimerFailsOne
  BY <1>20 DEF TimerFailsOne, LinkInv
<1>21. CASE TimerTurns
  BY <1>21 DEF TimerTurns, LinkInv
<1>22. CASE DtorStopsTimer
  BY <1>22 DEF DtorStopsTimer, LinkInv
<1>23. CASE DtorCloses
  BY <1>23 DEF DtorCloses, LinkInv, Disconnect
<1>24. CASE DtorTakesAll
  BY <1>24 DEF DtorTakesAll, LinkInv
<1>25. CASE DtorFailsOne
  BY <1>25 DEF DtorFailsOne, LinkInv
<1>26. CASE DtorEnds
  BY <1>26 DEF DtorEnds, LinkInv
<1>27. ASSUME NEW k \in Conns, PeerGoes(k) PROVE LinkInv'
  BY <1>27 DEF PeerGoes, LinkInv, NetTypeOK, ConnTypeOK, Conns
<1>28. ASSUME NEW k \in Conns, NEW c \in Calls, ServerAnswers(k, c) PROVE LinkInv'
  BY <1>28 DEF ServerAnswers, LinkInv
<1>29. CASE UNCHANGED vars
  BY <1>29 DEF vars, LinkInv
<1>30. ASSUME NEW c \in Calls, Resolves(c) PROVE LinkInv'
  BY <1>30 DEF Resolves, LinkInv
<1> QED
  BY <1>1, <1>2, <1>3, <1>4, <1>5, <1>6, <1>7, <1>8, <1>9, <1>10, <1>11,
     <1>12, <1>13, <1>14, <1>15, <1>16, <1>17, <1>18, <1>19, <1>20, <1>21,
     <1>22, <1>23, <1>24, <1>25, <1>26, <1>27, <1>28, <1>29, <1>30
     DEF Next, Caller,
     RecvLoop, Timer, Dtor, Network, Stopped

(* ensureConnected closes the connection to a server that is still there   *)
(* only for a call that was given another server.                          *)
LEMMA GivenUpStep ==
    ASSUME ChannelInv, LinkInv, [Next]_vars,
           NEW k \in Conns, openFd[k], ~openFd'[k], peer[k] # NoHost, dtor = "alive"
    PROVE  \E c \in Calls : m_connMtx' = c /\ host[c] # peer[k]
<1>1. \E c \in Calls : EnsureClose(c)
  <2>1. openFd \in [Conns -> BOOLEAN] /\ openFd' # openFd
    BY DEF ChannelInv, TypeOK, NetTypeOK
  <2>2. ASSUME NEW c \in Calls, EnsureConnects(c) PROVE FALSE
    BY <2>1, <2>2 DEF EnsureConnects
  <2>3. ~DtorCloses /\ ~UNCHANGED vars /\ ~Stopped
    BY <2>1 DEF DtorCloses, Stopped, vars, netVars
  <2>4. ASSUME NEW c \in Calls, CallStarts(c) \/ Deadline(c) PROVE FALSE
    BY <2>1, <2>4 DEF CallStarts, Deadline, netVars
  <2>5. ASSUME NEW c \in Calls, Caller(c) PROVE EnsureClose(c)
    BY <2>1, <2>2, <2>5 DEF Caller, Resolves, EnsureReuse, EnsureJoin, EnsureFails,
       Register, SendLock, SendPart, SendFails, Undo, netVars
  <2>6. ASSUME NEW l \in Conns, RecvLoop(l) PROVE FALSE
    BY <2>1, <2>6 DEF RecvLoop, RecvResponse, RecvRunsDone, RecvBreaks, RecvTakesAll,
       RecvFailsOne, RecvEnds, netVars
  <2>7. ~Timer /\ ~DtorStopsTimer /\ ~Dtor
    BY <2>1, <2>3 DEF Timer, TimerTakes, TimerFailsOne, TimerTurns, DtorStopsTimer, Dtor,
       DtorTakesAll, DtorFailsOne, DtorEnds, netVars
  <2>8. ~Network
    BY <2>1 DEF Network, PeerGoes, ServerAnswers
  <2> QED BY <2>3, <2>4, <2>5, <2>6, <2>7, <2>8 DEF Next
<1> PICK c \in Calls : EnsureClose(c)
  BY <1>1
<1>2. k = m_clientfd /\ k # 0
  BY DEF LinkInv, Conns
<1>3. m_running /\ peer[k] = m_connectedHost
  BY <1>2 DEF LinkInv
<1>4. m_connMtx' = c /\ m_connectedHost # host[c]
  BY <1>2, <1>3 DEF EnsureClose, Usable
<1> QED BY <1>3, <1>4

(* Whatever servers the calls are given, the connection to a server that   *)
(* is still there is closed only by the destructor or by a call given      *)
(* another server; no late receive thread, stale m_running or stale        *)
(* m_connectedHost makes ensureConnected fail the calls in flight on it.   *)
THEOREM ConnectionIsGivenUp == Spec => ConnectionGivenUp
<1>1. Init => LinkInv
  BY DEF Init, LinkInv
<1>2. ChannelInv /\ LinkInv /\ [Next]_vars => LinkInv'
  BY LinkStep
<1> DEFINE GivenUp ==
             \A k \in Conns :
               openFd[k] /\ ~openFd'[k] =>
                  \/ peer[k] = NoHost \/ dtor # "alive"
                  \/ \E c \in Calls : m_connMtx' = c /\ host[c] # peer[k]
<1>3. ChannelInv /\ LinkInv /\ [Next]_vars => [GivenUp]_vars
  BY GivenUpStep
<1> QED BY <1>1, <1>2, <1>3, ChannelInvariant, PTL DEF Spec, ConnectionGivenUp

-----------------------------------------------------------------------------
(* The refinement of RpcCalls. *)

(* Nothing that RpcCalls sees changes. *)
LEMMA AbsStutters ==
    ASSUME UNCHANGED <<pc, nDone, result>> PROVE UNCHANGED Abs!callVars
  BY DEF Abs!callVars

(* A call moves on without its done running. *)
LEMMA AbsMoves ==
    ASSUME CallerTypeOK, NEW c \in Calls, NEW w, w # "new", pc[c] # "new",
           Goes(c, w), UNCHANGED <<nDone, result>>
    PROVE  UNCHANGED Abs!callVars
<1>1. {d \in Calls : pc'[d] # "new"} = {d \in Calls : pc[d] # "new"}
  BY DEF CallerTypeOK, Goes
<1> QED BY <1>1 DEF Abs!callVars

(* A slot that is held: its done runs, and may make a call. *)
LEMMA AbsSettles ==
    ASSUME ChannelInv, NEW c \in Calls, Held(c), NEW r \in {"ok", "fail"}, RunDone(c, r),
           NEW t \in TimerThread .. MaxConns, ClosureReturns(t)
    PROVE  Abs!CallsNext
<1>1. pc[c] # "new" /\ nDone[c] = 0
  BY DEF ChannelInv, OwnerInv
<1>2. nDone' = [nDone EXCEPT ![c] = 1] /\ result' = [result EXCEPT ![c] = r]
  BY <1>1 DEF RunDone
<1> DEFINE Made == {d \in Calls : pc[d] # "new"}
<1>3. \E d \in Calls : {e \in Calls : pc'[e] # "new"} = Made \cup {c, d}
  <2>1. CASE UNCHANGED callerVars
    <3>1. {e \in Calls : pc'[e] # "new"} = Made \cup {c, c}
      BY <1>1, <2>1 DEF callerVars
    <3> QED BY <3>1
  <2>2. ASSUME NEW d \in Calls, pc' = [pc EXCEPT ![d] = "resolve"]
        PROVE  {e \in Calls : pc'[e] # "new"} = Made \cup {c, d}
    BY <1>1, <2>2 DEF ChannelInv, TypeOK, CallerTypeOK
  <2> QED BY <2>1, <2>2 DEF ClosureReturns
<1> QED BY <1>1, <1>2, <1>3 DEF Abs!CallsNext, Abs!Settle

(* A call fails in its own thread. *)
LEMMA AbsFails ==
    ASSUME ChannelInv, NEW c \in Calls, nDone[c] = 0, RunDone(c, "fail"), Goes(c, "ret")
    PROVE  Abs!CallsNext
<1>1. nDone' = [nDone EXCEPT ![c] = 1] /\ result' = [result EXCEPT ![c] = "fail"]
  BY DEF RunDone
<1>2. {e \in Calls : pc'[e] # "new"} = {d \in Calls : pc[d] # "new"} \cup {c, c}
  BY DEF ChannelInv, TypeOK, CallerTypeOK, Goes
<1> QED BY <1>1, <1>2 DEF Abs!CallsNext, Abs!Settle

(* Every step of the channel is a step of RpcCalls, or leaves what it sees *)
(* unchanged.                                                              *)
LEMMA AbsStep ==
    ASSUME ChannelInv, [Next]_vars PROVE [Abs!CallsNext]_(Abs!callVars)
<1> USE ChannelAssumption DEF ChannelInv, TypeOK, callerVars, connVars, doneVars,
            recvVars, timerVars, dtorVars, netVars
<1>1. ASSUME NEW c \in Calls, CallStarts(c) PROVE (Abs!CallsNext \/ UNCHANGED Abs!callVars)
  <2>1. {e \in Calls : pc'[e] # "new"} = {d \in Calls : pc[d] # "new"} \cup {c}
    BY <1>1 DEF CallStarts, CallerTypeOK, Goes
  <2> QED BY <1>1, <2>1 DEF CallStarts, Abs!CallsNext, Abs!Make
<1>2. ASSUME NEW c \in Calls, EnsureReuse(c) PROVE (Abs!CallsNext \/ UNCHANGED Abs!callVars)
  BY <1>2, AbsMoves DEF EnsureReuse
<1>3. ASSUME NEW c \in Calls, EnsureClose(c) PROVE (Abs!CallsNext \/ UNCHANGED Abs!callVars)
  BY <1>3, AbsMoves DEF EnsureClose
<1>4. ASSUME NEW c \in Calls, EnsureJoin(c) PROVE (Abs!CallsNext \/ UNCHANGED Abs!callVars)
  BY <1>4, AbsMoves DEF EnsureJoin
<1>5. ASSUME NEW c \in Calls, EnsureFails(c) PROVE (Abs!CallsNext \/ UNCHANGED Abs!callVars)
  <2>1. nDone[c] = 0
    BY <1>5 DEF EnsureFails, OwnerInv
  <2> QED BY <1>5, <2>1, AbsFails DEF EnsureFails
<1>6. ASSUME NEW c \in Calls, EnsureConnects(c) PROVE (Abs!CallsNext \/ UNCHANGED Abs!callVars)
  BY <1>6, AbsMoves DEF EnsureConnects
<1>7. ASSUME NEW c \in Calls, Register(c) PROVE (Abs!CallsNext \/ UNCHANGED Abs!callVars)
  BY <1>7, AbsMoves DEF Register
<1>8. ASSUME NEW c \in Calls, SendLock(c) PROVE (Abs!CallsNext \/ UNCHANGED Abs!callVars)
  BY <1>8, AbsMoves DEF SendLock
<1>9. ASSUME NEW c \in Calls, SendPart(c) PROVE (Abs!CallsNext \/ UNCHANGED Abs!callVars)
  BY <1>9, AbsMoves, AbsStutters DEF SendPart
<1>10. ASSUME NEW c \in Calls, SendFails(c) PROVE (Abs!CallsNext \/ UNCHANGED Abs!callVars)
  BY <1>10, AbsMoves DEF SendFails
<1>11. ASSUME NEW c \in Calls, Undo(c) PROVE (Abs!CallsNext \/ UNCHANGED Abs!callVars)
  <2>1. CASE c \in m_pending
    <3>1. nDone[c] = 0
      BY <2>1 DEF OwnerInv, Held
    <3> QED BY <1>11, <2>1, <3>1, AbsFails DEF Undo
  <2>2. CASE c \notin m_pending
    BY <1>11, <2>2, AbsMoves DEF Undo
  <2> QED BY <2>1, <2>2
<1>12. ASSUME NEW c \in Calls, Deadline(c) PROVE (Abs!CallsNext \/ UNCHANGED Abs!callVars)
  BY <1>12, AbsStutters DEF Deadline
<1>13. ASSUME NEW k \in Conns, RecvResponse(k) PROVE (Abs!CallsNext \/ UNCHANGED Abs!callVars)
  BY <1>13, AbsStutters DEF RecvResponse
<1>14. ASSUME NEW k \in Conns, RecvRunsDone(k) PROVE (Abs!CallsNext \/ UNCHANGED Abs!callVars)
  <2> PICK c \in recvHas[k], r \in {"ok", "fail"} : RunDone(c, r)
    BY <1>14 DEF RecvRunsDone
  <2>1. c \in Calls /\ Held(c)
    BY DEF SlotTypeOK, Held
  <2> QED BY <1>14, <2>1, AbsSettles, ClosureThreads DEF RecvRunsDone
<1>15. ASSUME NEW k \in Conns, RecvBreaks(k) PROVE (Abs!CallsNext \/ UNCHANGED Abs!callVars)
  BY <1>15, AbsStutters DEF RecvBreaks
<1>16. ASSUME NEW k \in Conns, RecvTakesAll(k) PROVE (Abs!CallsNext \/ UNCHANGED Abs!callVars)
  BY <1>16, AbsStutters DEF RecvTakesAll
<1>17. ASSUME NEW k \in Conns, RecvFailsOne(k) PROVE (Abs!CallsNext \/ UNCHANGED Abs!callVars)
  <2> PICK c \in recvHas[k], r \in {"ok", "fail"} : RunDone(c, r)
    BY <1>17 DEF RecvFailsOne
  <2>1. c \in Calls /\ Held(c)
    BY DEF SlotTypeOK, Held
  <2> QED BY <1>17, <2>1, AbsSettles, ClosureThreads DEF RecvFailsOne
<1>18. ASSUME NEW k \in Conns, RecvEnds(k) PROVE (Abs!CallsNext \/ UNCHANGED Abs!callVars)
  BY <1>18, AbsStutters DEF RecvEnds
<1>19. CASE TimerTakes
  BY <1>19, AbsStutters DEF TimerTakes
<1>20. CASE TimerFailsOne
  <2> PICK c \in timerHas, r \in {"ok", "fail"} : RunDone(c, r)
    BY <1>20 DEF TimerFailsOne
  <2>1. c \in Calls /\ Held(c)
    BY DEF SlotTypeOK, Held
  <2> QED BY <1>20, <2>1, AbsSettles, ClosureThreads DEF TimerFailsOne
<1>21. CASE TimerTurns
  BY <1>21, AbsStutters DEF TimerTurns
<1>22. CASE DtorStopsTimer
  BY <1>22, AbsStutters DEF DtorStopsTimer
<1>23. CASE DtorCloses
  BY <1>23, AbsStutters DEF DtorCloses
<1>24. CASE DtorTakesAll
  BY <1>24, AbsStutters DEF DtorTakesAll
<1>25. CASE DtorFailsOne
  <2> PICK c \in dtorHas : RunDone(c, "fail")
    BY <1>25 DEF DtorFailsOne
  <2>1. c \in Calls /\ pc[c] # "new" /\ nDone[c] = 0
    BY DEF SlotTypeOK, OwnerInv, Held
  <2>2. nDone' = [nDone EXCEPT ![c] = 1] /\ result' = [result EXCEPT ![c] = "fail"]
    BY <2>1 DEF RunDone
  <2>3. {e \in Calls : pc'[e] # "new"} = {d \in Calls : pc[d] # "new"} \cup {c, c}
    BY <1>25, <2>1 DEF DtorFailsOne
  <2> QED BY <2>1, <2>2, <2>3 DEF Abs!CallsNext, Abs!Settle
<1>26. CASE DtorEnds
  BY <1>26, AbsStutters DEF DtorEnds
<1>27. ASSUME NEW k \in Conns, PeerGoes(k) PROVE (Abs!CallsNext \/ UNCHANGED Abs!callVars)
  BY <1>27, AbsStutters DEF PeerGoes
<1>28. ASSUME NEW k \in Conns, NEW c \in Calls, ServerAnswers(k, c) PROVE (Abs!CallsNext \/ UNCHANGED Abs!callVars)
  BY <1>28, AbsStutters DEF ServerAnswers
<1>29. CASE UNCHANGED vars
  BY <1>29, AbsStutters DEF vars
<1>30. ASSUME NEW c \in Calls, Resolves(c) PROVE (Abs!CallsNext \/ UNCHANGED Abs!callVars)
  <2>1. nDone[c] = 0
    BY <1>30 DEF Resolves, OwnerInv
  <2>2. CASE UNCHANGED doneVars /\ Goes(c, "conn")
    BY <1>30, <2>2, AbsMoves DEF Resolves
  <2> QED BY <1>30, <2>1, <2>2, AbsFails DEF Resolves
<1> QED
  BY <1>1, <1>2, <1>3, <1>4, <1>5, <1>6, <1>7, <1>8, <1>9, <1>10, <1>11,
     <1>12, <1>13, <1>14, <1>15, <1>16, <1>17, <1>18, <1>19, <1>20, <1>21,
     <1>22, <1>23, <1>24, <1>25, <1>26, <1>27, <1>28, <1>29, <1>30
     DEF Next, Caller,
     RecvLoop, Timer, Dtor, Network, Stopped


(* The channel implements the safety part of RpcCalls: done runs at most   *)
(* once for each call, never for a call not made, with a result; also when *)
(* closures make calls themselves.                                         *)
THEOREM ChannelImplementsCalls == Spec => Abs!CallsSpec
<1>1. Init => Abs!CallsInit
  BY DEF Init, Abs!CallsInit
<1>2. ChannelInv /\ [Next]_vars => [Abs!CallsNext]_(Abs!callVars)
  BY AbsStep
<1> QED BY <1>1, <1>2, ChannelInvariant, PTL DEF Spec, Abs!CallsSpec
=============================================================================
